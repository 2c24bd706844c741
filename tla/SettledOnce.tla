---------------------------- MODULE SettledOnce ----------------------------
(***************************************************************************)
(* What a settings participant promises whoever drives it: requests are    *)
(* opened one at a time, in the order of their sequence numbers, and each  *)
(* is settled at most once, by keeping its generation or by undoing it.    *)
(* The revision counts the settled requests, and the confirmed generation  *)
(* changes in no other way.                                                *)
(***************************************************************************)
EXTENDS Naturals

CONSTANTS
  Generations,
  Sequences     \* the request numbers

VARIABLES
  generation,   \* the confirmed generation
  revision,     \* how many requests have been settled
  last,         \* the number of the last request opened, 0 before the first
  open          \* it is not settled yet

vars == <<generation, revision, last, open>>

Init ==
  /\ generation \in Generations
  /\ revision = 0
  /\ last = 0
  /\ open = FALSE

Open(n) ==
  /\ ~open
  /\ n > last
  /\ last' = n
  /\ open' = TRUE
  /\ UNCHANGED <<generation, revision>>

Settle(g) ==
  /\ open
  /\ open' = FALSE
  /\ revision' = revision + 1
  /\ generation' = g
  /\ UNCHANGED last

Keep == \E g \in Generations : Settle(g)
Undo == Settle(generation)

Next == (\E n \in Sequences : Open(n)) \/ Keep \/ Undo

Spec == Init /\ [][Next]_vars
=============================================================================
