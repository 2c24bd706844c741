--------------------------- MODULE MCShellSession ---------------------------
(* Two Shells and two requests of which one asks for a generation and the   *)
(* other for the one that is not in force: of the same base both may make   *)
(* the same candidate, and one may undo what the other did.                 *)
EXTENDS ShellSession, TLC

CONSTANTS s1, s2, a1, a2, g0, g1

MCShells == {s1, s2}
MCShell == {s1}
MCAsks == {a1, a2}
MCGenerations == {g0, g1}
MCEdit == [a \in Asks |-> [g \in MCGenerations |-> IF a = a2 /\ g = g1 THEN g0 ELSE g1]]
Symmetry == Permutations(Shells)
=============================================================================
