------------------------- MODULE AsyncJointSettings -------------------------
(***************************************************************************)
(* CAsyncJointSettings: the compositor's state machine that carries one    *)
(* settings transaction (base generation -> candidate generation) through  *)
(* the checkpoint store, the native participant and the Shell participant. *)
(* It does no I/O: it exposes one pending command and is fed the terminal  *)
(* receipt of that command, a timeout, a recovery request or the user's    *)
(* confirmation.  Every participant is the environment of this module;     *)
(* AsyncJointProtocol, SettingsService and ShellSession put something in   *)
(* its place.                                                              *)
(***************************************************************************)
EXTENDS Naturals, SettingsNames

CONSTANTS
  MaxTicket,    \* stands for numeric_limits<uint64_t>::max()
  NoCommand,    \* m_pending is empty
  Malformed     \* a "current" receipt that is not a 64 digit token

ASSUME TicketAssumption == MaxTicket \in Nat \ {0}
ASSUME SequenceAssumption == Sequences \subseteq Nat

Requests == [epoch : Epochs, sequence : Sequences, base : Generations, candidate : Generations]

Targets    == {"STORE", "NATIVE", "SHELL"}
Operations == {"CURRENT", "PREPARE", "APPLY", "VERIFY", "PUBLISH", "RESTORE", "CONFIRM", "ABANDON"}
Replies    == {"OK", "FAILED", "UNKNOWN"}
States     == {"IDLE", "RUNNING", "COMPLETE", "ABORTED", "UNKNOWN", "STALE"}

Commands == [request : Requests, ticket : 1 .. MaxTicket, target : Targets, operation : Operations]

ASSUME EmptyAssumption ==
  /\ NoRequest \notin Requests
  /\ NoCommand \notin Commands
  /\ Malformed \notin Generations

\* The command each step issues.
Dispatch ==
  [BASE                |-> [target |-> "STORE",  operation |-> "CURRENT"],
   STORE_PREPARE       |-> [target |-> "STORE",  operation |-> "PREPARE"],
   NATIVE_PREPARE      |-> [target |-> "NATIVE", operation |-> "PREPARE"],
   SHELL_PREPARE       |-> [target |-> "SHELL",  operation |-> "PREPARE"],
   NATIVE_APPLY        |-> [target |-> "NATIVE", operation |-> "APPLY"],
   SHELL_APPLY         |-> [target |-> "SHELL",  operation |-> "APPLY"],
   NATIVE_VERIFY       |-> [target |-> "NATIVE", operation |-> "VERIFY"],
   SHELL_VERIFY        |-> [target |-> "SHELL",  operation |-> "VERIFY"],
   PUBLISH             |-> [target |-> "STORE",  operation |-> "PUBLISH"],
   RESOLVE             |-> [target |-> "STORE",  operation |-> "CURRENT"],
   NATIVE_FINAL_VERIFY |-> [target |-> "NATIVE", operation |-> "VERIFY"],
   SHELL_FINAL_VERIFY  |-> [target |-> "SHELL",  operation |-> "VERIFY"],
   NATIVE_CONFIRM      |-> [target |-> "NATIVE", operation |-> "CONFIRM"],
   SHELL_CONFIRM       |-> [target |-> "SHELL",  operation |-> "CONFIRM"],
   SHELL_RESTORE       |-> [target |-> "SHELL",  operation |-> "RESTORE"],
   NATIVE_RESTORE      |-> [target |-> "NATIVE", operation |-> "RESTORE"],
   ABANDON             |-> [target |-> "STORE",  operation |-> "ABANDON"]]

Steps == DOMAIN Dispatch

\* The step a successful receipt leads to, where there is no choice.
Follows ==
  [STORE_PREPARE       |-> "NATIVE_PREPARE",
   NATIVE_PREPARE      |-> "SHELL_PREPARE",
   SHELL_PREPARE       |-> "NATIVE_APPLY",
   NATIVE_APPLY        |-> "SHELL_APPLY",
   SHELL_APPLY         |-> "NATIVE_VERIFY",
   NATIVE_VERIFY       |-> "SHELL_VERIFY",
   PUBLISH             |-> "RESOLVE",
   NATIVE_FINAL_VERIFY |-> "SHELL_FINAL_VERIFY",
   SHELL_FINAL_VERIFY  |-> "NATIVE_CONFIRM",
   NATIVE_CONFIRM      |-> "SHELL_CONFIRM"]

RestoreSteps == {"SHELL_RESTORE", "NATIVE_RESTORE"}

\* Steps whose failure leaves an outcome nobody can vouch for.
UndecidedSteps == {"BASE", "RESOLVE", "NATIVE_FINAL_VERIFY", "SHELL_FINAL_VERIFY",
                   "NATIVE_CONFIRM", "SHELL_CONFIRM", "ABANDON"}

VARIABLE joint

JointType ==
  [epoch : Epochs, request : Requests \cup {NoRequest}, pending : Commands \cup {NoCommand},
   ticket : 0 .. MaxTicket, step : Steps, state : States,
   touched : 0 .. 2, restoreRemaining : 0 .. 2,
   requireConfirmation : BOOLEAN, awaitingConfirmation : BOOLEAN,
   prepared : BOOLEAN, publishAttempted : BOOLEAN, restoreFailed : BOOLEAN]

Fresh(e) ==
  [epoch |-> e, request |-> NoRequest, pending |-> NoCommand, ticket |-> 0, step |-> "BASE",
   state |-> "IDLE", touched |-> 0, restoreRemaining |-> 0,
   requireConfirmation |-> FALSE, awaitingConfirmation |-> FALSE,
   prepared |-> FALSE, publishAttempted |-> FALSE, restoreFailed |-> FALSE]

-----------------------------------------------------------------------------
\* Fault: the ticket counter wraps past its last value.
Issue_Unbounded(j, s) ==
  [j EXCEPT !.step = s, !.state = "RUNNING", !.ticket = @ + 1,
            !.pending = [request |-> j.request, ticket |-> j.ticket + 1,
                         target |-> Dispatch[s].target, operation |-> Dispatch[s].operation]]

(* issue(): the next command, or UNKNOWN when the ticket counter is spent.  *)
Issue(j, s) ==
  IF j.ticket = MaxTicket
  THEN [j EXCEPT !.state = "UNKNOWN"]
  ELSE [j EXCEPT !.step = s,
                 !.state = "RUNNING",
                 !.ticket = @ + 1,
                 !.pending = [request |-> j.request, ticket |-> j.ticket + 1,
                              target |-> Dispatch[s].target, operation |-> Dispatch[s].operation],
                 !.prepared = @ \/ s = "STORE_PREPARE",
                 !.publishAttempted = @ \/ s = "PUBLISH",
                 !.touched = CASE s = "NATIVE_PREPARE" -> 1
                               [] s = "SHELL_PREPARE"  -> 2
                               [] OTHER -> @]

(* restoreNext(): Shell first, then native, then the prepared candidate.    *)
RestoreNext(j) ==
  CASE j.restoreRemaining = 2 -> Issue([j EXCEPT !.restoreRemaining = 1], "SHELL_RESTORE")
    [] j.restoreRemaining = 1 -> Issue([j EXCEPT !.restoreRemaining = 0], "NATIVE_RESTORE")
    [] j.restoreRemaining = 0 /\ j.restoreFailed -> [j EXCEPT !.state = "UNKNOWN"]
    [] j.restoreRemaining = 0 /\ ~j.restoreFailed /\ j.prepared -> Issue(j, "ABANDON")
    [] OTHER -> [j EXCEPT !.state = "ABORTED"]

Accepts(r) ==
  /\ r.epoch = joint.epoch
  /\ r.sequence # 0
  /\ r.base # r.candidate
  /\ joint.request # NoRequest => r.sequence > joint.request.sequence
  /\ joint.state \notin {"RUNNING", "UNKNOWN"}

(* start(): every other request is answered without a change of state.      *)
Start(r) ==
  /\ Accepts(r)
  /\ joint' = Issue([joint EXCEPT !.request = r,
                                  !.requireConfirmation = FALSE, !.awaitingConfirmation = FALSE,
                                  !.touched = 0, !.restoreRemaining = 0, !.prepared = FALSE,
                                  !.publishAttempted = FALSE, !.restoreFailed = FALSE], "BASE")

(* timeout(): the command stays pending until its own receipt arrives.      *)
TimedOut(j) == [j EXCEPT !.state = "UNKNOWN"]

Timeout(c) ==
  /\ c # NoCommand
  /\ joint.pending = c
  /\ joint' = TimedOut(joint)

Answered(j) == [j EXCEPT !.pending = NoCommand]

(* An unknown receipt, or a successful query without a token, is a timeout. *)
ReplyUnresolved(j, result, current) ==
  /\ \/ result = "UNKNOWN"
     \/ result = "OK" /\ j.step \in {"BASE", "RESOLVE"} /\ current = Malformed
  /\ joint' = [j EXCEPT !.state = "UNKNOWN"]

\* Fault: a failed restore is forgotten when the next one succeeds.
ReplyRestore_Forgets(j, result) ==
  /\ j.step \in RestoreSteps
  /\ result \in {"OK", "FAILED"}
  /\ joint' = RestoreNext([Answered(j) EXCEPT !.restoreFailed = result = "FAILED"])

ReplyRestore(j, result) ==
  /\ j.step \in RestoreSteps
  /\ result \in {"OK", "FAILED"}
  /\ joint' = RestoreNext([Answered(j) EXCEPT !.restoreFailed = @ \/ result = "FAILED"])

\* Fault: a failed publication is compensated without asking the store.
ReplyFailed_Compensates(j, result) ==
  /\ j.step \notin RestoreSteps
  /\ result = "FAILED"
  /\ joint' = IF j.step \in UndecidedSteps
              THEN [Answered(j) EXCEPT !.state = "UNKNOWN"]
              ELSE RestoreNext([Answered(j) EXCEPT !.restoreRemaining = j.touched])

ReplyFailed(j, result) ==
  /\ j.step \notin RestoreSteps
  /\ result = "FAILED"
  /\ joint' = IF j.step \in UndecidedSteps
              THEN [Answered(j) EXCEPT !.state = "UNKNOWN"]
              ELSE Issue(Answered(j), "RESOLVE")

ReplyBase(j, result, current) ==
  /\ j.step = "BASE"
  /\ result = "OK" /\ current # Malformed
  /\ joint' = IF current = j.request.base
              THEN Issue(Answered(j), "STORE_PREPARE")
              ELSE [Answered(j) EXCEPT !.state = "STALE"]

\* Fault: the receipt of a publication is believed without a read back.
ReplyAdvance_NoReadBack(j, result) ==
  /\ j.step \in DOMAIN Follows
  /\ result = "OK"
  /\ joint' = Issue(Answered(j), IF j.step = "PUBLISH" THEN "NATIVE_FINAL_VERIFY" ELSE Follows[j.step])

ReplyAdvance(j, result) ==
  /\ j.step \in DOMAIN Follows
  /\ result = "OK"
  /\ joint' = Issue(Answered(j), Follows[j.step])

ReplyShellVerify(j, result) ==
  /\ j.step = "SHELL_VERIFY"
  /\ result = "OK"
  /\ joint' = IF j.requireConfirmation
              THEN [Answered(j) EXCEPT !.awaitingConfirmation = TRUE]
              ELSE Issue(Answered(j), "PUBLISH")

(* RESOLVE: the completed pointer alone decides between going forward and   *)
(* compensating.                                                            *)
ReplyResolve(j, result, current) ==
  /\ j.step = "RESOLVE"
  /\ result = "OK" /\ current # Malformed
  /\ joint' =
       IF current = j.request.candidate /\ j.publishAttempted
       THEN Issue(Answered(j), "NATIVE_FINAL_VERIFY")
       ELSE IF current = j.request.base
            THEN RestoreNext([Answered(j) EXCEPT !.restoreRemaining = j.touched, !.restoreFailed = FALSE])
            ELSE [Answered(j) EXCEPT !.state = "UNKNOWN"]

ReplyFinish(j, result) ==
  /\ result = "OK"
  /\ \/ j.step = "SHELL_CONFIRM" /\ joint' = [Answered(j) EXCEPT !.state = "COMPLETE"]
     \/ j.step = "ABANDON" /\ joint' = [Answered(j) EXCEPT !.state = "ABORTED"]

(* reply(): only the receipt of the very command that is pending counts.    *)
(* j is the machine the receipt reaches: tick() demands a confirmation and  *)
(* answers in the same step.                                                *)
Reply(j, c, result, current) ==
  /\ c # NoCommand
  /\ j.pending = c
  /\ \/ ReplyUnresolved(j, result, current)
     \/ ReplyRestore(j, result)
     \/ ReplyFailed(j, result)
     \/ ReplyBase(j, result, current)
     \/ ReplyAdvance(j, result)
     \/ ReplyShellVerify(j, result)
     \/ ReplyResolve(j, result, current)
     \/ ReplyFinish(j, result)

\* Fault: a recovery request is honoured in every state.
Recover_AnyState(r) ==
  /\ joint.request = r
  /\ joint.pending = NoCommand
  /\ joint' = Issue(joint, "RESOLVE")

(* recover(): never while a mutation may still be outstanding.              *)
Recover(r) ==
  /\ joint.request = r
  /\ joint.pending = NoCommand
  /\ joint.state = "UNKNOWN"
  /\ joint' = Issue(joint, "RESOLVE")

(* requireConfirmation(): only while the native participant is preparing.   *)
\* Fault: the demand is acknowledged and not kept.
RequireConfirmation_Forgets(j) == j

RequireConfirmation(j) ==
  IF j.step = "NATIVE_PREPARE" /\ j.pending # NoCommand
  THEN [j EXCEPT !.requireConfirmation = TRUE]
  ELSE j

Decided(j, keep) ==
  Issue([j EXCEPT !.awaitingConfirmation = FALSE], IF keep THEN "PUBLISH" ELSE "RESOLVE")

\* Fault: an answer is accepted although nobody was asked.
Decide_Unasked(r, keep) ==
  /\ joint.request = r
  /\ joint.pending = NoCommand
  /\ joint' = Decided(joint, keep)

(* decide(): publication, or resolution from the completed pointer.         *)
Decide(r, keep) ==
  /\ joint.request = r
  /\ joint.awaitingConfirmation
  /\ joint.pending = NoCommand
  /\ joint' = Decided(joint, keep)
=============================================================================
