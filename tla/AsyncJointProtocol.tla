------------------------- MODULE AsyncJointProtocol -------------------------
(***************************************************************************)
(* The coordinator of AsyncJointSettings against every environment whose   *)
(* store is truthful: the participants may answer anything, late or never, *)
(* the store's completed pointer moves only while the one publication of   *)
(* the pending command is outstanding, and a query reports that pointer.   *)
(* acked and user are history variables of the current transaction: the    *)
(* steps that were acknowledged, and whether the user was asked and agreed.*)
(***************************************************************************)
EXTENDS AsyncJointSettings

VARIABLES
  completed,   \* completed.json, as the store would report it
  acked,       \* steps acknowledged with OK since start()
  user         \* what the user was asked and answered since start()

vars == <<joint, completed, acked, user>>

Init ==
  /\ joint \in {Fresh(e) : e \in Epochs}
  /\ completed \in Generations
  /\ acked = {} /\ user = "unasked"

EnvStart(r) ==
  /\ Start(r)
  /\ acked' = {} /\ user' = "unasked"
  /\ UNCHANGED completed

(* The outstanding publication takes effect, whatever its receipt will say. *)
EnvPublish ==
  /\ joint.pending # NoCommand
  /\ joint.pending.operation = "PUBLISH"
  /\ completed = joint.request.base
  /\ completed' = joint.request.candidate
  /\ UNCHANGED <<joint, acked, user>>

(* The service demands a confirmation while it answers NATIVE_PREPARE.      *)
Asked(confirm) == IF confirm THEN RequireConfirmation(joint) ELSE joint

EnvReply(result, current, confirm) ==
  /\ Reply(Asked(confirm), joint.pending, result, current)
  /\ joint.step \in {"BASE", "RESOLVE"} => current \in {completed, Malformed}
  /\ acked' = IF result = "OK" THEN acked \cup {joint.step} ELSE acked
  /\ user' = IF confirm /\ joint.step = "NATIVE_PREPARE" THEN "asked" ELSE user
  /\ UNCHANGED completed

EnvTimeout == Timeout(joint.pending) /\ UNCHANGED <<completed, acked, user>>

EnvRecover(r) == Recover(r) /\ UNCHANGED <<completed, acked, user>>

EnvDecide(r, keep) ==
  /\ Decide(r, keep)
  /\ user' = IF keep THEN "agreed" ELSE user
  /\ UNCHANGED <<completed, acked>>

(* initialize() after an attach: a fresh machine under another epoch.       *)
Reinitialize(e) ==
  /\ e # joint.epoch
  /\ joint' = Fresh(e)
  /\ acked' = {} /\ user' = "unasked"
  /\ UNCHANGED completed

Next ==
  \/ \E r \in Requests : EnvStart(r) \/ EnvRecover(r)
  \/ \E r \in Requests, keep \in BOOLEAN : EnvDecide(r, keep)
  \/ EnvPublish
  \/ \E result \in Replies, current \in Generations \cup {Malformed}, confirm \in BOOLEAN :
       EnvReply(result, current, confirm)
  \/ EnvTimeout
  \/ \E e \in Epochs : Reinitialize(e)

Spec == Init /\ [][Next]_vars

-----------------------------------------------------------------------------
TypeOK ==
  /\ joint \in JointType
  /\ completed \in Generations
  /\ acked \subseteq Steps
  /\ user \in {"unasked", "asked", "agreed"}

Forward == {"STORE_PREPARE", "NATIVE_PREPARE", "SHELL_PREPARE", "NATIVE_APPLY", "SHELL_APPLY",
            "NATIVE_VERIFY", "SHELL_VERIFY"}

Pending(operations) == joint.pending # NoCommand /\ joint.pending.operation \in operations

(* No publication is ever asked for before both participants have applied   *)
(* the candidate and read it back, and before the user has agreed where the *)
(* native participant demanded it, whatever failed, timed out or was        *)
(* recovered on the way (AsyncJointSettings.cpp, reply and decide).         *)
PublishAfterBothVerified == joint.publishAttempted => Forward \subseteq acked /\ user # "asked"

(* A participant is never told to undo, and the candidate is never thrown   *)
(* away or reported aborted, once the candidate is the completed generation *)
(* - even when the receipt of the publication was lost.                     *)
NoCompensationAfterPublish ==
  Pending({"RESTORE", "ABANDON"}) \/ joint.state = "ABORTED" => completed = joint.request.base

(* A participant is told to make the candidate its confirmed base only when *)
(* the candidate is what the next boot will load.                           *)
ConfirmOnlyPublished ==
  Pending({"CONFIRM"}) \/ joint.state = "COMPLETE" => completed = joint.request.candidate

(* An aborted transaction has a successful restore of every participant it  *)
(* had touched, and a completed one the confirmation of both.               *)
VerdictIsAcknowledged ==
  /\ joint.state = "ABORTED" =>
       /\ joint.touched >= 1 => "NATIVE_RESTORE" \in acked
       /\ joint.touched = 2 => "SHELL_RESTORE" \in acked
       /\ joint.prepared => "ABANDON" \in acked
  /\ joint.state = "COMPLETE" => {"NATIVE_CONFIRM", "SHELL_CONFIRM"} \subseteq acked

Verdicts == {"COMPLETE", "ABORTED", "STALE"}

(* A verdict is final: no late receipt, timeout or recovery reopens a       *)
(* transaction that was reported complete, aborted or stale (reply, timeout *)
(* and recover check m_pending and m_state).  A question that is still open *)
(* is left out: SHELL_VERIFY answered after its timeout opens one, recover()*)
(* does not withdraw it, and decide() is accepted after the verdict.        *)
VerdictIsFinal ==
  [][joint.state \in Verdicts /\ joint'.request = joint.request /\ ~joint.awaitingConfirmation
       => joint' = joint]_vars

=============================================================================
