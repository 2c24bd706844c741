-------------------------- MODULE ParticipantCalls --------------------------
(***************************************************************************)
(* CSettingsParticipant under every order of calls: whoever holds it may   *)
(* repeat a call, deliver it late, leave steps out or use another epoch,   *)
(* and the slots may drift between any two calls.                          *)
(***************************************************************************)
EXTENDS SettingsParticipant

VARIABLE drifted    \* history: a slot was written from outside since the last outcome

callsVars == <<native, touched, drifted>>

Open == native.phase \notin Quiescent

CallsInit ==
  /\ \E e \in Epochs, g \in Generations : native = FreshParticipant(e, g)
  /\ touched = FALSE
  /\ drifted = FALSE

(* A base revision is only compared for equality: one above the current one *)
(* stands for all of them.                                                  *)
PossibleRequests ==
  [epoch : Epochs, sequence : Sequences, baseRevision : 0 .. native.revision + 1,
   generation : Generations]

Settles == Open /\ native'.phase \in Quiescent

Called ==
  /\ drifted' = (drifted /\ ~Settles)
  /\ UNCHANGED touched

CallPrepare(q) == \E result \in Results, reads \in BOOLEAN : Prepare(q, result, reads) /\ Called
CallApply(e, n) == \E result \in Results, reads \in BOOLEAN : Apply(e, n, result, reads) /\ Called
CallVerify(e, n) == \E result \in Results, reads \in BOOLEAN : Verify(e, n, result, reads) /\ Called
CallRestore(e, n) == \E result \in Results, reads \in BOOLEAN : Restore(e, n, result, reads) /\ Called
CallConfirm(e, n) == \E result \in Results, reads \in BOOLEAN : Confirm(e, n, result, reads) /\ Called
SlotWritten == Drift /\ drifted' = TRUE

CallsNext ==
  \/ \E q \in PossibleRequests : CallPrepare(q)
  \/ \E e \in Epochs, n \in Sequences : CallApply(e, n)
  \/ \E e \in Epochs, n \in Sequences : CallVerify(e, n)
  \/ \E e \in Epochs, n \in Sequences : CallRestore(e, n)
  \/ \E e \in Epochs, n \in Sequences : CallConfirm(e, n)
  \/ SlotWritten

CallsSpec == CallsInit /\ [][CallsNext]_callsVars

-----------------------------------------------------------------------------
CallsTypeOK ==
  /\ native \in ParticipantType
  /\ touched = FALSE
  /\ drifted \in BOOLEAN

(* A request that is not settled rests on the revision that is current: no  *)
(* outcome of another request slips in between.                             *)
NoStaleBase == Open => native.request # NoRequest /\ native.request.baseRevision = native.revision

(* Between requests the slots hold the confirmed generation, unless they    *)
(* were written from outside since the last outcome.                        *)
QuiescentHoldsBase == ~Open /\ ~drifted => native.live = native.generation

(* Once nobody can vouch for the slots, only a successful restore settles   *)
(* the request: no repeated apply, verify or confirm, late or not.          *)
UnknownOnlyUndone ==
  [][native.phase = "UNKNOWN" => native'.phase \in {"UNKNOWN", "RESTORED"}]_callsVars

Abstract == INSTANCE SettledOnce WITH
  generation <- native.generation,
  revision <- native.revision,
  last <- IF native.request = NoRequest THEN 0 ELSE native.request.sequence,
  open <- Open

(* Whatever the order of the calls, every request is settled at most once.  *)
SettlesOnce == Abstract!Spec
=============================================================================
