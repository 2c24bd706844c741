------------------------ MODULE SettingsParticipant ------------------------
(***************************************************************************)
(* CSettingsParticipant, the compositor's own settings slots behind a      *)
(* prepare/apply/verify/confirm/restore interface, and the member that     *)
(* makeJointMember wraps around it.  The adapters run synchronously on the *)
(* event loop, so a call is one step; its transient phases (APPLYING,      *)
(* RESTORING) are seen only by a call an adapter makes meanwhile, which is *)
(* answered BUSY and changes nothing.  A settings snapshot is the          *)
(* generation it belongs to, or Foreign when the slots hold a mixture or   *)
(* something written behind the participant's back (the zoom key), so a    *)
(* generation always comes with the values it stands for.                  *)
(***************************************************************************)
EXTENDS Naturals, SettingsNames

CONSTANT
  Foreign       \* contents of the slots that belong to no generation

VARIABLES
  native,       \* the participant and the slots it writes
  touched       \* the member's flag: restore() must reach the participant

Phases == {"IDLE", "PREPARED", "APPLIED", "UNKNOWN", "RESTORED", "CONFIRMED"}
Quiescent == {"IDLE", "RESTORED", "CONFIRMED"}
Results == {"OK", "STALE", "BUSY", "INVALID", "UNKNOWN"}

ParticipantRequests ==
  [epoch : Epochs, sequence : Sequences, baseRevision : Nat, generation : Generations]

ParticipantType ==
  [epoch : Epochs, generation : Generations, revision : Nat, phase : Phases,
   request : ParticipantRequests \cup {NoRequest}, live : Generations \cup {Foreign}]

ASSUME RequestAssumption ==
  /\ NoRequest \notin ParticipantRequests
  /\ Sequences \subseteq Nat

FreshParticipant(e, boot) ==
  [epoch |-> e, generation |-> boot, revision |-> 0, phase |-> "IDLE",
   request |-> NoRequest, live |-> boot]

Matches(e, n) ==
  /\ native.request # NoRequest
  /\ e = native.epoch
  /\ n = native.request.sequence

-----------------------------------------------------------------------------
(* reads is FALSE when the read back itself fails.                          *)
ReadMatches(expected, reads) == reads /\ native.live = expected

PrepareOutOfDate(q, result) ==
  /\ result = "STALE"
  /\ \/ q.epoch # native.epoch
     \/ q.sequence = 0
     \/ native.request # NoRequest /\ q.sequence < native.request.sequence
  /\ UNCHANGED native

PrepareRepeated(q, result) ==
  /\ q.epoch = native.epoch
  /\ native.request # NoRequest
  /\ q.sequence = native.request.sequence
  /\ result = CASE q # native.request -> "INVALID"
                [] q = native.request /\ native.phase = "UNKNOWN" -> "UNKNOWN"
                [] OTHER -> "OK"
  /\ UNCHANGED native

\* Fault: the base of the request is not compared with the current revision.
PrepareNew_AnyRevision(q, result, reads) ==
  /\ q.epoch = native.epoch
  /\ q.sequence # 0
  /\ native.request # NoRequest => q.sequence > native.request.sequence
  /\ native.phase \in Quiescent
  /\ result = IF ReadMatches(native.generation, reads) THEN "OK" ELSE "UNKNOWN"
  /\ native' = [native EXCEPT !.request = q, !.phase = IF result = "OK" THEN "PREPARED" ELSE "UNKNOWN"]

PrepareNew(q, result, reads) ==
  /\ q.epoch = native.epoch
  /\ q.sequence # 0
  /\ native.request # NoRequest => q.sequence > native.request.sequence
  /\ \/ /\ native.phase \notin Quiescent
        /\ result = "BUSY"
        /\ UNCHANGED native
     \/ /\ native.phase \in Quiescent
        /\ q.baseRevision # native.revision
        /\ result = "STALE"
        /\ UNCHANGED native
     \/ /\ native.phase \in Quiescent
        /\ q.baseRevision = native.revision
        /\ LET same == ReadMatches(native.generation, reads)
           IN /\ result = IF same THEN "OK" ELSE "UNKNOWN"
              /\ native' = [native EXCEPT !.request = q, !.phase = IF same THEN "PREPARED" ELSE "UNKNOWN"]

Prepare(q, result, reads) ==
  PrepareOutOfDate(q, result) \/ PrepareRepeated(q, result) \/ PrepareNew(q, result, reads)

(* m_apply writes every slot and then refreshes the consumers; it may throw *)
(* before the first write, between two writes, or in the refresh.           *)
WrittenBy(values) == {native.live, Foreign, values}

Apply(e, n, result, reads) ==
  \/ /\ ~Matches(e, n)
     /\ result = "STALE"
     /\ UNCHANGED native
  \/ /\ Matches(e, n)
     /\ native.phase # "PREPARED"
     /\ result = CASE native.phase \in {"APPLIED", "CONFIRMED"} -> "OK"
                   [] native.phase = "UNKNOWN" -> "UNKNOWN"
                   [] OTHER -> "BUSY"
     /\ UNCHANGED native
  \/ /\ Matches(e, n)
     /\ native.phase = "PREPARED"
     /\ \/ /\ result = "OK" /\ reads
           /\ native' = [native EXCEPT !.phase = "APPLIED", !.live = native.request.generation]
        \/ /\ result = "UNKNOWN"
           /\ \E written \in WrittenBy(native.request.generation) :
                native' = [native EXCEPT !.phase = "UNKNOWN", !.live = written]

\* Fault: undoing a request also takes its revision back.
Restore_Uncounts(e, n, result, reads) ==
  /\ Matches(e, n)
  /\ native.phase \notin {"RESTORED", "CONFIRMED"}
  /\ result = "OK" /\ reads
  /\ native' = [native EXCEPT !.phase = "RESTORED", !.live = native.generation, !.revision = @ - 1]

Restore(e, n, result, reads) ==
  \/ /\ ~Matches(e, n)
     /\ result = "STALE"
     /\ UNCHANGED native
  \/ /\ Matches(e, n)
     /\ native.phase \in {"RESTORED", "CONFIRMED"}
     /\ result = IF native.phase = "RESTORED" THEN "OK" ELSE "BUSY"
     /\ UNCHANGED native
  \/ /\ Matches(e, n)
     /\ native.phase \notin {"RESTORED", "CONFIRMED"}
     /\ \/ /\ result = "OK" /\ reads
           /\ native' = [native EXCEPT !.phase = "RESTORED", !.live = native.generation,
                                       !.revision = @ + 1]
        \/ /\ result = "UNKNOWN"
           /\ \E written \in WrittenBy(native.generation) :
                native' = [native EXCEPT !.phase = "UNKNOWN", !.live = written]

(* A failed read leaves the phase alone, so it can be retried.              *)
Verify(e, n, result, reads) ==
  /\ result = CASE ~Matches(e, n) -> "STALE"
                [] Matches(e, n) /\ native.phase \in {"APPLIED", "CONFIRMED"} ->
                     IF ReadMatches(native.request.generation, reads) THEN "OK" ELSE "UNKNOWN"
                [] Matches(e, n) /\ native.phase = "UNKNOWN" -> "UNKNOWN"
                [] OTHER -> "BUSY"
  /\ UNCHANGED native

\* Fault: a request is confirmed without reading the slots back.
Confirm_Unread(e, n, result, reads) ==
  /\ Matches(e, n)
  /\ native.phase \in {"APPLIED", "UNKNOWN"}
  /\ result = "OK"
  /\ native' = [native EXCEPT !.generation = native.request.generation, !.revision = @ + 1,
                              !.phase = "CONFIRMED"]

Confirm(e, n, result, reads) ==
  \/ /\ ~(Matches(e, n) /\ native.phase = "APPLIED" /\ ReadMatches(native.request.generation, reads))
     /\ result = CASE ~Matches(e, n) -> "STALE"
                   [] Matches(e, n) /\ native.phase = "CONFIRMED" -> "OK"
                   [] Matches(e, n) /\ native.phase \in {"APPLIED", "UNKNOWN"} -> "UNKNOWN"
                   [] OTHER -> "BUSY"
     /\ UNCHANGED native
  \/ /\ Matches(e, n)
     /\ native.phase = "APPLIED"
     /\ ReadMatches(native.request.generation, reads)
     /\ result = "OK"
     /\ native' = [native EXCEPT !.generation = native.request.generation, !.revision = @ + 1,
                                 !.phase = "CONFIRMED"]

-----------------------------------------------------------------------------
(* makeJointMember: r is a joint request [epoch, sequence, base, candidate] *)
(* and every hook reports OK or throws, which executeMember turns into      *)
(* FAILED.  The candidate was read just before, so load() finds it.         *)
Outcome(result) == IF result = "OK" THEN "OK" ELSE "FAILED"

OnBase(r) == native.epoch = r.epoch /\ native.generation = r.base

MemberPrepare(r, reply, reads) ==
  \/ /\ ~OnBase(r)
     /\ reply = "FAILED"
     /\ touched' = FALSE
     /\ UNCHANGED native
  \/ /\ OnBase(r)
     /\ \E result \in Results :
          /\ Prepare([epoch |-> r.epoch, sequence |-> r.sequence,
                      baseRevision |-> native.revision, generation |-> r.candidate], result, reads)
          /\ reply = Outcome(result)
     /\ touched' = (/\ native'.request # NoRequest
                    /\ native'.request.sequence = r.sequence
                    /\ native'.request.generation = r.candidate)

MemberApply(r, reply, reads) ==
  /\ \E result \in Results : Apply(r.epoch, r.sequence, result, reads) /\ reply = Outcome(result)
  /\ UNCHANGED touched

MemberVerify(r, reply, reads) ==
  /\ \E result \in Results : Verify(r.epoch, r.sequence, result, reads) /\ reply = Outcome(result)
  /\ UNCHANGED touched

MemberRestore(r, reply, reads) ==
  /\ \/ /\ touched
        /\ \E result \in Results : Restore(r.epoch, r.sequence, result, reads) /\ reply = Outcome(result)
     \/ /\ ~touched
        /\ reply = IF OnBase(r) /\ native.phase \in Quiescent THEN "OK" ELSE "FAILED"
        /\ UNCHANGED native
  /\ UNCHANGED touched

MemberConfirm(r, reply, reads) ==
  /\ \E result \in Results : Confirm(r.epoch, r.sequence, result, reads) /\ reply = Outcome(result)
  /\ UNCHANGED touched

Member(operation, r, reply, reads) ==
  \/ operation = "PREPARE" /\ MemberPrepare(r, reply, reads)
  \/ operation = "APPLY"   /\ MemberApply(r, reply, reads)
  \/ operation = "VERIFY"  /\ MemberVerify(r, reply, reads)
  \/ operation = "RESTORE" /\ MemberRestore(r, reply, reads)
  \/ operation = "CONFIRM" /\ MemberConfirm(r, reply, reads)

(* A slot is written behind the participant's back: the zoom action.        *)
Drift ==
  /\ native' = [native EXCEPT !.live = Foreign]
  /\ UNCHANGED touched
=============================================================================
