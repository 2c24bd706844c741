-------------------------- MODULE SettingsService --------------------------
(***************************************************************************)
(* CSettingsService: the compositor's event loop half of a settings        *)
(* transaction.  It owns the coordinator, executes the commands addressed  *)
(* to the native participant together with the display and input runtimes, *)
(* hands every other command to the Shell, asks the user to confirm a      *)
(* display change, and starts over under a new epoch when a Shell attaches.*)
(* tick() runs every 50 ms and around every request; one Tick is one call, *)
(* which executes at most one native command because every native receipt  *)
(* leads to a command for someone else.  The Shell and the store are the   *)
(* environment, under the assumption of AsyncJointProtocol.                *)
(***************************************************************************)
EXTENDS AsyncJointSettings

CONSTANTS
  Layouts,      \* monitor settings
  LayoutOf,     \* the monitor settings of each generation
  Elsewhere,    \* an effective layout that is none of Layouts
  Foreign       \* settings in force that belong to no generation

ASSUME LayoutAssumption == LayoutOf \in [Generations -> Layouts]
ASSUME ElsewhereAssumption == Elsewhere \notin Layouts /\ Foreign \notin Generations

VARIABLES
  svc,          \* the fields of CSettingsService that no other variable has
  native,       \* CSettingsParticipant
  touched,      \* the member's flag
  display,      \* SMonitorTransaction and the outputs
  inputs,       \* the input and desktop runtime and what is in force
  completed,    \* completed.json (environment)
  ticked        \* request() has run its first tick() and not yet its body

vars == <<joint, svc, native, touched, display, inputs, completed, ticked>>

INSTANCE NativeRuntimes
P == INSTANCE SettingsParticipant

(* m_request is joint.request, m_loaded the candidate of a prepared one;    *)
(* since is m_confirmationSince, expired once 15 s have passed.             *)
ServiceType ==
  [loading : BOOLEAN, inputPrepared : BOOLEAN, monitorChange : BOOLEAN,
   monitorRestored : BOOLEAN, cancelMonitor : BOOLEAN,
   since : {"unset", "running", "expired"},
   bootMonitors : Layouts, recovery : {"none", "running", "failed"}]

\* Fault: a prepare forgets to clear m_monitorRestored.
Reset_KeepsRestored(s) ==
  [s EXCEPT !.inputPrepared = FALSE, !.monitorChange = FALSE, !.cancelMonitor = FALSE, !.since = "unset"]

(* What every acknowledged native PREPARE clears first.                     *)
Reset(s) ==
  [s EXCEPT !.inputPrepared = FALSE, !.monitorChange = FALSE,
            !.monitorRestored = FALSE, !.cancelMonitor = FALSE, !.since = "unset"]

Started(g) ==
  Reset([loading |-> FALSE, inputPrepared |-> FALSE, monitorChange |-> FALSE,
         monitorRestored |-> FALSE, cancelMonitor |-> FALSE, since |-> "unset",
         bootMonitors |-> LayoutOf[g], recovery |-> "none"])

Init ==
  /\ completed \in Generations
  /\ svc = Started(completed)
  /\ inputs = InputBoot(completed)
  /\ display \in DisplayBoot(LayoutOf[completed])
  /\ touched = FALSE /\ ticked = FALSE
  /\ \E e \in Epochs : joint = Fresh(e) /\ native = P!FreshParticipant(e, completed)

-----------------------------------------------------------------------------
(* tick(), first block: the display reverts by itself, 15 s after it was    *)
(* applied or as soon as an output comes or goes, whoever is listening.     *)
DisplayDue ==
  /\ svc.monitorChange
  /\ svc.since # "unset"
  /\ ~svc.monitorRestored
  /\ svc.since = "expired" \/ ~Healthy(display)

Reverted ==
  IF DisplayDue
  THEN {[svc |-> [svc EXCEPT !.cancelMonitor = TRUE, !.monitorRestored = o.ok], display |-> o.to]
          : o \in DisplayRestore(display)}
  ELSE {[svc |-> svc, display |-> display]}

(* decide(): a layout that cannot be read back is not kept.  The display is *)
(* reverted here, before the coordinator asks the store anything, and also  *)
(* when the coordinator refuses because a command is pending.               *)
Decisions(s, d, keep) ==
  LET Next_joint(k) == IF joint.pending = NoCommand THEN Decided(joint, k) ELSE joint
      unset == [s EXCEPT !.since = "unset"]
  IN  IF keep /\ DisplayVerify(d)
      THEN {[svc |-> unset, display |-> d, joint |-> Next_joint(TRUE), waiting |-> FALSE]}
      ELSE {[svc |-> [unset EXCEPT !.monitorRestored = o.ok], display |-> o.to,
             joint |-> Next_joint(FALSE), waiting |-> FALSE] : o \in DisplayRestore(d)}

\* Fault: the 15 seconds of the question are not looked at.
Overdue_NoClock(s, d) == s.cancelMonitor \/ ~Healthy(d)

(* tick(), second block: wait for the answer, or decline in the user's name.*)
Overdue(s, d) == s.since = "expired" \/ s.cancelMonitor \/ ~Healthy(d)

Questioned(s, d) ==
  LET asked == IF s.since = "unset" THEN [s EXCEPT !.since = "running"] ELSE s
  IN  IF ~joint.awaitingConfirmation
      THEN {[svc |-> s, display |-> d, joint |-> joint, waiting |-> FALSE]}
      ELSE IF Overdue(asked, d)
           THEN Decisions(asked, d, FALSE)
           ELSE {[svc |-> asked, display |-> d, joint |-> joint, waiting |-> TRUE]}

-----------------------------------------------------------------------------
(* What the service adds to a native command the participant acknowledged:  *)
(* the outcomes of the display hook, then of the input hook when the first  *)
(* did not throw.                                                           *)
Did(ok, s, d, i) == [ok |-> ok, svc |-> s, display |-> d, inputs |-> i, confirm |-> FALSE]

PrepareHooks(s, d, i, g) ==
  LET reset == Reset(s)
      armed == [reset EXCEPT !.inputPrepared = TRUE, !.monitorChange = LayoutOf[g] # s.bootMonitors]
      Displayed(x) ==
        IF armed.monitorChange
        THEN {[Did(o.ok, armed, o.to, x.to) EXCEPT !.confirm = o.ok] : o \in DisplayPrepare(d, LayoutOf[g])}
        ELSE {Did(TRUE, armed, d, x.to)}
  IN  {Did(FALSE, reset, d, i)}           \* m_inputValidationError
      \cup UNION {IF x.ok THEN Displayed(x) ELSE {Did(FALSE, reset, d, x.to)} : x \in InputPrepare(i, g)}

\* Fault: the layout of a confirmed generation is not remembered.
Adopted_Not(s, g) == s

Adopted(s, g) == [s EXCEPT !.bootMonitors = LayoutOf[g]]

DisplayHook(operation, s, d, g) ==
  CASE ~s.monitorChange -> {[ok |-> TRUE, svc |-> s, display |-> d]}
    [] s.monitorChange /\ operation = "APPLY" ->
         {[ok |-> o.ok, svc |-> [s EXCEPT !.since = "running"], display |-> o.to] : o \in DisplayApply(d)}
    [] s.monitorChange /\ operation = "VERIFY" ->
         {[ok |-> ~s.cancelMonitor /\ DisplayVerify(d), svc |-> s, display |-> d]}
    [] s.monitorChange /\ operation = "RESTORE" /\ s.monitorRestored ->
         {[ok |-> TRUE, svc |-> s, display |-> d]}
    [] s.monitorChange /\ operation = "RESTORE" /\ ~s.monitorRestored ->
         {[ok |-> o.ok, svc |-> [s EXCEPT !.monitorRestored = o.ok], display |-> o.to] : o \in DisplayRestore(d)}
    [] s.monitorChange /\ operation = "CONFIRM" ->
         {[ok |-> TRUE, svc |-> Adopted(s, g), display |-> d]}

InputHook(operation, s, i) ==
  CASE s.inputPrepared /\ operation = "APPLY" -> InputApply(i)
    [] s.inputPrepared /\ operation = "VERIFY" -> InputVerify(i)
    [] s.inputPrepared /\ operation = "RESTORE" -> InputRestore(i)
    [] OTHER -> {Ok(i)}

Hooks(operation, s, d, i, g) ==
  IF operation = "PREPARE"
  THEN PrepareHooks(s, d, i, g)
  ELSE UNION {IF x.ok
              THEN {Did(y.ok, x.svc, x.display, y.to) : y \in InputHook(operation, x.svc, i)}
              ELSE {Did(FALSE, x.svc, x.display, i)} : x \in DisplayHook(operation, s, d, g)}

-----------------------------------------------------------------------------
(* tick(), the loop.  A native PREPARE first reads the candidate on another *)
(* thread; when the read fails the participant never hears of the request.  *)
NativeRead(s, d, j) ==
  /\ j.pending.operation = "PREPARE"
  /\ svc' = [s EXCEPT !.loading = TRUE]
  /\ joint' = j /\ display' = d
  /\ UNCHANGED <<native, touched, inputs>>

\* Fault: a failed read stays marked as running.
NativeReadFailed_KeepsLoading(s, d, j) ==
  /\ j.pending.operation = "PREPARE"
  /\ svc' = [s EXCEPT !.loading = TRUE]
  /\ Reply(j, j.pending, "FAILED", Malformed)
  /\ display' = d
  /\ UNCHANGED <<native, touched, inputs>>

NativeReadFailed(s, d, j) ==
  /\ j.pending.operation = "PREPARE"
  /\ svc' = [s EXCEPT !.loading = FALSE]
  /\ Reply(j, j.pending, "FAILED", Malformed)
  /\ display' = d
  /\ UNCHANGED <<native, touched, inputs>>

\* Fault: the exception of a hook is swallowed.
Receipt_Swallows(ok) == "OK"

(* The receipt of a command the participant acknowledged: an exception of a *)
(* hook makes it a failure.                                                 *)
Receipt(ok) == IF ok THEN "OK" ELSE "FAILED"

NativeExecute(s, d, j, reply, reads) ==
  LET c == j.pending
      read == [s EXCEPT !.loading = FALSE]
  IN  /\ P!Member(c.operation, j.request, reply, reads)
      /\ \/ /\ reply = "FAILED"
            /\ svc' = read /\ display' = d
            /\ Reply(j, c, "FAILED", Malformed)
            /\ UNCHANGED inputs
         \/ /\ reply = "OK"
            /\ \E x \in Hooks(c.operation, read, d, inputs, j.request.candidate) :
                 /\ svc' = x.svc /\ display' = x.display /\ inputs' = x.inputs
                 /\ Reply(IF x.confirm THEN RequireConfirmation(j) ELSE j, c, Receipt(x.ok), Malformed)

ForNative(j) == j.pending # NoCommand /\ j.pending.target = "NATIVE"

Loop(s, d, j) ==
  \/ /\ ~ForNative(j)
     /\ svc' = s /\ display' = d /\ joint' = j
     /\ UNCHANGED <<native, touched, inputs>>
  \/ /\ ForNative(j)
     /\ \/ NativeRead(s, d, j)
        \/ NativeReadFailed(s, d, j)
        \/ \E reply \in {"OK", "FAILED"}, reads \in BOOLEAN : NativeExecute(s, d, j, reply, reads)

(* late: the pending command was first seen more than 5 s ago.  ticked'     *)
(* tells the timer's calls from those a request begins with.                *)
Tick ==
  /\ svc.recovery = "none"
  /\ \E x \in Reverted : \E y \in Questioned(x.svc, x.display) :
       \/ /\ y.waiting
          /\ svc' = y.svc /\ display' = y.display
          /\ UNCHANGED <<joint, native, touched, inputs>>
       \/ /\ ~y.waiting
          /\ \E late \in BOOLEAN :
               /\ late => y.joint.pending # NoCommand
               /\ Loop(y.svc, y.display, IF late THEN TimedOut(y.joint) ELSE y.joint)
  /\ ticked' \in BOOLEAN
  /\ UNCHANGED completed

-----------------------------------------------------------------------------
\* Fault: the participant starts over from its own generation.
TickRecovered_OldGeneration(e) ==
  /\ svc.recovery = "running"
  /\ e # joint.epoch
  /\ svc' = Started(native.generation)
  /\ inputs' = InputBoot(native.generation)
  /\ display' \in DisplayBoot(LayoutOf[native.generation])
  /\ native' = P!FreshParticipant(e, native.generation)
  /\ touched' = FALSE
  /\ joint' = Fresh(e)
  /\ ticked' \in BOOLEAN
  /\ UNCHANGED completed

(* initialize() under the recovered epoch: everything starts over from the  *)
(* completed generation.                                                    *)
TickRecovered(e) ==
  /\ svc.recovery = "running"
  /\ e # joint.epoch
  /\ svc' = Started(completed)
  /\ inputs' = InputBoot(completed)
  /\ display' \in DisplayBoot(LayoutOf[completed])
  /\ native' = P!FreshParticipant(e, completed)
  /\ touched' = FALSE
  /\ joint' = Fresh(e)
  /\ ticked' \in BOOLEAN
  /\ UNCHANGED completed

(* recover() or a factory of initialize() throws: what it got done stays,   *)
(* the coordinator and the participant are still those of the old epoch.    *)
TickRecoveryFailed ==
  /\ svc.recovery = "running"
  /\ \/ /\ svc' = [svc EXCEPT !.recovery = "failed"]
        /\ UNCHANGED <<inputs, display, native>>
     \/ /\ svc' = [svc EXCEPT !.recovery = "failed"]
        /\ inputs' = [inputs EXCEPT !.devices = Foreign, !.desktop = Foreign]
        /\ UNCHANGED <<display, native>>
     \/ /\ svc' = [Reset(svc) EXCEPT !.recovery = "failed"]
        /\ inputs' = InputBoot(completed)
        /\ display' \in DisplayBoot(LayoutOf[completed])
        /\ native' \in {[native EXCEPT !.live = written] : written \in {native.live, Foreign, completed}}
  /\ ticked' = FALSE
  /\ UNCHANGED <<joint, touched, completed>>

-----------------------------------------------------------------------------
(* request() runs tick() first and is then served whatever that tick() did: *)
(* the two steps are one call, between which only time and the store move.  *)
(* The tick() that follows it is the next Tick.                             *)
Served == svc.recovery = "none" /\ ticked /\ ticked' = FALSE

RequestStart(r) ==
  /\ Served
  /\ Start(r)
  /\ UNCHANGED <<svc, native, touched, display, inputs, completed>>

RequestRecover(r) ==
  /\ Served
  /\ Recover(r)
  /\ UNCHANGED <<svc, native, touched, display, inputs, completed>>

RequestAnswer(r, keep) ==
  /\ Served
  /\ joint.request = r
  /\ joint.awaitingConfirmation
  /\ \E x \in Decisions(svc, display, keep) : svc' = x.svc /\ display' = x.display /\ joint' = x.joint
  /\ UNCHANGED <<native, touched, inputs, completed>>

RequestReceipt(result, current) ==
  /\ Served
  /\ joint.pending # NoCommand /\ ~ForNative(joint)
  /\ joint.step \in {"BASE", "RESOLVE"} => current \in {completed, Malformed}
  /\ Reply(joint, joint.pending, result, current)
  /\ UNCHANGED <<svc, native, touched, display, inputs, completed>>

(* Only once the lease of the last Shell is free and no read is running.    *)
RequestAttach ==
  /\ \/ Served
     \/ svc.recovery = "failed" /\ ticked' = FALSE
  /\ ~svc.loading
  /\ svc' = [svc EXCEPT !.recovery = "running"]
  /\ UNCHANGED <<joint, native, touched, display, inputs, completed>>

-----------------------------------------------------------------------------
Expire ==
  /\ svc.since = "running"
  /\ svc' = [svc EXCEPT !.since = "expired"]
  /\ UNCHANGED <<joint, native, touched, display, inputs, completed, ticked>>

Hotplug ==
  /\ ~ticked
  /\ display' \in DisplayHotplug(display)
  /\ UNCHANGED <<joint, svc, native, touched, inputs, completed, ticked>>

Drift == ~ticked /\ P!Drift /\ UNCHANGED <<joint, svc, display, inputs, completed, ticked>>

EnvPublish ==
  /\ svc.recovery = "none"
  /\ joint.pending # NoCommand
  /\ joint.pending.operation = "PUBLISH"
  /\ completed = joint.request.base
  /\ completed' = joint.request.candidate
  /\ UNCHANGED <<joint, svc, native, touched, display, inputs, ticked>>

Next ==
  \/ Tick
  \/ \E e \in Epochs : TickRecovered(e)
  \/ TickRecoveryFailed
  \/ \E r \in Requests : RequestStart(r) \/ RequestRecover(r)
  \/ \E r \in Requests, keep \in BOOLEAN : RequestAnswer(r, keep)
  \/ \E result \in Replies, current \in Generations \cup {Malformed} : RequestReceipt(result, current)
  \/ RequestAttach
  \/ Expire
  \/ Hotplug
  \/ Drift
  \/ EnvPublish

Spec == Init /\ [][Next]_vars

(* The event loop's 50 ms timer calls tick() for ever, and time passes.     *)
FairSpec == Spec /\ WF_vars(Tick) /\ WF_vars(Expire)

-----------------------------------------------------------------------------
(* A candidate is read only while its native PREPARE is pending.            *)
TypeOK ==
  /\ joint \in JointType
  /\ svc \in ServiceType
  /\ native \in P!ParticipantType
  /\ touched \in BOOLEAN
  /\ display \in DisplayType
  /\ inputs \in InputType
  /\ completed \in Generations
  /\ ticked \in BOOLEAN
  /\ svc.loading => ForNative(joint) /\ joint.pending.operation = "PREPARE"

Settled == joint.state \notin {"RUNNING", "UNKNOWN"}

(* Between transactions the participant's confirmed base is the completed   *)
(* generation, so the next request can only be based on what a restart      *)
(* would load - whatever was lost, restored or recovered before.  And what  *)
(* is completed is in force everywhere: on the devices and the desktop, in  *)
(* what the input runtime would save as the next transaction's way back,    *)
(* and, unless an output came or went since, on the display.                *)
CompleteEverywhere ==
  /\ Settled => native.generation = completed
  /\ joint.state = "COMPLETE" /\ svc.recovery = "none" =>
       /\ completed = joint.request.candidate
       /\ {inputs.current, inputs.devices, inputs.desktop} = {joint.request.candidate}
       /\ svc.monitorChange /\ display.stable => display.live = LayoutOf[joint.request.candidate]

(* An aborted transaction that reached the runtimes leaves the devices and  *)
(* the desktop, and the display unless its question is still open, on what  *)
(* was in force before they were last prepared.                             *)
AbortRestoresPrepared ==
  joint.state = "ABORTED" /\ joint.touched # 0 /\ svc.recovery = "none" =>
    /\ svc.inputPrepared => inputs.devices = inputs.devicesBefore /\ inputs.desktop = inputs.desktopBefore
    /\ svc.monitorChange /\ ~joint.awaitingConfirmation /\ Healthy(display)
         => display.live = display.baseline

Publishing == joint.pending # NoCommand /\ joint.pending.operation = "PUBLISH"

(* A generation with another layout than its base is published only by a    *)
(* keep answer to a question that is still open, and while the display      *)
(* shows it.  A late SHELL_VERIFY may leave that question open beyond a     *)
(* recovery.  The tick of the keep's own request may then have declined it  *)
(* (since is unset) and been refused for the command pending; the keep goes *)
(* on from there only when that command was a restore and a restore failed. *)
(* After an abort a keep revives the transaction only if the outputs showed *)
(* this layout before the trial already.                                    *)
LayoutNeedsAnswer ==
  [][~Publishing /\ Publishing' /\ LayoutOf[joint.request.candidate] # LayoutOf[joint.request.base]
       => /\ joint.awaitingConfirmation /\ Healthy(display)
          /\ display.live = LayoutOf[joint.request.candidate]
          /\ svc.since = "unset" => joint.state = "UNKNOWN" /\ joint.restoreFailed
          /\ joint.state = "ABORTED" => display.baseline = display.candidate]_vars

(* A question nobody answers is answered by the service when its 15 s are   *)
(* over, without any help of the Shell.                                     *)
QuestionEnds ==
  (joint.awaitingConfirmation /\ joint.pending = NoCommand)
    ~> (~joint.awaitingConfirmation \/ joint.pending # NoCommand \/ svc.recovery # "none")
=============================================================================
