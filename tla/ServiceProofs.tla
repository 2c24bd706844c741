---------------------------- MODULE ServiceProofs ----------------------------
(***************************************************************************)
(* The compositor's half of a settings transaction, for any epochs,        *)
(* generations, layouts and tickets: what is completed is the base of the  *)
(* participant and in force everywhere, what is aborted is undone, and no  *)
(* change of the display is published without an answer.                   *)
(***************************************************************************)
EXTENDS SettingsService, TLAPS

(* The steps of a transaction: before and after the native participant has  *)
(* prepared, on the way back, and when the candidate is completed.          *)
Opening == {"BASE", "STORE_PREPARE", "NATIVE_PREPARE"}
Trying  == {"SHELL_PREPARE", "NATIVE_APPLY", "SHELL_APPLY", "NATIVE_VERIFY", "SHELL_VERIFY"}
Undoing == {"SHELL_RESTORE", "NATIVE_RESTORE", "ABANDON"}
Going   == {"NATIVE_FINAL_VERIFY", "SHELL_FINAL_VERIFY", "NATIVE_CONFIRM", "SHELL_CONFIRM"}
Checked == {"SHELL_FINAL_VERIFY", "NATIVE_CONFIRM", "SHELL_CONFIRM"}

(* The tickets have run out: nothing happens any more in this epoch.        *)
Spent(j) == j.ticket = MaxTicket /\ j.state = "UNKNOWN" /\ j.pending = NoCommand

PendingInv(j) ==
  j.pending # NoCommand =>
    /\ j.pending.target = Dispatch[j.step].target
    /\ j.pending.operation = Dispatch[j.step].operation
    /\ j.request # NoRequest
    /\ j.state \in {"RUNNING", "UNKNOWN"}

RequestInv(j) ==
  /\ j.request # NoRequest => j.request.base # j.request.candidate
  /\ j.request = NoRequest => j.step = "BASE" /\ j.pending = NoCommand /\ j.state = "IDLE"

(* The coordinator's fields as far as its step goes.                        *)
ProgressInv(j) ==
  /\ j.step \in Opening => ~j.publishAttempted /\ ~j.awaitingConfirmation
  /\ j.step \in {"BASE", "STORE_PREPARE"} /\ j.pending # NoCommand => ~j.requireConfirmation
  /\ j.step \in {"BASE", "RESOLVE"} \/ j.prepared
  /\ j.step = "BASE" \/ ~j.prepared => j.touched = 0 /\ ~j.publishAttempted
  /\ j.step = "BASE" => ~j.prepared
  /\ j.step \in Trying => ~j.publishAttempted /\ j.touched = 2
  /\ j.step \in {"PUBLISH"} \cup Going => j.publishAttempted
  /\ j.awaitingConfirmation =>
       /\ j.requireConfirmation /\ j.prepared /\ j.touched = 2 /\ ~j.publishAttempted
       /\ j.step \in {"SHELL_VERIFY", "RESOLVE"} \cup Undoing
       /\ j.state = "ABORTED" => j.step = "ABANDON"
  /\ j.step = "SHELL_RESTORE" => j.restoreRemaining = 1
  /\ j.step = "NATIVE_RESTORE" => j.restoreRemaining = 0
  /\ j.state \in {"IDLE", "STALE"} => j.step = "BASE"
  /\ j.state = "COMPLETE" => j.step = "SHELL_CONFIRM"
  /\ j.state = "ABORTED" => j.step = "ABANDON" \/ (j.step = "RESOLVE" /\ ~j.prepared)

JointInv(j) == PendingInv(j) /\ RequestInv(j) /\ (~Spent(j) => ProgressInv(j))

(* What is completed, and what the participant confirmed, c and g: until    *)
(* the base of the request has been looked up they are only the same.       *)
BaseInv(j, c, g) ==
  ~Spent(j) =>
    LET r == j.request IN
    /\ ~j.prepared => g = c
    /\ j.prepared => c \in {r.base, r.candidate} /\ g \in {r.base, r.candidate}
    /\ j.prepared /\ c = r.base => g = r.base
    /\ j.prepared /\ j.step \in Opening \cup Trying \cup Undoing => c = r.base
    /\ j.state = "ABORTED" => c = r.base
    /\ j.step \in Going => c = r.candidate
    /\ j.step = "SHELL_CONFIRM" => g = r.candidate

(* The native participant and the runtimes are prepared for the request.    *)
On(j) == j.publishAttempted \/ j.awaitingConfirmation \/ j.step \in Trying

Armed(j, s, d, i) ==
  /\ s.inputPrepared /\ i.candidate = j.request.candidate
  /\ s.monitorChange <=> LayoutOf[j.request.candidate] # LayoutOf[j.request.base]
  /\ s.monitorChange => d.prepared /\ d.candidate = LayoutOf[j.request.candidate]
  /\ j.requireConfirmation <=> s.monitorChange

(* The display shows what it showed before, or something else again.        *)
Back(d) == d.live \in {d.baseline, Elsewhere} \/ ~d.stable

(* What is in force on the devices is what the input runtime believes, what *)
(* it saved is what it believed then, and until the candidate is applied    *)
(* the desktop is as it was.                                                *)
Believed(i) ==
  /\ i.devices \in {i.current, Foreign} /\ i.devicesBefore \in {i.before, Foreign}
  /\ ~i.applied => i.desktop = i.desktopBefore

(* A generation is in force on the devices and the desktop.                 *)
InForce(i, g) == i.current = g /\ i.devices = g /\ i.desktop = g

(* A reverted display shows its baseline, as far as anybody can tell.       *)
Reverts(s, d) == s.monitorRestored /\ Healthy(d) => d.live = d.baseline

(* The service's runtimes against the coordinator and the participant.      *)
RuntimeInv(n, s, d, i) ==
  /\ n.phase = "CONFIRMED" => n.generation = n.request.generation
  /\ Believed(i)
  /\ s.bootMonitors = LayoutOf[n.generation]
  /\ s.monitorRestored /\ d.prepared => Back(d)
  /\ Reverts(s, d)

(* Both runtimes were restored before the store is asked to abandon.        *)
Restored(j, s, i) ==
  j.step = "ABANDON" /\ j.touched # 0 =>
    /\ s.inputPrepared => i.devices = i.devicesBefore /\ i.desktop = i.desktopBefore
    /\ s.monitorChange /\ ~j.awaitingConfirmation => s.monitorRestored

StepInv(j, n, s, d, i) ==
  /\ On(j) => n.request.generation = j.request.candidate /\ Armed(j, s, d, i)
  /\ j.step = "NATIVE_PREPARE" /\ j.pending # NoCommand => ~j.requireConfirmation
  /\ j.step \in {"SHELL_PREPARE", "NATIVE_APPLY"} => s.since = "unset" /\ ~s.monitorRestored
  /\ j.awaitingConfirmation /\ j.step = "ABANDON" => Back(d)
  /\ j.publishAttempted /\ s.monitorChange => s.since = "unset"
  /\ j.step \in Checked =>
       /\ InForce(i, j.request.candidate)
       /\ s.monitorChange /\ d.stable => d.live = LayoutOf[j.request.candidate]
  /\ Restored(j, s, i)

ServiceInv(j, n, s, d, i) == RuntimeInv(n, s, d, i) /\ (~Spent(j) => StepInv(j, n, s, d, i))

IInv ==
  /\ TypeOK
  /\ JointInv(joint)
  /\ BaseInv(joint, completed, native.generation)
  /\ svc.recovery = "none" => ServiceInv(joint, native, svc, display, inputs)

-----------------------------------------------------------------------------
(* The display and the input runtime, call by call.                         *)
LEMMA Outcomes ==
  /\ \A x : Ok(x).ok = TRUE /\ Ok(x).to = x
  /\ \A x : Thrown(x).ok = FALSE /\ Thrown(x).to = x
  BY DEF Ok, Thrown

LEMMA DisplayPrepares ==
  ASSUME NEW d \in DisplayType, NEW l \in Layouts, NEW o \in DisplayPrepare(d, l)
  PROVE  /\ o.to \in DisplayType /\ o.ok \in BOOLEAN
         /\ o.ok => o.to.prepared /\ o.to.candidate = l
<1> DEFINE seen == [d EXCEPT !.stable = TRUE]
           taken == [seen EXCEPT !.candidate = l, !.baseline = d.live]
           done == [taken EXCEPT !.prepared = TRUE]
<1>1. seen \in DisplayType
  BY DEF DisplayType
<1>2. taken \in DisplayType /\ taken.candidate = l
  BY DEF DisplayType
<1>3. done \in DisplayType /\ done.candidate = l /\ done.prepared
  BY DEF DisplayType
<1>4. o = Thrown(seen) \/ o = Thrown(taken) \/ o = Ok(done)
  BY DEF DisplayPrepare
<1> HIDE DEF seen, taken, done
<1> QED
  BY <1>1, <1>2, <1>3, <1>4, Outcomes

(* Whatever is shown, the rest of the transaction's record stays.           *)
LEMMA Installs ==
  ASSUME NEW d \in DisplayType, NEW l \in Layouts \cup {Elsewhere}
  PROVE  /\ Installed(d, l) \in DisplayType /\ Installed(d, l).live = l
         /\ Installed(d, l).prepared = d.prepared /\ Installed(d, l).candidate = d.candidate
         /\ Installed(d, l).baseline = d.baseline /\ Installed(d, l).stable = d.stable
  BY DEF DisplayType, Installed

LEMMA InstallFails ==
  ASSUME NEW d \in DisplayType, NEW l, NEW o \in NotInstalled(d, l)
  PROVE  /\ o.ok = FALSE
         /\ \E shown \in {d.live, Elsewhere} : o.to = Installed(d, shown)
  BY DEF NotInstalled, Thrown

LEMMA DisplayApplies ==
  ASSUME NEW d \in DisplayType, NEW o \in DisplayApply(d)
  PROVE  /\ o.to \in DisplayType /\ o.ok \in BOOLEAN
         /\ o.to.prepared = d.prepared /\ o.to.candidate = d.candidate
<1>1. d.live \in Layouts \cup {Elsewhere} /\ d.candidate \in Layouts
  BY DEF DisplayType
<1>2. CASE o \in NotInstalled(d, d.candidate)
  <2>1. PICK shown \in {d.live, Elsewhere} : o.to = Installed(d, shown)
    BY <1>2, InstallFails
  <2>2. o.ok \in BOOLEAN
    BY <1>2, InstallFails
  <2>3. shown \in Layouts \cup {Elsewhere}
    BY <1>1
  <2> QED
    BY <2>1, <2>2, <2>3, Installs
<1>3. CASE o = Thrown(d)
  BY <1>3 DEF Thrown
<1>4. CASE o = Ok(Installed(d, d.candidate))
  <2>1. o.ok \in BOOLEAN
    BY <1>4 DEF Ok
  <2>2. o.to = Installed(d, d.candidate)
    BY <1>4 DEF Ok
  <2> QED
    BY <1>1, <2>1, <2>2, Installs
<1> QED
  BY <1>2, <1>3, <1>4 DEF DisplayApply

LEMMA DisplayRestores ==
  ASSUME NEW d \in DisplayType, NEW o \in DisplayRestore(d)
  PROVE  /\ o.to \in DisplayType /\ o.ok \in BOOLEAN
         /\ o.to.prepared = d.prepared /\ o.to.candidate = d.candidate
         /\ Back(d) => Back(o.to)
         /\ o.ok /\ d.prepared => Back(o.to)
         /\ o.ok /\ Healthy(o.to) => o.to.live = o.to.baseline
<1>1. d.live \in Layouts \cup {Elsewhere} /\ d.baseline \in Layouts \cup {Elsewhere} /\ d.stable \in BOOLEAN
  BY DEF DisplayType
<1>2. CASE d.prepared /\ o \in NotInstalled(d, d.baseline)
  <2>1. PICK shown \in {d.live, Elsewhere} : o.to = Installed(d, shown)
    BY <1>2, InstallFails
  <2>2. ~o.ok /\ o.ok \in BOOLEAN
    BY <1>2, InstallFails
  <2>3. shown \in Layouts \cup {Elsewhere}
    BY <1>1
  <2>4. Back(d) => Back(o.to)
    BY <2>1, <2>3, Installs DEF Back
  <2> QED
    BY <2>1, <2>2, <2>3, <2>4, Installs
<1>3. CASE d.prepared /\ o = [ok |-> d.stable, to |-> Installed(d, d.baseline)]
  <2>1. o.ok \in BOOLEAN
    BY <1>1, <1>3
  <2>2. o.to = Installed(d, d.baseline)
    BY <1>3
  <2>3. Back(o.to)
    BY <1>1, <2>2, Installs DEF Back
  <2> QED
    BY <1>1, <2>1, <2>2, <2>3, Installs
<1>4. CASE ~d.prepared /\ o = Ok(d)
  BY <1>4 DEF Ok, Healthy
<1> QED
  BY <1>2, <1>3, <1>4 DEF DisplayRestore

LEMMA DisplayHotplugs ==
  ASSUME NEW d \in DisplayType, NEW e \in DisplayHotplug(d)
  PROVE  /\ e \in DisplayType /\ ~e.stable
         /\ e.prepared = d.prepared /\ e.candidate = d.candidate
  BY DEF DisplayHotplug, DisplayType

LEMMA InputPrepares ==
  ASSUME NEW i \in InputType, NEW g \in Generations, NEW o \in InputPrepare(i, g)
  PROVE  /\ o.to \in InputType /\ o.ok \in BOOLEAN
         /\ Believed(i) => Believed(o.to)
         /\ o.to.candidate = g
<1> DEFINE taken == [i EXCEPT !.before = i.current, !.devicesBefore = i.devices, !.candidate = g,
                            !.desktopBefore = i.desktop]
           done == [taken EXCEPT !.applied = FALSE]
<1>1. /\ taken \in InputType /\ taken.candidate = g /\ taken.devices = i.devices /\ taken.current = i.current
      /\ taken.devicesBefore = i.devices /\ taken.before = i.current
      /\ taken.desktop = i.desktop /\ taken.desktopBefore = i.desktop
  BY DEF InputType
<1>2. /\ done \in InputType /\ done.candidate = g /\ done.devices = i.devices /\ done.current = i.current
      /\ done.devicesBefore = i.devices /\ done.before = i.current
      /\ done.desktop = i.desktop /\ done.desktopBefore = i.desktop
  BY DEF InputType
<1>3. o = Thrown(taken) \/ o = Ok(done)
  BY DEF InputPrepare
<1> HIDE DEF taken, done
<1> QED
  BY <1>1, <1>2, <1>3, Outcomes DEF Believed

LEMMA InputApplies ==
  ASSUME NEW i \in InputType, NEW o \in InputApply(i)
  PROVE  /\ o.to \in InputType /\ o.ok \in BOOLEAN
         /\ Believed(i) => Believed(o.to)
         /\ o.to.candidate = i.candidate
<1> DEFINE begun == [i EXCEPT !.applied = TRUE]
           input == [begun EXCEPT !.devices = i.candidate, !.current = i.candidate]
           done == [input EXCEPT !.desktop = i.candidate]
           half == [input EXCEPT !.desktop = Foreign]
           none == [begun EXCEPT !.devices = Foreign]
<1>1. begun \in InputType /\ begun.candidate = i.candidate
  BY DEF InputType
<1>2. /\ input \in InputType /\ input.candidate = i.candidate
      /\ input.devices = i.candidate /\ input.current = i.candidate
  BY DEF InputType
<1>3. /\ done \in InputType /\ done.candidate = i.candidate
      /\ Believed(i) => Believed(done)
  BY DEF InputType, Believed
<1>4. /\ half \in InputType /\ half.candidate = i.candidate
      /\ Believed(i) => Believed(half)
  BY DEF InputType, Believed
<1>5. /\ none \in InputType /\ none.candidate = i.candidate
      /\ Believed(i) => Believed(none)
  BY DEF InputType, Believed
<1>6. o = Ok(done) \/ o = Thrown(half) \/ o = Thrown(none)
  BY DEF InputApply
<1> HIDE DEF begun, input, done, half, none
<1> QED
  BY <1>3, <1>4, <1>5, <1>6, Outcomes

LEMMA InputVerifies ==
  ASSUME NEW i \in InputType, NEW o \in InputVerify(i)
  PROVE  /\ o.to = i /\ o.ok \in BOOLEAN
         /\ o.ok /\ Believed(i) => InForce(i, i.candidate)
<1>1. CASE o = Thrown(i)
  BY <1>1 DEF Thrown
<1>2. CASE o = Ok(i) /\ i.devices = i.candidate /\ i.desktop = i.candidate
  BY <1>2, ElsewhereAssumption DEF Ok, Believed, InputType, InForce
<1> QED
  BY <1>1, <1>2 DEF InputVerify

LEMMA InputRestores ==
  ASSUME NEW i \in InputType, NEW o \in InputRestore(i)
  PROVE  /\ o.to \in InputType /\ o.ok \in BOOLEAN
         /\ Believed(i) => Believed(o.to)
         /\ Believed(i) /\ o.ok => o.to.devices = o.to.devicesBefore /\ o.to.desktop = o.to.desktopBefore
         /\ o.to.candidate = i.candidate
<1> DEFINE lost == [i EXCEPT !.devices = Foreign]
           input == [i EXCEPT !.devices = i.devicesBefore, !.current = i.before]
           half == [input EXCEPT !.desktop = Foreign]
           done == [input EXCEPT !.desktop = i.desktopBefore, !.applied = FALSE]
<1>1. /\ lost \in InputType /\ lost.candidate = i.candidate
      /\ Believed(i) => Believed(lost)
  BY DEF InputType, Believed
<1>2. /\ input \in InputType /\ input.candidate = i.candidate
      /\ Believed(i) => Believed(input)
      /\ input.devices = input.devicesBefore /\ input.desktop = i.desktop /\ input.desktopBefore = i.desktopBefore
  BY DEF InputType, Believed
<1>3. /\ half \in InputType /\ half.candidate = i.candidate
      /\ i.applied /\ Believed(i) => Believed(half)
  BY DEF InputType, Believed
<1>4. /\ done \in InputType /\ done.candidate = i.candidate
      /\ Believed(i) => Believed(done)
      /\ done.devices = done.devicesBefore /\ done.desktop = done.desktopBefore
  BY DEF InputType, Believed
<1>5. \/ o = Thrown(lost)
      \/ i.applied /\ (o = Thrown(half) \/ o = Ok(done))
      \/ ~i.applied /\ o = Ok(input)
  BY DEF InputRestore
<1> HIDE DEF lost, input, half, done
<1>6. ~i.applied /\ Believed(i) => i.desktop = i.desktopBefore
  BY DEF Believed
<1>7. CASE o = Thrown(lost)
  BY <1>1, <1>7, Outcomes
<1>8. CASE i.applied /\ o = Thrown(half)
  BY <1>3, <1>8, Outcomes
<1>9. CASE i.applied /\ o = Ok(done)
  BY <1>4, <1>9, Outcomes
<1>10. CASE ~i.applied /\ o = Ok(input)
  BY <1>2, <1>6, <1>10, Outcomes
<1> QED
  BY <1>5, <1>7, <1>8, <1>9, <1>10

-----------------------------------------------------------------------------
(* The coordinator alone.  What issue() changes, field by field.            *)
LEMMA IssueFacts ==
  ASSUME NEW j \in JointType, NEW s \in Steps, j.request \in Requests, NEW k, k = Issue(j, s)
  PROVE  /\ k \in JointType /\ k.request = j.request
         /\ k.restoreRemaining = j.restoreRemaining /\ k.restoreFailed = j.restoreFailed
         /\ k.requireConfirmation = j.requireConfirmation
         /\ k.awaitingConfirmation = j.awaitingConfirmation
         /\ j.ticket = MaxTicket =>
              /\ k.state = "UNKNOWN" /\ k.ticket = j.ticket /\ k.pending = j.pending
              /\ k.step = j.step /\ k.prepared = j.prepared /\ k.touched = j.touched
              /\ k.publishAttempted = j.publishAttempted
         /\ j.ticket # MaxTicket =>
              /\ k.state = "RUNNING" /\ k.step = s
              /\ k.pending \in Commands
              /\ k.pending.target = Dispatch[s].target
              /\ k.pending.operation = Dispatch[s].operation
              /\ k.prepared = (j.prepared \/ s = "STORE_PREPARE")
              /\ k.publishAttempted = (j.publishAttempted \/ s = "PUBLISH")
              /\ s \notin {"NATIVE_PREPARE", "SHELL_PREPARE"} => k.touched = j.touched
              /\ s = "SHELL_PREPARE" => k.touched = 2
<1>1. Dispatch[s].target \in Targets /\ Dispatch[s].operation \in Operations
  BY DEF Steps, Dispatch, Targets, Operations
<1>2. CASE j.ticket = MaxTicket
  <2>1. k = [j EXCEPT !.state = "UNKNOWN"]
    BY <1>2 DEF Issue
  <2> QED
    BY <1>2, <2>1 DEF JointType, States
<1>3. CASE j.ticket # MaxTicket
  <2> DEFINE c == [request |-> j.request, ticket |-> j.ticket + 1,
                   target |-> Dispatch[s].target, operation |-> Dispatch[s].operation]
             n == j.ticket + 1
             prep == j.prepared \/ s = "STORE_PREPARE"
             pub == j.publishAttempted \/ s = "PUBLISH"
             touch == CASE s = "NATIVE_PREPARE" -> 1 [] s = "SHELL_PREPARE" -> 2 [] OTHER -> j.touched
  <2>1. n \in 1 .. MaxTicket /\ n \in 0 .. MaxTicket
    BY <1>3, TicketAssumption DEF JointType
  <2>2. c \in Commands /\ c.target = Dispatch[s].target /\ c.operation = Dispatch[s].operation
    BY <1>1, <2>1 DEF Commands
  <2>3. prep \in BOOLEAN /\ pub \in BOOLEAN
    OBVIOUS
  <2>4. touch \in 0 .. 2
    BY DEF JointType
  <2>5. k = [j EXCEPT !.step = s, !.state = "RUNNING", !.ticket = n, !.pending = c,
                      !.prepared = prep, !.publishAttempted = pub, !.touched = touch]
    BY <1>3 DEF Issue
  <2>6. s \notin {"NATIVE_PREPARE", "SHELL_PREPARE"} => touch = j.touched
    OBVIOUS
  <2>7. s = "SHELL_PREPARE" => touch = 2
    OBVIOUS
  <2>8. prep = (j.prepared \/ s = "STORE_PREPARE") /\ pub = (j.publishAttempted \/ s = "PUBLISH")
    OBVIOUS
  <2> HIDE DEF n, c, prep, pub, touch
  <2>9. k \in JointType
    BY <2>1, <2>2, <2>3, <2>4, <2>5 DEF JointType, States
  <2>10. /\ k.request = j.request
         /\ k.restoreRemaining = j.restoreRemaining /\ k.restoreFailed = j.restoreFailed
         /\ k.requireConfirmation = j.requireConfirmation
         /\ k.awaitingConfirmation = j.awaitingConfirmation
         /\ k.state = "RUNNING" /\ k.step = s /\ k.pending = c
         /\ k.prepared = prep /\ k.publishAttempted = pub /\ k.touched = touch
    BY <2>5 DEF JointType
  <2> QED
    BY <1>3, <2>2, <2>6, <2>7, <2>8, <2>9, <2>10
<1> QED
  BY <1>2, <1>3

(* When a machine without a pending command may issue step s.               *)
May(j, s) ==
  /\ s \in Opening => ~j.publishAttempted /\ ~j.awaitingConfirmation
  /\ s \in {"BASE", "STORE_PREPARE"} => ~j.requireConfirmation
  /\ s \in {"BASE", "RESOLVE", "STORE_PREPARE"} \/ j.prepared
  /\ s = "BASE" \/ (~j.prepared /\ s # "STORE_PREPARE") => j.touched = 0 /\ ~j.publishAttempted
  /\ s = "BASE" => ~j.prepared
  /\ s \in Trying => ~j.publishAttempted /\ (s = "SHELL_PREPARE" \/ j.touched = 2)
  /\ s \in Going => j.publishAttempted
  /\ j.awaitingConfirmation =>
       /\ j.requireConfirmation /\ j.prepared /\ j.touched = 2 /\ ~j.publishAttempted
       /\ s \in {"RESOLVE"} \cup Undoing
  /\ s = "SHELL_RESTORE" => j.restoreRemaining = 1
  /\ s = "NATIVE_RESTORE" => j.restoreRemaining = 0

Requested(j) == j.request \in Requests /\ j.request.base # j.request.candidate

LEMMA IssueJoint ==
  ASSUME NEW j \in JointType, NEW s \in Steps, Requested(j), j.pending = NoCommand, May(j, s),
         NEW k, k = Issue(j, s)
  PROVE  JointInv(k)
<1>0. j.request \in Requests /\ j.request.base # j.request.candidate
  BY DEF Requested
<1>1. k.request = j.request /\ k.request # NoRequest
  BY <1>0, IssueFacts, EmptyAssumption
<1>2. CASE j.ticket = MaxTicket
  <2>1. Spent(k)
    BY <1>0, <1>2, IssueFacts DEF Spent
  <2> QED
    BY <1>0, <1>1, <2>1 DEF JointInv, PendingInv, RequestInv, Spent
<1>3. CASE j.ticket # MaxTicket
  <2>1. /\ k.restoreRemaining = j.restoreRemaining
        /\ k.requireConfirmation = j.requireConfirmation
        /\ k.awaitingConfirmation = j.awaitingConfirmation
        /\ k.state = "RUNNING" /\ k.step = s
        /\ k.pending \in Commands
        /\ k.pending.target = Dispatch[s].target
        /\ k.pending.operation = Dispatch[s].operation
        /\ k.prepared = (j.prepared \/ s = "STORE_PREPARE")
        /\ k.publishAttempted = (j.publishAttempted \/ s = "PUBLISH")
        /\ s \notin {"NATIVE_PREPARE", "SHELL_PREPARE"} => k.touched = j.touched
        /\ s = "SHELL_PREPARE" => k.touched = 2
    BY <1>0, <1>3, IssueFacts
  <2>2. PendingInv(k)
    BY <1>1, <2>1 DEF PendingInv
  <2>3. RequestInv(k)
    BY <1>0, <1>1 DEF RequestInv
  <2>4. ProgressInv(k)
    BY <2>1 DEF ProgressInv, May, Opening, Trying, Undoing, Going
  <2> QED
    BY <2>2, <2>3, <2>4 DEF JointInv
<1> QED
  BY <1>2, <1>3


LEMMA AnsweredFacts ==
  ASSUME NEW j \in JointType, NEW k, k = Answered(j)
  PROVE  /\ k \in JointType /\ k.pending = NoCommand
         /\ k.request = j.request /\ k.ticket = j.ticket /\ k.step = j.step /\ k.state = j.state
         /\ k.touched = j.touched /\ k.restoreRemaining = j.restoreRemaining
         /\ k.requireConfirmation = j.requireConfirmation
         /\ k.awaitingConfirmation = j.awaitingConfirmation
         /\ k.prepared = j.prepared /\ k.publishAttempted = j.publishAttempted
         /\ k.restoreFailed = j.restoreFailed
  BY DEF JointType, Answered

(* A verdict nothing is issued after.                                       *)
LEMMA VerdictFacts ==
  ASSUME NEW j \in JointType, NEW v \in States, NEW k, k = [j EXCEPT !.state = v]
  PROVE  /\ k \in JointType /\ k.state = v /\ k.pending = j.pending
         /\ k.request = j.request /\ k.ticket = j.ticket /\ k.step = j.step
         /\ k.touched = j.touched /\ k.restoreRemaining = j.restoreRemaining
         /\ k.requireConfirmation = j.requireConfirmation
         /\ k.awaitingConfirmation = j.awaitingConfirmation
         /\ k.prepared = j.prepared /\ k.publishAttempted = j.publishAttempted
         /\ k.restoreFailed = j.restoreFailed
  BY DEF JointType

(* What a receipt makes of the machine, as far as the runtimes care.        *)
Kept(j, k) ==
  /\ k.request = j.request /\ k.prepared = j.prepared /\ k.publishAttempted = j.publishAttempted
  /\ k.requireConfirmation = j.requireConfirmation /\ k.awaitingConfirmation = j.awaitingConfirmation

Undone(j, k, result, current) ==
  /\ Kept(j, k) /\ k.state = "RUNNING"
  /\ \/ /\ j.step = "RESOLVE" /\ current = j.request.base /\ j.prepared
        /\ k.step \in Undoing /\ (k.step = "ABANDON" => ~j.awaitingConfirmation /\ k.touched = 0)
     \/ j.step = "SHELL_RESTORE" /\ k.step = "NATIVE_RESTORE"
     \/ j.step = "NATIVE_RESTORE" /\ k.step = "ABANDON" /\ result = "OK"

Advanced(j, k, result, current) ==
  \/ /\ j.step = "BASE" /\ current = j.request.base
     /\ k.step = "STORE_PREPARE" /\ k.state = "RUNNING" /\ k.prepared
     /\ k.request = j.request /\ k.publishAttempted = j.publishAttempted
     /\ k.awaitingConfirmation = j.awaitingConfirmation
  \/ /\ j.step \in DOMAIN Follows /\ result = "OK" /\ Kept(j, k)
     /\ k.step = Follows[j.step] /\ k.state = "RUNNING"
  \/ /\ j.step = "SHELL_VERIFY" /\ j.requireConfirmation
     /\ k.step = j.step /\ k.state = j.state /\ k.awaitingConfirmation
     /\ k.requireConfirmation = j.requireConfirmation
     /\ k.request = j.request /\ k.prepared = j.prepared /\ k.publishAttempted = j.publishAttempted
  \/ /\ j.step = "SHELL_VERIFY" /\ ~j.requireConfirmation
     /\ k.step = "PUBLISH" /\ k.state = "RUNNING" /\ k.publishAttempted
     /\ k.requireConfirmation = j.requireConfirmation
     /\ k.request = j.request /\ k.prepared = j.prepared /\ k.awaitingConfirmation = j.awaitingConfirmation
  \/ /\ j.step = "RESOLVE" /\ current = j.request.candidate /\ j.publishAttempted /\ Kept(j, k)
     /\ k.step = "NATIVE_FINAL_VERIFY" /\ k.state = "RUNNING"

Ended(j, k, current) ==
  /\ Kept(j, k) /\ k.step = j.step /\ k.touched = j.touched
  /\ \/ k.state = "UNKNOWN"
     \/ k.state = "STALE" /\ j.step = "BASE"
     \/ k.state = "COMPLETE" /\ j.step = "SHELL_CONFIRM"
     \/ k.state = "ABORTED" /\ j.step = "ABANDON"
     \/ k.state = "ABORTED" /\ j.step = "RESOLVE" /\ ~j.prepared /\ current = j.request.base

Resolving(j, k) == Kept(j, k) /\ k.step = "RESOLVE" /\ k.state = "RUNNING"

Effect(j, k, result, current) ==
  \/ Spent(k)
  \/ Undone(j, k, result, current)
  \/ Advanced(j, k, result, current)
  \/ Ended(j, k, current)
  \/ result = "FAILED" /\ Resolving(j, k)

Good(j, k, result, current) ==
  k \in JointType /\ JointInv(k) /\ k.request = j.request /\ Effect(j, k, result, current)

LEMMA PendingFacts ==
  ASSUME NEW j \in JointType, JointInv(j), j.pending # NoCommand
  PROVE  /\ Requested(j) /\ ProgressInv(j) /\ ~Spent(j)
         /\ j.state \in {"RUNNING", "UNKNOWN"}
<1>1. ~Spent(j)
  BY DEF Spent
<1>2. j.request \in Requests \cup {NoRequest}
  BY DEF JointType
<1> QED
  BY <1>1, <1>2 DEF JointInv, PendingInv, RequestInv, Requested

(* issue(), as far as the runtimes care.                                    *)
LEMMA IssueKept ==
  ASSUME NEW a \in JointType, NEW s \in Steps \ {"STORE_PREPARE", "PUBLISH"}, a.request \in Requests,
         a.pending = NoCommand, NEW k, k = Issue(a, s)
  PROVE  /\ k \in JointType /\ k.request = a.request
         /\ Spent(k) \/ (Kept(a, k) /\ k.state = "RUNNING" /\ k.step = s)
         /\ s = "ABANDON" => Spent(k) \/ k.touched = a.touched
<1>1. CASE a.ticket = MaxTicket
  BY <1>1, IssueFacts DEF Spent
<1>2. CASE a.ticket # MaxTicket
  <2>1. a.prepared \in BOOLEAN /\ a.publishAttempted \in BOOLEAN
    BY DEF JointType
  <2>2. k.prepared = (a.prepared \/ s = "STORE_PREPARE") /\ k.publishAttempted = (a.publishAttempted \/ s = "PUBLISH")
    BY <1>2, IssueFacts
  <2>3. k.prepared = a.prepared /\ k.publishAttempted = a.publishAttempted
    BY <2>1, <2>2
  <2> QED
    BY <1>2, <2>3, IssueFacts DEF Kept
<1> QED
  BY <1>1, <1>2

(* A machine whose receipt ended what was going on.                         *)
LEMMA EndJoint ==
  ASSUME NEW j \in JointType, NEW k \in JointType, Requested(j), ProgressInv(j), Ended(j, k, j.request.base),
         k.pending = NoCommand, k.touched = j.touched, k.restoreRemaining = j.restoreRemaining
  PROVE  JointInv(k)
<1>1. PendingInv(k)
  BY DEF PendingInv
<1>2. RequestInv(k)
  BY EmptyAssumption DEF RequestInv, Requested, Ended, Kept
<1>3. ProgressInv(k)
  BY DEF ProgressInv, Ended, Kept, Opening, Trying, Undoing, Going
<1> QED
  BY <1>1, <1>2, <1>3 DEF JointInv

(* restoreNext() from a machine whose receipt has been consumed.            *)
LEMMA RestoreNextJoint ==
  ASSUME NEW j \in JointType, NEW a \in JointType, NEW k, k = RestoreNext(a),
         Requested(j), ProgressInv(j), Kept(j, a), a.pending = NoCommand, a.step = j.step,
         a.touched = j.touched,
         NEW result, NEW current, result = "FAILED" => a.restoreFailed \/ j.step # "NATIVE_RESTORE",
         \/ j.step = "RESOLVE" /\ a.restoreRemaining = j.touched /\ current = j.request.base
         \/ j.step \in RestoreSteps /\ a.restoreRemaining = j.restoreRemaining /\ result \in {"OK", "FAILED"}
  PROVE  Good(j, k, result, current)
<1>0. Requested(a) /\ a.request \in Requests /\ a.restoreRemaining \in 0 .. 2 /\ "UNKNOWN" \in States /\ "ABORTED" \in States
  BY DEF Kept, Requested, JointType, States
<1>1. CASE a.restoreRemaining = 2
  <2> DEFINE b == [a EXCEPT !.restoreRemaining = 1]
  <2>1. /\ b \in JointType /\ b.request = a.request /\ b.pending = NoCommand /\ b.restoreRemaining = 1
        /\ b.touched = a.touched /\ b.ticket = a.ticket /\ b.step = a.step
        /\ Kept(a, b)
    BY DEF JointType, Kept
  <2>2. k = Issue(b, "SHELL_RESTORE")
    BY <1>1 DEF RestoreNext
  <2> HIDE DEF b
  <2>3. "SHELL_RESTORE" \in Steps
    BY DEF Steps, Dispatch
  <2>4. j.step = "RESOLVE" /\ j.touched = 2 /\ current = j.request.base
    BY <1>1 DEF ProgressInv, RestoreSteps
  <2>5. May(b, "SHELL_RESTORE")
    BY <2>1, <2>4 DEF May, ProgressInv, Kept, Opening, Trying, Undoing, Going
  <2>6. Requested(b)
    BY <1>0, <2>1 DEF Requested
  <2>7. JointInv(k)
    BY <2>1, <2>2, <2>3, <2>5, <2>6, IssueJoint
  <2>8. j.prepared
    BY <2>4 DEF ProgressInv
  <2>9. /\ k \in JointType /\ k.request = j.request
        /\ Spent(k) \/ (Kept(b, k) /\ k.state = "RUNNING" /\ k.step = "SHELL_RESTORE")
    BY <1>0, <2>1, <2>2, <2>3, IssueKept DEF Kept
  <2>11. Kept(b, k) => Kept(j, k)
    BY <2>1 DEF Kept
  <2>12. Spent(k) \/ Undone(j, k, result, current)
    BY <2>4, <2>8, <2>9, <2>11 DEF Undone, Undoing
  <2> QED
    BY <2>7, <2>9, <2>12 DEF Good, Effect
<1>2. CASE a.restoreRemaining = 1
  <2> DEFINE b == [a EXCEPT !.restoreRemaining = 0]
  <2>1. /\ b \in JointType /\ b.request = a.request /\ b.pending = NoCommand /\ b.restoreRemaining = 0
        /\ b.touched = a.touched /\ b.ticket = a.ticket /\ b.step = a.step
        /\ Kept(a, b)
    BY DEF JointType, Kept
  <2>2. k = Issue(b, "NATIVE_RESTORE")
    BY <1>2 DEF RestoreNext
  <2> HIDE DEF b
  <2>3. "NATIVE_RESTORE" \in Steps
    BY DEF Steps, Dispatch
  <2>4. \/ j.step = "RESOLVE" /\ j.touched = 1 /\ current = j.request.base
        \/ j.step = "SHELL_RESTORE"
    BY <1>2 DEF ProgressInv, RestoreSteps
  <2>8. j.prepared
    BY <2>4 DEF ProgressInv
  <2>5. May(b, "NATIVE_RESTORE")
    BY <2>1, <2>4, <2>8 DEF May, ProgressInv, Kept, Opening, Trying, Undoing, Going
  <2>6. Requested(b)
    BY <1>0, <2>1 DEF Requested
  <2>7. JointInv(k)
    BY <2>1, <2>2, <2>3, <2>5, <2>6, IssueJoint
  <2>9. /\ k \in JointType /\ k.request = j.request
        /\ Spent(k) \/ (Kept(b, k) /\ k.state = "RUNNING" /\ k.step = "NATIVE_RESTORE")
    BY <1>0, <2>1, <2>2, <2>3, IssueKept DEF Kept
  <2>11. Kept(b, k) => Kept(j, k)
    BY <2>1 DEF Kept
  <2>12. Spent(k) \/ Undone(j, k, result, current)
    BY <2>4, <2>8, <2>9, <2>11 DEF Undone, Undoing
  <2> QED
    BY <2>7, <2>9, <2>12 DEF Good, Effect
<1>3. CASE a.restoreRemaining = 0 /\ ~a.restoreFailed /\ a.prepared
  <2>2. k = Issue(a, "ABANDON")
    BY <1>3 DEF RestoreNext
  <2>3. "ABANDON" \in Steps
    BY DEF Steps, Dispatch
  <2>4. \/ j.step = "RESOLVE" /\ j.touched = 0 /\ current = j.request.base
        \/ j.step = "NATIVE_RESTORE" /\ result = "OK"
    BY <1>3 DEF ProgressInv, RestoreSteps
  <2>8. j.prepared
    BY <1>3 DEF Kept
  <2>5. May(a, "ABANDON")
    BY <2>4, <2>8 DEF May, ProgressInv, Kept, Opening, Trying, Undoing, Going
  <2>7. JointInv(k)
    BY <1>0, <2>2, <2>3, <2>5, IssueJoint
  <2>10. j.step = "RESOLVE" => ~j.awaitingConfirmation /\ j.touched = 0
    BY <2>4 DEF ProgressInv
  <2>9. /\ k \in JointType /\ k.request = j.request
        /\ Spent(k) \/ (Kept(a, k) /\ k.state = "RUNNING" /\ k.step = "ABANDON" /\ k.touched = j.touched)
    BY <1>0, <2>2, <2>3, IssueKept DEF Kept
  <2>11. Kept(a, k) => Kept(j, k)
    BY DEF Kept
  <2>12. Spent(k) \/ Undone(j, k, result, current)
    BY <2>4, <2>10, <2>8, <2>9, <2>11 DEF Undone, Undoing
  <2> QED
    BY <2>7, <2>9, <2>12 DEF Good, Effect
<1>4. CASE a.restoreRemaining = 0 /\ a.restoreFailed
  <2>1. k = [a EXCEPT !.state = "UNKNOWN"]
    BY <1>4 DEF RestoreNext
  <2>2. /\ k \in JointType /\ k.pending = NoCommand /\ k.touched = j.touched
        /\ k.restoreRemaining = a.restoreRemaining /\ k.step = j.step /\ k.state = "UNKNOWN"
        /\ Kept(j, k)
    BY <1>0, <2>1, VerdictFacts DEF Kept
  <2>3. Ended(j, k, current)
    BY <2>2 DEF Ended
  <2>4. PendingInv(k)
    BY <2>2 DEF PendingInv
  <2>5. RequestInv(k)
    BY <2>2, EmptyAssumption DEF RequestInv, Requested, Kept
  <2>6. ProgressInv(k)
    BY <1>4, <2>2 DEF ProgressInv, Kept, Opening, Trying, Undoing, Going, RestoreSteps
  <2> QED
    BY <2>2, <2>3, <2>4, <2>5, <2>6 DEF Good, Effect, JointInv, Kept
<1>5. CASE a.restoreRemaining = 0 /\ ~a.restoreFailed /\ ~a.prepared
  <2>1. k = [a EXCEPT !.state = "ABORTED"]
    BY <1>5 DEF RestoreNext
  <2>2. /\ k \in JointType /\ k.pending = NoCommand /\ k.touched = j.touched
        /\ k.restoreRemaining = a.restoreRemaining /\ k.step = j.step /\ k.state = "ABORTED"
        /\ Kept(j, k)
    BY <1>0, <2>1, VerdictFacts DEF Kept
  <2>7. j.step = "RESOLVE" /\ ~j.prepared /\ current = j.request.base
    BY <1>5 DEF ProgressInv, Kept, RestoreSteps
  <2>3. Ended(j, k, current)
    BY <2>2, <2>7 DEF Ended
  <2>4. PendingInv(k)
    BY <2>2 DEF PendingInv
  <2>5. RequestInv(k)
    BY <2>2, EmptyAssumption DEF RequestInv, Requested, Kept
  <2>6. ProgressInv(k)
    BY <2>2, <2>7 DEF ProgressInv, Kept, Opening, Trying, Undoing, Going, RestoreSteps
  <2> QED
    BY <2>2, <2>3, <2>4, <2>5, <2>6 DEF Good, Effect, JointInv, Kept
<1> QED
  BY <1>0, <1>1, <1>2, <1>3, <1>4, <1>5

(* Two ways a receipt ends: the step is answered, or nobody can vouch.      *)
LEMMA EndGood ==
  ASSUME NEW j \in JointType, JointInv(j), j.pending # NoCommand, NEW v \in States, NEW result, NEW current,
         NEW k, k = [Answered(j) EXCEPT !.state = v],
         \/ v = "UNKNOWN"
         \/ v = "STALE" /\ j.step = "BASE"
         \/ v = "COMPLETE" /\ j.step = "SHELL_CONFIRM"
         \/ v = "ABORTED" /\ j.step = "ABANDON"
  PROVE  Good(j, k, result, current)
<1>1. Requested(j) /\ ProgressInv(j)
  BY PendingFacts
<1> DEFINE a == Answered(j)
<1>2. a \in JointType /\ Kept(j, a) /\ a.pending = NoCommand /\ a.step = j.step
      /\ a.touched = j.touched /\ a.restoreRemaining = j.restoreRemaining
  BY AnsweredFacts DEF Kept
<1>3. k = [a EXCEPT !.state = v]
  OBVIOUS
<1> HIDE DEF a
<1>7. /\ Kept(a, k) /\ k \in JointType /\ k.pending = a.pending /\ k.step = a.step /\ k.state = v
      /\ k.touched = a.touched /\ k.restoreRemaining = a.restoreRemaining
  BY <1>2, <1>3 DEF Kept, JointType
<1>4. /\ k \in JointType /\ k.pending = NoCommand /\ k.step = j.step /\ k.state = v /\ Kept(j, k)
      /\ k.touched = j.touched /\ k.restoreRemaining = j.restoreRemaining
  <2>1. Kept(j, k)
    BY <1>2, <1>7 DEF Kept
  <2> QED
    BY <1>2, <1>7, <2>1
<1>5. Ended(j, k, j.request.base) /\ Ended(j, k, current)
  BY <1>4 DEF Ended
<1>6. JointInv(k)
  BY <1>1, <1>4, <1>5, EndJoint
<1> QED
  BY <1>4, <1>5, <1>6 DEF Good, Effect, Kept

(* A step that leads to the next one.                                       *)
LEMMA NextGood ==
  ASSUME NEW j \in JointType, JointInv(j), j.pending # NoCommand, NEW result, NEW current,
         NEW s \in Steps \ {"STORE_PREPARE", "PUBLISH"}, NEW k, k = Issue(Answered(j), s), May(j, s),
         \/ s = "RESOLVE" /\ result = "FAILED"
         \/ j.step \in DOMAIN Follows /\ result = "OK" /\ s = Follows[j.step]
         \/ j.step = "RESOLVE" /\ current = j.request.candidate /\ j.publishAttempted /\ s = "NATIVE_FINAL_VERIFY"
  PROVE  Good(j, k, result, current)
<1>1. Requested(j)
  BY PendingFacts
<1> DEFINE a == Answered(j)
<1>2. /\ a \in JointType /\ Kept(j, a) /\ a.pending = NoCommand
      /\ a.touched = j.touched /\ a.restoreRemaining = j.restoreRemaining
  BY AnsweredFacts DEF Kept
<1>3. k = Issue(a, s)
  OBVIOUS
<1> HIDE DEF a
<1>4. May(a, s)
  BY <1>2 DEF May, Kept
<1>5. Requested(a)
  BY <1>1, <1>2 DEF Requested, Kept
<1>6. JointInv(k)
  BY <1>2, <1>3, <1>4, <1>5, IssueJoint
<1>7. a.request \in Requests
  BY <1>5 DEF Requested
<1>8. /\ k \in JointType /\ k.request = a.request
      /\ Spent(k) \/ (Kept(a, k) /\ k.state = "RUNNING" /\ k.step = s)
  BY <1>2, <1>3, <1>7, IssueKept
<1>9. Kept(a, k) => Kept(j, k)
  BY <1>2 DEF Kept
<1>10. Effect(j, k, result, current)
  BY <1>8, <1>9 DEF Effect, Advanced, Resolving
<1> QED
  BY <1>2, <1>6, <1>8, <1>10 DEF Good, Kept

LEMMA ReplyGood ==
  ASSUME NEW j \in JointType, JointInv(j), NEW result, NEW current,
         Reply(j, j.pending, result, current)
  PROVE  Good(j, joint', result, current)
<1>1. j.pending # NoCommand
  BY DEF Reply
<1>2. Requested(j) /\ ProgressInv(j) /\ j.step \in Steps
  BY <1>1, PendingFacts DEF JointType
<1>3. /\ "UNKNOWN" \in States /\ "STALE" \in States /\ "COMPLETE" \in States /\ "ABORTED" \in States
      /\ {"STORE_PREPARE", "PUBLISH", "RESOLVE", "NATIVE_FINAL_VERIFY"} \subseteq Steps
  BY DEF States, Steps, Dispatch
<1>4. /\ Answered(j) \in JointType /\ Kept(j, Answered(j)) /\ Answered(j).pending = NoCommand
      /\ Answered(j).step = j.step /\ Answered(j).state = j.state /\ Answered(j).ticket = j.ticket
      /\ Answered(j).touched = j.touched /\ Answered(j).restoreRemaining = j.restoreRemaining
      /\ Answered(j).restoreFailed = j.restoreFailed
  BY AnsweredFacts DEF Kept
<1>a. CASE ReplyUnresolved(j, result, current)
  <2>1. joint' = [j EXCEPT !.state = "UNKNOWN"]
    BY <1>a DEF ReplyUnresolved
  <2>2. /\ joint' \in JointType /\ joint'.pending = j.pending /\ joint'.step = j.step
        /\ joint'.state = "UNKNOWN" /\ Kept(j, joint')
        /\ joint'.touched = j.touched /\ joint'.restoreRemaining = j.restoreRemaining
    BY <1>3, <2>1, VerdictFacts DEF Kept
  <2>3. PendingInv(joint') /\ RequestInv(joint')
    BY <1>1, <2>2 DEF PendingInv, RequestInv, JointInv, Kept
  <2>4. ProgressInv(joint')
    BY <1>2, <2>2, <1>1 DEF ProgressInv, Kept
  <2> QED
    BY <2>2, <2>3, <2>4 DEF Good, Effect, Ended, JointInv, Kept
<1>b. CASE ReplyRestore(j, result)
  <2> DEFINE a == [Answered(j) EXCEPT !.restoreFailed = @ \/ result = "FAILED"]
  <2>1. /\ a \in JointType /\ a.restoreFailed = (j.restoreFailed \/ result = "FAILED")
        /\ Kept(j, a) /\ a.pending = NoCommand /\ a.step = j.step /\ a.touched = j.touched
        /\ a.restoreRemaining = j.restoreRemaining
    <3> DEFINE f == Answered(j).restoreFailed \/ result = "FAILED"
    <3>1. f \in BOOLEAN /\ f = (j.restoreFailed \/ result = "FAILED")
      BY <1>4
    <3>2. a = [Answered(j) EXCEPT !.restoreFailed = f]
      OBVIOUS
    <3> HIDE DEF a, f
    <3> QED
      BY <1>4, <3>1, <3>2 DEF JointType, Kept
  <2>2. joint' = RestoreNext(a)
    BY <1>b DEF ReplyRestore
  <2> HIDE DEF a
  <2>3. j.step \in RestoreSteps /\ result \in {"OK", "FAILED"}
    BY <1>b DEF ReplyRestore
  <2>4. result = "FAILED" => a.restoreFailed
    BY <2>1
  <2> QED
    BY <1>2, <2>1, <2>2, <2>3, <2>4, RestoreNextJoint
<1>c. CASE ReplyFailed(j, result)
  <2>1. CASE j.step \in UndecidedSteps
    <3>1. joint' = [Answered(j) EXCEPT !.state = "UNKNOWN"]
      BY <1>c, <2>1 DEF ReplyFailed
    <3> QED
      BY <1>1, <1>3, <3>1, EndGood
  <2>2. CASE j.step \notin UndecidedSteps
    <3>1. joint' = Issue(Answered(j), "RESOLVE") /\ result = "FAILED" /\ j.step \notin RestoreSteps
      BY <1>c, <2>2 DEF ReplyFailed
    <3>2. May(j, "RESOLVE")
      BY <1>2, <2>2, <3>1 DEF May, ProgressInv, UndecidedSteps, RestoreSteps, Opening, Trying, Undoing, Going
    <3> QED
      BY <1>1, <1>3, <3>1, <3>2, NextGood
  <2> QED
    BY <2>1, <2>2
<1>d. CASE ReplyBase(j, result, current)
  <2>1. CASE current # j.request.base
    <3>1. joint' = [Answered(j) EXCEPT !.state = "STALE"] /\ j.step = "BASE"
      BY <1>d, <2>1 DEF ReplyBase
    <3> QED
      BY <1>1, <1>3, <3>1, EndGood
  <2>2. CASE current = j.request.base
    <3>1. joint' = Issue(Answered(j), "STORE_PREPARE") /\ j.step = "BASE"
      BY <1>d, <2>2 DEF ReplyBase
    <3>2. May(Answered(j), "STORE_PREPARE")
      BY <1>1, <1>2, <1>4, <3>1 DEF May, ProgressInv, Kept, Opening, Trying, Undoing, Going
    <3>3. Requested(Answered(j)) /\ Answered(j).request \in Requests
      BY <1>2, <1>4 DEF Requested, Kept
    <3>4. JointInv(joint')
      BY <1>3, <1>4, <3>1, <3>2, <3>3, IssueJoint
    <3>5. Answered(j).publishAttempted \in BOOLEAN
      BY <1>4 DEF JointType
    <3>6. joint' \in JointType /\ joint'.request = j.request /\ joint'.awaitingConfirmation = j.awaitingConfirmation
      BY <1>3, <1>4, <3>1, <3>3, IssueFacts DEF Kept
    <3>7. CASE j.ticket = MaxTicket
      BY <1>3, <1>4, <3>1, <3>3, <3>4, <3>6, <3>7, IssueFacts DEF Good, Effect, Spent
    <3>8. CASE j.ticket # MaxTicket
      <4>1. /\ joint'.state = "RUNNING" /\ joint'.step = "STORE_PREPARE" /\ joint'.prepared
            /\ joint'.publishAttempted = j.publishAttempted
        <5>1. Answered(j).ticket # MaxTicket /\ Answered(j).publishAttempted = j.publishAttempted
          BY <1>4, <3>8 DEF Kept
        <5>2. /\ joint'.state = "RUNNING" /\ joint'.step = "STORE_PREPARE"
              /\ joint'.publishAttempted = (Answered(j).publishAttempted \/ "STORE_PREPARE" = "PUBLISH")
              /\ joint'.prepared = (Answered(j).prepared \/ "STORE_PREPARE" = "STORE_PREPARE")
          BY <1>3, <1>4, <3>1, <3>3, <5>1, IssueFacts
        <5> QED
          BY <3>5, <5>1, <5>2
      <4> QED
        BY <2>2, <3>1, <3>4, <3>6, <4>1 DEF Good, Effect, Advanced
    <3> QED
      BY <3>7, <3>8
  <2> QED
    BY <2>1, <2>2
<1>e. CASE ReplyAdvance(j, result)
  <2> DEFINE s == Follows[j.step]
  <2>1. joint' = Issue(Answered(j), s) /\ j.step \in DOMAIN Follows /\ result = "OK"
    BY <1>e DEF ReplyAdvance
  <2>2. s \in Steps \ {"STORE_PREPARE", "PUBLISH"}
    BY <2>1 DEF Follows, Steps, Dispatch
  <2>3. May(j, s)
    BY <1>1, <1>2, <2>1 DEF Follows, May, ProgressInv, Opening, Trying, Undoing, Going
  <2> HIDE DEF s
  <2>4. s = Follows[j.step]
    BY DEF s
  <2> QED
    BY <1>1, <2>1, <2>2, <2>3, <2>4, NextGood
<1>f. CASE ReplyShellVerify(j, result)
  <2>0. j.step = "SHELL_VERIFY"
    BY <1>f DEF ReplyShellVerify
  <2>1. CASE j.requireConfirmation
    <3> DEFINE a == Answered(j)
    <3>1. joint' = [a EXCEPT !.awaitingConfirmation = TRUE]
      BY <1>f, <2>1 DEF ReplyShellVerify
    <3> HIDE DEF a
    <3>2. a \in JointType /\ Kept(j, a) /\ a.pending = NoCommand /\ a.step = j.step /\ a.state = j.state
          /\ a.touched = j.touched /\ a.restoreRemaining = j.restoreRemaining
      BY <1>4 DEF a
    <3>3. /\ joint' \in JointType /\ joint'.awaitingConfirmation /\ joint'.pending = NoCommand
          /\ joint'.step = j.step /\ joint'.state = j.state /\ joint'.touched = j.touched
          /\ joint'.restoreRemaining = j.restoreRemaining
          /\ joint'.request = j.request /\ joint'.prepared = j.prepared
          /\ joint'.requireConfirmation = j.requireConfirmation
          /\ joint'.publishAttempted = j.publishAttempted
      BY <3>1, <3>2 DEF JointType, Kept
    <3>4. j.state \in {"RUNNING", "UNKNOWN"}
      BY <1>1, PendingFacts
    <3>5. PendingInv(joint') /\ RequestInv(joint')
      BY <1>2, <3>3, EmptyAssumption DEF PendingInv, RequestInv, Requested
    <3>6. ProgressInv(joint')
      BY <1>2, <2>0, <2>1, <3>3, <3>4 DEF ProgressInv, Opening, Trying, Undoing, Going
    <3> QED
      BY <2>0, <2>1, <3>3, <3>5, <3>6 DEF Good, Effect, Advanced, JointInv
  <2>2. CASE ~j.requireConfirmation
    <3>1. joint' = Issue(Answered(j), "PUBLISH")
      BY <1>f, <2>2 DEF ReplyShellVerify
    <3>2. May(Answered(j), "PUBLISH")
      BY <1>1, <1>2, <1>4, <2>0, <2>2 DEF May, ProgressInv, Kept, Opening, Trying, Undoing, Going
    <3>3. Requested(Answered(j)) /\ Answered(j).request \in Requests
      BY <1>2, <1>4 DEF Requested, Kept
    <3>4. JointInv(joint')
      BY <1>3, <1>4, <3>1, <3>2, <3>3, IssueJoint
    <3>5. Answered(j).prepared \in BOOLEAN
      BY <1>4 DEF JointType
    <3>6. /\ joint' \in JointType /\ joint'.request = j.request
          /\ joint'.awaitingConfirmation = j.awaitingConfirmation
          /\ joint'.requireConfirmation = j.requireConfirmation
      BY <1>3, <1>4, <3>1, <3>3, IssueFacts DEF Kept
    <3>7. CASE j.ticket = MaxTicket
      BY <1>3, <1>4, <3>1, <3>3, <3>4, <3>6, <3>7, IssueFacts DEF Good, Effect, Spent
    <3>8. CASE j.ticket # MaxTicket
      <4>1. /\ joint'.state = "RUNNING" /\ joint'.step = "PUBLISH" /\ joint'.publishAttempted
            /\ joint'.prepared = j.prepared
        <5>1. Answered(j).ticket # MaxTicket /\ Answered(j).prepared = j.prepared
          BY <1>4, <3>8 DEF Kept
        <5>2. /\ joint'.state = "RUNNING" /\ joint'.step = "PUBLISH"
              /\ joint'.publishAttempted = (Answered(j).publishAttempted \/ "PUBLISH" = "PUBLISH")
              /\ joint'.prepared = (Answered(j).prepared \/ "PUBLISH" = "STORE_PREPARE")
          BY <1>3, <1>4, <3>1, <3>3, <5>1, IssueFacts
        <5> QED
          BY <3>5, <5>1, <5>2
      <4> QED
        BY <2>0, <2>2, <3>4, <3>6, <4>1 DEF Good, Effect, Advanced
    <3> QED
      BY <3>7, <3>8
  <2> QED
    BY <2>1, <2>2
<1>g. CASE ReplyResolve(j, result, current)
  <2>0. j.step = "RESOLVE"
    BY <1>g DEF ReplyResolve
  <2>1. CASE current = j.request.candidate /\ j.publishAttempted
    <3>1. joint' = Issue(Answered(j), "NATIVE_FINAL_VERIFY")
      BY <1>g, <2>1 DEF ReplyResolve
    <3>2. May(j, "NATIVE_FINAL_VERIFY")
      BY <1>1, <1>2, <2>0, <2>1 DEF May, ProgressInv, Opening, Trying, Undoing, Going
    <3> QED
      BY <1>1, <1>3, <2>0, <2>1, <3>1, <3>2, NextGood
  <2>2. CASE ~(current = j.request.candidate /\ j.publishAttempted) /\ current = j.request.base
    <3> DEFINE a == [Answered(j) EXCEPT !.restoreRemaining = j.touched, !.restoreFailed = FALSE]
    <3>1. joint' = RestoreNext(a)
      BY <1>g, <2>2 DEF ReplyResolve
    <3>2. j.touched \in 0 .. 2 /\ FALSE \in BOOLEAN
      BY DEF JointType
    <3>3. /\ a \in JointType /\ Kept(j, a) /\ a.pending = NoCommand /\ a.step = j.step
          /\ a.touched = j.touched /\ a.restoreRemaining = j.touched
      BY <1>4, <3>2 DEF JointType, Kept
    <3> HIDE DEF a
    <3> QED
      BY <1>2, <2>0, <2>2, <3>1, <3>3, RestoreNextJoint
  <2>3. CASE ~(current = j.request.candidate /\ j.publishAttempted) /\ current # j.request.base
    <3>1. joint' = [Answered(j) EXCEPT !.state = "UNKNOWN"]
      BY <1>g, <2>3 DEF ReplyResolve
    <3> QED
      BY <1>1, <1>3, <3>1, EndGood
  <2> QED
    BY <2>1, <2>2, <2>3
<1>h. CASE ReplyFinish(j, result)
  <2>1. CASE j.step = "SHELL_CONFIRM" /\ joint' = [Answered(j) EXCEPT !.state = "COMPLETE"]
    BY <1>1, <1>3, <2>1, EndGood
  <2>2. CASE j.step = "ABANDON" /\ joint' = [Answered(j) EXCEPT !.state = "ABORTED"]
    BY <1>1, <1>3, <2>2, EndGood
  <2> QED
    BY <1>h, <2>1, <2>2 DEF ReplyFinish
<1> QED
  BY <1>a, <1>b, <1>c, <1>d, <1>e, <1>f, <1>g, <1>h DEF Reply

(* start(), on a machine that is not running.                               *)
LEMMA StartGood ==
  ASSUME joint \in JointType, JointInv(joint), NEW r \in Requests, Start(r)
  PROVE  /\ joint' \in JointType /\ JointInv(joint') /\ joint'.request = r
         /\ joint.state \notin {"RUNNING", "UNKNOWN"}
         /\ Spent(joint') \/ (/\ joint'.state = "RUNNING" /\ joint'.step = "BASE" /\ ~joint'.prepared
                              /\ ~joint'.publishAttempted /\ ~joint'.awaitingConfirmation)
<1> DEFINE k == [joint EXCEPT !.request = r,
                              !.requireConfirmation = FALSE, !.awaitingConfirmation = FALSE,
                              !.touched = 0, !.restoreRemaining = 0, !.prepared = FALSE,
                              !.publishAttempted = FALSE, !.restoreFailed = FALSE]
<1>1. joint' = Issue(k, "BASE") /\ r.base # r.candidate /\ joint.state \notin {"RUNNING", "UNKNOWN"}
  BY DEF Start, Accepts
<1>2. joint.pending = NoCommand
  BY <1>1 DEF JointInv, PendingInv
<1>3. /\ k.request = r /\ k.pending = NoCommand /\ k.touched = 0 /\ k.ticket = joint.ticket
      /\ ~k.awaitingConfirmation /\ ~k.publishAttempted /\ ~k.requireConfirmation /\ ~k.prepared
      /\ k.prepared = FALSE /\ k.publishAttempted = FALSE
  BY <1>2 DEF JointType
<1>4. k \in JointType
  <2> DEFINE f == FALSE
             z == 0
  <2>1. f \in BOOLEAN /\ z \in 0 .. 2 /\ r \in Requests \cup {NoRequest}
    OBVIOUS
  <2>2. k = [joint EXCEPT !.request = r, !.requireConfirmation = f, !.awaitingConfirmation = f,
                          !.touched = z, !.restoreRemaining = z, !.prepared = f,
                          !.publishAttempted = f, !.restoreFailed = f]
    OBVIOUS
  <2> HIDE DEF k, f, z
  <2> QED
    BY <2>1, <2>2 DEF JointType
<1> HIDE DEF k
<1>5. "BASE" \in Steps /\ "BASE" \in Steps \ {"STORE_PREPARE", "PUBLISH"}
  BY DEF Steps, Dispatch
<1>6. May(k, "BASE")
  BY <1>3 DEF May, Opening, Trying, Going, Undoing
<1>7. Requested(k)
  BY <1>1, <1>3 DEF Requested
<1>8. JointInv(joint')
  BY <1>1, <1>3, <1>4, <1>5, <1>6, <1>7, IssueJoint
<1>9. k.request \in Requests
  BY <1>3
<1>10. /\ joint' \in JointType /\ joint'.request = k.request
       /\ Spent(joint') \/ (Kept(k, joint') /\ joint'.state = "RUNNING" /\ joint'.step = "BASE")
  BY <1>1, <1>3, <1>4, <1>5, <1>9, IssueKept
<1> QED
  BY <1>1, <1>3, <1>8, <1>10 DEF Kept

(* recover() asks the store again.                                          *)
LEMMA RecoverGood ==
  ASSUME joint \in JointType, JointInv(joint), NEW r \in Requests, Recover(r)
  PROVE  /\ joint' \in JointType /\ JointInv(joint') /\ joint'.request = joint.request
         /\ Spent(joint') \/ (Resolving(joint, joint') /\ ~Spent(joint))
<1>1. /\ joint.request \in Requests /\ joint.pending = NoCommand /\ joint.state = "UNKNOWN"
      /\ joint' = Issue(joint, "RESOLVE")
  BY DEF Recover
<1>2. "RESOLVE" \in Steps /\ "RESOLVE" \in Steps \ {"STORE_PREPARE", "PUBLISH"}
  BY DEF Steps, Dispatch
<1>3. joint.request.base # joint.request.candidate
  BY <1>1, EmptyAssumption DEF JointInv, RequestInv
<1>4. /\ joint' \in JointType /\ joint'.request = joint.request
      /\ Spent(joint') \/ (Kept(joint, joint') /\ joint'.state = "RUNNING" /\ joint'.step = "RESOLVE")
  BY <1>1, <1>2, IssueKept
<1>5. CASE Spent(joint)
  <2>1. Spent(joint')
    BY <1>1, <1>2, <1>5, IssueFacts DEF Spent
  <2>2. JointInv(joint')
    BY <1>1, <1>3, <1>4, <2>1, EmptyAssumption DEF JointInv, PendingInv, RequestInv, Spent
  <2> QED
    BY <1>4, <2>1, <2>2
<1>6. CASE ~Spent(joint)
  <2>1. May(joint, "RESOLVE")
    <3>1. ProgressInv(joint)
      BY <1>6 DEF JointInv
    <3> QED
      BY <3>1 DEF May, ProgressInv, Opening, Trying, Going, Undoing
  <2>2. JointInv(joint')
    BY <1>1, <1>2, <1>3, <2>1, IssueJoint DEF Requested
  <2> QED
    BY <1>4, <1>6, <2>2 DEF Resolving
<1> QED
  BY <1>5, <1>6

(* decide(): an answer to the open question.                                *)
Answering(j, k, keep) ==
  /\ ~Spent(j)
  /\ k.request = j.request /\ k.prepared = j.prepared /\ k.requireConfirmation = j.requireConfirmation
  /\ ~k.awaitingConfirmation /\ k.state = "RUNNING"
  /\ k.step = (IF keep THEN "PUBLISH" ELSE "RESOLVE")
  /\ k.publishAttempted = keep

LEMMA DecidedGood ==
  ASSUME NEW j \in JointType, JointInv(j), j.awaitingConfirmation, j.pending = NoCommand,
         NEW keep \in BOOLEAN, NEW k, k = Decided(j, keep)
  PROVE  /\ k \in JointType /\ JointInv(k) /\ k.request = j.request
         /\ Spent(k) \/ Answering(j, k, keep)
<1> DEFINE a == [j EXCEPT !.awaitingConfirmation = FALSE]
           s == IF keep THEN "PUBLISH" ELSE "RESOLVE"
<1>1. k = Issue(a, s)
  BY DEF Decided
<1>2. /\ a \in JointType /\ ~a.awaitingConfirmation /\ a.request = j.request /\ a.pending = NoCommand
      /\ a.ticket = j.ticket /\ a.state = j.state /\ a.step = j.step /\ a.touched = j.touched
      /\ a.prepared = j.prepared /\ a.publishAttempted = j.publishAttempted
      /\ a.requireConfirmation = j.requireConfirmation
  BY DEF JointType
<1>3. s \in Steps /\ s \in {"PUBLISH", "RESOLVE"}
  BY DEF Steps, Dispatch
<1> HIDE DEF a
<1>4. CASE j.request \notin Requests
  <2>1. j.request = NoRequest /\ j.state = "IDLE" /\ j.step = "BASE"
    BY <1>4 DEF JointType, JointInv, RequestInv
  <2>2. ~Spent(j)
    BY <2>1 DEF Spent
  <2> QED
    BY <2>1, <2>2 DEF JointInv, ProgressInv, Opening
<1>5. CASE j.request \in Requests
  <2>1. Requested(a) /\ a.request \in Requests
    BY <1>2, <1>5, EmptyAssumption DEF JointInv, RequestInv, Requested
  <2>2. CASE a.ticket = MaxTicket
    <3>1. Spent(k) /\ k \in JointType /\ k.request = j.request
      BY <1>1, <1>2, <1>3, <2>1, <2>2, IssueFacts DEF Spent
    <3>2. JointInv(k)
      BY <1>2, <2>1, <3>1, EmptyAssumption DEF JointInv, PendingInv, RequestInv, Requested, Spent
    <3> QED
      BY <3>1, <3>2
  <2>3. CASE a.ticket # MaxTicket
    <3>1. ~Spent(j)
      BY <1>2, <2>3 DEF Spent
    <3>2. ProgressInv(j)
      BY <3>1 DEF JointInv
    <3>3. May(a, s)
      BY <1>2, <1>3, <3>2 DEF May, ProgressInv, Opening, Trying, Going, Undoing
    <3> HIDE DEF s
    <3>4. JointInv(k)
      BY <1>1, <1>2, <1>3, <2>1, <3>3, IssueJoint
    <3>5. /\ k \in JointType /\ k.request = j.request
          /\ k.requireConfirmation = j.requireConfirmation /\ ~k.awaitingConfirmation
          /\ k.state = "RUNNING" /\ k.step = s
          /\ k.prepared = (a.prepared \/ s = "STORE_PREPARE")
          /\ k.publishAttempted = (a.publishAttempted \/ s = "PUBLISH")
      BY <1>1, <1>2, <1>3, <2>1, <2>3, IssueFacts
    <3>6. j.prepared /\ ~j.publishAttempted
      BY <3>2 DEF ProgressInv
    <3>7. k.prepared = j.prepared
      BY <1>2, <3>5, <3>6
    <3>8. k.publishAttempted = (s = "PUBLISH")
      BY <1>2, <3>5, <3>6
    <3>9. k.publishAttempted = keep
      BY <3>8 DEF s
    <3>10. k.step = IF keep THEN "PUBLISH" ELSE "RESOLVE"
      BY <3>5 DEF s
    <3> QED
      BY <3>1, <3>4, <3>5, <3>7, <3>9, <3>10 DEF Answering
  <2> QED
    BY <2>2, <2>3
<1> QED
  BY <1>4, <1>5

(* timeout(): nobody can vouch, and the command stays pending.              *)
LEMMA TimedOutGood ==
  ASSUME NEW j \in JointType, JointInv(j), j.pending # NoCommand, NEW k, k = TimedOut(j)
  PROVE  /\ k \in JointType /\ JointInv(k) /\ k.pending = j.pending
         /\ Kept(j, k) /\ k.step = j.step /\ k.state = "UNKNOWN" /\ k.touched = j.touched
<1>1. /\ k \in JointType /\ k.pending = j.pending /\ k.step = j.step /\ k.state = "UNKNOWN"
      /\ Kept(j, k) /\ k.touched = j.touched /\ k.restoreRemaining = j.restoreRemaining
  BY DEF TimedOut, JointType, States, Kept
<1>2. ProgressInv(j)
  BY PendingFacts
<1>3. PendingInv(k) /\ RequestInv(k)
  BY <1>1 DEF PendingInv, RequestInv, JointInv, Kept
<1>4. ProgressInv(k)
  BY <1>1, <1>2 DEF ProgressInv, Kept
<1> QED
  BY <1>1, <1>3, <1>4 DEF JointInv

(* requireConfirmation(), called by the preparation of the display.         *)
LEMMA RequireGood ==
  ASSUME NEW j \in JointType, JointInv(j), j.pending # NoCommand, j.step = "NATIVE_PREPARE",
         NEW k, k = RequireConfirmation(j)
  PROVE  /\ k \in JointType /\ JointInv(k) /\ k.pending = j.pending
         /\ k.requireConfirmation /\ k.request = j.request /\ k.step = j.step /\ k.state = j.state
         /\ k.prepared = j.prepared /\ k.publishAttempted = j.publishAttempted
         /\ k.awaitingConfirmation = j.awaitingConfirmation
<1>1. k = [j EXCEPT !.requireConfirmation = TRUE]
  BY DEF RequireConfirmation
<1>2. /\ k \in JointType /\ k.pending = j.pending /\ k.step = j.step /\ k.state = j.state
      /\ k.touched = j.touched /\ k.restoreRemaining = j.restoreRemaining
      /\ k.requireConfirmation /\ k.request = j.request
      /\ k.prepared = j.prepared /\ k.publishAttempted = j.publishAttempted
      /\ k.awaitingConfirmation = j.awaitingConfirmation
  BY <1>1 DEF JointType
<1>3. ProgressInv(j)
  BY PendingFacts
<1>4. PendingInv(k) /\ RequestInv(k)
  BY <1>2 DEF PendingInv, RequestInv, JointInv
<1>5. ProgressInv(k)
  BY <1>2, <1>3 DEF ProgressInv
<1> QED
  BY <1>2, <1>4, <1>5 DEF JointInv

-----------------------------------------------------------------------------
(* What is completed and confirmed: a receipt of the store names what is    *)
(* completed, and only the native confirmation moves the base.              *)
LEMMA BaseEffect ==
  ASSUME NEW j \in JointType, JointInv(j), j.pending # NoCommand, NEW k \in JointType,
         NEW c \in Generations, NEW g, NEW h, BaseInv(j, c, g),
         NEW result, NEW current, Effect(j, k, result, current),
         j.step \in {"BASE", "RESOLVE"} => current \in {c, Malformed},
         \/ h = g /\ (j.step = "NATIVE_CONFIRM" => result = "FAILED")
         \/ h = j.request.candidate /\ j.step = "NATIVE_CONFIRM"
  PROVE  BaseInv(k, c, h)
<1>1. Requested(j) /\ ProgressInv(j) /\ ~Spent(j)
  BY PendingFacts
<1>2. j.request.base # Malformed /\ j.request.candidate # Malformed /\ j.request.base # j.request.candidate
  BY <1>1, EmptyAssumption DEF Requested, Requests
<1>3. CASE Spent(k)
  BY <1>3 DEF BaseInv
<1>4. CASE Undone(j, k, result, current)
  BY <1>1, <1>2, <1>4 DEF BaseInv, Undone, Kept, ProgressInv, Opening, Trying, Undoing, Going
<1>5. CASE Advanced(j, k, result, current)
  <2>1. CASE j.step \in {"BASE", "RESOLVE"}
    BY <1>1, <1>2, <1>5, <2>1 DEF BaseInv, Advanced, Kept, ProgressInv, Opening, Trying, Undoing, Going, Follows
  <2>2. CASE j.step \notin {"BASE", "RESOLVE", "NATIVE_CONFIRM"}
    <3>1. h = g /\ k.request = j.request /\ k.prepared = j.prepared /\ j.prepared
      BY <1>1, <1>5, <2>2 DEF Advanced, Kept, ProgressInv
    <3>2. k.state # "ABORTED"
      BY <1>1, <1>5, <2>2 DEF Advanced, ProgressInv, Undoing
    <3>3. k.step # "SHELL_CONFIRM" /\ (k.step \in Going => j.step \in Going)
      BY <1>5, <2>2 DEF Advanced, Going, Follows
    <3>4. k.step \in Opening \cup Trying \cup Undoing => j.step \in Opening \cup Trying \cup Undoing
      BY <1>5, <2>2 DEF Advanced, Opening, Trying, Undoing, Follows
    <3> QED
      BY <1>1, <3>1, <3>2, <3>3, <3>4 DEF BaseInv
  <2>3. CASE j.step = "NATIVE_CONFIRM"
    BY <1>1, <1>2, <1>5, <2>3 DEF BaseInv, Advanced, Kept, ProgressInv, Opening, Trying, Undoing, Going, Follows
  <2> QED
    BY <2>1, <2>2, <2>3
<1>6. CASE Ended(j, k, current)
  BY <1>1, <1>2, <1>6 DEF BaseInv, Ended, Kept, ProgressInv, Opening, Trying, Undoing, Going
<1>7. CASE result = "FAILED" /\ Resolving(j, k)
  BY <1>1, <1>2, <1>7 DEF BaseInv, Resolving, Kept, ProgressInv, Opening, Trying, Undoing, Going
<1> QED
  BY <1>3, <1>4, <1>5, <1>6, <1>7 DEF Effect

LEMMA BaseAnswering ==
  ASSUME NEW j, NEW k, NEW keep \in BOOLEAN, Spent(k) \/ Answering(j, k, keep), JointInv(j), j.awaitingConfirmation,
         NEW c, NEW g, BaseInv(j, c, g)
  PROVE  BaseInv(k, c, g)
<1>1. CASE Spent(k)
  BY <1>1 DEF BaseInv
<1>2. CASE Answering(j, k, keep)
  <2>1. j.prepared
    BY <1>2 DEF JointInv, ProgressInv, Answering
  <2>2. k.step \in {"PUBLISH", "RESOLVE"} /\ k.state = "RUNNING" /\ k.prepared /\ k.request = j.request
    BY <1>2, <2>1 DEF Answering
  <2> QED
    BY <1>2, <2>1, <2>2 DEF BaseInv, Answering, Opening, Trying, Undoing, Going
<1> QED
  BY <1>1, <1>2

(* A new request can only be based on what is completed.                    *)
LEMMA SettledBase ==
  ASSUME NEW j, JointInv(j), NEW c, NEW g, BaseInv(j, c, g), j.state \notin {"RUNNING", "UNKNOWN"},
         j \in JointType
  PROVE  g = c
<1>1. ~Spent(j)
  BY DEF Spent
<1>2. ProgressInv(j) /\ j.state \in {"IDLE", "STALE", "COMPLETE", "ABORTED"}
  BY <1>1 DEF JointInv, JointType, States
<1> QED
  BY <1>1, <1>2 DEF BaseInv, ProgressInv, Going

(* The receipt of a command the runtimes had no part in.                    *)
LEMMA StepEffect ==
  ASSUME NEW j \in JointType, JointInv(j), j.pending # NoCommand, NEW k \in JointType,
         NEW n, NEW s, NEW d, NEW i, StepInv(j, n, s, d, i),
         NEW result, NEW current, Effect(j, k, result, current), ~Spent(k),
         Dispatch[j.step].target # "NATIVE" \/ result = "FAILED"
  PROVE  StepInv(k, n, s, d, i)
<1>1. Requested(j) /\ ProgressInv(j) /\ j.step \in Steps
  BY PendingFacts DEF JointType
<1>2. CASE Undone(j, k, result, current)
  <2>1. j.step \in {"RESOLVE", "SHELL_RESTORE"}
    BY <1>1, <1>2 DEF Undone, Dispatch
  <2>2. /\ k.step \in Undoing /\ Kept(j, k)
        /\ k.step = "ABANDON" => ~k.awaitingConfirmation /\ k.touched = 0
    BY <1>2, <2>1 DEF Undone, Kept, Undoing
  <2>3. On(k) => On(j)
    BY <2>2 DEF On, Kept, Undoing, Trying
  <2>4. On(k) => n.request.generation = k.request.candidate /\ Armed(k, s, d, i)
    BY <2>2, <2>3 DEF StepInv, Armed, Kept
  <2> QED
    BY <2>2, <2>4 DEF StepInv, Kept, Undoing, Checked, Restored
<1>3. CASE Advanced(j, k, result, current)
  <2>1. CASE j.step = "BASE"
    BY <1>1, <1>3, <2>1 DEF Advanced, StepInv, On, ProgressInv, Opening, Trying, Checked, Follows, Restored
  <2>2. CASE j.step = "STORE_PREPARE"
    BY <1>1, <1>3, <2>2 DEF Advanced, StepInv, On, ProgressInv, Opening, Trying, Checked, Follows, Kept, Restored
  <2>3. CASE j.step \in {"SHELL_PREPARE", "SHELL_APPLY", "PUBLISH", "SHELL_FINAL_VERIFY", "RESOLVE"}
    <3>1. Kept(j, k)
      BY <1>3, <2>3 DEF Advanced
    <3>2. On(k) => On(j)
      BY <1>3, <2>3, <3>1 DEF Advanced, On, Kept, Trying, Follows
    <3>3. On(k) => n.request.generation = k.request.candidate /\ Armed(k, s, d, i)
      BY <3>1, <3>2 DEF StepInv, Armed, Kept
    <3>4. k.step # "SHELL_PREPARE" /\ (k.step = "NATIVE_APPLY" => j.step = "SHELL_PREPARE")
          /\ k.step # "ABANDON" /\ k.step # "NATIVE_PREPARE"
          /\ (k.step \in Checked => j.step \in Checked)
      BY <1>3, <2>3 DEF Advanced, Follows, Checked
    <3> QED
      BY <3>1, <3>3, <3>4 DEF StepInv, Kept, Restored
  <2>4. CASE j.step = "SHELL_VERIFY"
    <3>1. /\ k.request = j.request /\ k.requireConfirmation = j.requireConfirmation
          /\ k.step \in {"SHELL_VERIFY", "PUBLISH"} /\ (k.publishAttempted => ~j.requireConfirmation)
      BY <1>1, <1>3, <2>4 DEF Advanced, Follows, ProgressInv, Trying
    <3>2. n.request.generation = j.request.candidate /\ Armed(j, s, d, i)
      BY <2>4 DEF StepInv, On, Trying
    <3>3. n.request.generation = k.request.candidate /\ Armed(k, s, d, i)
      BY <3>1, <3>2 DEF Armed
    <3>4. k.publishAttempted => ~s.monitorChange
      BY <3>1, <3>2 DEF Armed
    <3> QED
      BY <3>1, <3>3, <3>4 DEF StepInv, Checked, Restored
  <2> QED
    BY <1>1, <1>3, <2>1, <2>2, <2>3, <2>4 DEF Advanced, Follows, Dispatch
<1>4. CASE Ended(j, k, current)
  <2>1. Kept(j, k) /\ k.step = j.step /\ k.touched = j.touched
    BY <1>4 DEF Ended
  <2>2. On(k) => On(j)
    BY <2>1 DEF On, Kept
  <2>3. On(k) => n.request.generation = k.request.candidate /\ Armed(k, s, d, i)
    BY <2>1, <2>2 DEF StepInv, Armed, Kept
  <2>4. k.step = "NATIVE_PREPARE" /\ k.pending # NoCommand => ~k.requireConfirmation
    BY <2>1 DEF StepInv, Kept
  <2> QED
    BY <2>1, <2>3, <2>4 DEF StepInv, Kept, Restored
<1>5. CASE result = "FAILED" /\ Resolving(j, k)
  <2>1. Kept(j, k) /\ k.step = "RESOLVE"
    BY <1>5 DEF Resolving
  <2>2. On(k) => On(j)
    BY <2>1 DEF On, Kept, Trying
  <2>3. On(k) => n.request.generation = k.request.candidate /\ Armed(k, s, d, i)
    BY <2>1, <2>2 DEF StepInv, Armed, Kept
  <2> QED
    BY <2>1, <2>3 DEF StepInv, Kept, Checked, Restored
<1> QED
  BY <1>2, <1>3, <1>4, <1>5 DEF Effect

-----------------------------------------------------------------------------
(* The service.  The invariant of a machine j, a participant n and the      *)
(* runtimes s, d, i in the middle of a tick.                                *)
Running(j, n, s, d, i, c) ==
  /\ j \in JointType /\ s \in ServiceType /\ d \in DisplayType
  /\ JointInv(j)
  /\ BaseInv(j, c, n.generation)
  /\ RuntimeInv(n, s, d, i)
  /\ ~Spent(j) => StepInv(j, n, s, d, i)
  /\ s.recovery = "none"

(* A reverted display, or another answer to when it was applied, leaves the *)
(* transaction prepared.                                                    *)
LEMMA StepReverted ==
  ASSUME NEW j, NEW n, NEW s, NEW t, NEW d, NEW e, NEW i, StepInv(j, n, s, d, i),
         t.inputPrepared = s.inputPrepared, t.monitorChange = s.monitorChange,
         e.prepared = d.prepared, e.candidate = d.candidate, Back(d) => Back(e),
         j.step \in Checked => e = d,
         j.step = "ABANDON" /\ s.monitorRestored /\ ~j.awaitingConfirmation => t.monitorRestored,
         j.publishAttempted /\ s.monitorChange => t.since = "unset",
         j.step \in {"SHELL_PREPARE", "NATIVE_APPLY"} =>
           t.since = s.since /\ t.monitorRestored = s.monitorRestored
  PROVE  StepInv(j, n, t, e, i)
<1>1. Armed(j, s, d, i) => Armed(j, t, e, i)
  BY DEF Armed
<1>2. On(j) => n.request.generation = j.request.candidate /\ Armed(j, t, e, i)
  BY <1>1 DEF StepInv
<1>3. j.step \in {"SHELL_PREPARE", "NATIVE_APPLY"} => t.since = "unset" /\ ~t.monitorRestored
  BY DEF StepInv
<1>4. j.awaitingConfirmation /\ j.step = "ABANDON" => Back(e)
  BY DEF StepInv
<1>5. j.publishAttempted /\ t.monitorChange => t.since = "unset"
  OBVIOUS
<1>6. j.step \in Checked =>
       /\ InForce(i, j.request.candidate)
       /\ t.monitorChange /\ e.stable => e.live = LayoutOf[j.request.candidate]
  BY DEF StepInv
<1>7. j.step = "NATIVE_PREPARE" /\ j.pending # NoCommand => ~j.requireConfirmation
  BY DEF StepInv
<1> QED
  BY <1>2, <1>3, <1>4, <1>5, <1>6, <1>7 DEF StepInv, Restored

LEMMA CheckedAttempted ==
  ASSUME NEW j, JointInv(j), ~Spent(j), j.step \in Checked
  PROVE  j.publishAttempted
  BY DEF JointInv, ProgressInv, Checked, Going

(* The display reverts by itself.                                           *)
LEMMA RevertedGood ==
  ASSUME Running(joint, native, svc, display, inputs, completed), NEW x \in Reverted
  PROVE  /\ Running(joint, native, x.svc, x.display, inputs, completed)
         /\ x.svc.loading = svc.loading
<1>1. CASE ~DisplayDue
  <2>1. x.svc = svc /\ x.display = display
    BY <1>1 DEF Reverted
  <2> QED
    BY <2>1
<1>2. CASE DisplayDue
  <2>1. PICK o \in DisplayRestore(display) :
          x = [svc |-> [svc EXCEPT !.cancelMonitor = TRUE, !.monitorRestored = o.ok], display |-> o.to]
    BY <1>2 DEF Reverted
  <2> DEFINE t == [svc EXCEPT !.cancelMonitor = TRUE, !.monitorRestored = o.ok]
             e == o.to
  <2>2. x.svc = t /\ x.display = e
    BY <2>1
  <2>3. display \in DisplayType /\ svc \in ServiceType
    BY DEF Running
  <2>4. /\ e \in DisplayType /\ o.ok \in BOOLEAN /\ e.prepared = display.prepared /\ e.candidate = display.candidate
        /\ Back(display) => Back(e)
        /\ o.ok /\ display.prepared => Back(e)
        /\ o.ok /\ Healthy(e) => e.live = e.baseline
    BY <2>3, DisplayRestores
  <2>5. /\ t \in ServiceType /\ t.monitorRestored = o.ok /\ t.inputPrepared = svc.inputPrepared
        /\ t.monitorChange = svc.monitorChange /\ t.since = svc.since /\ t.loading = svc.loading
        /\ t.recovery = svc.recovery /\ t.bootMonitors = svc.bootMonitors
    BY <2>3, <2>4 DEF ServiceType
  <2> HIDE DEF t, e
  <2>6. RuntimeInv(native, t, e, inputs)
    BY <2>4, <2>5 DEF RuntimeInv, Running, Reverts
  <2>7. ~Spent(joint) => StepInv(joint, native, t, e, inputs)
    <3> SUFFICES ASSUME ~Spent(joint) PROVE StepInv(joint, native, t, e, inputs)
      OBVIOUS
    <3>1. StepInv(joint, native, svc, display, inputs) /\ JointInv(joint)
      BY DEF Running
    <3>2. svc.monitorChange /\ svc.since # "unset"
      BY <1>2 DEF DisplayDue
    <3>3. ~joint.publishAttempted
      BY <3>1, <3>2 DEF StepInv
    <3>4. joint.step \notin Checked
      BY <3>1, <3>3, CheckedAttempted
    <3>5. joint.step \notin {"SHELL_PREPARE", "NATIVE_APPLY"}
      BY <3>1, <3>2 DEF StepInv
    <3>6. ~svc.monitorRestored
      BY <1>2 DEF DisplayDue
    <3> QED
      BY <2>4, <2>5, <3>1, <3>3, <3>4, <3>5, <3>6, StepReverted
  <2> QED
    BY <2>2, <2>4, <2>5, <2>6, <2>7 DEF Running
<1> QED
  BY <1>1, <1>2

LEMMA StepAnswering ==
  ASSUME NEW j, NEW k, NEW keep \in BOOLEAN, Answering(j, k, keep), j.awaitingConfirmation,
         NEW n, NEW s, NEW d, NEW i, StepInv(j, n, s, d, i), s.since = "unset"
  PROVE  StepInv(k, n, s, d, i)
<1>1. n.request.generation = k.request.candidate /\ Armed(k, s, d, i)
  BY DEF Answering, StepInv, On, Armed
<1>2. k.step \in {"PUBLISH", "RESOLVE"} /\ ~k.awaitingConfirmation
  BY DEF Answering
<1> QED
  BY <1>1, <1>2 DEF StepInv, Checked, Restored

(* An answer to the open question, by the user or in their name.            *)
LEMMA DecisionsGood ==
  ASSUME NEW s, NEW d, Running(joint, native, s, d, inputs, completed), joint.awaitingConfirmation,
         NEW keep \in BOOLEAN, NEW y \in Decisions(s, d, keep)
  PROVE  /\ Running(y.joint, native, y.svc, y.display, inputs, completed)
         /\ y.waiting = FALSE
         /\ y.svc.loading = s.loading
         /\ y.joint.request = joint.request
         /\ joint.pending # NoCommand => y.joint = joint
         /\ Spent(y.joint) \/ y.joint = joint
              \/ Answering(joint, y.joint, FALSE)
              \/ (Answering(joint, y.joint, TRUE) /\ keep /\ DisplayVerify(d))
<1> DEFINE unset == [s EXCEPT !.since = "unset"]
           nj(v) == IF joint.pending = NoCommand THEN Decided(joint, v) ELSE joint
<1>0. s \in ServiceType /\ d \in DisplayType /\ joint \in JointType /\ JointInv(joint) /\ Reverts(s, d)
  BY DEF Running, RuntimeInv
<1>11. PICK v \in BOOLEAN : \E t, e :
        /\ y = [svc |-> t, display |-> e, joint |-> nj(v), waiting |-> FALSE]
        /\ v => keep /\ DisplayVerify(d)
        /\ t \in ServiceType /\ t.inputPrepared = s.inputPrepared /\ t.monitorChange = s.monitorChange
        /\ t.since = "unset" /\ t.loading = s.loading /\ t.recovery = s.recovery
        /\ t.bootMonitors = s.bootMonitors
        /\ e \in DisplayType /\ e.prepared = d.prepared /\ e.candidate = d.candidate /\ (Back(d) => Back(e))
        /\ t.monitorRestored /\ e.prepared => Back(e) \/ (s.monitorRestored /\ e = d)
        /\ Reverts(t, e)
  <2>1. CASE keep /\ DisplayVerify(d)
    <3>1. y = [svc |-> unset, display |-> d, joint |-> nj(TRUE), waiting |-> FALSE]
      BY <2>1 DEF Decisions
    <3>2. /\ unset \in ServiceType /\ unset.inputPrepared = s.inputPrepared
          /\ unset.monitorChange = s.monitorChange
          /\ unset.since = "unset" /\ unset.loading = s.loading /\ unset.recovery = s.recovery
          /\ unset.bootMonitors = s.bootMonitors /\ unset.monitorRestored = s.monitorRestored
      BY <1>0 DEF ServiceType
    <3> HIDE DEF unset, nj
    <3> QED
      BY <1>0, <2>1, <3>1, <3>2 DEF Reverts
  <2>2. CASE ~(keep /\ DisplayVerify(d))
    <3>1. PICK o \in DisplayRestore(d) :
            y = [svc |-> [unset EXCEPT !.monitorRestored = o.ok], display |-> o.to,
                 joint |-> nj(FALSE), waiting |-> FALSE]
      BY <2>2 DEF Decisions
    <3> DEFINE t == [unset EXCEPT !.monitorRestored = o.ok]
               e == o.to
    <3>2. /\ e \in DisplayType /\ o.ok \in BOOLEAN /\ e.prepared = d.prepared /\ e.candidate = d.candidate
          /\ Back(d) => Back(e)
          /\ o.ok /\ d.prepared => Back(e)
          /\ o.ok /\ Healthy(e) => e.live = e.baseline
      BY <1>0, DisplayRestores
    <3>3. /\ t \in ServiceType /\ t.inputPrepared = s.inputPrepared /\ t.monitorChange = s.monitorChange
          /\ t.since = "unset" /\ t.loading = s.loading /\ t.recovery = s.recovery
          /\ t.bootMonitors = s.bootMonitors /\ t.monitorRestored = o.ok
      BY <1>0, <3>2 DEF ServiceType
    <3>4. y = [svc |-> t, display |-> e, joint |-> nj(FALSE), waiting |-> FALSE]
      BY <3>1
    <3> HIDE DEF t, e, nj, unset
    <3> QED
      BY <3>2, <3>3, <3>4 DEF Reverts
  <2> QED
    BY <2>1, <2>2
<1>1. PICK t, e :
        /\ y = [svc |-> t, display |-> e, joint |-> nj(v), waiting |-> FALSE]
        /\ v => keep /\ DisplayVerify(d)
        /\ t \in ServiceType /\ t.inputPrepared = s.inputPrepared /\ t.monitorChange = s.monitorChange
        /\ t.since = "unset" /\ t.loading = s.loading /\ t.recovery = s.recovery
        /\ t.bootMonitors = s.bootMonitors
        /\ e \in DisplayType /\ e.prepared = d.prepared /\ e.candidate = d.candidate /\ (Back(d) => Back(e))
        /\ t.monitorRestored /\ e.prepared => Back(e) \/ (s.monitorRestored /\ e = d)
        /\ Reverts(t, e)
  BY <1>11
<1> DEFINE k == nj(v)
<1>2. y.svc = t /\ y.display = e /\ y.joint = k /\ y.waiting = FALSE
  BY <1>1
<1>3. /\ k \in JointType /\ JointInv(k) /\ k.request = joint.request
      /\ (k = joint /\ joint.pending # NoCommand) \/ (joint.pending = NoCommand /\ (Spent(k) \/ Answering(joint, k, v)))
  <2>1. CASE joint.pending = NoCommand
    BY <1>0, <2>1, DecidedGood
  <2>2. CASE joint.pending # NoCommand
    <3>1. k = joint
      BY <2>2
    <3> HIDE DEF k, nj
    <3> QED
      BY <1>0, <2>2, <3>1
  <2> QED
    BY <2>1, <2>2
<1> HIDE DEF k, nj, unset
<1>4. RuntimeInv(native, t, e, inputs)
  <2>1. t.monitorRestored /\ e.prepared => Back(e)
    BY <1>1 DEF Running, RuntimeInv
  <2> QED
    BY <1>1, <2>1 DEF Running, RuntimeInv
<1>5. BaseInv(k, completed, native.generation)
  <2>1. BaseInv(joint, completed, native.generation)
    BY DEF Running
  <2> QED
    BY <1>0, <1>3, <2>1, BaseAnswering
<1>6. ~Spent(joint) => StepInv(joint, native, t, e, inputs)
  <2> SUFFICES ASSUME ~Spent(joint) PROVE StepInv(joint, native, t, e, inputs)
    OBVIOUS
  <2>1. StepInv(joint, native, s, d, inputs)
    BY DEF Running
  <2>2. /\ ~joint.publishAttempted
        /\ joint.step \notin {"SHELL_PREPARE", "NATIVE_APPLY"} /\ joint.step \notin Checked
    BY <1>0 DEF JointInv, ProgressInv, Undoing, Checked
  <2> QED
    BY <1>1, <2>1, <2>2, StepReverted
<1>7. ~Spent(k) => StepInv(k, native, t, e, inputs)
  <2>1. CASE k = joint
    BY <1>6, <2>1
  <2>2. CASE Answering(joint, k, v)
    <3>1. ~Spent(joint)
      BY <2>2 DEF Answering
    <3> QED
      BY <1>1, <1>6, <2>2, <3>1, StepAnswering
  <2> QED
    BY <1>3, <2>1, <2>2
<1>8. t.recovery = "none"
  BY <1>1 DEF Running
<1>9. Running(k, native, t, e, inputs, completed)
  BY <1>1, <1>3, <1>4, <1>5, <1>7, <1>8 DEF Running
<1>10. Spent(k) \/ k = joint \/ Answering(joint, k, FALSE) \/ (Answering(joint, k, TRUE) /\ keep /\ DisplayVerify(d))
  <2>1. v = TRUE \/ v = FALSE
    BY <1>1
  <2> QED
    BY <1>1, <1>3, <2>1
<1> QED
  BY <1>1, <1>2, <1>3, <1>9, <1>10

(* The question the tick asks, or answers in the user's name.               *)
LEMMA QuestionedGood ==
  ASSUME NEW s, NEW d, Running(joint, native, s, d, inputs, completed), NEW y \in Questioned(s, d)
  PROVE  /\ Running(y.joint, native, y.svc, y.display, inputs, completed)
         /\ y.svc.loading = s.loading
         /\ y.joint.request = joint.request
         /\ y.waiting => y.joint = joint
         /\ joint.pending # NoCommand => y.joint = joint
         /\ Spent(y.joint) \/ y.joint = joint \/ Answering(joint, y.joint, FALSE)
<1> DEFINE asked == IF s.since = "unset" THEN [s EXCEPT !.since = "running"] ELSE s
<1>0. s \in ServiceType /\ d \in DisplayType /\ joint \in JointType /\ JointInv(joint)
  BY DEF Running
<1>1. CASE ~joint.awaitingConfirmation
  <2>1. y = [svc |-> s, display |-> d, joint |-> joint, waiting |-> FALSE]
    BY <1>1 DEF Questioned
  <2> QED
    BY <2>1
<1>2. CASE joint.awaitingConfirmation
  <2>1. /\ asked \in ServiceType /\ asked.inputPrepared = s.inputPrepared
        /\ asked.monitorChange = s.monitorChange /\ asked.monitorRestored = s.monitorRestored
        /\ asked.loading = s.loading /\ asked.recovery = s.recovery /\ asked.bootMonitors = s.bootMonitors
    BY <1>0 DEF ServiceType
  <2>2. \/ y \in Decisions(asked, d, FALSE)
        \/ y = [svc |-> asked, display |-> d, joint |-> joint, waiting |-> TRUE]
    BY <1>2 DEF Questioned
  <2> HIDE DEF asked
  <2>3. RuntimeInv(native, asked, d, inputs)
    BY <2>1 DEF Running, RuntimeInv, Reverts
  <2>4. ~Spent(joint) => StepInv(joint, native, asked, d, inputs)
    <3> SUFFICES ASSUME ~Spent(joint) PROVE StepInv(joint, native, asked, d, inputs)
      OBVIOUS
    <3>1. StepInv(joint, native, s, d, inputs)
      BY DEF Running
    <3>2. /\ ~joint.publishAttempted
          /\ joint.step \notin {"SHELL_PREPARE", "NATIVE_APPLY"} /\ joint.step \notin Checked
      BY <1>0, <1>2 DEF JointInv, ProgressInv, Undoing, Checked
    <3> QED
      BY <2>1, <3>1, <3>2, StepReverted
  <2>5. Running(joint, native, asked, d, inputs, completed)
    BY <2>1, <2>3, <2>4 DEF Running
  <2>6. CASE y \in Decisions(asked, d, FALSE)
    <3>1. FALSE \in BOOLEAN
      OBVIOUS
    <3> QED
      BY <1>2, <2>1, <2>5, <2>6, <3>1, DecisionsGood
  <2>7. CASE y = [svc |-> asked, display |-> d, joint |-> joint, waiting |-> TRUE]
    <3>1. y.svc = asked /\ y.display = d /\ y.joint = joint
      BY <2>7
    <3> QED
      BY <2>1, <2>5, <3>1
  <2> QED
    BY <2>2, <2>6, <2>7
<1> QED
  BY <1>1, <1>2

-----------------------------------------------------------------------------
(* The participant, as far as the service relies on it.                     *)
Confirmed(n) == n.phase = "CONFIRMED" => n.generation = n.request.generation

LEMMA PrepareMember ==
  ASSUME native \in P!ParticipantType, touched \in BOOLEAN, NEW r \in Requests, NEW reply, NEW reads \in BOOLEAN,
         Confirmed(native), P!MemberPrepare(r, reply, reads)
  PROVE  /\ native' \in P!ParticipantType /\ touched' \in BOOLEAN /\ Confirmed(native)'
         /\ native'.generation = native.generation
         /\ reply = "OK" => native.generation = r.base /\ native'.request.generation = r.candidate
<1>1. CASE ~P!OnBase(r) /\ reply = "FAILED" /\ touched' = FALSE /\ UNCHANGED native
  BY <1>1 DEF Confirmed
<1>2. CASE P!OnBase(r)
  <2> DEFINE q == [epoch |-> r.epoch, sequence |-> r.sequence,
                   baseRevision |-> native.revision, generation |-> r.candidate]
  <2>1. PICK result \in P!Results : P!Prepare(q, result, reads) /\ reply = P!Outcome(result)
    BY <1>2 DEF P!MemberPrepare
  <2>2. q \in P!ParticipantRequests /\ q.generation = r.candidate
    BY DEF P!ParticipantRequests, P!ParticipantType, Requests
  <2>3. touched' \in BOOLEAN
    BY <1>2 DEF P!MemberPrepare
  <2>4. native.generation = r.base
    BY <1>2 DEF P!OnBase
  <2> HIDE DEF q
  <2>5. CASE P!PrepareOutOfDate(q, result)
    BY <2>1, <2>3, <2>4, <2>5 DEF P!PrepareOutOfDate, P!Outcome, Confirmed
  <2>6. CASE P!PrepareRepeated(q, result)
    <3>1. native' = native
      BY <2>6 DEF P!PrepareRepeated
    <3>2. result = "OK" => q = native.request
      BY <2>6 DEF P!PrepareRepeated
    <3>3. reply = "OK" => result = "OK"
      BY <2>1 DEF P!Outcome
    <3> QED
      BY <2>2, <2>3, <2>4, <3>1, <3>2, <3>3 DEF Confirmed
  <2>7. CASE P!PrepareNew(q, result, reads)
    <3>1. reply = "OK" => result = "OK"
      BY <2>1 DEF P!Outcome
    <3>2. CASE native' = native /\ result # "OK"
      BY <2>3, <2>4, <3>1, <3>2 DEF Confirmed
    <3>3. CASE \E p \in {"PREPARED", "UNKNOWN"} : native' = [native EXCEPT !.request = q, !.phase = p]
      <4>1. PICK p \in {"PREPARED", "UNKNOWN"} : native' = [native EXCEPT !.request = q, !.phase = p]
        BY <3>3
      <4>2. /\ native' \in P!ParticipantType /\ native'.generation = native.generation
            /\ native'.request = q /\ native'.phase # "CONFIRMED"
        BY <2>2, <4>1 DEF P!ParticipantType, P!Phases
      <4> QED
        BY <2>2, <2>3, <2>4, <4>2 DEF Confirmed
    <3> QED
      BY <2>7, <3>2, <3>3 DEF P!PrepareNew
  <2> QED
    BY <2>1, <2>5, <2>6, <2>7 DEF P!Prepare
<1> QED
  BY <1>1, <1>2 DEF P!MemberPrepare

LEMMA ApplyMember ==
  ASSUME native \in P!ParticipantType, touched \in BOOLEAN, NEW r, NEW reply, NEW reads \in BOOLEAN,
         Confirmed(native), P!MemberApply(r, reply, reads)
  PROVE  /\ native' \in P!ParticipantType /\ touched' \in BOOLEAN /\ Confirmed(native)'
         /\ native'.generation = native.generation /\ native'.request = native.request
<1>1. PICK result \in P!Results : P!Apply(r.epoch, r.sequence, result, reads)
  BY DEF P!MemberApply
<1>2. touched' = touched
  BY DEF P!MemberApply
<1>3. CASE native' = native
  BY <1>2, <1>3 DEF Confirmed
<1>4. CASE \E p \in {"APPLIED", "UNKNOWN"}, w \in P!WrittenBy(native.request.generation) :
             native' = [native EXCEPT !.phase = p, !.live = w] /\ native.request # NoRequest
  <2>1. PICK p \in {"APPLIED", "UNKNOWN"}, w \in P!WrittenBy(native.request.generation) :
             native' = [native EXCEPT !.phase = p, !.live = w] /\ native.request # NoRequest
    BY <1>4
  <2>2. w \in Generations \cup {Foreign}
    BY <2>1 DEF P!WrittenBy, P!ParticipantType, P!ParticipantRequests
  <2> QED
    BY <1>2, <2>1, <2>2 DEF P!ParticipantType, P!Phases, Confirmed
<1>5. native.request.generation \in P!WrittenBy(native.request.generation)
  BY DEF P!WrittenBy
<1> QED
  BY <1>1, <1>3, <1>4, <1>5 DEF P!Apply, P!Matches

LEMMA RestoreMember ==
  ASSUME native \in P!ParticipantType, touched \in BOOLEAN, NEW r, NEW reply, NEW reads \in BOOLEAN,
         Confirmed(native), P!MemberRestore(r, reply, reads)
  PROVE  /\ native' \in P!ParticipantType /\ touched' \in BOOLEAN /\ Confirmed(native)'
         /\ native'.generation = native.generation /\ native'.request = native.request
<1>1. touched' = touched
  BY DEF P!MemberRestore
<1>2. CASE native' = native
  BY <1>1, <1>2 DEF Confirmed
<1>3. CASE native' = [native EXCEPT !.phase = "RESTORED", !.live = native.generation, !.revision = @ + 1]
  <2> DEFINE n == native.revision + 1
  <2>1. n \in Nat /\ native.generation \in Generations \cup {Foreign}
    BY DEF P!ParticipantType
  <2>2. native' = [native EXCEPT !.phase = "RESTORED", !.live = native.generation, !.revision = n]
    BY <1>3
  <2> HIDE DEF n
  <2> QED
    BY <1>1, <2>1, <2>2 DEF P!ParticipantType, P!Phases, Confirmed
<1>4. CASE \E w \in P!WrittenBy(native.generation) : native' = [native EXCEPT !.phase = "UNKNOWN", !.live = w]
  BY <1>1, <1>4 DEF P!ParticipantType, P!Phases, P!WrittenBy, Confirmed
<1> QED
  BY <1>2, <1>3, <1>4 DEF P!MemberRestore, P!Restore

LEMMA ConfirmMember ==
  ASSUME native \in P!ParticipantType, touched \in BOOLEAN, NEW r, NEW reply, NEW reads \in BOOLEAN,
         Confirmed(native), P!MemberConfirm(r, reply, reads)
  PROVE  /\ native' \in P!ParticipantType /\ touched' \in BOOLEAN /\ Confirmed(native)'
         /\ native'.request = native.request
         /\ reply = "OK" => native'.generation = native.request.generation
         /\ reply = "FAILED" => native' = native
<1>1. touched' = touched
  BY DEF P!MemberConfirm
<1>2. PICK result \in P!Results : P!Confirm(r.epoch, r.sequence, result, reads) /\ reply = P!Outcome(result)
  BY DEF P!MemberConfirm
<1>3. reply = "OK" <=> result = "OK"
  BY <1>2 DEF P!Outcome
<1>4. CASE native' = native /\ (result = "OK" => native.phase = "CONFIRMED")
  BY <1>1, <1>3, <1>4 DEF Confirmed
<1>5. CASE /\ P!Matches(r.epoch, r.sequence) /\ result = "OK"
           /\ native' = [native EXCEPT !.generation = native.request.generation, !.revision = @ + 1,
                                       !.phase = "CONFIRMED"]
  <2>1. native.request.generation \in Generations
    BY <1>5 DEF P!Matches, P!ParticipantType, P!ParticipantRequests
  <2> DEFINE n == native.revision + 1
  <2>3. n \in Nat
    BY DEF P!ParticipantType
  <2>4. native' = [native EXCEPT !.generation = native.request.generation, !.revision = n,
                                 !.phase = "CONFIRMED"]
    BY <1>5
  <2> HIDE DEF n
  <2>2. /\ native' \in P!ParticipantType /\ native'.request = native.request
        /\ native'.generation = native.request.generation
    BY <2>1, <2>3, <2>4 DEF P!ParticipantType, P!Phases
  <2> QED
    BY <1>1, <1>3, <1>5, <2>2 DEF Confirmed
<1> QED
  BY <1>2, <1>4, <1>5 DEF P!Confirm

-----------------------------------------------------------------------------
(* The hooks of a native command the participant acknowledged.              *)
HookOf(operation, s, d, i, g, x) ==
  \E y \in DisplayHook(operation, s, d, g) :
     /\ x.svc = y.svc /\ x.display = y.display /\ x.confirm = FALSE
     /\ \/ y.ok /\ \E z \in InputHook(operation, y.svc, i) : x.ok = z.ok /\ x.inputs = z.to
        \/ ~y.ok /\ x.ok = FALSE /\ x.inputs = i

LEMMA HookSplit ==
  ASSUME NEW operation, operation # "PREPARE", NEW s, NEW d, NEW i, NEW g, NEW x \in Hooks(operation, s, d, i, g)
  PROVE  HookOf(operation, s, d, i, g, x)
<1>1. PICK y \in DisplayHook(operation, s, d, g) :
        x \in IF y.ok
              THEN {Did(z.ok, y.svc, y.display, z.to) : z \in InputHook(operation, y.svc, i)}
              ELSE {Did(FALSE, y.svc, y.display, i)}
  BY DEF Hooks
<1>2. CASE y.ok
  <2>1. PICK z \in InputHook(operation, y.svc, i) : x = Did(z.ok, y.svc, y.display, z.to)
    BY <1>1, <1>2
  <2> QED
    BY <1>2, <2>1 DEF Did, HookOf
<1>3. CASE ~y.ok
  <2>1. x = Did(FALSE, y.svc, y.display, i)
    BY <1>1, <1>3
  <2> QED
    BY <1>3, <2>1 DEF Did, HookOf
<1> QED
  BY <1>2, <1>3

LEMMA InputHooks ==
  ASSUME NEW operation \in {"APPLY", "VERIFY", "RESTORE", "CONFIRM"}, NEW s, NEW i \in InputType, Believed(i),
         NEW z \in InputHook(operation, s, i)
  PROVE  /\ z.to \in InputType /\ z.ok \in BOOLEAN /\ Believed(z.to) /\ z.to.candidate = i.candidate
         /\ operation \in {"VERIFY", "CONFIRM"} => z.to = i
         /\ operation = "VERIFY" /\ s.inputPrepared /\ z.ok => InForce(i, i.candidate)
         /\ operation = "RESTORE" /\ s.inputPrepared /\ z.ok =>
              z.to.devices = z.to.devicesBefore /\ z.to.desktop = z.to.desktopBefore
         /\ operation = "CONFIRM" => z.ok
<1>1. CASE s.inputPrepared /\ operation = "APPLY"
  <2>1. z \in InputApply(i)
    BY <1>1 DEF InputHook
  <2> QED
    BY <1>1, <2>1, InputApplies
<1>2. CASE s.inputPrepared /\ operation = "VERIFY"
  <2>1. z \in InputVerify(i)
    BY <1>2 DEF InputHook
  <2> QED
    BY <1>2, <2>1, InputVerifies
<1>3. CASE s.inputPrepared /\ operation = "RESTORE"
  <2>1. z \in InputRestore(i)
    BY <1>3 DEF InputHook
  <2> QED
    BY <1>3, <2>1, InputRestores
<1>4. CASE ~s.inputPrepared \/ operation = "CONFIRM"
  <2>1. z = Ok(i)
    BY <1>4 DEF InputHook
  <2>2. z.to = i /\ z.ok = TRUE
    BY <2>1, Outcomes
  <2> QED
    BY <1>4, <2>2
<1> QED
  BY <1>1, <1>2, <1>3, <1>4

(* What the service's fields keep over a hook.                              *)
Armful(s, t) ==
  /\ t.inputPrepared = s.inputPrepared /\ t.monitorChange = s.monitorChange
  /\ t.loading = s.loading /\ t.recovery = s.recovery

LEMMA PrepareHookFacts ==
  ASSUME NEW s \in ServiceType, NEW d \in DisplayType, NEW i \in InputType, Believed(i), NEW g \in Generations,
         NEW x \in PrepareHooks(s, d, i, g)
  PROVE  /\ x.svc \in ServiceType /\ x.display \in DisplayType /\ x.inputs \in InputType /\ Believed(x.inputs)
         /\ x.ok \in BOOLEAN /\ x.confirm \in BOOLEAN
         /\ x.svc.loading = s.loading /\ x.svc.recovery = s.recovery /\ x.svc.bootMonitors = s.bootMonitors
         /\ ~x.svc.monitorRestored /\ x.svc.since = "unset"
         /\ x.ok => /\ x.svc.inputPrepared /\ x.inputs.candidate = g
                    /\ x.svc.monitorChange <=> LayoutOf[g] # s.bootMonitors
                    /\ x.svc.monitorChange => x.display.prepared /\ x.display.candidate = LayoutOf[g]
                    /\ x.confirm <=> x.svc.monitorChange
<1> DEFINE reset == Reset(s)
           change == LayoutOf[g] # s.bootMonitors
           armed == [reset EXCEPT !.inputPrepared = TRUE, !.monitorChange = change]
<1>0. LayoutOf[g] \in Layouts /\ change \in BOOLEAN
  BY LayoutAssumption
<1>1. /\ reset \in ServiceType /\ reset.loading = s.loading /\ reset.recovery = s.recovery
      /\ reset.bootMonitors = s.bootMonitors /\ ~reset.monitorRestored /\ reset.since = "unset"
  BY DEF ServiceType, Reset
<1> HIDE DEF reset
<1>2. /\ armed \in ServiceType /\ armed.loading = reset.loading /\ armed.recovery = reset.recovery
      /\ armed.bootMonitors = reset.bootMonitors /\ armed.monitorRestored = reset.monitorRestored
      /\ armed.since = reset.since /\ armed.inputPrepared = TRUE /\ armed.monitorChange = change
  BY <1>0, <1>1 DEF ServiceType
<1>3. CASE x = Did(FALSE, reset, d, i)
  BY <1>1, <1>3 DEF Did
<1>4. CASE \E y \in InputPrepare(i, g) : ~y.ok /\ x = Did(FALSE, reset, d, y.to)
  <2>1. PICK y \in InputPrepare(i, g) : ~y.ok /\ x = Did(FALSE, reset, d, y.to)
    BY <1>4
  <2> QED
    BY <1>1, <2>1, InputPrepares DEF Did
<1>5. CASE \E y \in InputPrepare(i, g) : ~change /\ x = Did(TRUE, armed, d, y.to)
  <2>1. PICK y \in InputPrepare(i, g) : ~change /\ x = Did(TRUE, armed, d, y.to)
    BY <1>5
  <2> HIDE DEF armed, change
  <2>2. y.to \in InputType /\ Believed(y.to) /\ y.to.candidate = g
    BY <2>1, InputPrepares
  <2>3. x.ok = TRUE /\ x.svc = armed /\ x.display = d /\ x.inputs = y.to /\ x.confirm = FALSE
    BY <2>1 DEF Did
  <2>4. ~x.svc.monitorChange
    BY <1>2, <2>1, <2>3
  <2>5. ~(LayoutOf[g] # s.bootMonitors)
    BY <2>1 DEF change
  <2> QED
    BY <1>1, <1>2, <2>2, <2>3, <2>4, <2>5
<1>6. CASE \E y \in InputPrepare(i, g), o \in DisplayPrepare(d, LayoutOf[g]) :
             change /\ x = [Did(o.ok, armed, o.to, y.to) EXCEPT !.confirm = o.ok]
  <2>1. PICK y \in InputPrepare(i, g), o \in DisplayPrepare(d, LayoutOf[g]) :
             change /\ x = [Did(o.ok, armed, o.to, y.to) EXCEPT !.confirm = o.ok]
    BY <1>6
  <2>5. LayoutOf[g] # s.bootMonitors
    BY <2>1
  <2> HIDE DEF armed, change
  <2>2. y.to \in InputType /\ Believed(y.to) /\ y.to.candidate = g
    BY <2>1, InputPrepares
  <2>3. x.ok = o.ok /\ x.svc = armed /\ x.display = o.to /\ x.inputs = y.to /\ x.confirm = o.ok
    BY <2>1 DEF Did
  <2>4. o.to \in DisplayType /\ o.ok \in BOOLEAN /\ (o.ok => o.to.prepared /\ o.to.candidate = LayoutOf[g])
    BY <1>0, DisplayPrepares
  <2>6. x.svc.monitorChange
    BY <1>2, <2>1, <2>3
  <2> QED
    BY <1>1, <1>2, <2>2, <2>3, <2>4, <2>5, <2>6
<1>7. x = Did(FALSE, reset, d, i)
      \/ \E y \in InputPrepare(i, g) :
           \/ ~y.ok /\ x = Did(FALSE, reset, d, y.to)
           \/ ~armed.monitorChange /\ x = Did(TRUE, armed, d, y.to)
           \/ armed.monitorChange /\ \E o \in DisplayPrepare(d, LayoutOf[g]) :
                x = [Did(o.ok, armed, o.to, y.to) EXCEPT !.confirm = o.ok]
  <2> DEFINE Shown(y) == {[Did(o.ok, armed, o.to, y.to) EXCEPT !.confirm = o.ok] : o \in DisplayPrepare(d, LayoutOf[g])}
             Displayed(y) == IF armed.monitorChange THEN Shown(y) ELSE {Did(TRUE, armed, d, y.to)}
             Tried(y) == IF y.ok THEN Displayed(y) ELSE {Did(FALSE, reset, d, y.to)}
  <2>1. PrepareHooks(s, d, i, g) = {Did(FALSE, reset, d, i)} \cup UNION {Tried(y) : y \in InputPrepare(i, g)}
    BY Zenon DEF PrepareHooks, reset
  <2> HIDE DEF reset, armed
  <2>2. \A y : x \in Shown(y) <=> \E o \in DisplayPrepare(d, LayoutOf[g]) :
                                   x = [Did(o.ok, armed, o.to, y.to) EXCEPT !.confirm = o.ok]
    BY Zenon
  <2> HIDE DEF Shown
  <2>3. \A y : x \in Displayed(y) => \/ armed.monitorChange /\ x \in Shown(y)
                                     \/ ~armed.monitorChange /\ x = Did(TRUE, armed, d, y.to)
    BY Zenon
  <2> HIDE DEF Displayed
  <2>4. \A y : x \in Tried(y) => \/ x \in Displayed(y)
                                 \/ ~y.ok /\ x = Did(FALSE, reset, d, y.to)
    BY Zenon
  <2> HIDE DEF Tried
  <2>5. x = Did(FALSE, reset, d, i) \/ \E y \in InputPrepare(i, g) : x \in Tried(y)
    BY <2>1, Zenon
  <2>6. CASE x = Did(FALSE, reset, d, i)
    BY <2>6
  <2>7. CASE \E y \in InputPrepare(i, g) : x \in Tried(y)
    <3>1. PICK y \in InputPrepare(i, g) : x \in Tried(y)
      BY <2>7
    <3>2. CASE ~y.ok /\ x = Did(FALSE, reset, d, y.to)
      BY <3>2, Zenon
    <3>3. CASE ~armed.monitorChange /\ x = Did(TRUE, armed, d, y.to)
      BY <3>3, Zenon
    <3>4. CASE armed.monitorChange /\ x \in Shown(y)
      BY <2>2, <3>4, Zenon
    <3> QED
      BY <2>3, <2>4, <3>1, <3>2, <3>3, <3>4
  <2> QED
    BY <2>5, <2>6, <2>7
<1> HIDE DEF armed
<1> QED
  BY <1>2, <1>3, <1>4, <1>5, <1>6, <1>7

-----------------------------------------------------------------------------
(* One native command of the loop.                                          *)
NativeSteps == {"NATIVE_PREPARE", "NATIVE_APPLY", "NATIVE_VERIFY", "NATIVE_FINAL_VERIFY",
                "NATIVE_CONFIRM", "NATIVE_RESTORE"}

LEMMA NativeFacts ==
  ASSUME NEW j \in JointType, JointInv(j), ForNative(j)
  PROVE  /\ j.pending # NoCommand /\ j.step \in NativeSteps /\ Dispatch[j.step].target = "NATIVE"
         /\ j.pending.operation = Dispatch[j.step].operation
         /\ ProgressInv(j) /\ ~Spent(j) /\ j.request \in Requests
<1>1. j.pending # NoCommand
  BY DEF ForNative
<1>2. ProgressInv(j) /\ ~Spent(j) /\ j.request \in Requests
  BY <1>1, PendingFacts DEF Requested
<1>3. j.pending.target = Dispatch[j.step].target /\ j.pending.operation = Dispatch[j.step].operation
  BY <1>1 DEF JointInv, PendingInv
<1>4. Dispatch[j.step].target = "NATIVE" /\ j.step \in Steps
  BY <1>3 DEF ForNative, JointType
<1>5. j.step \in NativeSteps
  BY <1>4 DEF NativeSteps, Steps, Dispatch
<1> QED
  BY <1>1, <1>2, <1>3, <1>4, <1>5

LEMMA Loaded ==
  ASSUME NEW j, NEW n, NEW s, NEW d, NEW i, NEW c, Running(j, n, s, d, i, c), NEW b \in BOOLEAN,
         NEW t, t = [s EXCEPT !.loading = b]
  PROVE  Running(j, n, t, d, i, c) /\ t.loading = b
<1>1. s \in ServiceType
  BY DEF Running
<1>2. /\ t \in ServiceType /\ t.loading = b /\ t.inputPrepared = s.inputPrepared
      /\ t.monitorChange = s.monitorChange /\ t.monitorRestored = s.monitorRestored
      /\ t.since = s.since /\ t.bootMonitors = s.bootMonitors /\ t.recovery = s.recovery
  BY <1>1 DEF ServiceType
<1>3. RuntimeInv(n, t, d, i)
  BY <1>2 DEF Running, RuntimeInv, Reverts
<1>4. ~Spent(j) => StepInv(j, n, t, d, i)
  BY <1>2 DEF Running, StepInv, Armed, Restored
<1> QED
  BY <1>2, <1>3, <1>4 DEF Running

(* The receipt of a native command, as far as the coordinator goes.         *)
LEMMA NativeReply ==
  ASSUME NEW j \in JointType, JointInv(j), ForNative(j), NEW result \in {"OK", "FAILED"},
         Reply(j, j.pending, result, Malformed),
         NEW c \in Generations, NEW g, NEW h, BaseInv(j, c, g),
         \/ h = g /\ (j.step = "NATIVE_CONFIRM" => result = "FAILED")
         \/ h = j.request.candidate /\ j.step = "NATIVE_CONFIRM"
  PROVE  /\ joint' \in JointType /\ JointInv(joint') /\ joint'.request = j.request
         /\ BaseInv(joint', c, h) /\ Effect(j, joint', result, Malformed)
         /\ joint'.pending # NoCommand => joint'.step # "PUBLISH"
<1>1. Good(j, joint', result, Malformed)
  BY ReplyGood
<1>2. joint' \in JointType /\ JointInv(joint') /\ joint'.request = j.request /\ Effect(j, joint', result, Malformed)
  BY <1>1 DEF Good
<1>3. j.pending # NoCommand /\ j.step \in NativeSteps
  BY NativeFacts
<1>4. j.step \notin {"BASE", "RESOLVE"}
  BY <1>3 DEF NativeSteps
<1>5. BaseInv(joint', c, h)
  BY <1>2, <1>3, <1>4, BaseEffect
<1>6. joint'.step = "PUBLISH" => Spent(joint')
  BY <1>2, <1>3 DEF Effect, Undone, Advanced, Ended, Resolving, NativeSteps, Undoing, Follows
<1> QED
  BY <1>2, <1>5, <1>6 DEF Spent

(* Before the publication every native receipt leads on or to the store.    *)
LEMMA TriedReply ==
  ASSUME NEW j \in JointType, JointInv(j), j.pending # NoCommand,
         j.step \in {"NATIVE_PREPARE", "NATIVE_APPLY", "NATIVE_VERIFY"},
         NEW result \in {"OK", "FAILED"}, Reply(j, j.pending, result, Malformed)
  PROVE  \/ Spent(joint')
         \/ /\ Kept(j, joint') /\ ~joint'.publishAttempted /\ ~joint'.awaitingConfirmation
            /\ joint'.step = IF result = "OK" THEN Follows[j.step] ELSE "RESOLVE"
<1> DEFINE a == Answered(j)
           s == IF result = "OK" THEN Follows[j.step] ELSE "RESOLVE"
<1>1. ProgressInv(j) /\ j.request \in Requests
  BY PendingFacts DEF Requested
<1>2. ~j.publishAttempted /\ ~j.awaitingConfirmation
  BY <1>1 DEF ProgressInv, Opening, Trying, Undoing
<1>3. joint' = Issue(a, s)
  BY DEF Reply, ReplyUnresolved, ReplyRestore, ReplyFailed, ReplyBase, ReplyAdvance, ReplyShellVerify,
         ReplyResolve, ReplyFinish, RestoreSteps, UndecidedSteps, Follows
<1>4. s \in Steps \ {"STORE_PREPARE", "PUBLISH"}
  BY DEF Steps, Dispatch, Follows
<1>5. a \in JointType /\ a.pending = NoCommand /\ a.request \in Requests /\ Kept(j, a)
  BY <1>1, AnsweredFacts DEF Kept
<1> HIDE DEF a
<1>6. Spent(joint') \/ (Kept(a, joint') /\ joint'.step = s)
  <2> HIDE DEF s
  <2> QED
    BY <1>3, <1>4, <1>5, IssueKept
<1> QED
  BY <1>2, <1>5, <1>6 DEF Kept

(* What a native command leaves.                                            *)
Landed(j) ==
  /\ Running(joint', native', svc', display', inputs', completed)
  /\ native' \in P!ParticipantType /\ touched' \in BOOLEAN /\ inputs' \in InputType
  /\ svc'.loading => ForNative(joint') /\ joint'.pending.operation = "PREPARE"
  /\ joint'.request = j.request
  /\ joint' = j \/ (joint'.pending # NoCommand => joint'.step # "PUBLISH")

Ready(j, s, d) ==
  /\ Running(j, native, s, d, inputs, completed)
  /\ j.request \in Requests
  /\ ForNative(j)
  /\ native \in P!ParticipantType /\ touched \in BOOLEAN /\ inputs \in InputType /\ completed \in Generations

(* The participant refused, or the candidate could not be read.             *)
LEMMA FailedLanded ==
  ASSUME NEW j, NEW s, NEW d, Ready(j, s, d), svc' = [s EXCEPT !.loading = FALSE], display' = d, inputs' = inputs,
         Reply(j, j.pending, "FAILED", Malformed),
         native' \in P!ParticipantType, touched' \in BOOLEAN, native'.generation = native.generation,
         Confirmed(native)', j.step # "NATIVE_PREPARE" => native'.request = native.request
  PROVE  Landed(j)
<1>1. Running(j, native, svc', d, inputs, completed) /\ svc'.loading = FALSE
  BY Loaded DEF Ready
<1>2. j \in JointType /\ JointInv(j) /\ BaseInv(j, completed, native.generation)
  BY DEF Ready, Running
<1>3. /\ joint' \in JointType /\ JointInv(joint') /\ joint'.request = j.request
      /\ BaseInv(joint', completed, native'.generation) /\ Effect(j, joint', "FAILED", Malformed)
      /\ joint'.pending # NoCommand => joint'.step # "PUBLISH"
  <2>1. "FAILED" \in {"OK", "FAILED"}
    OBVIOUS
  <2> QED
    BY <1>2, <2>1, NativeReply DEF Ready
<1>4. ProgressInv(j) /\ ~Spent(j) /\ j.pending # NoCommand
  BY <1>2, NativeFacts DEF Ready
<1>5. StepInv(j, native', svc', d, inputs)
  <2>1. StepInv(j, native, svc', d, inputs)
    BY <1>1, <1>4 DEF Running
  <2>2. On(j) => native'.request = native.request
    BY <1>4 DEF On, ProgressInv, Opening, Trying
  <2> QED
    BY <2>1, <2>2 DEF StepInv
<1>6. ~Spent(joint') => StepInv(joint', native', svc', d, inputs)
  BY <1>2, <1>3, <1>4, <1>5, StepEffect
<1>7. RuntimeInv(native', svc', d, inputs)
  BY <1>1 DEF Running, RuntimeInv, Confirmed
<1> QED
  BY <1>1, <1>3, <1>6, <1>7 DEF Landed, Running, Ready

-----------------------------------------------------------------------------
(* The service executes a native command the participant acknowledged.      *)
Hooked(j, s, d, x) ==
  /\ x \in Hooks(j.pending.operation, s, d, inputs, j.request.candidate)
  /\ svc' = x.svc /\ display' = x.display /\ inputs' = x.inputs
  /\ Reply(IF x.confirm THEN RequireConfirmation(j) ELSE j, j.pending, Receipt(x.ok), Malformed)

LEMMA Receipts ==
  ASSUME NEW ok \in BOOLEAN
  PROVE  Receipt(ok) \in {"OK", "FAILED"} /\ (ok <=> Receipt(ok) = "OK")
  BY DEF Receipt

LEMMA PrepareLanded ==
  ASSUME NEW j, NEW s, NEW d, Ready(j, s, d), ~s.loading, j.step = "NATIVE_PREPARE", NEW reads \in BOOLEAN,
         P!MemberPrepare(j.request, "OK", reads), NEW x, Hooked(j, s, d, x)
  PROVE  Landed(j)
<1> DEFINE m == IF x.confirm THEN RequireConfirmation(j) ELSE j
           r == Receipt(x.ok)
<1>1. /\ j \in JointType /\ JointInv(j) /\ BaseInv(j, completed, native.generation)
      /\ s \in ServiceType /\ d \in DisplayType /\ RuntimeInv(native, s, d, inputs) /\ s.recovery = "none"
      /\ native \in P!ParticipantType /\ touched \in BOOLEAN /\ inputs \in InputType /\ completed \in Generations
      /\ ForNative(j) /\ j.request \in Requests
  BY DEF Ready, Running
<1>2. j.pending # NoCommand /\ ProgressInv(j) /\ ~Spent(j) /\ j.pending.operation = "PREPARE"
  BY <1>1, NativeFacts DEF Dispatch
<1>3. ~j.requireConfirmation /\ Believed(inputs) /\ Confirmed(native) /\ s.bootMonitors = LayoutOf[native.generation]
  BY <1>1, <1>2 DEF Ready, Running, StepInv, RuntimeInv, Confirmed
<1>4. /\ native' \in P!ParticipantType /\ touched' \in BOOLEAN /\ Confirmed(native)'
      /\ native'.generation = native.generation
      /\ native.generation = j.request.base /\ native'.request.generation = j.request.candidate
  BY <1>1, <1>3, PrepareMember
<1>5. x \in PrepareHooks(s, d, inputs, j.request.candidate) /\ j.request.candidate \in Generations
  BY <1>1, <1>2 DEF Hooked, Hooks, Requests
<1>6. /\ svc' \in ServiceType /\ display' \in DisplayType /\ inputs' \in InputType /\ Believed(inputs')
      /\ x.ok \in BOOLEAN /\ x.confirm \in BOOLEAN
      /\ svc'.loading = s.loading /\ svc'.recovery = s.recovery /\ svc'.bootMonitors = s.bootMonitors
      /\ ~svc'.monitorRestored /\ svc'.since = "unset"
      /\ x.ok => /\ svc'.inputPrepared /\ inputs'.candidate = j.request.candidate
                 /\ svc'.monitorChange <=> LayoutOf[j.request.candidate] # s.bootMonitors
                 /\ svc'.monitorChange => display'.prepared /\ display'.candidate = LayoutOf[j.request.candidate]
                 /\ x.confirm <=> svc'.monitorChange
  BY <1>1, <1>3, <1>5, PrepareHookFacts DEF Hooked
<1>7. /\ m \in JointType /\ JointInv(m) /\ m.pending = j.pending /\ m.request = j.request /\ m.step = j.step
      /\ m.state = j.state /\ m.prepared = j.prepared
      /\ m.publishAttempted = j.publishAttempted /\ m.awaitingConfirmation = j.awaitingConfirmation
      /\ m.requireConfirmation <=> x.confirm
  <2>1. CASE x.confirm
    <3>1. m = RequireConfirmation(j)
      BY <2>1
    <3> HIDE DEF m
    <3> QED
      BY <1>1, <1>2, <2>1, <3>1, RequireGood
  <2>2. CASE ~x.confirm
    BY <1>1, <1>3, <2>2
  <2> QED
    BY <2>1, <2>2
<1>8. Reply(m, m.pending, r, Malformed)
  BY <1>7 DEF Hooked
<1>9. r \in {"OK", "FAILED"} /\ (x.ok <=> r = "OK")
  BY <1>6, Receipts
<1> HIDE DEF m, r
<1>10. BaseInv(m, completed, native.generation) /\ ForNative(m)
  <2>1. ~Spent(m)
    BY <1>2, <1>7 DEF Spent
  <2> QED
    BY <1>1, <1>2, <1>7, <2>1 DEF BaseInv, ForNative
<1>11. /\ joint' \in JointType /\ JointInv(joint') /\ joint'.request = j.request
       /\ BaseInv(joint', completed, native'.generation)
       /\ joint'.pending # NoCommand => joint'.step # "PUBLISH"
  BY <1>1, <1>4, <1>7, <1>8, <1>9, <1>10, NativeReply
<1>12. \/ Spent(joint')
       \/ /\ Kept(m, joint') /\ ~joint'.publishAttempted /\ ~joint'.awaitingConfirmation
          /\ joint'.step = IF r = "OK" THEN Follows[m.step] ELSE "RESOLVE"
  BY <1>2, <1>7, <1>8, <1>9, TriedReply
<1>13. RuntimeInv(native', svc', display', inputs')
  BY <1>3, <1>4, <1>6 DEF RuntimeInv, Confirmed, Reverts
<1>14. ~Spent(joint') => StepInv(joint', native', svc', display', inputs')
  <2> SUFFICES ASSUME ~Spent(joint') PROVE StepInv(joint', native', svc', display', inputs')
    OBVIOUS
  <2>1. CASE r = "FAILED"
    <3>1. joint'.step = "RESOLVE" /\ ~On(joint')
      BY <1>12, <2>1 DEF On, Trying
    <3> QED
      BY <1>12, <3>1 DEF StepInv, Checked, Restored
  <2>2. CASE r = "OK"
    <3>1. joint'.step = "SHELL_PREPARE" /\ joint'.requireConfirmation = m.requireConfirmation
      BY <1>7, <1>12, <2>2 DEF Kept, Follows
    <3>2. Armed(joint', svc', display', inputs')
      <4>1. svc'.monitorChange <=> LayoutOf[j.request.candidate] # LayoutOf[j.request.base]
        BY <1>3, <1>4, <1>6, <1>9, <2>2
      <4>2. joint'.requireConfirmation <=> svc'.monitorChange
        BY <1>6, <1>7, <1>9, <2>2, <3>1
      <4> QED
        BY <1>6, <1>9, <1>11, <2>2, <4>1, <4>2 DEF Armed
    <3> QED
      BY <1>4, <1>6, <1>11, <1>12, <3>1, <3>2 DEF StepInv, Checked, Restored
  <2> QED
    BY <1>9, <2>1, <2>2
<1> QED
  BY <1>1, <1>4, <1>6, <1>11, <1>13, <1>14 DEF Landed, Running

LEMMA DisplayHooks ==
  ASSUME NEW operation \in {"APPLY", "VERIFY", "RESTORE", "CONFIRM"}, NEW s \in ServiceType, NEW d \in DisplayType,
         NEW g \in Generations, NEW y \in DisplayHook(operation, s, d, g)
  PROVE  /\ y.svc \in ServiceType /\ y.display \in DisplayType /\ y.ok \in BOOLEAN /\ Armful(s, y.svc)
         /\ y.display.prepared = d.prepared /\ y.display.candidate = d.candidate
         /\ operation # "CONFIRM" => y.svc.bootMonitors = s.bootMonitors
         /\ operation # "RESTORE" => y.svc.monitorRestored = s.monitorRestored
         /\ operation # "APPLY" => y.svc.since = s.since /\ (Back(d) => Back(y.display))
         /\ operation = "VERIFY" => y.svc = s /\ y.display = d /\ (s.monitorChange /\ y.ok => DisplayVerify(d))
         /\ operation = "CONFIRM" => y.ok /\ y.display = d
         /\ operation = "CONFIRM" /\ s.monitorChange => y.svc.bootMonitors = LayoutOf[g]
         /\ operation = "CONFIRM" /\ ~s.monitorChange => y.svc.bootMonitors = s.bootMonitors
         /\ operation = "RESTORE" /\ y.svc.monitorRestored /\ d.prepared =>
              Back(y.display) \/ (s.monitorRestored /\ y.display = d)
         /\ operation = "RESTORE" /\ s.monitorChange /\ y.ok => y.svc.monitorRestored
         /\ operation # "APPLY" /\ Reverts(s, d) => Reverts(y.svc, y.display)
<1> DEFINE same == [ok |-> TRUE, svc |-> s, display |-> d]
<1>1. CASE y = same /\ (~s.monitorChange \/ (operation = "RESTORE" /\ s.monitorRestored))
  BY <1>1 DEF Armful
<1>2. CASE s.monitorChange /\ operation = "APPLY"
  <2>1. PICK o \in DisplayApply(d) : y = [ok |-> o.ok, svc |-> [s EXCEPT !.since = "running"], display |-> o.to]
    BY <1>2 DEF DisplayHook
  <2>2. o.to \in DisplayType /\ o.ok \in BOOLEAN /\ o.to.prepared = d.prepared /\ o.to.candidate = d.candidate
    BY DisplayApplies
  <2>3. y.ok = o.ok /\ y.svc = [s EXCEPT !.since = "running"] /\ y.display = o.to
    BY <2>1
  <2>4. y.svc \in ServiceType /\ Armful(s, y.svc) /\ y.svc.bootMonitors = s.bootMonitors
        /\ y.svc.monitorRestored = s.monitorRestored
    BY <2>3 DEF ServiceType, Armful
  <2> QED
    BY <1>2, <2>2, <2>3, <2>4
<1>3. CASE s.monitorChange /\ operation = "VERIFY"
  <2>1. y = [ok |-> ~s.cancelMonitor /\ DisplayVerify(d), svc |-> s, display |-> d]
    BY <1>3 DEF DisplayHook
  <2>2. y.svc = s /\ y.display = d /\ (y.ok <=> ~s.cancelMonitor /\ DisplayVerify(d)) /\ y.ok \in BOOLEAN
    BY <2>1 DEF ServiceType, DisplayVerify, Healthy, DisplayType
  <2> QED
    BY <1>3, <2>2 DEF Armful
<1>4. CASE s.monitorChange /\ operation = "RESTORE" /\ ~s.monitorRestored
  <2>1. PICK o \in DisplayRestore(d) :
          y = [ok |-> o.ok, svc |-> [s EXCEPT !.monitorRestored = o.ok], display |-> o.to]
    BY <1>4 DEF DisplayHook
  <2>2. /\ o.to \in DisplayType /\ o.ok \in BOOLEAN /\ o.to.prepared = d.prepared /\ o.to.candidate = d.candidate
        /\ Back(d) => Back(o.to)
        /\ o.ok /\ d.prepared => Back(o.to)
        /\ o.ok /\ Healthy(o.to) => o.to.live = o.to.baseline
    BY DisplayRestores
  <2>3. y.ok = o.ok /\ y.svc = [s EXCEPT !.monitorRestored = o.ok] /\ y.display = o.to
    BY <2>1
  <2>4. y.svc \in ServiceType /\ Armful(s, y.svc) /\ y.svc.bootMonitors = s.bootMonitors
        /\ y.svc.monitorRestored = o.ok /\ y.svc.since = s.since
    BY <2>2, <2>3 DEF ServiceType, Armful
  <2> QED
    BY <1>4, <2>2, <2>3, <2>4 DEF Reverts
<1>5. CASE s.monitorChange /\ operation = "CONFIRM"
  <2>1. y = [ok |-> TRUE, svc |-> Adopted(s, g), display |-> d]
    BY <1>5 DEF DisplayHook
  <2>2. LayoutOf[g] \in Layouts
    BY LayoutAssumption
  <2>3. /\ Adopted(s, g) \in ServiceType /\ Armful(s, Adopted(s, g)) /\ Adopted(s, g).since = s.since
        /\ Adopted(s, g).monitorRestored = s.monitorRestored /\ Adopted(s, g).bootMonitors = LayoutOf[g]
    BY <2>2 DEF ServiceType, Armful, Adopted
  <2>4. y.ok = TRUE /\ y.svc = Adopted(s, g) /\ y.display = d
    BY <2>1
  <2> QED
    BY <1>5, <2>3, <2>4 DEF Reverts
<1>6. s.monitorChange \in BOOLEAN /\ s.monitorRestored \in BOOLEAN
  BY DEF ServiceType
<1>7. ~s.monitorChange => y = same
  BY DEF DisplayHook
<1>8. s.monitorChange /\ operation = "RESTORE" /\ s.monitorRestored => y = same
  BY DEF DisplayHook
<1> HIDE DEF same
<1> QED
  <2>1. CASE ~s.monitorChange
    <3>1. y = same
      BY <1>7, <2>1
    <3>2. y.ok = TRUE /\ y.svc = s /\ y.display = d
      BY <3>1 DEF same
    <3> QED
      BY <2>1, <3>2 DEF Armful
  <2>2. CASE s.monitorChange /\ operation = "RESTORE" /\ s.monitorRestored
    BY <1>1, <1>8, <2>2
  <2>3. \/ ~s.monitorChange
        \/ s.monitorChange /\ operation = "APPLY"
        \/ s.monitorChange /\ operation = "VERIFY"
        \/ s.monitorChange /\ operation = "RESTORE" /\ s.monitorRestored
        \/ s.monitorChange /\ operation = "RESTORE" /\ ~s.monitorRestored
        \/ s.monitorChange /\ operation = "CONFIRM"
    BY <1>6
  <2> QED
    BY <1>2, <1>3, <1>4, <1>5, <2>1, <2>2, <2>3

LEMMA ArmedKept ==
  ASSUME NEW j, NEW k, NEW s, NEW t, NEW d, NEW e, NEW i, NEW p, Armed(j, s, d, i), k.request = j.request,
         k.requireConfirmation = j.requireConfirmation, Armful(s, t),
         e.prepared = d.prepared, e.candidate = d.candidate, p.candidate = i.candidate
  PROVE  Armed(k, t, e, p)
  BY DEF Armed, Armful

(* The hook of the display, then the one of the input runtime.              *)
Began(operation, s, d, g, x) ==
  \E y \in DisplayHook(operation, s, d, g) :
    /\ svc' = y.svc /\ display' = y.display
    /\ \/ y.ok /\ \E z \in InputHook(operation, y.svc, inputs) : x.ok = z.ok /\ inputs' = z.to
       \/ ~y.ok /\ x.ok = FALSE /\ inputs' = inputs

(* What the later native commands start from, and what their hooks are.     *)
LEMMA LaterHooked ==
  ASSUME NEW j, NEW s, NEW d, Ready(j, s, d), ~s.loading, j.step # "NATIVE_PREPARE", NEW x, Hooked(j, s, d, x)
  PROVE  /\ j \in JointType /\ JointInv(j) /\ BaseInv(j, completed, native.generation)
         /\ s \in ServiceType /\ d \in DisplayType /\ RuntimeInv(native, s, d, inputs) /\ s.recovery = "none"
         /\ native \in P!ParticipantType /\ touched \in BOOLEAN /\ inputs \in InputType
         /\ completed \in Generations /\ ForNative(j) /\ j.request \in Requests /\ j.request.candidate \in Generations
         /\ j.pending # NoCommand /\ ProgressInv(j) /\ ~Spent(j) /\ StepInv(j, native, s, d, inputs)
         /\ Confirmed(native) /\ Believed(inputs)
         /\ j.pending.operation \in {"APPLY", "VERIFY", "RESTORE", "CONFIRM"}
         /\ x.ok \in BOOLEAN /\ Receipt(x.ok) \in {"OK", "FAILED"} /\ (x.ok <=> Receipt(x.ok) = "OK")
         /\ Reply(j, j.pending, Receipt(x.ok), Malformed)
         /\ Began(j.pending.operation, s, d, j.request.candidate, x)
<1>1. /\ j \in JointType /\ JointInv(j) /\ BaseInv(j, completed, native.generation)
      /\ s \in ServiceType /\ d \in DisplayType /\ RuntimeInv(native, s, d, inputs) /\ s.recovery = "none"
      /\ native \in P!ParticipantType /\ touched \in BOOLEAN /\ inputs \in InputType /\ completed \in Generations
      /\ ForNative(j) /\ j.request \in Requests /\ j.request.candidate \in Generations
  BY DEF Ready, Running, Requests
<1>2. j.pending # NoCommand /\ ProgressInv(j) /\ ~Spent(j) /\ j.step \in NativeSteps
      /\ j.pending.operation = Dispatch[j.step].operation
  BY <1>1, NativeFacts
<1>3. StepInv(j, native, s, d, inputs) /\ Confirmed(native) /\ Believed(inputs)
  BY <1>1, <1>2 DEF Ready, Running, RuntimeInv, Confirmed
<1>4. j.pending.operation \in {"APPLY", "VERIFY", "RESTORE", "CONFIRM"}
  BY <1>2 DEF NativeSteps, Dispatch
<1>5. PICK y \in DisplayHook(j.pending.operation, s, d, j.request.candidate) :
           /\ x.svc = y.svc /\ x.display = y.display /\ x.confirm = FALSE
           /\ \/ y.ok /\ \E z \in InputHook(j.pending.operation, y.svc, inputs) : x.ok = z.ok /\ x.inputs = z.to
              \/ ~y.ok /\ x.ok = FALSE /\ x.inputs = inputs
  <2>1. x \in Hooks(j.pending.operation, s, d, inputs, j.request.candidate) /\ j.pending.operation # "PREPARE"
    BY <1>4 DEF Hooked
  <2> QED
    <3>1. HookOf(j.pending.operation, s, d, inputs, j.request.candidate, x)
      BY <2>1, HookSplit
    <3> QED
      BY <3>1 DEF HookOf
<1>6. x.ok \in BOOLEAN
  <2>1. CASE ~y.ok
    BY <1>5, <2>1
  <2>2. CASE y.ok
    <3>1. PICK z \in InputHook(j.pending.operation, y.svc, inputs) : x.ok = z.ok
      BY <1>5, <2>2
    <3> QED
      BY <1>1, <1>3, <1>4, <3>1, InputHooks
  <2> QED
    BY <2>1, <2>2
<1>7. Reply(j, j.pending, Receipt(x.ok), Malformed)
  BY <1>5 DEF Hooked
<1>8. Receipt(x.ok) \in {"OK", "FAILED"} /\ (x.ok <=> Receipt(x.ok) = "OK")
  BY <1>6, Receipts
<1>9. Began(j.pending.operation, s, d, j.request.candidate, x)
  BY <1>5 DEF Hooked, Began
<1> QED
  BY <1>1, <1>2, <1>3, <1>4, <1>6, <1>7, <1>8, <1>9

LEMMA ApplyLanded ==
  ASSUME NEW j, NEW s, NEW d, Ready(j, s, d), ~s.loading, j.step = "NATIVE_APPLY", NEW reads \in BOOLEAN,
         P!MemberApply(j.request, "OK", reads), NEW x, Hooked(j, s, d, x)
  PROVE  Landed(j)
<1> DEFINE g == j.request.candidate
           r == Receipt(x.ok)
<1>1. /\ j \in JointType /\ JointInv(j) /\ BaseInv(j, completed, native.generation)
      /\ s \in ServiceType /\ d \in DisplayType /\ RuntimeInv(native, s, d, inputs) /\ s.recovery = "none"
      /\ native \in P!ParticipantType /\ touched \in BOOLEAN /\ inputs \in InputType
      /\ completed \in Generations /\ ForNative(j) /\ g \in Generations
      /\ j.pending # NoCommand /\ ProgressInv(j) /\ ~Spent(j) /\ StepInv(j, native, s, d, inputs)
      /\ Confirmed(native) /\ Believed(inputs)
      /\ r \in {"OK", "FAILED"} /\ (x.ok <=> r = "OK")
      /\ Reply(j, j.pending, r, Malformed)
  BY LaterHooked
<1>2. j.pending.operation = "APPLY"
  BY <1>1, NativeFacts DEF Dispatch
<1>3. PICK y \in DisplayHook("APPLY", s, d, g) :
        /\ svc' = y.svc /\ display' = y.display
        /\ \/ y.ok /\ \E z \in InputHook("APPLY", y.svc, inputs) : x.ok = z.ok /\ inputs' = z.to
           \/ ~y.ok /\ x.ok = FALSE /\ inputs' = inputs
  <2>1. Began("APPLY", s, d, g, x)
    BY <1>2, LaterHooked
  <2> QED
    BY <2>1 DEF Began
<1>4. /\ svc' \in ServiceType /\ display' \in DisplayType /\ Armful(s, svc')
      /\ display'.prepared = d.prepared /\ display'.candidate = d.candidate
      /\ svc'.bootMonitors = s.bootMonitors /\ svc'.monitorRestored = s.monitorRestored
  BY <1>1, <1>3, DisplayHooks
<1>5. inputs' \in InputType /\ Believed(inputs') /\ inputs'.candidate = inputs.candidate
  <2>1. CASE inputs' = inputs
    BY <1>1, <2>1
  <2>2. CASE \E z \in InputHook("APPLY", y.svc, inputs) : inputs' = z.to
    BY <1>1, <2>2, InputHooks
  <2> QED
    BY <1>3, <2>1, <2>2
<1>6. /\ native' \in P!ParticipantType /\ touched' \in BOOLEAN /\ Confirmed(native)'
      /\ native'.generation = native.generation /\ native'.request = native.request
  BY <1>1, ApplyMember
<1>7. On(j) /\ ~s.monitorRestored /\ native.request.generation = g /\ Armed(j, s, d, inputs)
  BY <1>1 DEF StepInv, On, Trying
<1> HIDE DEF r
<1>8. /\ joint' \in JointType /\ JointInv(joint') /\ joint'.request = j.request
      /\ BaseInv(joint', completed, native'.generation)
      /\ joint'.pending # NoCommand => joint'.step # "PUBLISH"
  BY <1>1, <1>6, NativeReply
<1>9. \/ Spent(joint')
      \/ /\ Kept(j, joint') /\ ~joint'.publishAttempted /\ ~joint'.awaitingConfirmation
         /\ joint'.step = IF r = "OK" THEN Follows[j.step] ELSE "RESOLVE"
  BY <1>1, TriedReply
<1>10. RuntimeInv(native', svc', display', inputs')
  BY <1>1, <1>4, <1>5, <1>6, <1>7 DEF RuntimeInv, Confirmed, Reverts
<1>11. ~Spent(joint') => StepInv(joint', native', svc', display', inputs')
  <2> SUFFICES ASSUME ~Spent(joint') PROVE StepInv(joint', native', svc', display', inputs')
    OBVIOUS
  <2>1. joint'.step \in {"SHELL_APPLY", "RESOLVE"} /\ Kept(j, joint')
    BY <1>1, <1>9 DEF Follows
  <2>2. Armed(joint', svc', display', inputs')
    BY <1>4, <1>5, <1>7, <2>1, ArmedKept DEF Kept
  <2>3. native'.request.generation = joint'.request.candidate
    BY <1>6, <1>7, <1>8
  <2> QED
    BY <1>9, <2>1, <2>2, <2>3 DEF StepInv, Checked, Restored
<1>12. svc'.recovery = "none" /\ ~svc'.loading
  BY <1>1, <1>4 DEF Armful
<1> QED
  BY <1>4, <1>5, <1>6, <1>8, <1>10, <1>11, <1>12 DEF Landed, Running

LEMMA VerifyLanded ==
  ASSUME NEW j, NEW s, NEW d, Ready(j, s, d), ~s.loading, j.step \in {"NATIVE_VERIFY", "NATIVE_FINAL_VERIFY"},
         P!MemberVerify(j.request, "OK", TRUE) \/ P!MemberVerify(j.request, "OK", FALSE), NEW x, Hooked(j, s, d, x)
  PROVE  Landed(j)
<1> DEFINE g == j.request.candidate
           r == Receipt(x.ok)
<1>1. /\ j \in JointType /\ JointInv(j) /\ BaseInv(j, completed, native.generation)
      /\ s \in ServiceType /\ d \in DisplayType /\ RuntimeInv(native, s, d, inputs) /\ s.recovery = "none"
      /\ native \in P!ParticipantType /\ touched \in BOOLEAN /\ inputs \in InputType
      /\ completed \in Generations /\ ForNative(j) /\ g \in Generations
      /\ j.pending # NoCommand /\ ProgressInv(j) /\ ~Spent(j) /\ StepInv(j, native, s, d, inputs)
      /\ Confirmed(native) /\ Believed(inputs)
      /\ r \in {"OK", "FAILED"} /\ (x.ok <=> r = "OK")
      /\ Reply(j, j.pending, r, Malformed)
  BY LaterHooked
<1>2. j.pending.operation = "VERIFY"
  BY <1>1, NativeFacts DEF Dispatch
<1>3. PICK y \in DisplayHook("VERIFY", s, d, g) :
        /\ svc' = y.svc /\ display' = y.display
        /\ \/ y.ok /\ \E z \in InputHook("VERIFY", y.svc, inputs) : x.ok = z.ok /\ inputs' = z.to
           \/ ~y.ok /\ x.ok = FALSE /\ inputs' = inputs
  <2>1. Began("VERIFY", s, d, g, x)
    BY <1>2, LaterHooked
  <2> QED
    BY <2>1 DEF Began
<1>4. svc' = s /\ display' = d /\ (s.monitorChange /\ y.ok => DisplayVerify(d)) /\ y.svc = s
  BY <1>1, <1>3, DisplayHooks
<1>5. inputs' = inputs
  <2>1. CASE \E z \in InputHook("VERIFY", y.svc, inputs) : inputs' = z.to
    BY <1>1, <2>1, InputHooks
  <2> QED
    BY <1>3, <2>1
<1>6. native' = native /\ touched' = touched
  BY DEF P!MemberVerify, P!Verify
<1>7. On(j) /\ native.request.generation = g /\ Armed(j, s, d, inputs)
  <2>1. On(j)
    BY <1>1 DEF On, Trying, ProgressInv, Going
  <2> QED
    BY <1>1, <2>1 DEF StepInv
<1>8. x.ok => InForce(inputs, g) /\ (s.monitorChange => d.live = LayoutOf[g])
  <2> SUFFICES ASSUME x.ok PROVE InForce(inputs, g) /\ (s.monitorChange => d.live = LayoutOf[g])
    OBVIOUS
  <2>1. PICK z \in InputHook("VERIFY", s, inputs) : x.ok = z.ok
    BY <1>3, <1>4
  <2>2. y.ok
    BY <1>3
  <2>3. InForce(inputs, inputs.candidate)
    BY <1>1, <1>7, <2>1, InputHooks DEF Armed
  <2> QED
    BY <1>4, <1>7, <2>2, <2>3 DEF Armed, DisplayVerify
<1> HIDE DEF r, g
<1>9. /\ joint' \in JointType /\ JointInv(joint') /\ joint'.request = j.request
      /\ BaseInv(joint', completed, native'.generation) /\ Effect(j, joint', r, Malformed)
      /\ joint'.pending # NoCommand => joint'.step # "PUBLISH"
  BY <1>1, <1>6, NativeReply
<1>10. ~Spent(joint') => StepInv(joint', native, s, d, inputs)
  <2>1. CASE r = "FAILED"
    BY <1>1, <1>9, <2>1, StepEffect
  <2>2. CASE r = "OK" /\ j.step = "NATIVE_VERIFY"
    <3> SUFFICES ASSUME ~Spent(joint') PROVE StepInv(joint', native, s, d, inputs)
      OBVIOUS
    <3>1. joint'.step = "SHELL_VERIFY" /\ Kept(j, joint') /\ ~joint'.publishAttempted
      BY <1>1, <2>2, TriedReply DEF Follows
    <3>2. Armed(joint', s, d, inputs)
      BY <1>7, <3>1 DEF Armed, Kept
    <3> QED
      BY <1>7, <1>9, <3>1, <3>2 DEF StepInv, Checked, g, Restored
  <2>3. CASE r = "OK" /\ j.step = "NATIVE_FINAL_VERIFY"
    <3> SUFFICES ASSUME ~Spent(joint') PROVE StepInv(joint', native, s, d, inputs)
      OBVIOUS
    <3>1. Kept(j, joint') /\ joint'.step \in {"SHELL_FINAL_VERIFY", "NATIVE_FINAL_VERIFY"}
      BY <1>9, <2>3 DEF Effect, Undone, Advanced, Ended, Resolving, Follows
    <3>2. Armed(joint', s, d, inputs)
      BY <1>7, <3>1 DEF Armed, Kept
    <3>3. joint'.publishAttempted /\ s.monitorChange => s.since = "unset"
      BY <1>1, <3>1 DEF StepInv, Kept
    <3> QED
      BY <1>1, <1>7, <1>8, <1>9, <2>3, <3>1, <3>2, <3>3 DEF StepInv, Checked, g, Restored
  <2> QED
    BY <1>1, <2>1, <2>2, <2>3
<1>11. s.recovery = "none" /\ ~s.loading
  BY <1>1
<1> QED
  BY <1>1, <1>4, <1>5, <1>6, <1>9, <1>10, <1>11 DEF Landed, Running

LEMMA RestoreLanded ==
  ASSUME NEW j, NEW s, NEW d, Ready(j, s, d), ~s.loading, j.step = "NATIVE_RESTORE", NEW reads \in BOOLEAN,
         P!MemberRestore(j.request, "OK", reads), NEW x, Hooked(j, s, d, x)
  PROVE  Landed(j)
<1> DEFINE g == j.request.candidate
           r == Receipt(x.ok)
<1>1. /\ j \in JointType /\ JointInv(j) /\ BaseInv(j, completed, native.generation)
      /\ s \in ServiceType /\ d \in DisplayType /\ RuntimeInv(native, s, d, inputs) /\ s.recovery = "none"
      /\ native \in P!ParticipantType /\ touched \in BOOLEAN /\ inputs \in InputType
      /\ completed \in Generations /\ ForNative(j) /\ g \in Generations
      /\ j.pending # NoCommand /\ ProgressInv(j) /\ ~Spent(j) /\ StepInv(j, native, s, d, inputs)
      /\ Confirmed(native) /\ Believed(inputs)
      /\ r \in {"OK", "FAILED"} /\ (x.ok <=> r = "OK")
      /\ Reply(j, j.pending, r, Malformed)
  BY LaterHooked
<1>2. j.pending.operation = "RESTORE"
  BY <1>1, NativeFacts DEF Dispatch
<1>3. PICK y \in DisplayHook("RESTORE", s, d, g) :
        /\ svc' = y.svc /\ display' = y.display
        /\ \/ y.ok /\ \E z \in InputHook("RESTORE", y.svc, inputs) : x.ok = z.ok /\ inputs' = z.to
           \/ ~y.ok /\ x.ok = FALSE /\ inputs' = inputs
  <2>1. Began("RESTORE", s, d, g, x)
    BY <1>2, LaterHooked
  <2> QED
    BY <2>1 DEF Began
<1>4. /\ svc' \in ServiceType /\ display' \in DisplayType /\ Armful(s, svc')
      /\ display'.prepared = d.prepared /\ display'.candidate = d.candidate
      /\ svc'.bootMonitors = s.bootMonitors /\ svc'.since = s.since /\ (Back(d) => Back(display'))
      /\ svc'.monitorRestored /\ d.prepared => Back(display') \/ (s.monitorRestored /\ display' = d)
      /\ s.monitorChange /\ y.ok => svc'.monitorRestored
      /\ Reverts(svc', display')
  BY <1>1, <1>3, DisplayHooks DEF RuntimeInv
<1>5. inputs' \in InputType /\ Believed(inputs') /\ inputs'.candidate = inputs.candidate
  <2>1. CASE inputs' = inputs
    BY <1>1, <2>1
  <2>2. CASE \E z \in InputHook("RESTORE", y.svc, inputs) : inputs' = z.to
    BY <1>1, <2>2, InputHooks
  <2> QED
    BY <1>3, <2>1, <2>2
<1>6. /\ native' \in P!ParticipantType /\ touched' \in BOOLEAN /\ Confirmed(native)'
      /\ native'.generation = native.generation /\ native'.request = native.request
  BY <1>1, RestoreMember
<1>7. svc'.monitorRestored /\ d.prepared => Back(display')
  BY <1>1, <1>4 DEF RuntimeInv
<1>8. StepInv(j, native', svc', display', inputs')
  <2>1. On(j) => native'.request.generation = g /\ Armed(j, s, d, inputs)
    BY <1>1, <1>6 DEF StepInv
  <2>2. On(j) => native'.request.generation = g /\ Armed(j, svc', display', inputs')
    BY <1>4, <1>5, <2>1, ArmedKept
  <2>3. j.publishAttempted /\ svc'.monitorChange => svc'.since = "unset"
    BY <1>1, <1>4 DEF StepInv, Armful
  <2> QED
    BY <2>2, <2>3 DEF StepInv, Checked, Restored
<1>9. x.ok /\ j.awaitingConfirmation => Back(display')
  <2> SUFFICES ASSUME x.ok, j.awaitingConfirmation PROVE Back(display')
    OBVIOUS
  <2>1. Armed(j, s, d, inputs) /\ j.requireConfirmation
    BY <1>1 DEF StepInv, On, ProgressInv
  <2>2. s.monitorChange /\ d.prepared /\ y.ok
    BY <1>3, <2>1 DEF Armed
  <2> QED
    BY <1>4, <1>7, <2>2
<1>14. x.ok => /\ svc'.inputPrepared => inputs'.devices = inputs'.devicesBefore /\ inputs'.desktop = inputs'.desktopBefore
               /\ svc'.monitorChange => svc'.monitorRestored
  <2> SUFFICES ASSUME x.ok
               PROVE  /\ svc'.inputPrepared => inputs'.devices = inputs'.devicesBefore /\ inputs'.desktop = inputs'.desktopBefore
                      /\ svc'.monitorChange => svc'.monitorRestored
    OBVIOUS
  <2>1. y.ok /\ \E z \in InputHook("RESTORE", svc', inputs) : z.ok /\ inputs' = z.to
    BY <1>3
  <2>2. svc'.inputPrepared => inputs'.devices = inputs'.devicesBefore /\ inputs'.desktop = inputs'.desktopBefore
    BY <1>1, <2>1, InputHooks
  <2>3. svc'.monitorChange => svc'.monitorRestored
    BY <1>4, <2>1 DEF Armful
  <2> QED
    BY <2>2, <2>3
<1> HIDE DEF r, g
<1>10. /\ joint' \in JointType /\ JointInv(joint') /\ joint'.request = j.request
       /\ BaseInv(joint', completed, native'.generation) /\ Effect(j, joint', r, Malformed)
       /\ joint'.pending # NoCommand => joint'.step # "PUBLISH"
  BY <1>1, <1>6, NativeReply
<1>11. RuntimeInv(native', svc', display', inputs')
  BY <1>1, <1>4, <1>5, <1>6, <1>7 DEF RuntimeInv, Confirmed
<1>12. ~Spent(joint') => StepInv(joint', native', svc', display', inputs')
  <2>1. CASE r = "FAILED"
    BY <1>1, <1>8, <1>10, <2>1, StepEffect
  <2>2. CASE r = "OK"
    <3> SUFFICES ASSUME ~Spent(joint') PROVE StepInv(joint', native', svc', display', inputs')
      OBVIOUS
    <3>1. Kept(j, joint') /\ joint'.step \in {"NATIVE_RESTORE", "ABANDON"}
      BY <1>10, <2>2 DEF Effect, Undone, Advanced, Ended, Resolving, Follows
    <3>2. On(joint') => On(j)
      BY <3>1 DEF On, Kept, Trying
    <3>3. On(joint') => /\ native'.request.generation = joint'.request.candidate
                        /\ Armed(joint', svc', display', inputs')
      BY <1>8, <3>1, <3>2 DEF StepInv, Armed, Kept
    <3> QED
      BY <1>1, <1>8, <1>9, <1>14, <2>2, <3>1, <3>3 DEF StepInv, Checked, Kept, Restored, Restored
  <2> QED
    BY <1>1, <2>1, <2>2
<1>13. svc'.recovery = "none" /\ ~svc'.loading
  BY <1>1, <1>4 DEF Armful
<1> QED
  BY <1>4, <1>5, <1>6, <1>10, <1>11, <1>12, <1>13 DEF Landed, Running

LEMMA ConfirmLanded ==
  ASSUME NEW j, NEW s, NEW d, Ready(j, s, d), ~s.loading, j.step = "NATIVE_CONFIRM", NEW reads \in BOOLEAN,
         P!MemberConfirm(j.request, "OK", reads), NEW x, Hooked(j, s, d, x)
  PROVE  Landed(j)
<1> DEFINE g == j.request.candidate
           r == Receipt(x.ok)
<1>1. /\ j \in JointType /\ JointInv(j) /\ BaseInv(j, completed, native.generation)
      /\ s \in ServiceType /\ d \in DisplayType /\ RuntimeInv(native, s, d, inputs) /\ s.recovery = "none"
      /\ native \in P!ParticipantType /\ touched \in BOOLEAN /\ inputs \in InputType
      /\ completed \in Generations /\ ForNative(j) /\ g \in Generations
      /\ j.pending # NoCommand /\ ProgressInv(j) /\ ~Spent(j) /\ StepInv(j, native, s, d, inputs)
      /\ Confirmed(native) /\ Believed(inputs)
      /\ r \in {"OK", "FAILED"} /\ (x.ok <=> r = "OK")
      /\ Reply(j, j.pending, r, Malformed)
  BY LaterHooked
<1>2. j.pending.operation = "CONFIRM"
  BY <1>1, NativeFacts DEF Dispatch
<1>3. PICK y \in DisplayHook("CONFIRM", s, d, g) :
        /\ svc' = y.svc /\ display' = y.display
        /\ \/ y.ok /\ \E z \in InputHook("CONFIRM", y.svc, inputs) : x.ok = z.ok /\ inputs' = z.to
           \/ ~y.ok /\ x.ok = FALSE /\ inputs' = inputs
  <2>1. Began("CONFIRM", s, d, g, x)
    BY <1>2, LaterHooked
  <2> QED
    BY <2>1 DEF Began
<1>4. /\ svc' \in ServiceType /\ Armful(s, svc') /\ display' = d /\ y.ok
      /\ svc'.monitorRestored = s.monitorRestored /\ svc'.since = s.since
      /\ Reverts(svc', display')
      /\ s.monitorChange => svc'.bootMonitors = LayoutOf[g]
      /\ ~s.monitorChange => svc'.bootMonitors = s.bootMonitors
  BY <1>1, <1>3, DisplayHooks DEF RuntimeInv
<1>5. inputs' = inputs /\ r = "OK"
  <2>1. PICK z \in InputHook("CONFIRM", y.svc, inputs) : x.ok = z.ok /\ inputs' = z.to
    BY <1>3, <1>4
  <2>2. z.to = inputs /\ z.ok
    BY <1>1, InputHooks
  <2> QED
    BY <1>1, <2>1, <2>2
<1>6. On(j) /\ native.request.generation = g /\ Armed(j, s, d, inputs)
  <2>1. On(j)
    BY <1>1 DEF On, ProgressInv, Going
  <2> QED
    BY <1>1, <2>1 DEF StepInv
<1>7. /\ native' \in P!ParticipantType /\ touched' \in BOOLEAN /\ Confirmed(native)'
      /\ native'.generation = g /\ native'.request = native.request
  BY <1>1, <1>6, ConfirmMember
<1>8. svc'.bootMonitors = LayoutOf[g]
  <2>1. native.generation \in {j.request.base, g}
    BY <1>1 DEF BaseInv, ProgressInv
  <2>2. ~s.monitorChange => LayoutOf[native.generation] = LayoutOf[g]
    BY <1>6, <2>1 DEF Armed
  <2> QED
    BY <1>1, <1>4, <2>2 DEF RuntimeInv
<1>9. RuntimeInv(native', svc', display', inputs')
  BY <1>1, <1>4, <1>5, <1>7, <1>8 DEF RuntimeInv, Confirmed
<1> HIDE DEF r
<1>10. /\ joint' \in JointType /\ JointInv(joint') /\ joint'.request = j.request
       /\ BaseInv(joint', completed, native'.generation) /\ Effect(j, joint', r, Malformed)
       /\ joint'.pending # NoCommand => joint'.step # "PUBLISH"
  BY <1>1, <1>7, NativeReply
<1>11. ~Spent(joint') => StepInv(joint', native', svc', display', inputs')
  <2> SUFFICES ASSUME ~Spent(joint') PROVE StepInv(joint', native', svc', display', inputs')
    OBVIOUS
  <2>1. Kept(j, joint') /\ joint'.step \in {"NATIVE_CONFIRM", "SHELL_CONFIRM"}
    BY <1>5, <1>10 DEF Effect, Undone, Advanced, Ended, Resolving, Follows
  <2>2. Armed(joint', svc', display', inputs')
    BY <1>4, <1>5, <1>6, <1>10, <2>1, ArmedKept DEF Kept
  <2>3. joint'.publishAttempted /\ svc'.monitorChange => svc'.since = "unset"
    BY <1>1, <1>4, <2>1 DEF StepInv, Kept, Armful
  <2>4. InForce(inputs, g) /\ (svc'.monitorChange /\ d.stable => d.live = LayoutOf[g])
    BY <1>1, <1>4 DEF StepInv, Checked, Armful
  <2> QED
    BY <1>4, <1>5, <1>6, <1>7, <1>10, <2>1, <2>2, <2>3, <2>4 DEF StepInv, Checked, Restored
<1>12. svc'.recovery = "none" /\ ~svc'.loading
  BY <1>1, <1>4 DEF Armful
<1> QED
  BY <1>1, <1>4, <1>5, <1>7, <1>9, <1>10, <1>11, <1>12 DEF Landed, Running

-----------------------------------------------------------------------------
(* A tick.                                                                  *)
LEMMA ExecutedLanded ==
  ASSUME NEW j, NEW s, NEW d, Ready(j, s, d), NEW reply \in {"OK", "FAILED"}, NEW reads \in BOOLEAN,
         NativeExecute(s, d, j, reply, reads)
  PROVE  Landed(j)
<1> DEFINE read == [s EXCEPT !.loading = FALSE]
<1>1. Ready(j, read, d) /\ ~read.loading
  BY Loaded DEF Ready
<1>2. /\ j \in JointType /\ JointInv(j) /\ ForNative(j) /\ Confirmed(native) /\ j.request \in Requests
      /\ native \in P!ParticipantType /\ touched \in BOOLEAN
  BY DEF Ready, Running, RuntimeInv, Confirmed
<1>3. j.step \in NativeSteps /\ j.pending.operation = Dispatch[j.step].operation
  BY <1>2, NativeFacts
<1>4. P!Member(j.pending.operation, j.request, reply, reads)
  BY DEF NativeExecute
<1>5. CASE reply = "FAILED"
  <2>1. svc' = read /\ display' = d /\ inputs' = inputs /\ Reply(j, j.pending, "FAILED", Malformed)
    BY <1>5 DEF NativeExecute
  <2>2. /\ native' \in P!ParticipantType /\ touched' \in BOOLEAN /\ native'.generation = native.generation
        /\ Confirmed(native)' /\ (j.step # "NATIVE_PREPARE" => native'.request = native.request)
    <3>1. CASE P!MemberPrepare(j.request, reply, reads) /\ j.step = "NATIVE_PREPARE"
      BY <1>2, <3>1, PrepareMember
    <3>2. CASE P!MemberApply(j.request, reply, reads)
      BY <1>2, <3>2, ApplyMember
    <3>3. CASE P!MemberVerify(j.request, reply, reads)
      <4>1. native' = native /\ touched' = touched
        BY <3>3 DEF P!MemberVerify, P!Verify
      <4> QED
        BY <1>2, <4>1 DEF Confirmed
    <3>4. CASE P!MemberRestore(j.request, reply, reads)
      BY <1>2, <3>4, RestoreMember
    <3>5. CASE P!MemberConfirm(j.request, reply, reads)
      <4>1. /\ native' \in P!ParticipantType /\ touched' \in BOOLEAN /\ Confirmed(native)' /\ native' = native
        BY <1>2, <1>5, <3>5, ConfirmMember
      <4> QED
        BY <4>1
    <3> QED
      BY <1>3, <1>4, <3>1, <3>2, <3>3, <3>4, <3>5 DEF P!Member, NativeSteps, Dispatch
  <2> QED
    BY <2>1, <2>2, FailedLanded
<1>6. CASE reply = "OK"
  <2>1. PICK x \in Hooks(j.pending.operation, read, d, inputs, j.request.candidate) :
          /\ svc' = x.svc /\ display' = x.display /\ inputs' = x.inputs
          /\ Reply(IF x.confirm THEN RequireConfirmation(j) ELSE j, j.pending, Receipt(x.ok), Malformed)
    BY <1>6 DEF NativeExecute
  <2>2. Hooked(j, read, d, x)
    BY <2>1 DEF Hooked
  <2> HIDE DEF read
  <2>3. CASE j.step = "NATIVE_PREPARE"
    <3>1. P!MemberPrepare(j.request, "OK", reads)
      BY <1>3, <1>4, <1>6, <2>3 DEF P!Member, Dispatch
    <3> QED
      BY <1>1, <2>2, <2>3, <3>1, PrepareLanded
  <2>4. CASE j.step = "NATIVE_APPLY"
    <3>1. P!MemberApply(j.request, "OK", reads)
      BY <1>3, <1>4, <1>6, <2>4 DEF P!Member, Dispatch
    <3> QED
      BY <1>1, <2>2, <2>4, <3>1, ApplyLanded
  <2>5. CASE j.step \in {"NATIVE_VERIFY", "NATIVE_FINAL_VERIFY"}
    <3>1. P!MemberVerify(j.request, "OK", reads)
      BY <1>3, <1>4, <1>6, <2>5 DEF P!Member, Dispatch
    <3>2. reads = TRUE \/ reads = FALSE
      OBVIOUS
    <3>3. P!MemberVerify(j.request, "OK", TRUE) \/ P!MemberVerify(j.request, "OK", FALSE)
      BY <3>1, <3>2
    <3> QED
      BY <1>1, <2>2, <2>5, <3>3, VerifyLanded
  <2>6. CASE j.step = "NATIVE_RESTORE"
    <3>1. P!MemberRestore(j.request, "OK", reads)
      BY <1>3, <1>4, <1>6, <2>6 DEF P!Member, Dispatch
    <3> QED
      BY <1>1, <2>2, <2>6, <3>1, RestoreLanded
  <2>7. CASE j.step = "NATIVE_CONFIRM"
    <3>1. P!MemberConfirm(j.request, "OK", reads)
      BY <1>3, <1>4, <1>6, <2>7 DEF P!Member, Dispatch
    <3> QED
      BY <1>1, <2>2, <2>7, <3>1, ConfirmLanded
  <2> QED
    BY <1>3, <2>3, <2>4, <2>5, <2>6, <2>7 DEF NativeSteps
<1> QED
  BY <1>5, <1>6

(* The types of what only the commands of the participant write.            *)
Around ==
  /\ native \in P!ParticipantType /\ touched \in BOOLEAN /\ inputs \in InputType /\ completed \in Generations

LoadingInv(j, s) == s.loading => ForNative(j) /\ j.pending.operation = "PREPARE"

LEMMA LoopLanded ==
  ASSUME NEW j, NEW s, NEW d, Running(j, native, s, d, inputs, completed), Around, LoadingInv(j, s), Loop(s, d, j)
  PROVE  Landed(j)
<1>1. CASE ~ForNative(j) /\ svc' = s /\ display' = d /\ joint' = j /\ UNCHANGED <<native, touched, inputs>>
  BY <1>1 DEF Landed, LoadingInv, Around
<1>2. CASE ForNative(j)
  <2>1. j.request \in Requests /\ j \in JointType /\ JointInv(j) /\ Confirmed(native)
        /\ j.step \in NativeSteps /\ j.pending.operation = Dispatch[j.step].operation
    BY <1>2, NativeFacts DEF Running, RuntimeInv, Confirmed
  <2>2. Ready(j, s, d)
    BY <1>2, <2>1 DEF Ready, Around
  <2>3. CASE NativeRead(s, d, j)
    <3>1. /\ svc' = [s EXCEPT !.loading = TRUE] /\ joint' = j /\ display' = d /\ native' = native
          /\ touched' = touched /\ inputs' = inputs /\ j.pending.operation = "PREPARE"
      BY <2>3 DEF NativeRead
    <3>2. Running(j, native, svc', d, inputs, completed)
      BY <3>1, Loaded
    <3> QED
      BY <1>2, <3>1, <3>2 DEF Landed, Around
  <2>4. CASE NativeReadFailed(s, d, j)
    <3>1. /\ svc' = [s EXCEPT !.loading = FALSE] /\ display' = d /\ native' = native
          /\ touched' = touched /\ inputs' = inputs /\ Reply(j, j.pending, "FAILED", Malformed)
      BY <2>4 DEF NativeReadFailed
    <3>2. Confirmed(native)' /\ native' \in P!ParticipantType /\ touched' \in BOOLEAN
      BY <2>1, <3>1 DEF Confirmed, Around
    <3> QED
      BY <2>2, <3>1, <3>2, FailedLanded
  <2>5. CASE \E reply \in {"OK", "FAILED"}, reads \in BOOLEAN : NativeExecute(s, d, j, reply, reads)
    BY <2>2, <2>5, ExecutedLanded
  <2> QED
    BY <1>2, <2>3, <2>4, <2>5 DEF Loop
<1> QED
  BY <1>1, <1>2 DEF Loop

LEMMA TimedOutRunning ==
  ASSUME NEW j, NEW n, NEW s, NEW d, NEW i, NEW c, Running(j, n, s, d, i, c), j.pending # NoCommand,
         NEW k, k = TimedOut(j)
  PROVE  Running(k, n, s, d, i, c) /\ k.pending = j.pending /\ k.step = j.step /\ k.request = j.request
<1>1. j \in JointType /\ JointInv(j)
  BY DEF Running
<1>2. /\ k \in JointType /\ JointInv(k) /\ k.pending = j.pending
      /\ Kept(j, k) /\ k.step = j.step /\ k.state = "UNKNOWN" /\ k.touched = j.touched
  BY <1>1, TimedOutGood
<1>3. ~Spent(j)
  BY DEF Spent
<1>4. BaseInv(k, c, n.generation)
  BY <1>2, <1>3 DEF Running, BaseInv, Kept
<1>5. StepInv(k, n, s, d, i)
  <2>1. StepInv(j, n, s, d, i)
    BY <1>3 DEF Running
  <2>2. On(k) <=> On(j)
    BY <1>2 DEF On, Kept
  <2>3. Armed(k, s, d, i) <=> Armed(j, s, d, i)
    BY <1>2 DEF Armed, Kept
  <2> QED
    BY <1>2, <2>1, <2>2, <2>3 DEF StepInv, Kept, Restored
<1> QED
  BY <1>2, <1>4, <1>5 DEF Running, Kept

-----------------------------------------------------------------------------
(* The invariant while the service runs, and step by step.                  *)
LEMMA Opened ==
  ASSUME IInv
  PROVE  /\ Around /\ LoadingInv(joint, svc)
         /\ joint \in JointType /\ svc \in ServiceType /\ display \in DisplayType
         /\ JointInv(joint) /\ BaseInv(joint, completed, native.generation) /\ ticked \in BOOLEAN
         /\ svc.recovery = "none" => Running(joint, native, svc, display, inputs, completed)
  BY DEF IInv, TypeOK, Around, LoadingInv, Running, ServiceInv

LEMMA Closed ==
  ASSUME Running(joint', native', svc', display', inputs', completed'), LoadingInv(joint', svc'),
         native' \in P!ParticipantType, touched' \in BOOLEAN, inputs' \in InputType, completed' \in Generations,
         ticked' \in BOOLEAN
  PROVE  IInv'
  BY DEF IInv, TypeOK, LoadingInv, Running, ServiceInv

(* Only a machine at PUBLISH has a publication pending.                     *)
Publishes(j) == j.pending # NoCommand /\ j.pending.operation = "PUBLISH"

LEMMA PublishStep ==
  ASSUME NEW j \in JointType, JointInv(j)
  PROVE  Publishes(j) <=> j.pending # NoCommand /\ j.step = "PUBLISH"
  BY DEF Publishes, JointInv, PendingInv, JointType, Steps, Dispatch

LEMMA TickIInv ==
  ASSUME IInv, Tick
  PROVE  IInv' /\ (Publishing' => Publishing)
<1>1. svc.recovery = "none" /\ completed' = completed /\ ticked' \in BOOLEAN
  BY DEF Tick
<1>2. /\ Running(joint, native, svc, display, inputs, completed) /\ Around /\ LoadingInv(joint, svc)
      /\ joint \in JointType /\ JointInv(joint)
  BY <1>1, Opened
<1> DEFINE Rest(y) ==
       \/ /\ y.waiting
          /\ svc' = y.svc /\ display' = y.display
          /\ UNCHANGED <<joint, native, touched, inputs>>
       \/ /\ ~y.waiting
          /\ \E late \in BOOLEAN :
               /\ late => y.joint.pending # NoCommand
               /\ Loop(y.svc, y.display, IF late THEN TimedOut(y.joint) ELSE y.joint)
<1>11. PICK x \in Reverted : \E y \in Questioned(x.svc, x.display) : Rest(y)
  BY DEF Tick
<1>3. PICK y \in Questioned(x.svc, x.display) : Rest(y)
  BY <1>11
<1>4. Running(joint, native, x.svc, x.display, inputs, completed) /\ x.svc.loading = svc.loading
  BY <1>2, RevertedGood
<1>5. /\ Running(y.joint, native, y.svc, y.display, inputs, completed)
      /\ y.svc.loading = x.svc.loading
      /\ y.waiting => y.joint = joint
      /\ joint.pending # NoCommand => y.joint = joint
      /\ Spent(y.joint) \/ y.joint = joint \/ Answering(joint, y.joint, FALSE)
  BY <1>4, QuestionedGood
<1>6. LoadingInv(y.joint, y.svc)
  BY <1>2, <1>4, <1>5 DEF LoadingInv, ForNative
<1>7. y.joint \in JointType /\ JointInv(y.joint)
  BY <1>5 DEF Running
<1>8. Publishes(y.joint) => Publishes(joint)
  BY <1>5, <1>7, PublishStep DEF Spent, Answering, Publishes
<1>9. CASE y.waiting /\ svc' = y.svc /\ display' = y.display /\ UNCHANGED <<joint, native, touched, inputs>>
  <2>1. /\ Running(joint', native', svc', display', inputs', completed') /\ LoadingInv(joint', svc')
        /\ native' \in P!ParticipantType /\ touched' \in BOOLEAN /\ inputs' \in InputType /\ completed' \in Generations
    BY <1>1, <1>2, <1>5, <1>6, <1>9 DEF Around
  <2> QED
    BY <1>1, <1>9, <2>1, Closed DEF Publishing
<1>10. CASE \E late \in BOOLEAN :
               /\ late => y.joint.pending # NoCommand
               /\ Loop(y.svc, y.display, IF late THEN TimedOut(y.joint) ELSE y.joint)
  <2>1. PICK late \in BOOLEAN :
               /\ late => y.joint.pending # NoCommand
               /\ Loop(y.svc, y.display, IF late THEN TimedOut(y.joint) ELSE y.joint)
    BY <1>10
  <2>2. PICK k : /\ Loop(y.svc, y.display, k) /\ Running(k, native, y.svc, y.display, inputs, completed)
                 /\ k.pending = y.joint.pending
    <3>1. CASE late
      <4>1. /\ Loop(y.svc, y.display, TimedOut(y.joint))
            /\ Running(TimedOut(y.joint), native, y.svc, y.display, inputs, completed)
            /\ TimedOut(y.joint).pending = y.joint.pending
        BY <1>5, <2>1, <3>1, TimedOutRunning
      <4> QED
        BY <4>1
    <3>2. CASE ~late
      BY <1>5, <2>1, <3>2
    <3> QED
      BY <3>1, <3>2
  <2>3. LoadingInv(k, y.svc)
    BY <1>6, <2>2 DEF LoadingInv, ForNative
  <2>4. Landed(k)
    BY <1>2, <2>2, <2>3, LoopLanded
  <2>5. /\ Running(joint', native', svc', display', inputs', completed') /\ LoadingInv(joint', svc')
        /\ native' \in P!ParticipantType /\ touched' \in BOOLEAN /\ inputs' \in InputType /\ completed' \in Generations
    BY <1>1, <1>2, <2>4 DEF Landed, LoadingInv, Around
  <2>6. joint' \in JointType /\ JointInv(joint')
    BY <2>5 DEF Running
  <2>7. Publishes(joint') => Publishes(joint)
    <3>1. CASE joint' = k
      BY <1>8, <2>2, <3>1 DEF Publishes
    <3>2. CASE joint'.pending # NoCommand => joint'.step # "PUBLISH"
      BY <2>6, <3>2, PublishStep
    <3> QED
      BY <2>4, <3>1, <3>2 DEF Landed
  <2> QED
    BY <1>1, <2>5, <2>7, Closed DEF Publishing, Publishes
<1> QED
  BY <1>3, <1>9, <1>10

(* Everything starts over from the completed generation.                    *)
LEMMA FreshRunning ==
  ASSUME NEW e \in Epochs, NEW c \in Generations, NEW d \in DisplayBoot(LayoutOf[c])
  PROVE  /\ Running(Fresh(e), P!FreshParticipant(e, c), Started(c), d, InputBoot(c), c)
         /\ LoadingInv(Fresh(e), Started(c))
         /\ P!FreshParticipant(e, c) \in P!ParticipantType /\ InputBoot(c) \in InputType
         /\ Fresh(e).pending = NoCommand
<1>1. LayoutOf[c] \in Layouts
  BY LayoutAssumption
<1>2. Fresh(e) \in JointType
  BY TicketAssumption DEF Fresh, JointType, Steps, Dispatch, States
<1>3. /\ Fresh(e).pending = NoCommand /\ Fresh(e).state = "IDLE" /\ Fresh(e).step = "BASE"
      /\ Fresh(e).request = NoRequest /\ Fresh(e).touched = 0
      /\ ~Fresh(e).prepared /\ ~Fresh(e).publishAttempted /\ ~Fresh(e).awaitingConfirmation
      /\ ~Fresh(e).requireConfirmation
  BY DEF Fresh
<1>4. JointInv(Fresh(e))
  BY <1>3 DEF JointInv, PendingInv, RequestInv, ProgressInv, Opening, Trying, Undoing, Going
<1>5. P!FreshParticipant(e, c) \in P!ParticipantType /\ P!FreshParticipant(e, c).generation = c /\ P!FreshParticipant(e, c).phase = "IDLE"
  BY DEF P!FreshParticipant, P!ParticipantType, P!Phases
<1>6. BaseInv(Fresh(e), c, P!FreshParticipant(e, c).generation)
  BY <1>3, <1>5 DEF BaseInv, Opening, Trying, Undoing, Going
<1>7. InputBoot(c) \in InputType /\ Believed(InputBoot(c))
  BY DEF InputBoot, InputType, Believed
<1>8. /\ Started(c) \in ServiceType /\ Started(c).loading = FALSE /\ Started(c).recovery = "none"
      /\ Started(c).bootMonitors = LayoutOf[c] /\ Started(c).monitorRestored = FALSE
  BY <1>1 DEF Started, Reset, ServiceType
<1>9. d \in DisplayType
  <2>1. PICK shown \in Layouts \cup {Elsewhere} :
          d = [live |-> shown, baseline |-> LayoutOf[c], candidate |-> LayoutOf[c], prepared |-> FALSE, stable |-> TRUE]
    BY DEF DisplayBoot
  <2> DEFINE l == LayoutOf[c]
  <2>2. l \in Layouts
    BY <1>1
  <2>3. d = [live |-> shown, baseline |-> l, candidate |-> l, prepared |-> FALSE, stable |-> TRUE]
    BY <2>1
  <2> HIDE DEF l
  <2> QED
    BY <2>2, <2>3 DEF DisplayType
<1>10. RuntimeInv(P!FreshParticipant(e, c), Started(c), d, InputBoot(c))
  BY <1>5, <1>7, <1>8 DEF RuntimeInv, Reverts
<1>11. StepInv(Fresh(e), P!FreshParticipant(e, c), Started(c), d, InputBoot(c))
  BY <1>3 DEF StepInv, On, Trying, Checked, Restored
<1>12. LoadingInv(Fresh(e), Started(c))
  BY <1>8 DEF LoadingInv
<1> QED
  BY <1>2, <1>3, <1>4, <1>5, <1>6, <1>7, <1>8, <1>9, <1>10, <1>11, <1>12 DEF Running

-----------------------------------------------------------------------------
(* The actions, one by one.                                                 *)
LEMMA RecoveredIInv ==
  ASSUME IInv, NEW e \in Epochs, TickRecovered(e)
  PROVE  IInv' /\ ~Publishing'
<1>1. completed \in Generations
  BY Opened DEF Around
<1>2. /\ joint' = Fresh(e) /\ native' = P!FreshParticipant(e, completed) /\ svc' = Started(completed)
      /\ inputs' = InputBoot(completed) /\ display' \in DisplayBoot(LayoutOf[completed])
      /\ touched' = FALSE /\ completed' = completed /\ ticked' \in BOOLEAN
  BY DEF TickRecovered
<1> QED
  BY <1>1, <1>2, FreshRunning, Closed DEF Publishing

LEMMA RecoveryFailedIInv ==
  ASSUME IInv, TickRecoveryFailed
  PROVE  IInv' /\ joint' = joint
<1>1. joint' = joint /\ touched' = touched /\ completed' = completed /\ ticked' = FALSE
  BY DEF TickRecoveryFailed
<1>2. Around /\ svc \in ServiceType /\ display \in DisplayType
  BY Opened
<1>3. /\ svc' \in ServiceType /\ svc'.recovery = "failed" /\ svc'.loading = svc.loading
  BY <1>2 DEF TickRecoveryFailed, ServiceType, Reset
<1>4. native' \in P!ParticipantType /\ native'.generation = native.generation
  <2>1. CASE native' = native
    BY <1>2, <2>1 DEF Around
  <2>2. CASE native' \in {[native EXCEPT !.live = written] : written \in {native.live, Foreign, completed}}
    <3>1. PICK written \in {native.live, Foreign, completed} : native' = [native EXCEPT !.live = written]
      BY <2>2
    <3>2. written \in Generations \cup {Foreign}
      BY <1>2, <3>1 DEF Around, P!ParticipantType
    <3> QED
      BY <1>2, <3>1, <3>2 DEF Around, P!ParticipantType
  <2> QED
    BY <2>1, <2>2 DEF TickRecoveryFailed
<1>5. inputs' \in InputType
  <2>1. InputBoot(completed) \in InputType
    BY <1>2 DEF Around, InputBoot, InputType
  <2>2. [inputs EXCEPT !.devices = Foreign, !.desktop = Foreign] \in InputType
    BY <1>2 DEF Around, InputType
  <2> QED
    BY <1>2, <2>1, <2>2 DEF TickRecoveryFailed, Around
<1>6. display' \in DisplayType
  <2>1. CASE display' \in DisplayBoot(LayoutOf[completed])
    <3> DEFINE l == LayoutOf[completed]
    <3>1. PICK shown \in Layouts \cup {Elsewhere} :
            display' = [live |-> shown, baseline |-> l, candidate |-> l, prepared |-> FALSE, stable |-> TRUE]
      BY <2>1 DEF DisplayBoot
    <3>2. l \in Layouts
      BY <1>2, LayoutAssumption DEF Around
    <3> HIDE DEF l
    <3> QED
      BY <3>1, <3>2 DEF DisplayType
  <2> QED
    BY <1>2, <2>1 DEF TickRecoveryFailed
<1> QED
  BY <1>1, <1>2, <1>3, <1>4, <1>5, <1>6 DEF IInv, TypeOK, Around

(* A machine with nothing pending reads no candidate.                       *)
LEMMA IdleLoading ==
  ASSUME NEW j, NEW k, NEW s, LoadingInv(j, s), ~ForNative(j)
  PROVE  LoadingInv(k, s)
  BY DEF LoadingInv

LEMMA StartIInv ==
  ASSUME IInv, NEW r \in Requests, RequestStart(r)
  PROVE  IInv' /\ ~Publishing'
<1>1. /\ Running(joint, native, svc, display, inputs, completed) /\ Around /\ LoadingInv(joint, svc)
      /\ joint \in JointType /\ JointInv(joint) /\ BaseInv(joint, completed, native.generation)
  BY Opened DEF RequestStart, Served
<1>2. /\ Start(r) /\ svc' = svc /\ native' = native /\ touched' = touched /\ display' = display
      /\ inputs' = inputs /\ completed' = completed /\ ticked' = FALSE
  BY DEF RequestStart, Served
<1>3. /\ joint' \in JointType /\ JointInv(joint') /\ joint'.request = r
      /\ joint.state \notin {"RUNNING", "UNKNOWN"}
      /\ Spent(joint') \/ (/\ joint'.state = "RUNNING" /\ joint'.step = "BASE" /\ ~joint'.prepared
                           /\ ~joint'.publishAttempted /\ ~joint'.awaitingConfirmation)
  BY <1>1, <1>2, StartGood
<1>4. native.generation = completed
  BY <1>1, <1>3, SettledBase
<1>5. joint.pending = NoCommand
  BY <1>1, <1>3 DEF JointInv, PendingInv
<1>6. LoadingInv(joint', svc)
  BY <1>1, <1>5, IdleLoading DEF ForNative
<1>7. BaseInv(joint', completed, native.generation)
  BY <1>3, <1>4 DEF BaseInv, Opening, Trying, Undoing, Going
<1>8. ~Spent(joint') => StepInv(joint', native, svc, display, inputs)
  BY <1>3 DEF StepInv, On, Trying, Checked, Restored
<1>9. Running(joint', native', svc', display', inputs', completed')
  BY <1>1, <1>2, <1>3, <1>7, <1>8 DEF Running
<1>10. ~Publishes(joint')
  BY <1>3, PublishStep DEF Spent, Publishes
<1> QED
  BY <1>1, <1>2, <1>6, <1>9, <1>10, Closed DEF Around, Publishing, Publishes

LEMMA RecoverIInv ==
  ASSUME IInv, NEW r \in Requests, RequestRecover(r)
  PROVE  IInv' /\ ~Publishing'
<1>1. /\ Running(joint, native, svc, display, inputs, completed) /\ Around /\ LoadingInv(joint, svc)
      /\ joint \in JointType /\ JointInv(joint) /\ BaseInv(joint, completed, native.generation)
  BY Opened DEF RequestRecover, Served
<1>2. /\ Recover(r) /\ svc' = svc /\ native' = native /\ touched' = touched /\ display' = display
      /\ inputs' = inputs /\ completed' = completed /\ ticked' = FALSE
  BY DEF RequestRecover, Served
<1>3. /\ joint' \in JointType /\ JointInv(joint') /\ joint'.request = joint.request
      /\ Spent(joint') \/ (Resolving(joint, joint') /\ ~Spent(joint))
  BY <1>1, <1>2, RecoverGood
<1>5. joint.pending = NoCommand
  BY <1>2 DEF Recover
<1>6. LoadingInv(joint', svc)
  BY <1>1, <1>5, IdleLoading DEF ForNative
<1>7. BaseInv(joint', completed, native.generation)
  BY <1>1, <1>3 DEF BaseInv, Opening, Trying, Undoing, Going, Resolving, Kept
<1>8. ~Spent(joint') => StepInv(joint', native, svc, display, inputs)
  <2> SUFFICES ASSUME ~Spent(joint') PROVE StepInv(joint', native, svc, display, inputs)
    OBVIOUS
  <2>1. Kept(joint, joint') /\ joint'.step = "RESOLVE" /\ StepInv(joint, native, svc, display, inputs)
    BY <1>1, <1>3 DEF Resolving, Running
  <2>2. On(joint') => On(joint)
    BY <2>1 DEF On, Kept, Trying
  <2>3. On(joint') => native.request.generation = joint'.request.candidate /\ Armed(joint', svc, display, inputs)
    BY <2>1, <2>2 DEF StepInv, Armed, Kept
  <2> QED
    BY <2>1, <2>3 DEF StepInv, Kept, Checked, Restored
<1>9. Running(joint', native', svc', display', inputs', completed')
  BY <1>1, <1>2, <1>3, <1>7, <1>8 DEF Running
<1>10. ~Publishes(joint')
  BY <1>3, PublishStep DEF Spent, Publishes, Resolving
<1> QED
  BY <1>1, <1>2, <1>6, <1>9, <1>10, Closed DEF Around, Publishing, Publishes

LEMMA AnswerIInv ==
  ASSUME IInv, NEW r \in Requests, NEW keep \in BOOLEAN, RequestAnswer(r, keep)
  PROVE  /\ IInv'
         /\ Publishing' => Publishing \/ (/\ Answering(joint, joint', TRUE) /\ DisplayVerify(display)
                                        /\ joint.pending = NoCommand)
<1>1. /\ Running(joint, native, svc, display, inputs, completed) /\ Around /\ LoadingInv(joint, svc)
      /\ joint \in JointType /\ JointInv(joint) /\ BaseInv(joint, completed, native.generation)
  BY Opened DEF RequestAnswer, Served
<1>2. PICK y \in Decisions(svc, display, keep) :
        /\ svc' = y.svc /\ display' = y.display /\ joint' = y.joint
        /\ native' = native /\ touched' = touched /\ inputs' = inputs /\ completed' = completed
        /\ joint.awaitingConfirmation /\ ticked' = FALSE
  BY DEF RequestAnswer, Served
<1>3. /\ Running(joint', native, svc', display', inputs, completed)
      /\ svc'.loading = svc.loading
      /\ joint.pending # NoCommand => joint' = joint
      /\ Spent(joint') \/ joint' = joint
              \/ Answering(joint, joint', FALSE)
              \/ (Answering(joint, joint', TRUE) /\ keep /\ DisplayVerify(display))
  BY <1>1, <1>2, DecisionsGood
<1>4. LoadingInv(joint', svc')
  BY <1>1, <1>3 DEF LoadingInv, ForNative
<1>5. joint' \in JointType /\ JointInv(joint')
  BY <1>3 DEF Running
<1>6. Publishes(joint') => Publishes(joint) \/ (/\ Answering(joint, joint', TRUE) /\ DisplayVerify(display)
                                                 /\ joint.pending = NoCommand)
  BY <1>3, <1>5, PublishStep DEF Spent, Publishes, Answering
<1> QED
  BY <1>1, <1>2, <1>3, <1>4, <1>6, Closed DEF Around, Publishing, Publishes

LEMMA ReceiptIInv ==
  ASSUME IInv, NEW result \in Replies, NEW current \in Generations \cup {Malformed}, RequestReceipt(result, current)
  PROVE  /\ IInv'
         /\ Publishing' => Publishing \/ (~joint.requireConfirmation /\ joint.step = "SHELL_VERIFY")
<1>1. /\ Running(joint, native, svc, display, inputs, completed) /\ Around /\ LoadingInv(joint, svc)
      /\ joint \in JointType /\ JointInv(joint) /\ BaseInv(joint, completed, native.generation)
  BY Opened DEF RequestReceipt, Served
<1>2. /\ svc' = svc /\ native' = native /\ touched' = touched /\ display' = display
      /\ inputs' = inputs /\ completed' = completed
      /\ joint.pending # NoCommand /\ ~ForNative(joint) /\ Reply(joint, joint.pending, result, current)
      /\ joint.step \in {"BASE", "RESOLVE"} => current \in {completed, Malformed}
      /\ ticked' = FALSE
  BY DEF RequestReceipt, Served
<1>3. Good(joint, joint', result, current)
  BY <1>1, <1>2, ReplyGood
<1>4. /\ joint' \in JointType /\ JointInv(joint') /\ joint'.request = joint.request
      /\ Effect(joint, joint', result, current)
  BY <1>3 DEF Good
<1>5. Dispatch[joint.step].target # "NATIVE" /\ ~Spent(joint)
  BY <1>1, <1>2 DEF ForNative, JointInv, PendingInv, Spent
<1>6. joint.step # "NATIVE_CONFIRM"
  BY <1>5 DEF Dispatch
<1>7. BaseInv(joint', completed, native.generation)
  <2>1. completed \in Generations
    BY <1>1 DEF Around
  <2> QED
    BY <1>1, <1>2, <1>4, <1>6, <2>1, BaseEffect
<1>8. ~Spent(joint') => StepInv(joint', native, svc, display, inputs)
  <2>1. StepInv(joint, native, svc, display, inputs)
    BY <1>1, <1>5 DEF Running
  <2> QED
    BY <1>1, <1>2, <1>4, <1>5, <2>1, StepEffect
<1>9. Running(joint', native', svc', display', inputs', completed')
  BY <1>1, <1>2, <1>4, <1>7, <1>8 DEF Running
<1>10. LoadingInv(joint', svc)
  BY <1>1, <1>2, IdleLoading
<1>11. Publishes(joint') => Publishes(joint) \/ (~joint.requireConfirmation /\ joint.step = "SHELL_VERIFY")
  <2> SUFFICES ASSUME Publishes(joint'), ~Publishes(joint)
               PROVE  ~joint.requireConfirmation /\ joint.step = "SHELL_VERIFY"
    OBVIOUS
  <2>1. joint'.pending # NoCommand /\ joint'.step = "PUBLISH" /\ joint.step # "PUBLISH"
    BY <1>1, <1>2, <1>4, PublishStep
  <2> QED
    BY <1>4, <2>1 DEF Effect, Spent, Undone, Advanced, Ended, Resolving, Undoing, Follows
<1> QED
  BY <1>1, <1>2, <1>9, <1>10, <1>11, Closed DEF Around, Publishing, Publishes

LEMMA AttachIInv ==
  ASSUME IInv, RequestAttach
  PROVE  IInv' /\ joint' = joint
<1>1. /\ joint' = joint /\ native' = native /\ touched' = touched /\ display' = display /\ inputs' = inputs
      /\ completed' = completed /\ ~svc.loading /\ svc' = [svc EXCEPT !.recovery = "running"]
      /\ ticked' = FALSE
  BY DEF RequestAttach, Served
<1>2. svc' \in ServiceType /\ svc'.loading = svc.loading /\ svc'.recovery = "running"
  BY <1>1, Opened DEF ServiceType
<1> QED
  BY <1>1, <1>2 DEF IInv, TypeOK

LEMMA ExpireIInv ==
  ASSUME IInv, Expire
  PROVE  IInv' /\ joint' = joint
<1>1. /\ joint' = joint /\ native' = native /\ touched' = touched /\ display' = display /\ inputs' = inputs
      /\ completed' = completed /\ svc.since = "running" /\ svc' = [svc EXCEPT !.since = "expired"]
      /\ ticked' = ticked
  BY DEF Expire
<1>2. /\ svc' \in ServiceType /\ svc'.loading = svc.loading /\ svc'.recovery = svc.recovery
      /\ svc'.inputPrepared = svc.inputPrepared /\ svc'.monitorChange = svc.monitorChange
      /\ svc'.monitorRestored = svc.monitorRestored /\ svc'.bootMonitors = svc.bootMonitors
  BY <1>1, Opened DEF ServiceType
<1>3. svc.recovery = "none" => ServiceInv(joint, native, svc', display, inputs)
  <2> SUFFICES ASSUME svc.recovery = "none" PROVE ServiceInv(joint, native, svc', display, inputs)
    OBVIOUS
  <2>1. RuntimeInv(native, svc, display, inputs) /\ (~Spent(joint) => StepInv(joint, native, svc, display, inputs))
    BY DEF IInv, ServiceInv
  <2>2. RuntimeInv(native, svc', display, inputs)
    BY <1>2, <2>1 DEF RuntimeInv, Reverts
  <2>3. ~Spent(joint) => StepInv(joint, native, svc', display, inputs)
    <3> SUFFICES ASSUME ~Spent(joint) PROVE StepInv(joint, native, svc', display, inputs)
      OBVIOUS
    <3>1. joint.step \notin {"SHELL_PREPARE", "NATIVE_APPLY"} /\ ~(joint.publishAttempted /\ svc.monitorChange)
      BY <1>1, <2>1 DEF StepInv
    <3> QED
      BY <1>2, <2>1, <3>1, StepReverted
  <2> QED
    BY <2>2, <2>3 DEF ServiceInv
<1> QED
  BY <1>1, <1>2, <1>3 DEF IInv, TypeOK

LEMMA HotplugIInv ==
  ASSUME IInv, Hotplug
  PROVE  IInv' /\ joint' = joint
<1>1. /\ joint' = joint /\ native' = native /\ touched' = touched /\ svc' = svc /\ inputs' = inputs
      /\ completed' = completed /\ display' \in DisplayHotplug(display) /\ ticked' = ticked
  BY DEF Hotplug
<1>2. /\ display' \in DisplayType /\ ~display'.stable
      /\ display'.prepared = display.prepared /\ display'.candidate = display.candidate
  BY <1>1, Opened, DisplayHotplugs
<1>3. svc.recovery = "none" => ServiceInv(joint, native, svc, display', inputs)
  <2> SUFFICES ASSUME svc.recovery = "none" PROVE ServiceInv(joint, native, svc, display', inputs)
    OBVIOUS
  <2>1. RuntimeInv(native, svc, display, inputs) /\ (~Spent(joint) => StepInv(joint, native, svc, display, inputs))
    BY DEF IInv, ServiceInv
  <2>2. RuntimeInv(native, svc, display', inputs) /\ Back(display')
    BY <1>2, <2>1 DEF RuntimeInv, Back, Reverts, Healthy
  <2>3. StepInv(joint, native, svc, display, inputs) => StepInv(joint, native, svc, display', inputs)
    BY <1>2, <2>2 DEF StepInv, Armed
  <2> QED
    BY <2>1, <2>2, <2>3 DEF ServiceInv
<1> QED
  BY <1>1, <1>2, <1>3 DEF IInv, TypeOK

LEMMA DriftIInv ==
  ASSUME IInv, Drift
  PROVE  IInv' /\ joint' = joint
<1>1. /\ joint' = joint /\ touched' = touched /\ svc' = svc /\ inputs' = inputs /\ display' = display
      /\ completed' = completed /\ native' = [native EXCEPT !.live = Foreign] /\ ticked' = ticked
  BY DEF Drift, P!Drift
<1>2. /\ native' \in P!ParticipantType /\ native'.generation = native.generation
      /\ native'.request = native.request /\ native'.phase = native.phase
  BY <1>1, Opened DEF Around, P!ParticipantType
<1>3. svc.recovery = "none" => ServiceInv(joint, native', svc, display, inputs)
  BY <1>2 DEF IInv, ServiceInv, RuntimeInv, StepInv
<1> QED
  BY <1>1, <1>2, <1>3 DEF IInv, TypeOK

LEMMA EnvPublishIInv ==
  ASSUME IInv, EnvPublish
  PROVE  IInv' /\ joint' = joint
<1>1. /\ joint' = joint /\ native' = native /\ touched' = touched /\ svc' = svc /\ inputs' = inputs
      /\ display' = display /\ joint.pending # NoCommand /\ joint.pending.operation = "PUBLISH"
      /\ completed = joint.request.base /\ completed' = joint.request.candidate /\ ticked' = ticked
  BY DEF EnvPublish
<1>2. joint \in JointType /\ JointInv(joint) /\ BaseInv(joint, completed, native.generation)
  BY Opened
<1>3. joint.step = "PUBLISH" /\ ~Spent(joint) /\ ProgressInv(joint) /\ Requested(joint)
      /\ joint.state \in {"RUNNING", "UNKNOWN"}
  BY <1>1, <1>2, PublishStep, PendingFacts DEF Publishes
<1>4. completed' \in Generations /\ joint.request.base # joint.request.candidate
  BY <1>1, <1>3 DEF Requested, Requests
<1>5. BaseInv(joint, completed', native.generation)
  BY <1>1, <1>2, <1>3, <1>4 DEF BaseInv, ProgressInv, Opening, Trying, Undoing, Going
<1> QED
  BY <1>1, <1>4, <1>5 DEF IInv, TypeOK

-----------------------------------------------------------------------------
LEMMA InitIInv == Init => IInv
<1> SUFFICES ASSUME Init PROVE IInv
  OBVIOUS
<1>1. PICK e \in Epochs : joint = Fresh(e) /\ native = P!FreshParticipant(e, completed)
  BY DEF Init
<1>2. /\ completed \in Generations /\ svc = Started(completed) /\ inputs = InputBoot(completed)
      /\ display \in DisplayBoot(LayoutOf[completed]) /\ touched = FALSE
      /\ ticked = FALSE
  BY DEF Init
<1>3. Running(joint, native, svc, display, inputs, completed) /\ LoadingInv(joint, svc)
      /\ native \in P!ParticipantType /\ inputs \in InputType
  BY <1>1, <1>2, FreshRunning
<1> QED
  BY <1>2, <1>3 DEF IInv, TypeOK, LoadingInv, Running, ServiceInv

(* How a publication may begin.                                             *)
Begins ==
  \/ joint.awaitingConfirmation /\ Answering(joint, joint', TRUE) /\ DisplayVerify(display) /\ Served
       /\ joint.pending = NoCommand
  \/ ~joint.requireConfirmation /\ joint.step = "SHELL_VERIFY" /\ joint.pending # NoCommand /\ Served

LEMMA NextIInv ==
  ASSUME IInv, [Next]_vars
  PROVE  IInv' /\ (Publishing' => Publishing \/ Begins)
<1>1. CASE Tick
  BY <1>1, TickIInv
<1>2. CASE \E e \in Epochs : TickRecovered(e)
  BY <1>2, RecoveredIInv
<1>3. CASE TickRecoveryFailed
  BY <1>3, RecoveryFailedIInv DEF Publishing
<1>4. CASE \E r \in Requests : RequestStart(r) \/ RequestRecover(r)
  BY <1>4, StartIInv, RecoverIInv
<1>5. CASE \E r \in Requests, keep \in BOOLEAN : RequestAnswer(r, keep)
  <2>1. PICK r \in Requests, keep \in BOOLEAN : RequestAnswer(r, keep)
    BY <1>5
  <2>2. Served /\ joint.awaitingConfirmation
    BY <2>1 DEF RequestAnswer
  <2> QED
    BY <2>1, <2>2, AnswerIInv DEF Begins
<1>6. CASE \E result \in Replies, current \in Generations \cup {Malformed} : RequestReceipt(result, current)
  <2>1. PICK result \in Replies, current \in Generations \cup {Malformed} : RequestReceipt(result, current)
    BY <1>6
  <2>2. Served /\ joint.pending # NoCommand
    BY <2>1 DEF RequestReceipt
  <2> QED
    BY <2>1, <2>2, ReceiptIInv DEF Begins
<1>7. CASE RequestAttach
  BY <1>7, AttachIInv DEF Publishing
<1>8. CASE Expire
  BY <1>8, ExpireIInv DEF Publishing
<1>9. CASE Hotplug
  BY <1>9, HotplugIInv DEF Publishing
<1>10. CASE Drift
  BY <1>10, DriftIInv DEF Publishing
<1>11. CASE EnvPublish
  BY <1>11, EnvPublishIInv DEF Publishing
<1>12. CASE UNCHANGED vars
  BY <1>12 DEF vars, IInv, TypeOK, Publishing
<1> QED
  BY <1>1, <1>2, <1>3, <1>4, <1>5, <1>6, <1>7, <1>8, <1>9, <1>10, <1>11, <1>12 DEF Next

LEMMA Invariance == Spec => []IInv
<1>1. IInv /\ [Next]_vars => IInv'
  BY NextIInv
<1> QED
  BY InitIInv, <1>1, PTL DEF Spec

-----------------------------------------------------------------------------
(* Where request() stands after its first tick(): a question that is still  *)
(* open with nothing pending has its 15 s running, or the tick declined it  *)
(* in vain and the restore it went on to execute failed.                    *)
InVain(j) == j.state = "UNKNOWN" /\ j.restoreFailed

Open(j) == j.awaitingConfirmation /\ j.pending = NoCommand /\ ~Spent(j)

Answerable == ticked /\ svc.recovery = "none" /\ Open(joint) => svc.since # "unset" \/ InVain(joint)

(* The receipt of a restore of the native participant ends the transaction  *)
(* only when a restore failed.                                              *)
LEMMA RestoreOpen ==
  ASSUME NEW j \in JointType, JointInv(j), j.pending # NoCommand, j.awaitingConfirmation, j.step = "NATIVE_RESTORE",
         NEW result \in {"OK", "FAILED"}, Reply(j, j.pending, result, Malformed), Open(joint')
  PROVE  InVain(joint')
<1> DEFINE a == Answered(j)
           f == j.restoreFailed \/ result = "FAILED"
           b == [a EXCEPT !.restoreFailed = f]
<1>1. ProgressInv(j) /\ j.request \in Requests
  BY PendingFacts DEF Requested
<1>2. j.restoreRemaining = 0 /\ j.prepared
  BY <1>1 DEF ProgressInv
<1>3. a \in JointType /\ a.restoreRemaining = 0 /\ a.prepared /\ a.restoreFailed = j.restoreFailed
      /\ a.request = j.request /\ a.pending = NoCommand
  BY <1>2, AnsweredFacts
<1>4. joint' = RestoreNext(b)
  <2>1. ReplyRestore(j, result)
    BY DEF Reply, ReplyUnresolved, ReplyRestore, ReplyFailed, ReplyBase, ReplyAdvance, ReplyShellVerify,
           ReplyResolve, ReplyFinish, RestoreSteps, Follows
  <2> QED
    BY <1>3, <2>1 DEF ReplyRestore
<1> HIDE DEF a
<1>5. f \in BOOLEAN
  OBVIOUS
<1>6. b \in JointType /\ b.restoreRemaining = 0 /\ b.prepared /\ b.restoreFailed = f
      /\ b.request \in Requests /\ b.pending = NoCommand
  BY <1>1, <1>3, <1>5 DEF JointType
<1> HIDE DEF b, f
<1>7. CASE f
  <2>1. joint' = [b EXCEPT !.state = "UNKNOWN"]
    BY <1>4, <1>6, <1>7 DEF RestoreNext
  <2> QED
    BY <1>6, <1>7, <2>1 DEF InVain, JointType
<1>8. CASE ~f
  <2>1. joint' = Issue(b, "ABANDON")
    BY <1>4, <1>6, <1>8 DEF RestoreNext
  <2>2. "ABANDON" \in Steps
    BY DEF Steps, Dispatch
  <2>3. CASE b.ticket = MaxTicket
    <3>1. joint'.state = "UNKNOWN" /\ joint'.ticket = MaxTicket /\ joint'.pending = NoCommand
      BY <1>6, <2>1, <2>2, <2>3, IssueFacts
    <3> QED
      BY <3>1 DEF Open, Spent
  <2>4. CASE b.ticket # MaxTicket
    <3>1. joint'.pending \in Commands
      BY <1>6, <2>1, <2>2, <2>4, IssueFacts
    <3> QED
      BY <3>1, EmptyAssumption DEF Open
  <2> QED
    BY <2>3, <2>4
<1> QED
  BY <1>7, <1>8

(* No other native receipt leaves a question open with nothing pending.     *)
LEMMA ReplyOpen ==
  ASSUME NEW j \in JointType, JointInv(j), ForNative(j), NEW m, m = j \/ (j.step = "NATIVE_PREPARE" /\ m = RequireConfirmation(j)),
         NEW result \in {"OK", "FAILED"}, Reply(m, j.pending, result, Malformed), Open(joint')
  PROVE  InVain(joint')
<1>1. j.pending # NoCommand /\ j.step \in NativeSteps /\ ProgressInv(j)
  BY NativeFacts
<1>2. m \in JointType /\ JointInv(m) /\ m.pending = j.pending /\ m.step = j.step
  BY <1>1, RequireGood
<1>3. ~Spent(joint') /\ joint'.awaitingConfirmation
  BY DEF Open
<1>4. CASE j.step \in {"NATIVE_PREPARE", "NATIVE_APPLY", "NATIVE_VERIFY"}
  BY <1>1, <1>2, <1>3, <1>4, TriedReply
<1>5. CASE j.step \in {"NATIVE_FINAL_VERIFY", "NATIVE_CONFIRM", "NATIVE_RESTORE"}
  <2>1. m = j
    BY <1>5
  <2>2. Effect(j, joint', result, Malformed)
    BY <2>1, ReplyGood DEF Good
  <2>3. joint'.awaitingConfirmation = j.awaitingConfirmation
    BY <1>3, <1>5, <2>2 DEF Effect, Undone, Advanced, Ended, Resolving, Kept
  <2>4. j.step = "NATIVE_RESTORE"
    BY <1>1, <1>3, <1>5, <2>3 DEF ProgressInv, Undoing, Going
  <2> QED
    BY <1>1, <1>3, <2>1, <2>3, <2>4, RestoreOpen
<1> QED
  BY <1>1, <1>4, <1>5 DEF NativeSteps

LEMMA HooksConfirm ==
  ASSUME NEW operation, NEW s, NEW d, NEW i, NEW g, NEW x \in Hooks(operation, s, d, i, g), x.confirm
  PROVE  operation = "PREPARE"
  BY DEF Hooks, Did

(* What the loop leaves when it leaves nothing pending.                     *)
LEMMA LoopOpen ==
  ASSUME NEW j \in JointType, JointInv(j), NEW s, NEW d, Loop(s, d, j), Open(joint')
  PROVE  (joint' = j /\ svc' = s) \/ InVain(joint')
<1>1. CASE ~ForNative(j)
  BY <1>1 DEF Loop
<1>2. CASE ForNative(j)
  <2>1. j.pending # NoCommand /\ j.step \in NativeSteps /\ j.pending.operation = Dispatch[j.step].operation
    BY <1>2, NativeFacts
  <2>2. CASE NativeRead(s, d, j)
    BY <2>1, <2>2 DEF NativeRead, Open
  <2>3. CASE NativeReadFailed(s, d, j)
    <3>1. Reply(j, j.pending, "FAILED", Malformed)
      BY <2>3 DEF NativeReadFailed
    <3> QED
      BY <1>2, <3>1, ReplyOpen
  <2>4. CASE \E reply \in {"OK", "FAILED"}, reads \in BOOLEAN : NativeExecute(s, d, j, reply, reads)
    <3>1. PICK reply \in {"OK", "FAILED"}, reads \in BOOLEAN : NativeExecute(s, d, j, reply, reads)
      BY <2>4
    <3>2. CASE Reply(j, j.pending, "FAILED", Malformed)
      BY <1>2, <3>2, ReplyOpen
    <3>3. CASE \E x \in Hooks(j.pending.operation, [s EXCEPT !.loading = FALSE], d, inputs, j.request.candidate) :
                 Reply(IF x.confirm THEN RequireConfirmation(j) ELSE j, j.pending, Receipt(x.ok), Malformed)
      <4>1. PICK x \in Hooks(j.pending.operation, [s EXCEPT !.loading = FALSE], d, inputs, j.request.candidate) :
              Reply(IF x.confirm THEN RequireConfirmation(j) ELSE j, j.pending, Receipt(x.ok), Malformed)
        BY <3>3
      <4> DEFINE m == IF x.confirm THEN RequireConfirmation(j) ELSE j
                 r == Receipt(x.ok)
      <4>2. r \in {"OK", "FAILED"}
        BY DEF Receipt
      <4>3. m = j \/ (j.step = "NATIVE_PREPARE" /\ m = RequireConfirmation(j))
        <5>1. CASE x.confirm
          <6>1. j.pending.operation = "PREPARE"
            BY <5>1, HooksConfirm
          <6> QED
            BY <2>1, <5>1, <6>1 DEF NativeSteps, Dispatch
        <5>2. CASE ~x.confirm
          BY <5>2
        <5> QED
          BY <5>1, <5>2
      <4>4. Reply(m, j.pending, r, Malformed)
        BY <4>1
      <4> HIDE DEF m, r
      <4> QED
        BY <1>2, <4>2, <4>3, <4>4, ReplyOpen
    <3> QED
      BY <3>1, <3>2, <3>3 DEF NativeExecute
  <2> QED
    BY <1>2, <2>2, <2>3, <2>4 DEF Loop
<1> QED
  BY <1>1, <1>2

(* What the tick asks, waits for or declines.                               *)
LEMMA QuestionedBy ==
  ASSUME NEW s \in ServiceType, NEW d, NEW y \in Questioned(s, d)
  PROVE  /\ y.waiting => y.svc.since # "unset"
         /\ joint.awaitingConfirmation /\ joint.pending = NoCommand /\ ~y.waiting => y.joint = Decided(joint, FALSE)
<1> DEFINE asked == IF s.since = "unset" THEN [s EXCEPT !.since = "running"] ELSE s
           unset == [asked EXCEPT !.since = "unset"]
           n == IF joint.pending = NoCommand THEN Decided(joint, FALSE) ELSE joint
<1>1. CASE ~joint.awaitingConfirmation
  <2>1. y = [svc |-> s, display |-> d, joint |-> joint, waiting |-> FALSE]
    BY <1>1 DEF Questioned
  <2> QED
    BY <1>1, <2>1
<1>2. CASE joint.awaitingConfirmation /\ y \in Decisions(asked, d, FALSE)
  <2>1. PICK o \in DisplayRestore(d) :
          y = [svc |-> [unset EXCEPT !.monitorRestored = o.ok], display |-> o.to, joint |-> n, waiting |-> FALSE]
    BY <1>2 DEF Decisions
  <2>2. y.waiting = FALSE /\ y.joint = n
    BY <2>1
  <2> QED
    BY <2>2
<1>3. CASE y = [svc |-> asked, display |-> d, joint |-> joint, waiting |-> TRUE]
  <2>1. asked.since # "unset"
    BY DEF ServiceType
  <2> HIDE DEF asked
  <2>2. y.svc = asked /\ y.waiting = TRUE
    BY <1>3
  <2> QED
    BY <2>1, <2>2
<1>4. joint.awaitingConfirmation =>
        y \in Decisions(asked, d, FALSE) \/ y = [svc |-> asked, display |-> d, joint |-> joint, waiting |-> TRUE]
  BY DEF Questioned
<1> QED
  BY <1>1, <1>2, <1>3, <1>4

LEMMA TickAnswerable ==
  ASSUME IInv, Tick, Open(joint')
  PROVE  svc'.since # "unset" \/ InVain(joint')
<1> DEFINE Rest(y) ==
       \/ /\ y.waiting
          /\ svc' = y.svc /\ display' = y.display
          /\ UNCHANGED <<joint, native, touched, inputs>>
       \/ /\ ~y.waiting
          /\ \E late \in BOOLEAN :
               /\ late => y.joint.pending # NoCommand
               /\ Loop(y.svc, y.display, IF late THEN TimedOut(y.joint) ELSE y.joint)
<1>1. Running(joint, native, svc, display, inputs, completed)
  BY Opened DEF Tick
<1>2. PICK x \in Reverted : \E y \in Questioned(x.svc, x.display) : Rest(y)
  BY DEF Tick
<1>3. PICK y \in Questioned(x.svc, x.display) : Rest(y)
  BY <1>2
<1>4. Running(joint, native, x.svc, x.display, inputs, completed)
  BY <1>1, RevertedGood
<1>5. /\ Running(y.joint, native, y.svc, y.display, inputs, completed)
      /\ joint.pending # NoCommand => y.joint = joint
      /\ Spent(y.joint) \/ y.joint = joint \/ Answering(joint, y.joint, FALSE)
  BY <1>4, QuestionedGood
<1>6. CASE y.waiting /\ svc' = y.svc
  BY <1>4, <1>6, QuestionedBy DEF Running
<1>7. CASE ~y.waiting /\ \E late \in BOOLEAN :
             /\ late => y.joint.pending # NoCommand
             /\ Loop(y.svc, y.display, IF late THEN TimedOut(y.joint) ELSE y.joint)
  <2>1. PICK late \in BOOLEAN :
             /\ late => y.joint.pending # NoCommand
             /\ Loop(y.svc, y.display, IF late THEN TimedOut(y.joint) ELSE y.joint)
    BY <1>7
  <2> DEFINE k == IF late THEN TimedOut(y.joint) ELSE y.joint
  <2>2. k \in JointType /\ JointInv(k) /\ k.pending = y.joint.pending
    BY <1>5, <2>1, TimedOutGood DEF Running
  <2>3. Loop(y.svc, y.display, k)
    BY <2>1
  <2>4. (joint' = k /\ svc' = y.svc) \/ InVain(joint')
    <3> HIDE DEF k
    <3> QED
      BY <2>2, <2>3, LoopOpen
  <2>5. ASSUME joint' = k PROVE FALSE
    <3>1. y.joint.pending = NoCommand /\ ~late /\ joint' = y.joint
      BY <2>1, <2>2, <2>5 DEF Open
    <3>2. y.joint = joint
      BY <1>5, <3>1 DEF Open, Answering
    <3>3. joint.awaitingConfirmation /\ joint.pending = NoCommand /\ ~Spent(joint)
      BY <3>1, <3>2 DEF Open
    <3>4. y.joint = Decided(joint, FALSE)
      BY <1>4, <1>7, <3>3, QuestionedBy DEF Running
    <3>5. Spent(y.joint) \/ Answering(joint, y.joint, FALSE)
      BY <1>1, <3>3, <3>4, DecidedGood DEF Running
    <3> QED
      BY <3>1, <3>5 DEF Open, Answering
  <2> QED
    BY <2>4, <2>5
<1> QED
  BY <1>3, <1>6, <1>7

LEMMA AnswerableNext ==
  ASSUME IInv, Answerable, [Next]_vars
  PROVE  Answerable'
<1>1. CASE Tick
  BY <1>1, TickAnswerable DEF Answerable
<1>2. CASE \E e \in Epochs : TickRecovered(e)
  BY <1>2 DEF TickRecovered, Answerable, Open, Fresh
<1>3. CASE TickRecoveryFailed \/ RequestAttach
  BY <1>3 DEF TickRecoveryFailed, RequestAttach, Served, Answerable
<1>4. CASE \E r \in Requests : RequestStart(r) \/ RequestRecover(r)
  BY <1>4 DEF RequestStart, RequestRecover, Served, Answerable
<1>5. CASE \E r \in Requests, keep \in BOOLEAN : RequestAnswer(r, keep)
  BY <1>5 DEF RequestAnswer, Served, Answerable
<1>6. CASE \E result \in Replies, current \in Generations \cup {Malformed} : RequestReceipt(result, current)
  BY <1>6 DEF RequestReceipt, Served, Answerable
<1>7. CASE Expire
  <2>1. svc \in ServiceType /\ svc' = [svc EXCEPT !.since = "expired"] /\ joint' = joint /\ ticked' = ticked
    BY <1>7 DEF Expire, IInv, TypeOK
  <2>2. svc'.since = "expired"
    BY <2>1 DEF ServiceType
  <2> QED
    BY <2>2 DEF Answerable
<1>8. CASE Hotplug \/ Drift \/ EnvPublish \/ UNCHANGED vars
  BY <1>8 DEF Hotplug, Drift, EnvPublish, vars, Answerable, Open, InVain, Spent
<1> QED
  BY <1>1, <1>2, <1>3, <1>4, <1>5, <1>6, <1>7, <1>8 DEF Next

LEMMA AnswerableInvariance == Spec => []Answerable
<1>1. Init => Answerable
  BY DEF Init, Answerable
<1>2. IInv /\ Answerable /\ [Next]_vars => Answerable'
  BY AnswerableNext
<1> QED
  BY Invariance, <1>1, <1>2, PTL DEF Spec

-----------------------------------------------------------------------------
(* Every field of the service keeps its type, and a candidate is read only  *)
(* while its native PREPARE is pending.                                     *)
THEOREM TypeCorrect == Spec => []TypeOK
<1>1. IInv => TypeOK
  BY DEF IInv
<1> QED
  BY Invariance, <1>1, PTL

(* Between transactions the participant's base is what is completed, and    *)
(* what is completed is in force: the promise of a COMPLETE state.          *)
THEOREM CompleteIsInForce == Spec => []CompleteEverywhere
<1>1. IInv => CompleteEverywhere
  <2> SUFFICES ASSUME IInv PROVE CompleteEverywhere
    OBVIOUS
  <2>1. joint \in JointType /\ JointInv(joint) /\ BaseInv(joint, completed, native.generation)
    BY Opened
  <2>2. Settled => native.generation = completed
    BY <2>1, SettledBase DEF Settled
  <2>3. ASSUME joint.state = "COMPLETE", svc.recovery = "none"
        PROVE  /\ completed = joint.request.candidate
               /\ {inputs.current, inputs.devices, inputs.desktop} = {joint.request.candidate}
               /\ svc.monitorChange /\ display.stable => display.live = LayoutOf[joint.request.candidate]
    <3>1. ~Spent(joint)
      BY <2>3 DEF Spent
    <3>2. ProgressInv(joint) /\ StepInv(joint, native, svc, display, inputs)
      BY <2>1, <2>3, <3>1 DEF IInv, JointInv, ServiceInv
    <3>3. joint.step = "SHELL_CONFIRM"
      BY <2>3, <3>2 DEF ProgressInv
    <3> QED
      BY <2>1, <3>1, <3>2, <3>3 DEF BaseInv, StepInv, Checked, Going, InForce
  <2> QED
    BY <2>2, <2>3 DEF CompleteEverywhere
<1> QED
  BY Invariance, <1>1, PTL

(* A changed layout is published only by an answer to an open question,     *)
(* while the outputs show it; and where the tick of the very request had    *)
(* declined it, only because what the tick went on to restore failed.       *)
THEOREM LayoutIsAnswered == Spec => LayoutNeedsAnswer
<1> DEFINE Shown ==
      /\ joint.awaitingConfirmation /\ Healthy(display)
      /\ display.live = LayoutOf[joint.request.candidate]
      /\ svc.since = "unset" => joint.state = "UNKNOWN" /\ joint.restoreFailed
      /\ joint.state = "ABORTED" => display.baseline = display.candidate
           Asked ==
      ~Publishing /\ Publishing' /\ LayoutOf[joint.request.candidate] # LayoutOf[joint.request.base] => Shown
<1>1. IInv /\ Answerable /\ [Next]_vars => [Asked]_vars
  <2> SUFFICES ASSUME IInv, Answerable, [Next]_vars, ~Publishing, Publishing',
                      LayoutOf[joint.request.candidate] # LayoutOf[joint.request.base]
               PROVE  Shown
    OBVIOUS
  <2>1. Begins
    BY NextIInv
  <2>2. Running(joint, native, svc, display, inputs, completed)
    BY <2>1, Opened DEF Begins, Served
  <2>3. /\ joint \in JointType /\ svc \in ServiceType /\ display \in DisplayType /\ JointInv(joint)
    BY <2>2 DEF Running
  <2>4. CASE /\ joint.awaitingConfirmation /\ Answering(joint, joint', TRUE) /\ DisplayVerify(display) /\ Served
             /\ joint.pending = NoCommand
    <3>1. ~Spent(joint) /\ joint.awaitingConfirmation
      BY <2>4 DEF Answering
    <3>2. Healthy(display) /\ display.live = display.candidate
      BY <2>4 DEF DisplayVerify
    <3>3. /\ StepInv(joint, native, svc, display, inputs) /\ Armed(joint, svc, display, inputs)
          /\ joint.state = "ABORTED" => joint.step = "ABANDON"
      BY <2>2, <2>3, <3>1 DEF Running, StepInv, On, JointInv, ProgressInv
    <3>4. display.candidate = LayoutOf[joint.request.candidate]
      BY <3>3 DEF Armed
    <3>5. joint.state = "ABORTED" => display.baseline = display.candidate
      <4>1. joint.state = "ABORTED" => Back(display)
        BY <3>1, <3>3 DEF StepInv
      <4>2. display.live # Elsewhere /\ display.stable
        BY <2>3, <3>2, ElsewhereAssumption DEF DisplayType, Healthy
      <4> QED
        BY <3>2, <4>1, <4>2 DEF Back
    <3>6. svc.since = "unset" => InVain(joint)
      BY <2>4, <3>1 DEF Answerable, Open, Served
    <3> QED
      BY <3>1, <3>2, <3>4, <3>5, <3>6 DEF InVain
  <2>5. CASE ~joint.requireConfirmation /\ joint.step = "SHELL_VERIFY" /\ joint.pending # NoCommand /\ Served
    <3>1. StepInv(joint, native, svc, display, inputs)
      BY <2>2, <2>5 DEF Running, Spent
    <3>2. Armed(joint, svc, display, inputs)
      BY <2>5, <3>1 DEF StepInv, On, Trying
    <3> QED
      BY <2>5, <3>2 DEF Armed
  <2> QED
    BY <2>1, <2>4, <2>5 DEF Begins
<1> QED
  BY Invariance, AnswerableInvariance, <1>1, PTL DEF Spec, LayoutNeedsAnswer

(* An abort undoes what the runtimes did: the restores were acknowledged    *)
(* before the store was asked to abandon, and nothing touched them since.   *)
THEOREM AbortRestores == Spec => []AbortRestoresPrepared
<1>1. IInv => AbortRestoresPrepared
  <2> SUFFICES ASSUME IInv, joint.state = "ABORTED", joint.touched # 0, svc.recovery = "none"
               PROVE  /\ svc.inputPrepared => inputs.devices = inputs.devicesBefore /\ inputs.desktop = inputs.desktopBefore
                      /\ svc.monitorChange /\ ~joint.awaitingConfirmation /\ Healthy(display)
                           => display.live = display.baseline
    BY DEF AbortRestoresPrepared
  <2>1. ~Spent(joint)
    BY DEF Spent
  <2>2. /\ ProgressInv(joint) /\ RuntimeInv(native, svc, display, inputs)
        /\ StepInv(joint, native, svc, display, inputs)
    BY <2>1 DEF IInv, JointInv, ServiceInv
  <2>3. joint.step = "ABANDON"
    BY <2>2 DEF ProgressInv
  <2> QED
    BY <2>2, <2>3 DEF StepInv, RuntimeInv, Restored, Reverts
<1> QED
  BY Invariance, <1>1, PTL
=============================================================================
