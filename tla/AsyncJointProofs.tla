-------------------------- MODULE AsyncJointProofs --------------------------
(***************************************************************************)
(* The two ends of a settings transaction, for every set of epochs,        *)
(* generations and transaction numbers: what AsyncJointProtocol guarantees *)
(* for every bound on the ticket counter, and after it what                *)
(* ParticipantCalls guarantees for every order of calls.  The two          *)
(* specifications share nothing but the names of SettingsNames.            *)
(***************************************************************************)
EXTENDS AsyncJointProtocol, ParticipantCalls, TLAPS

Compensation == {"SHELL_RESTORE", "NATIVE_RESTORE", "ABANDON"}
Finalization == {"NATIVE_FINAL_VERIFY", "SHELL_FINAL_VERIFY", "NATIVE_CONFIRM", "SHELL_CONFIRM"}

\* What must have been acknowledged before a step is issued.
Before(s) ==
  CASE s = "NATIVE_PREPARE" -> {"STORE_PREPARE"}
    [] s = "SHELL_PREPARE"  -> {"STORE_PREPARE", "NATIVE_PREPARE"}
    [] s = "NATIVE_APPLY"   -> {"STORE_PREPARE", "NATIVE_PREPARE", "SHELL_PREPARE"}
    [] s = "SHELL_APPLY"    -> {"STORE_PREPARE", "NATIVE_PREPARE", "SHELL_PREPARE", "NATIVE_APPLY"}
    [] s = "NATIVE_VERIFY"  -> Forward \ {"NATIVE_VERIFY", "SHELL_VERIFY"}
    [] s = "SHELL_VERIFY"   -> Forward \ {"SHELL_VERIFY"}
    [] s = "PUBLISH"        -> Forward
    [] s = "SHELL_CONFIRM"  -> {"NATIVE_CONFIRM"}
    [] OTHER -> {}

\* Everything the transaction touched has acknowledged its restore.
Undone(j, a) ==
  /\ j.touched >= 1 => "NATIVE_RESTORE" \in a
  /\ j.touched = 2 => "SHELL_RESTORE" \in a

\* When the machine j may issue step s.
Ready(j, s, c, a) ==
  /\ Before(s) \subseteq a
  /\ s \in Compensation => c = j.request.base
  /\ s \in Finalization => c = j.request.candidate
  /\ s = "SHELL_RESTORE" => j.touched = 2 /\ j.restoreRemaining = 1
  /\ s = "NATIVE_RESTORE" => /\ j.restoreRemaining = 0
                             /\ j.touched = 2 /\ ~j.restoreFailed => "SHELL_RESTORE" \in a
  /\ s = "ABANDON" => Undone(j, a)

\* When the machine j may continue undoing, or report that it has.
Undoing(j, c, a) ==
  /\ c = j.request.base
  /\ j.restoreRemaining = 2 => j.touched = 2
  /\ j.restoreRemaining = 1 /\ j.touched = 2 /\ ~j.restoreFailed => "SHELL_RESTORE" \in a
  /\ j.restoreRemaining = 0 /\ ~j.restoreFailed => Undone(j, a)

TypeInv(j, c, a) == j \in JointType /\ c \in Generations /\ a \in SUBSET Steps

IdleInv(j) == j.request = NoRequest => j.state = "IDLE" /\ j.pending = NoCommand

PendingInv(j, c, a) ==
  j.pending # NoCommand => /\ j.state \in {"RUNNING", "UNKNOWN"}
                           /\ j.pending.request = j.request
                           /\ j.pending.operation = Dispatch[j.step].operation
                           /\ Ready(j, j.step, c, a)

PublishInv(j, a) == j.awaitingConfirmation \/ j.publishAttempted => Forward \subseteq a

VerdictInv(j, c, a) ==
  /\ j.state = "ABORTED" => c = j.request.base /\ Undone(j, a) /\ (j.prepared => "ABANDON" \in a)
  /\ j.state = "COMPLETE" => c = j.request.candidate /\ {"NATIVE_CONFIRM", "SHELL_CONFIRM"} \subseteq a

(* The invariant of the coordinator j against a store whose completed       *)
(* pointer is c and with a acknowledged, as an operator so that it can be   *)
(* claimed of a machine in the middle of a handler.                         *)
Inv(j, c, a) ==
  /\ TypeInv(j, c, a)
  /\ IdleInv(j)
  /\ PendingInv(j, c, a)
  /\ PublishInv(j, a)
  /\ VerdictInv(j, c, a)

IInv == Inv(joint, completed, acked)

(* issue() keeps the machine well formed, also when the tickets are spent.  *)
LEMMA IssueType ==
  ASSUME NEW j \in JointType, j.request \in Requests, NEW s \in Steps
  PROVE  Issue(j, s) \in JointType
<1>1. Dispatch[s].target \in Targets /\ Dispatch[s].operation \in Operations
  BY DEF Steps, Dispatch, Targets, Operations
<1>2. CASE j.ticket = MaxTicket
  BY <1>2 DEF Issue, JointType, States
<1>3. CASE j.ticket # MaxTicket
  <2> DEFINE c == [request |-> j.request, ticket |-> j.ticket + 1,
                   target |-> Dispatch[s].target, operation |-> Dispatch[s].operation]
             n == j.ticket + 1
             prep == j.prepared \/ s = "STORE_PREPARE"
             pub == j.publishAttempted \/ s = "PUBLISH"
             touch == CASE s = "NATIVE_PREPARE" -> 1 [] s = "SHELL_PREPARE" -> 2 [] OTHER -> j.touched
  <2>1. n \in 1 .. MaxTicket /\ n \in 0 .. MaxTicket
    BY <1>3, TicketAssumption DEF JointType
  <2>2. c \in Commands \cup {NoCommand}
    BY <1>1, <2>1 DEF Commands
  <2>3. prep \in BOOLEAN /\ pub \in BOOLEAN
    OBVIOUS
  <2>4. touch \in 0 .. 2
    BY DEF JointType
  <2>5. Issue(j, s) = [j EXCEPT !.step = s, !.state = "RUNNING", !.ticket = n, !.pending = c,
                                !.prepared = prep, !.publishAttempted = pub, !.touched = touch]
    BY <1>3 DEF Issue
  <2> HIDE DEF n, c, prep, pub, touch
  <2> QED
    BY <2>1, <2>2, <2>3, <2>4, <2>5, Zenon DEF JointType, States
<1> QED
  BY <1>2, <1>3

(* What issue() changes and what it leaves alone, field by field.           *)
LEMMA IssueFields ==
  ASSUME NEW j \in JointType, NEW s \in Steps, j.request \in Requests
  PROVE  LET k == Issue(j, s)
         IN /\ k.request = j.request
            /\ k.restoreRemaining = j.restoreRemaining
            /\ k.restoreFailed = j.restoreFailed
            /\ k.awaitingConfirmation = j.awaitingConfirmation
            /\ k.requireConfirmation = j.requireConfirmation
            /\ j.ticket = MaxTicket =>
                 /\ k.state = "UNKNOWN" /\ k.pending = j.pending
                 /\ k.publishAttempted = j.publishAttempted
            /\ j.ticket # MaxTicket =>
                 /\ k.state = "RUNNING" /\ k.step = s
                 /\ k.pending \in Commands
                 /\ k.pending.request = j.request
                 /\ k.pending.operation = Dispatch[s].operation
                 /\ k.publishAttempted => j.publishAttempted \/ s = "PUBLISH"
                 /\ s \notin {"NATIVE_PREPARE", "SHELL_PREPARE"} => k.touched = j.touched
<1>1. CASE j.ticket = MaxTicket
  <2>1. Issue(j, s) = [j EXCEPT !.state = "UNKNOWN"]
    BY <1>1 DEF Issue
  <2> QED
    BY <1>1, <2>1 DEF JointType
<1>2. CASE j.ticket # MaxTicket
  <2> DEFINE c == [request |-> j.request, ticket |-> j.ticket + 1,
                   target |-> Dispatch[s].target, operation |-> Dispatch[s].operation]
             n == j.ticket + 1
             prep == j.prepared \/ s = "STORE_PREPARE"
             pub == j.publishAttempted \/ s = "PUBLISH"
             touch == CASE s = "NATIVE_PREPARE" -> 1 [] s = "SHELL_PREPARE" -> 2 [] OTHER -> j.touched
  <2>1. Issue(j, s) = [j EXCEPT !.step = s, !.state = "RUNNING", !.ticket = n, !.pending = c,
                                !.prepared = prep, !.publishAttempted = pub, !.touched = touch]
    BY <1>2 DEF Issue
  <2>2. c.request = j.request /\ c.operation = Dispatch[s].operation
    OBVIOUS
  <2>3. c \in Commands
    <3>1. n \in 1 .. MaxTicket
      BY <1>2, TicketAssumption DEF JointType
    <3> QED
      BY <3>1 DEF Commands, Steps, Dispatch, Targets, Operations
  <2>4. s \notin {"NATIVE_PREPARE", "SHELL_PREPARE"} => touch = j.touched
    OBVIOUS
  <2>5. pub => j.publishAttempted \/ s = "PUBLISH"
    OBVIOUS
  <2> HIDE DEF c, n, prep, pub, touch
  <2>6. LET k == Issue(j, s)
        IN /\ k.request = j.request /\ k.restoreRemaining = j.restoreRemaining
           /\ k.restoreFailed = j.restoreFailed /\ k.awaitingConfirmation = j.awaitingConfirmation
           /\ k.requireConfirmation = j.requireConfirmation
           /\ k.state = "RUNNING" /\ k.step = s /\ k.pending = c
           /\ k.publishAttempted = pub /\ k.touched = touch
    BY <2>1 DEF JointType
  <2> QED
    BY <1>2, <2>2, <2>3, <2>4, <2>5, <2>6
<1> QED
  BY <1>1, <1>2

(* A handler that has consumed its receipt may issue any step that is Ready.*)
LEMMA IssueInv ==
  ASSUME NEW j, NEW c, NEW a, NEW s \in Steps,
         TypeInv(j, c, a), j.request \in Requests, j.pending = NoCommand,
         PublishInv(j, a), Ready(j, s, c, a)
  PROVE  Inv(Issue(j, s), c, a)
<1> DEFINE k == Issue(j, s)
<1>1. k \in JointType
  BY IssueType DEF TypeInv
<1>2. k.request = j.request /\ k.request # NoRequest
  BY IssueFields, EmptyAssumption DEF TypeInv
<1>3. CASE j.ticket = MaxTicket
  BY <1>1, <1>2, <1>3, IssueFields DEF Inv, TypeInv, IdleInv, PendingInv, PublishInv, VerdictInv
<1>4. CASE j.ticket # MaxTicket
  <2>1. /\ k.state = "RUNNING" /\ k.step = s /\ k.pending.request = j.request
        /\ k.pending.operation = Dispatch[s].operation
        /\ k.publishAttempted => j.publishAttempted \/ s = "PUBLISH"
        /\ k.awaitingConfirmation = j.awaitingConfirmation
        /\ k.restoreRemaining = j.restoreRemaining /\ k.restoreFailed = j.restoreFailed
        /\ s \notin {"NATIVE_PREPARE", "SHELL_PREPARE"} => k.touched = j.touched
    BY <1>4, IssueFields DEF TypeInv
  <2>2. Ready(k, s, c, a)
    BY <1>2, <2>1 DEF Ready, Undone
  <2>3. PublishInv(k, a)
    BY <2>1 DEF PublishInv, Ready, Before
  <2> QED
    BY <1>1, <1>2, <2>1, <2>2, <2>3 DEF Inv, TypeInv, IdleInv, PendingInv, VerdictInv
<1> QED
  BY <1>3, <1>4

(* restoreNext() continues an undoing or reports it.                        *)
LEMMA RestoreNextInv ==
  ASSUME NEW j, NEW c, NEW a,
         TypeInv(j, c, a), j.request \in Requests, j.pending = NoCommand,
         PublishInv(j, a), Undoing(j, c, a)
  PROVE  Inv(RestoreNext(j), c, a)
<1>1. j.restoreRemaining \in 0 .. 2 /\ j \in JointType
  BY DEF TypeInv, JointType
<1>2. CASE j.restoreRemaining = 2
  <2> DEFINE k == [j EXCEPT !.restoreRemaining = 1]
  <2>1. /\ TypeInv(k, c, a) /\ k.request = j.request /\ k.pending = j.pending /\ k.restoreRemaining = 1
        /\ k.touched = j.touched /\ k.restoreFailed = j.restoreFailed
        /\ k.awaitingConfirmation = j.awaitingConfirmation /\ k.publishAttempted = j.publishAttempted
    BY <1>1 DEF TypeInv, JointType
  <2>2. RestoreNext(j) = Issue(k, "SHELL_RESTORE")
    BY <1>2 DEF RestoreNext
  <2> HIDE DEF k
  <2>3. Ready(k, "SHELL_RESTORE", c, a) /\ PublishInv(k, a)
    BY <1>2, <2>1 DEF Ready, Before, Undoing, PublishInv, Compensation, Finalization
  <2>4. "SHELL_RESTORE" \in Steps
    BY DEF Steps, Dispatch
  <2> QED
    BY <2>1, <2>2, <2>3, <2>4, IssueInv
<1>3. CASE j.restoreRemaining = 1
  <2> DEFINE k == [j EXCEPT !.restoreRemaining = 0]
  <2>1. /\ TypeInv(k, c, a) /\ k.request = j.request /\ k.pending = j.pending /\ k.restoreRemaining = 0
        /\ k.touched = j.touched /\ k.restoreFailed = j.restoreFailed
        /\ k.awaitingConfirmation = j.awaitingConfirmation /\ k.publishAttempted = j.publishAttempted
    BY <1>1 DEF TypeInv, JointType
  <2>2. RestoreNext(j) = Issue(k, "NATIVE_RESTORE")
    BY <1>3 DEF RestoreNext
  <2> HIDE DEF k
  <2>3. Ready(k, "NATIVE_RESTORE", c, a) /\ PublishInv(k, a)
    BY <1>3, <2>1 DEF Ready, Before, Undoing, PublishInv, Compensation, Finalization
  <2>4. "NATIVE_RESTORE" \in Steps
    BY DEF Steps, Dispatch
  <2> QED
    BY <2>1, <2>2, <2>3, <2>4, IssueInv
<1>4. CASE j.restoreRemaining = 0 /\ j.restoreFailed
  <2> DEFINE k == [j EXCEPT !.state = "UNKNOWN"]
  <2>1. RestoreNext(j) = k
    BY <1>4 DEF RestoreNext
  <2>2. /\ k \in JointType /\ k.request = j.request /\ k.pending = j.pending /\ k.state = "UNKNOWN"
        /\ k.awaitingConfirmation = j.awaitingConfirmation /\ k.publishAttempted = j.publishAttempted
    BY <1>1 DEF JointType, States
  <2> HIDE DEF k
  <2> QED
    BY <2>1, <2>2, EmptyAssumption DEF Inv, TypeInv, IdleInv, PendingInv, PublishInv, VerdictInv
<1>5. CASE j.restoreRemaining = 0 /\ ~j.restoreFailed /\ j.prepared
  <2>1. RestoreNext(j) = Issue(j, "ABANDON")
    BY <1>5 DEF RestoreNext
  <2>2. Ready(j, "ABANDON", c, a)
    BY <1>5 DEF Ready, Before, Undoing, Compensation, Finalization
  <2>3. "ABANDON" \in Steps
    BY DEF Steps, Dispatch
  <2> QED
    BY <2>1, <2>2, <2>3, IssueInv
<1>6. CASE j.restoreRemaining = 0 /\ ~j.restoreFailed /\ ~j.prepared
  <2> DEFINE k == [j EXCEPT !.state = "ABORTED"]
  <2>1. RestoreNext(j) = k
    BY <1>6 DEF RestoreNext
  <2>2. /\ k \in JointType /\ k.request = j.request /\ k.pending = j.pending /\ k.state = "ABORTED"
        /\ k.awaitingConfirmation = j.awaitingConfirmation /\ k.publishAttempted = j.publishAttempted
        /\ k.touched = j.touched /\ k.prepared = j.prepared
    BY <1>1 DEF JointType, States
  <2> HIDE DEF k
  <2>3. Undone(k, a) /\ ~k.prepared /\ c = k.request.base
    BY <1>6, <2>2 DEF Undoing, Undone
  <2> QED
    BY <2>1, <2>2, <2>3, EmptyAssumption DEF Inv, TypeInv, IdleInv, PendingInv, PublishInv, VerdictInv
<1> QED
  BY <1>1, <1>2, <1>3, <1>4, <1>5, <1>6

-----------------------------------------------------------------------------
LEMMA InitInv == Init => IInv
<1> SUFFICES ASSUME Init PROVE IInv
  OBVIOUS
<1>1. PICK e \in Epochs : joint = Fresh(e)
  BY DEF Init
<1>2. joint \in JointType
  BY <1>1, TicketAssumption DEF JointType, Fresh, Steps, Dispatch, States
<1>3. /\ joint.state = "IDLE" /\ joint.pending = NoCommand
      /\ ~joint.awaitingConfirmation /\ ~joint.publishAttempted
  BY <1>1 DEF Fresh
<1> QED
  BY <1>2, <1>3 DEF Init, IInv, Inv, TypeInv, IdleInv, PendingInv, PublishInv, VerdictInv

(* What a handler that has consumed the pending receipt can rely on.        *)
LEMMA AnsweredFacts ==
  ASSUME NEW m, Inv(m, completed, acked), m.pending # NoCommand
  PROVE  /\ TypeInv(Answered(m), completed, acked)
         /\ Answered(m).request = m.request /\ m.request \in Requests
         /\ Answered(m).pending = NoCommand
         /\ Answered(m).touched = m.touched /\ Answered(m).restoreRemaining = m.restoreRemaining
         /\ Answered(m).restoreFailed = m.restoreFailed
         /\ Answered(m).awaitingConfirmation = m.awaitingConfirmation
         /\ Answered(m).publishAttempted = m.publishAttempted
         /\ Answered(m).step = m.step
         /\ PublishInv(Answered(m), acked)
         /\ m.step \in Steps
         /\ Ready(m, m.step, completed, acked)
  BY DEF IInv, Inv, TypeInv, IdleInv, PendingInv, PublishInv, JointType, Answered

LEMMA StartInv ==
  ASSUME IInv, NEW r \in Requests, EnvStart(r)
  PROVE  IInv'
<1> DEFINE k == [joint EXCEPT !.request = r,
                              !.requireConfirmation = FALSE, !.awaitingConfirmation = FALSE,
                              !.touched = 0, !.restoreRemaining = 0, !.prepared = FALSE,
                              !.publishAttempted = FALSE, !.restoreFailed = FALSE]
<1>1. joint' = Issue(k, "BASE") /\ acked' = {} /\ completed' = completed
  BY DEF EnvStart, Start
<1>2. joint.pending = NoCommand
  BY DEF EnvStart, Start, Accepts, IInv, Inv, PendingInv
<1>3. /\ k \in JointType /\ k.request = r /\ k.pending = NoCommand
      /\ ~k.awaitingConfirmation /\ ~k.publishAttempted
  <2>1. joint \in JointType
    BY DEF IInv, Inv, TypeInv
  <2>2. k.request = r /\ k.pending = NoCommand /\ ~k.awaitingConfirmation /\ ~k.publishAttempted
    BY <1>2, <2>1 DEF JointType
  <2>3. k \in JointType
    <3> DEFINE f == FALSE
               z == 0
    <3>1. f \in BOOLEAN /\ z \in 0 .. 2 /\ r \in Requests \cup {NoRequest}
      OBVIOUS
    <3>2. k = [joint EXCEPT !.request = r, !.requireConfirmation = f, !.awaitingConfirmation = f,
                            !.touched = z, !.restoreRemaining = z, !.prepared = f,
                            !.publishAttempted = f, !.restoreFailed = f]
      OBVIOUS
    <3> HIDE DEF k, f, z
    <3> QED
      BY <2>1, <3>1, <3>2 DEF JointType
  <2> QED
    BY <2>2, <2>3
<1> HIDE DEF k
<1>4. "BASE" \in Steps
  BY DEF Steps, Dispatch
<1>5. TypeInv(k, completed, {}) /\ PublishInv(k, {}) /\ Ready(k, "BASE", completed, {})
  BY <1>3 DEF IInv, Inv, TypeInv, PublishInv, Ready, Before, Compensation, Finalization
<1>6. Inv(Issue(k, "BASE"), completed, {})
  BY <1>3, <1>4, <1>5, IssueInv
<1> QED
  BY <1>1, <1>6 DEF IInv

(* timeout() and an unresolved receipt only mark the machine.               *)
LEMMA MarkUnknownInv ==
  ASSUME NEW m, NEW a \in SUBSET Steps, Inv(m, completed, acked), m.pending # NoCommand, acked \subseteq a
  PROVE  Inv([m EXCEPT !.state = "UNKNOWN"], completed, a)
<1> DEFINE k == [m EXCEPT !.state = "UNKNOWN"]
<1>1. m \in JointType
  BY DEF Inv, TypeInv
<1>2. /\ k \in JointType /\ k.request = m.request /\ k.pending = m.pending
      /\ k.state = "UNKNOWN" /\ k.step = m.step
      /\ k.awaitingConfirmation = m.awaitingConfirmation
      /\ k.publishAttempted = m.publishAttempted
      /\ k.touched = m.touched /\ k.restoreRemaining = m.restoreRemaining
      /\ k.restoreFailed = m.restoreFailed
  BY <1>1 DEF JointType, States
<1> HIDE DEF k
<1>3. PendingInv(k, completed, a) /\ PublishInv(k, a)
  BY <1>2 DEF Inv, PendingInv, PublishInv, Ready, Undone
<1>4. k.request # NoRequest
  BY <1>2 DEF Inv, IdleInv, PendingInv
<1>5. Inv(k, completed, a)
  BY <1>2, <1>3, <1>4 DEF Inv, TypeInv, IdleInv, VerdictInv
<1> QED
  BY <1>5 DEF k

LEMMA TimeoutInv ==
  ASSUME IInv, EnvTimeout
  PROVE  IInv'
<1>1. /\ joint.pending # NoCommand /\ joint' = [joint EXCEPT !.state = "UNKNOWN"]
      /\ completed' = completed /\ acked' = acked
  BY DEF EnvTimeout, Timeout, TimedOut
<1>2. Inv([joint EXCEPT !.state = "UNKNOWN"], completed, acked)
  BY <1>1, MarkUnknownInv DEF IInv, Inv, TypeInv
<1> QED
  BY <1>1, <1>2 DEF IInv

LEMMA PublishStepInv ==
  ASSUME IInv, EnvPublish
  PROVE  IInv'
<1>1. joint.step = "PUBLISH" /\ joint.state \notin {"ABORTED", "COMPLETE"}
  <2>1. joint.step \in Steps /\ Dispatch[joint.step].operation = "PUBLISH"
    BY DEF EnvPublish, IInv, Inv, PendingInv, TypeInv, JointType
  <2> QED
    BY <2>1 DEF Steps, Dispatch, EnvPublish, IInv, Inv, PendingInv
<1>2. joint.request \in Requests
  BY DEF EnvPublish, IInv, Inv, IdleInv, TypeInv, JointType
<1>3. completed' \in Generations
  BY <1>2 DEF EnvPublish, Requests
<1>4. PendingInv(joint, completed', acked)
  BY <1>1 DEF IInv, Inv, PendingInv, Ready, Compensation, Finalization
<1> QED
  BY <1>1, <1>3, <1>4 DEF EnvPublish, IInv, Inv, TypeInv, VerdictInv

LEMMA RecoverInv ==
  ASSUME IInv, NEW r \in Requests, EnvRecover(r)
  PROVE  IInv'
<1>1. Ready(joint, "RESOLVE", completed, acked) /\ "RESOLVE" \in Steps
  BY DEF Ready, Before, Compensation, Finalization, Steps, Dispatch
<1>2. Inv(Issue(joint, "RESOLVE"), completed, acked)
  BY <1>1, IssueInv DEF EnvRecover, Recover, IInv, Inv
<1> QED
  BY <1>2 DEF EnvRecover, Recover, IInv

(* Demanding a confirmation disturbs nothing else.                          *)
LEMMA AskedInv ==
  ASSUME IInv, NEW confirm \in BOOLEAN
  PROVE  /\ Inv(Asked(confirm), completed, acked)
         /\ Asked(confirm).step = joint.step /\ Asked(confirm).pending = joint.pending
<1>1. CASE Asked(confirm) = joint
  BY <1>1 DEF IInv
<1>2. CASE Asked(confirm) = [joint EXCEPT !.requireConfirmation = TRUE]
  <2> DEFINE k == [joint EXCEPT !.requireConfirmation = TRUE]
  <2>0. joint \in JointType
    BY DEF IInv, Inv, TypeInv
  <2>1. /\ k \in JointType /\ k.request = joint.request /\ k.pending = joint.pending
        /\ k.state = joint.state /\ k.step = joint.step
        /\ k.awaitingConfirmation = joint.awaitingConfirmation
        /\ k.publishAttempted = joint.publishAttempted /\ k.prepared = joint.prepared
        /\ k.touched = joint.touched /\ k.restoreRemaining = joint.restoreRemaining
        /\ k.restoreFailed = joint.restoreFailed
    BY <2>0 DEF JointType
  <2> HIDE DEF k
  <2>2. PendingInv(k, completed, acked) /\ PublishInv(k, acked)
    BY <2>1 DEF IInv, Inv, PendingInv, PublishInv, Ready, Undone
  <2>3. VerdictInv(k, completed, acked) /\ IdleInv(k)
    BY <2>1 DEF IInv, Inv, VerdictInv, IdleInv, Undone
  <2>4. Inv(k, completed, acked)
    BY <2>1, <2>2, <2>3 DEF IInv, Inv, TypeInv
  <2>5. Asked(confirm) = k
    BY <1>2 DEF k
  <2> QED
    BY <2>1, <2>4, <2>5
<1> QED
  BY <1>1, <1>2 DEF Asked, RequireConfirmation

LEMMA DecideInv ==
  ASSUME IInv, NEW r \in Requests, NEW keep \in BOOLEAN, EnvDecide(r, keep)
  PROVE  IInv'
<1> DEFINE k == [joint EXCEPT !.awaitingConfirmation = FALSE]
           s == IF keep THEN "PUBLISH" ELSE "RESOLVE"
<1>1. joint' = Issue(k, s) /\ completed' = completed /\ acked' = acked
  BY DEF EnvDecide, Decide, Decided
<1>0. joint.request = r /\ joint.awaitingConfirmation /\ joint.pending = NoCommand
  BY DEF EnvDecide, Decide
<1>7. joint \in JointType
  BY DEF IInv, Inv, TypeInv
<1>2. /\ k \in JointType /\ k.request = r /\ k.pending = NoCommand
      /\ ~k.awaitingConfirmation /\ k.publishAttempted = joint.publishAttempted
  BY <1>0, <1>7 DEF JointType
<1> HIDE DEF k
<1>3. Forward \subseteq acked
  BY <1>0 DEF IInv, Inv, PublishInv
<1>4. s \in Steps /\ Ready(k, s, completed, acked)
  BY <1>3 DEF Ready, Before, Compensation, Finalization, Steps, Dispatch
<1>5. TypeInv(k, completed, acked) /\ PublishInv(k, acked)
  BY <1>2, <1>3 DEF IInv, Inv, TypeInv, PublishInv
<1> HIDE DEF s
<1>6. Inv(Issue(k, s), completed, acked)
  BY <1>2, <1>4, <1>5, IssueInv
<1> QED
  BY <1>1, <1>6 DEF IInv

LEMMA ReinitializeInv ==
  ASSUME IInv, NEW e \in Epochs, Reinitialize(e)
  PROVE  IInv'
<1>1. joint' = Fresh(e) /\ completed' = completed /\ acked' = {}
  BY DEF Reinitialize
<1>2. joint' \in JointType
  BY <1>1, TicketAssumption DEF JointType, Fresh, Steps, Dispatch, States
<1>3. /\ joint'.state = "IDLE" /\ joint'.pending = NoCommand
      /\ ~joint'.awaitingConfirmation /\ ~joint'.publishAttempted
  BY <1>1 DEF Fresh
<1> QED
  BY <1>1, <1>2, <1>3 DEF IInv, Inv, TypeInv, IdleInv, PendingInv, PublishInv, VerdictInv

-----------------------------------------------------------------------------
(* The receipt of the pending command, one lemma per branch of reply().     *)
Receipt(m, result, current) ==
  /\ Inv(m, completed, acked)
  /\ m.pending # NoCommand
  /\ m.step \in {"BASE", "RESOLVE"} => current \in {completed, Malformed}
  /\ acked' = IF result = "OK" THEN acked \cup {m.step} ELSE acked
  /\ completed' = completed

LEMMA ReceiptFacts ==
  ASSUME NEW m, NEW result \in Replies, NEW current, Receipt(m, result, current)
  PROVE  /\ Inv(m, completed, acked) /\ m.pending # NoCommand
         /\ completed' = completed
         /\ acked \subseteq acked' /\ acked' \in SUBSET Steps
         /\ result = "OK" => m.step \in acked'
         /\ TypeInv(Answered(m), completed, acked')
         /\ PublishInv(Answered(m), acked')
<1>1. Inv(m, completed, acked) /\ m.pending # NoCommand /\ completed' = completed
  BY DEF Receipt
<1>2. m.step \in Steps /\ acked \in SUBSET Steps
  BY <1>1 DEF Inv, TypeInv, JointType
<1>3. acked \subseteq acked' /\ acked' \in SUBSET Steps /\ (result = "OK" => m.step \in acked')
  BY <1>2 DEF Receipt
<1>4. TypeInv(Answered(m), completed, acked')
  BY <1>1, <1>3, AnsweredFacts DEF TypeInv
<1>5. PublishInv(Answered(m), acked')
  BY <1>1, <1>3, AnsweredFacts DEF PublishInv
<1> QED
  BY <1>1, <1>3, <1>4, <1>5

\* A branch that issues step s.
LEMMA AnswerIssues ==
  ASSUME NEW m, NEW result \in Replies, NEW current, Receipt(m, result, current), NEW s \in Steps,
         joint' = Issue(Answered(m), s), Ready(Answered(m), s, completed, acked')
  PROVE  IInv'
<1>1. Inv(Issue(Answered(m), s), completed, acked')
  BY AnsweredFacts, ReceiptFacts, IssueInv
<1> QED
  BY <1>1, ReceiptFacts DEF IInv

\* A branch that ends in state v, which asks nothing more than VerdictInv.
LEMMA AnswerEnds ==
  ASSUME NEW m, NEW result \in Replies, NEW current, Receipt(m, result, current), NEW v \in States \ {"IDLE"},
         joint' = [Answered(m) EXCEPT !.state = v], VerdictInv(joint', completed, acked')
  PROVE  IInv'
<1> DEFINE k == [Answered(m) EXCEPT !.state = v]
<1>1. Answered(m) \in JointType /\ m.request \in Requests /\ m.request # NoRequest
  BY AnsweredFacts, ReceiptFacts, EmptyAssumption DEF TypeInv
<1>2. /\ k \in JointType /\ k.request = m.request /\ k.pending = NoCommand
      /\ k.awaitingConfirmation = Answered(m).awaitingConfirmation
      /\ k.publishAttempted = Answered(m).publishAttempted
  BY <1>1, AnsweredFacts, ReceiptFacts DEF JointType
<1> HIDE DEF k
<1>3. TypeInv(k, completed, acked') /\ PublishInv(k, acked') /\ IdleInv(k) /\ PendingInv(k, completed, acked')
  BY <1>1, <1>2, ReceiptFacts DEF TypeInv, PublishInv, IdleInv, PendingInv
<1>4. joint' = k
  BY DEF k
<1> QED
  BY <1>3, <1>4, ReceiptFacts DEF IInv, Inv

LEMMA ReplyRestoreInv ==
  ASSUME NEW m, NEW result \in Replies, NEW current, Receipt(m, result, current), ReplyRestore(m, result)
  PROVE  IInv'
<1> DEFINE f == Answered(m).restoreFailed \/ result = "FAILED"
           k == [Answered(m) EXCEPT !.restoreFailed = f]
<1>1. joint' = RestoreNext(k)
  BY DEF ReplyRestore
<1>2. f \in BOOLEAN
  OBVIOUS
<1>3. ~f => ~m.restoreFailed /\ result = "OK"
  BY AnsweredFacts, ReceiptFacts DEF ReplyRestore
<1> HIDE DEF f
<1>4. /\ TypeInv(k, completed, acked') /\ k.request = m.request /\ k.pending = NoCommand
      /\ k.touched = m.touched /\ k.restoreRemaining = m.restoreRemaining
      /\ k.restoreFailed = f
      /\ k.awaitingConfirmation = Answered(m).awaitingConfirmation
      /\ k.publishAttempted = Answered(m).publishAttempted
  BY <1>2, AnsweredFacts, ReceiptFacts DEF TypeInv, JointType
<1> HIDE DEF k
<1>5. PublishInv(k, acked')
  BY <1>4, ReceiptFacts DEF PublishInv
<1>6. Undoing(k, completed, acked')
  <2>1. Ready(m, m.step, completed, acked) /\ m.step \in RestoreSteps
    BY AnsweredFacts, ReceiptFacts DEF ReplyRestore
  <2>2. CASE m.step = "SHELL_RESTORE"
    BY <1>3, <1>4, <2>1, <2>2, ReceiptFacts DEF Ready, Undoing, Compensation
  <2>3. CASE m.step = "NATIVE_RESTORE"
    BY <1>3, <1>4, <2>1, <2>3, ReceiptFacts DEF Ready, Undoing, Undone, Compensation
  <2> QED
    BY <2>1, <2>2, <2>3 DEF RestoreSteps
<1>7. Inv(RestoreNext(k), completed, acked')
  BY <1>4, <1>5, <1>6, AnsweredFacts, ReceiptFacts, RestoreNextInv
<1> QED
  BY <1>1, <1>7, ReceiptFacts DEF IInv

LEMMA ReplyFailedInv ==
  ASSUME NEW m, NEW result \in Replies, NEW current, Receipt(m, result, current), ReplyFailed(m, result)
  PROVE  IInv'
<1>1. CASE m.step \in UndecidedSteps
  <2>1. joint' = [Answered(m) EXCEPT !.state = "UNKNOWN"]
    BY <1>1 DEF ReplyFailed
  <2>2. joint'.state = "UNKNOWN"
    BY <2>1, AnsweredFacts, ReceiptFacts DEF TypeInv, JointType
  <2>3. VerdictInv(joint', completed, acked')
    BY <2>2 DEF VerdictInv
  <2> QED
    BY <2>1, <2>3, AnswerEnds DEF States
<1>2. CASE m.step \notin UndecidedSteps
  <2>1. joint' = Issue(Answered(m), "RESOLVE") /\ "RESOLVE" \in Steps
    BY <1>2 DEF ReplyFailed, Steps, Dispatch
  <2>2. Ready(Answered(m), "RESOLVE", completed, acked')
    BY DEF Ready, Before, Compensation, Finalization
  <2> QED
    BY <2>1, <2>2, AnswerIssues
<1> QED
  BY <1>1, <1>2

LEMMA ReplyBaseInv ==
  ASSUME NEW m, NEW result \in Replies, NEW current, Receipt(m, result, current), ReplyBase(m, result, current)
  PROVE  IInv'
<1>1. CASE current = m.request.base
  <2>1. joint' = Issue(Answered(m), "STORE_PREPARE") /\ "STORE_PREPARE" \in Steps
    BY <1>1 DEF ReplyBase, Steps, Dispatch
  <2>2. Ready(Answered(m), "STORE_PREPARE", completed, acked')
    BY DEF Ready, Before, Compensation, Finalization
  <2> QED
    BY <2>1, <2>2, AnswerIssues
<1>2. CASE current # m.request.base
  <2>1. joint' = [Answered(m) EXCEPT !.state = "STALE"]
    BY <1>2 DEF ReplyBase
  <2>2. joint'.state = "STALE"
    BY <2>1, AnsweredFacts, ReceiptFacts DEF TypeInv, JointType
  <2>3. VerdictInv(joint', completed, acked')
    BY <2>2 DEF VerdictInv
  <2> QED
    BY <2>1, <2>3, AnswerEnds DEF States
<1> QED
  BY <1>1, <1>2

LEMMA ReplyAdvanceInv ==
  ASSUME NEW m, NEW result \in Replies, NEW current, Receipt(m, result, current), ReplyAdvance(m, result)
  PROVE  IInv'
<1> DEFINE s == Follows[m.step]
<1>1. joint' = Issue(Answered(m), s) /\ m.step \in DOMAIN Follows /\ result = "OK"
  BY DEF ReplyAdvance
<1>2. s \in Steps
  BY <1>1 DEF Follows, Steps, Dispatch
<1>3. Ready(m, m.step, completed, acked) /\ acked \subseteq acked' /\ m.step \in acked'
  BY <1>1, AnsweredFacts, ReceiptFacts
<1>4. Before(s) \subseteq Before(m.step) \cup {m.step}
  BY <1>1 DEF Follows, Before, Forward
<1>5. s \in Finalization => m.step \in Finalization
  BY <1>1 DEF Follows, Finalization
<1>6. s \notin Compensation
  BY <1>1 DEF Follows, Compensation
<1> HIDE DEF s
<1>7. Ready(Answered(m), s, completed, acked')
  BY <1>3, <1>4, <1>5, <1>6, AnsweredFacts, ReceiptFacts DEF Ready, Compensation
<1> QED
  BY <1>1, <1>2, <1>7, AnswerIssues

LEMMA ReplyShellVerifyInv ==
  ASSUME NEW m, NEW result \in Replies, NEW current, Receipt(m, result, current), ReplyShellVerify(m, result)
  PROVE  IInv'
<1>1. m.step = "SHELL_VERIFY" /\ m.step \in acked'
  BY ReceiptFacts DEF ReplyShellVerify
<1>2. Forward \subseteq acked'
  BY <1>1, AnsweredFacts, ReceiptFacts DEF Ready, Before, Forward
<1>3. CASE m.requireConfirmation
  <2> DEFINE k == [Answered(m) EXCEPT !.awaitingConfirmation = TRUE]
  <2>1. joint' = k
    BY <1>3 DEF ReplyShellVerify
  <2>2. /\ k \in JointType /\ k.request = m.request /\ k.pending = NoCommand
        /\ k.state = m.state
    BY AnsweredFacts, ReceiptFacts DEF TypeInv, JointType, Answered
  <2>3. k.state \in {"RUNNING", "UNKNOWN"} /\ k.request # NoRequest
    BY <2>2, ReceiptFacts DEF IInv, Inv, PendingInv, IdleInv
  <2> HIDE DEF k
  <2> QED
    BY <1>2, <2>1, <2>2, <2>3, ReceiptFacts
       DEF IInv, Inv, TypeInv, IdleInv, PendingInv, PublishInv, VerdictInv
<1>4. CASE ~m.requireConfirmation
  <2>1. joint' = Issue(Answered(m), "PUBLISH") /\ "PUBLISH" \in Steps
    BY <1>4 DEF ReplyShellVerify, Steps, Dispatch
  <2>2. Ready(Answered(m), "PUBLISH", completed, acked')
    BY <1>2 DEF Ready, Before, Compensation, Finalization
  <2> QED
    BY <2>1, <2>2, AnswerIssues
<1> QED
  BY <1>3, <1>4

LEMMA ReplyResolveInv ==
  ASSUME NEW m, NEW result \in Replies, NEW current, Receipt(m, result, current), ReplyResolve(m, result, current)
  PROVE  IInv'
<1>1. current = completed
  BY DEF Receipt, ReplyResolve
<1>2. CASE current = m.request.candidate /\ m.publishAttempted
  <2>1. joint' = Issue(Answered(m), "NATIVE_FINAL_VERIFY") /\ "NATIVE_FINAL_VERIFY" \in Steps
    BY <1>2 DEF ReplyResolve, Steps, Dispatch
  <2>2. Ready(Answered(m), "NATIVE_FINAL_VERIFY", completed, acked')
    BY <1>1, <1>2, AnsweredFacts, ReceiptFacts DEF Ready, Before, Compensation
  <2> QED
    BY <2>1, <2>2, AnswerIssues
<1>3. CASE /\ ~(current = m.request.candidate /\ m.publishAttempted)
           /\ current = m.request.base
  <2> DEFINE t == m.touched
             f == FALSE
             k == [Answered(m) EXCEPT !.restoreRemaining = t, !.restoreFailed = f]
  <2>1. joint' = RestoreNext(k)
    BY <1>3 DEF ReplyResolve
  <2>2. t \in 0 .. 2 /\ f \in BOOLEAN /\ t = Answered(m).touched
    BY AnsweredFacts, ReceiptFacts DEF IInv, Inv, TypeInv, JointType
  <2>8. /\ Answered(m) \in JointType /\ Answered(m).request = m.request /\ Answered(m).pending = NoCommand
        /\ completed \in Generations /\ acked' \in SUBSET Steps
    BY AnsweredFacts, ReceiptFacts DEF TypeInv
  <2> HIDE DEF f, t
  <2>3. /\ TypeInv(k, completed, acked') /\ k.request = m.request /\ k.pending = NoCommand
        /\ k.touched = t /\ k.restoreRemaining = t
        /\ k.awaitingConfirmation = Answered(m).awaitingConfirmation
        /\ k.publishAttempted = Answered(m).publishAttempted
    BY <2>2, <2>8, Zenon DEF TypeInv, JointType
  <2> HIDE DEF k
  <2>4. PublishInv(k, acked')
    BY <2>3, ReceiptFacts DEF PublishInv
  <2>6. completed = k.request.base /\ k.touched \in 0 .. 2
    BY <1>1, <1>3, <2>2, <2>3
  <2>7. Undoing(k, completed, acked')
    BY <2>3, <2>6 DEF Undoing, Undone
  <2>5. Inv(RestoreNext(k), completed, acked')
    BY <2>3, <2>4, <2>7, AnsweredFacts, ReceiptFacts, RestoreNextInv
  <2> QED
    BY <2>1, <2>5, ReceiptFacts DEF IInv
<1>4. CASE /\ ~(current = m.request.candidate /\ m.publishAttempted)
           /\ current # m.request.base
  <2>1. joint' = [Answered(m) EXCEPT !.state = "UNKNOWN"]
    BY <1>4 DEF ReplyResolve
  <2>2. joint'.state = "UNKNOWN"
    BY <2>1, AnsweredFacts, ReceiptFacts DEF TypeInv, JointType
  <2>3. VerdictInv(joint', completed, acked')
    BY <2>2 DEF VerdictInv
  <2> QED
    BY <2>1, <2>3, AnswerEnds DEF States
<1> QED
  BY <1>2, <1>3, <1>4

LEMMA ReplyFinishInv ==
  ASSUME NEW m, NEW result \in Replies, NEW current, Receipt(m, result, current), ReplyFinish(m, result)
  PROVE  IInv'
<1>1. Ready(m, m.step, completed, acked) /\ acked \subseteq acked' /\ m.step \in acked'
  BY AnsweredFacts, ReceiptFacts DEF ReplyFinish
<1>2. CASE m.step = "SHELL_CONFIRM" /\ joint' = [Answered(m) EXCEPT !.state = "COMPLETE"]
  <2>1. joint'.state = "COMPLETE" /\ joint'.request = m.request
    BY <1>2, AnsweredFacts, ReceiptFacts DEF TypeInv, JointType
  <2>2. VerdictInv(joint', completed, acked')
    BY <1>1, <1>2, <2>1 DEF VerdictInv, Ready, Before, Finalization
  <2> QED
    BY <1>2, <2>2, AnswerEnds DEF States
<1>3. CASE m.step = "ABANDON" /\ joint' = [Answered(m) EXCEPT !.state = "ABORTED"]
  <2>1. joint'.state = "ABORTED" /\ joint'.request = m.request /\ joint'.touched = m.touched
    BY <1>3, AnsweredFacts, ReceiptFacts DEF TypeInv, JointType
  <2>2. VerdictInv(joint', completed, acked')
    BY <1>1, <1>3, <2>1 DEF VerdictInv, Ready, Undone, Compensation
  <2> QED
    BY <1>3, <2>2, AnswerEnds DEF States
<1> QED
  BY <1>2, <1>3 DEF ReplyFinish

LEMMA ReplyUnresolvedInv ==
  ASSUME NEW m, NEW result \in Replies, NEW current, Receipt(m, result, current), ReplyUnresolved(m, result, current)
  PROVE  IInv'
<1>1. joint' = [m EXCEPT !.state = "UNKNOWN"] /\ completed' = completed
  BY ReceiptFacts DEF ReplyUnresolved
<1>2. Inv([m EXCEPT !.state = "UNKNOWN"], completed, acked')
  BY ReceiptFacts, MarkUnknownInv
<1> QED
  BY <1>1, <1>2 DEF IInv

LEMMA ReplyInv ==
  ASSUME IInv, NEW result \in Replies, NEW current, NEW confirm \in BOOLEAN, EnvReply(result, current, confirm)
  PROVE  IInv'
<1> DEFINE m == Asked(confirm)
<1>1. Reply(m, joint.pending, result, current) /\ joint.pending # NoCommand
  BY DEF EnvReply, Reply
<1>2. Receipt(m, result, current)
  BY <1>1, AskedInv DEF EnvReply, Receipt
<1> HIDE DEF m
<1> QED
  BY <1>1, <1>2, ReplyUnresolvedInv, ReplyRestoreInv, ReplyFailedInv, ReplyBaseInv, ReplyAdvanceInv,
     ReplyShellVerifyInv, ReplyResolveInv, ReplyFinishInv DEF Reply

-----------------------------------------------------------------------------
LEMMA NextInv == IInv /\ [Next]_vars => IInv'
<1> SUFFICES ASSUME IInv, [Next]_vars PROVE IInv'
  OBVIOUS
<1>1. ASSUME NEW r \in Requests, EnvStart(r) PROVE IInv'
  BY <1>1, StartInv
<1>2. ASSUME NEW r \in Requests, EnvRecover(r) PROVE IInv'
  BY <1>2, RecoverInv
<1>4. ASSUME NEW r \in Requests, NEW keep \in BOOLEAN, EnvDecide(r, keep) PROVE IInv'
  BY <1>4, DecideInv
<1>5. CASE EnvPublish
  BY <1>5, PublishStepInv
<1>6. ASSUME NEW result \in Replies, NEW current \in Generations \cup {Malformed},
             NEW confirm \in BOOLEAN, EnvReply(result, current, confirm)
      PROVE  IInv'
  BY <1>6, ReplyInv
<1>7. CASE EnvTimeout
  BY <1>7, TimeoutInv
<1>8. ASSUME NEW e \in Epochs, Reinitialize(e) PROVE IInv'
  BY <1>8, ReinitializeInv
<1>9. CASE UNCHANGED vars
  BY <1>9 DEF vars, IInv, Inv, TypeInv, IdleInv, PendingInv, PublishInv, VerdictInv, Ready, Undone
<1> QED
  BY <1>1, <1>2, <1>4, <1>5, <1>6, <1>7, <1>8, <1>9 DEF Next

THEOREM Invariance == Spec => []IInv
<1> QED
  BY InitInv, NextInv, PTL DEF Spec

-----------------------------------------------------------------------------
(* The user.  A confirmation that was demanded and not yet given keeps the  *)
(* machine's own demand standing, and nothing is published meanwhile.       *)
Asks(j, u) ==
  /\ u \in {"unasked", "asked", "agreed"}
  /\ u = "asked" => j.requireConfirmation /\ ~j.publishAttempted

Early == {"BASE", "STORE_PREPARE", "NATIVE_PREPARE"}

UserInv(j, u) ==
  /\ Asks(j, u)
  /\ j.pending # NoCommand /\ j.step \in Early => ~j.publishAttempted

(* A handler that has consumed its receipt asks for the publication only    *)
(* when no agreement is outstanding.                                        *)
LEMMA UserIssue ==
  ASSUME NEW j \in JointType, NEW u, NEW s \in Steps, j.request \in Requests, j.pending = NoCommand,
         Asks(j, u), s = "PUBLISH" => u # "asked", s \in Early => ~j.publishAttempted
  PROVE  UserInv(Issue(j, s), u)
<1> DEFINE k == Issue(j, s)
<1>1. k.requireConfirmation = j.requireConfirmation
  BY IssueFields
<1>2. CASE j.ticket = MaxTicket
  BY <1>1, <1>2, IssueFields DEF UserInv, Asks
<1>3. CASE j.ticket # MaxTicket
  <2>1. k.step = s /\ (k.publishAttempted => j.publishAttempted \/ s = "PUBLISH")
    BY <1>3, IssueFields
  <2> QED
    BY <1>1, <2>1 DEF UserInv, Asks, Early
<1> QED
  BY <1>2, <1>3

LEMMA UserRestoreNext ==
  ASSUME NEW j \in JointType, NEW u, j.request \in Requests, j.pending = NoCommand, Asks(j, u)
  PROVE  UserInv(RestoreNext(j), u)
<1>1. {"SHELL_RESTORE", "NATIVE_RESTORE", "ABANDON"} \subseteq Steps
  BY DEF Steps, Dispatch
<1>2. ASSUME NEW n \in 0 .. 2, NEW s \in {"SHELL_RESTORE", "NATIVE_RESTORE"}
      PROVE  UserInv(Issue([j EXCEPT !.restoreRemaining = n], s), u)
  <2> DEFINE k == [j EXCEPT !.restoreRemaining = n]
  <2>1. /\ k \in JointType /\ k.request = j.request /\ k.pending = NoCommand
        /\ k.requireConfirmation = j.requireConfirmation /\ k.publishAttempted = j.publishAttempted
    BY DEF JointType
  <2> HIDE DEF k
  <2>2. UserInv(Issue(k, s), u)
    BY <1>1, <2>1, UserIssue DEF Asks, Early
  <2> QED
    BY <2>2 DEF k
<1>3. UserInv(Issue(j, "ABANDON"), u)
  BY <1>1, UserIssue DEF Early
<1>4. ASSUME NEW v \in {"UNKNOWN", "ABORTED"}
      PROVE  UserInv([j EXCEPT !.state = v], u)
  BY DEF UserInv, Asks, JointType
<1>5. j.restoreRemaining \in 0 .. 2
  BY DEF JointType
<1> QED
  BY <1>2, <1>3, <1>4, <1>5 DEF RestoreNext

LEMMA UserReply ==
  ASSUME IInv, UserInv(joint, user), NEW result \in Replies, NEW current, NEW confirm \in BOOLEAN,
         EnvReply(result, current, confirm)
  PROVE  UserInv(joint', user')
<1> DEFINE m == Asked(confirm)
<1>0. /\ joint \in JointType /\ joint.pending # NoCommand
      /\ Inv(m, completed, acked) /\ m.step = joint.step /\ m.pending = joint.pending
      /\ Reply(m, joint.pending, result, current)
  BY AskedInv DEF EnvReply, Reply, IInv, Inv, TypeInv
<1>1. UserInv(m, user')
  <2>1. m.publishAttempted = joint.publishAttempted
    BY <1>0 DEF Asked, RequireConfirmation, JointType
  <2>2. CASE confirm /\ joint.step = "NATIVE_PREPARE"
    <3>1. user' = "asked" /\ m.requireConfirmation /\ ~joint.publishAttempted
      BY <1>0, <2>2 DEF EnvReply, Asked, RequireConfirmation, JointType, UserInv, Early
    <3> QED
      BY <1>0, <2>1, <3>1 DEF UserInv, Asks
  <2>3. CASE ~(confirm /\ joint.step = "NATIVE_PREPARE")
    BY <2>3 DEF EnvReply, Asked, RequireConfirmation
  <2> QED
    BY <2>2, <2>3
<1> HIDE DEF m
<1> DEFINE k == Answered(m)
<1>2. /\ k \in JointType /\ k.request \in Requests /\ k.pending = NoCommand
      /\ k.step = m.step /\ m.step \in Steps /\ k.publishAttempted = m.publishAttempted
      /\ m \in JointType
  BY <1>0, AnsweredFacts DEF TypeInv, Inv
<1>3. k.requireConfirmation = m.requireConfirmation
  BY <1>2 DEF Answered, JointType
<1>4. Asks(k, user') /\ (m.step \in Early => ~k.publishAttempted)
  BY <1>0, <1>1, <1>2, <1>3 DEF UserInv, Asks
<1>5. ASSUME NEW s \in Steps, joint' = Issue(k, s), s = "PUBLISH" => user' # "asked",
             s \in Early => m.step \in Early
      PROVE  UserInv(joint', user')
  BY <1>2, <1>4, <1>5, UserIssue
<1>6. ASSUME NEW v, joint' = [k EXCEPT !.state = v] PROVE UserInv(joint', user')
  BY <1>2, <1>4, <1>6 DEF UserInv, Asks, JointType
<1> HIDE DEF k
<1>7. CASE ReplyUnresolved(m, result, current)
  BY <1>1, <1>2, <1>7 DEF ReplyUnresolved, UserInv, Asks, JointType
<1>8. CASE ReplyRestore(m, result)
  <2> DEFINE f == k.restoreFailed \/ result = "FAILED"
             n == [k EXCEPT !.restoreFailed = f]
  <2>1. joint' = RestoreNext(n)
    BY <1>8 DEF ReplyRestore, k
  <2>2. f \in BOOLEAN
    OBVIOUS
  <2> HIDE DEF f
  <2>3. /\ n \in JointType /\ n.request = k.request /\ n.pending = NoCommand
        /\ n.requireConfirmation = k.requireConfirmation /\ n.publishAttempted = k.publishAttempted
    BY <1>2, <2>2 DEF JointType
  <2> HIDE DEF n
  <2> QED
    BY <1>2, <1>4, <2>1, <2>3, UserRestoreNext DEF Asks
<1>9. CASE ReplyFailed(m, result)
  BY <1>5, <1>6, <1>9 DEF ReplyFailed, Steps, Dispatch, Early, k
<1>10. CASE ReplyBase(m, result, current)
  BY <1>5, <1>6, <1>10 DEF ReplyBase, Steps, Dispatch, Early, k
<1>11. CASE ReplyAdvance(m, result)
  <2> DEFINE s == Follows[m.step]
  <2>1. joint' = Issue(k, s) /\ m.step \in DOMAIN Follows
    BY <1>11 DEF ReplyAdvance, k
  <2>2. s \in Steps /\ s # "PUBLISH" /\ (s \in Early => m.step \in Early)
    BY <2>1 DEF Follows, Steps, Dispatch, Early
  <2> HIDE DEF s
  <2> QED
    BY <1>5, <2>1, <2>2
<1>12. CASE ReplyShellVerify(m, result)
  <2>1. CASE m.requireConfirmation
    <3>1. joint' = [k EXCEPT !.awaitingConfirmation = TRUE]
      BY <1>12, <2>1 DEF ReplyShellVerify, k
    <3> QED
      BY <1>2, <1>4, <3>1 DEF UserInv, Asks, JointType
  <2>2. CASE ~m.requireConfirmation
    <3>1. joint' = Issue(k, "PUBLISH") /\ user' # "asked"
      BY <1>1, <1>12, <2>2 DEF ReplyShellVerify, UserInv, Asks, k
    <3> QED
      BY <1>5, <3>1 DEF Steps, Dispatch, Early
  <2> QED
    BY <2>1, <2>2
<1>13. CASE ReplyResolve(m, result, current)
  <2>1. CASE joint' = Issue(k, "NATIVE_FINAL_VERIFY")
    BY <1>5, <2>1 DEF Steps, Dispatch, Early
  <2>2. CASE joint' = RestoreNext([k EXCEPT !.restoreRemaining = m.touched, !.restoreFailed = FALSE])
    <3> DEFINE t == m.touched
               f == FALSE
               n == [k EXCEPT !.restoreRemaining = t, !.restoreFailed = f]
    <3>1. t \in 0 .. 2 /\ f \in BOOLEAN
      BY <1>2 DEF JointType
    <3> HIDE DEF t, f
    <3>2. /\ n \in JointType /\ n.request = k.request /\ n.pending = NoCommand
          /\ n.requireConfirmation = k.requireConfirmation /\ n.publishAttempted = k.publishAttempted
      BY <1>2, <3>1, Zenon DEF JointType
    <3> HIDE DEF n
    <3>3. UserInv(RestoreNext(n), user')
      BY <1>2, <1>4, <3>2, UserRestoreNext DEF Asks
    <3> QED
      BY <2>2, <3>3 DEF n, t, f
  <2>3. CASE joint' = [k EXCEPT !.state = "UNKNOWN"]
    BY <1>6, <2>3
  <2> QED
    BY <1>13, <2>1, <2>2, <2>3 DEF ReplyResolve, k
<1>14. CASE ReplyFinish(m, result)
  BY <1>6, <1>14 DEF ReplyFinish, k
<1> QED
  BY <1>0, <1>7, <1>8, <1>9, <1>10, <1>11, <1>12, <1>13, <1>14 DEF Reply

\* UserInv of the machine as it stands, for the temporal steps.
Agreed == UserInv(joint, user)

LEMMA UserNext == IInv /\ Agreed /\ [Next]_vars => Agreed'
<1> USE DEF Agreed
<1> SUFFICES ASSUME IInv, Agreed, [Next]_vars PROVE Agreed'
  OBVIOUS
<1>0. joint \in JointType
  BY DEF IInv, Inv, TypeInv
<1>1. ASSUME NEW r \in Requests, EnvStart(r) PROVE Agreed'
  <2> DEFINE k == [joint EXCEPT !.request = r,
                                !.requireConfirmation = FALSE, !.awaitingConfirmation = FALSE,
                                !.touched = 0, !.restoreRemaining = 0, !.prepared = FALSE,
                                !.publishAttempted = FALSE, !.restoreFailed = FALSE]
  <2>1. joint' = Issue(k, "BASE") /\ user' = "unasked"
    BY <1>1 DEF EnvStart, Start
  <2>2. joint.pending = NoCommand
    BY <1>1 DEF EnvStart, Start, Accepts, IInv, Inv, PendingInv
  <2>3. k.request = r /\ k.pending = NoCommand /\ ~k.publishAttempted
    BY <1>0, <2>2 DEF JointType
  <2>4. k \in JointType
    <3> DEFINE f == FALSE
               z == 0
    <3>1. f \in BOOLEAN /\ z \in 0 .. 2 /\ r \in Requests \cup {NoRequest}
      OBVIOUS
    <3>2. k = [joint EXCEPT !.request = r, !.requireConfirmation = f, !.awaitingConfirmation = f,
                            !.touched = z, !.restoreRemaining = z, !.prepared = f,
                            !.publishAttempted = f, !.restoreFailed = f]
      OBVIOUS
    <3> HIDE DEF k, f, z
    <3> QED
      BY <1>0, <3>1, <3>2 DEF JointType
  <2> HIDE DEF k
  <2> QED
    BY <2>1, <2>3, <2>4, UserIssue DEF Asks, Steps, Dispatch
<1>2. ASSUME NEW r \in Requests, EnvRecover(r) PROVE Agreed'
  <2>1. joint' = Issue(joint, "RESOLVE") /\ user' = user /\ joint.request = r /\ joint.pending = NoCommand
    BY <1>2 DEF EnvRecover, Recover
  <2> QED
    BY <1>0, <2>1, UserIssue DEF UserInv, Early, Steps, Dispatch
<1>3. ASSUME NEW r \in Requests, NEW keep \in BOOLEAN, EnvDecide(r, keep) PROVE Agreed'
  <2> DEFINE k == [joint EXCEPT !.awaitingConfirmation = FALSE]
             s == IF keep THEN "PUBLISH" ELSE "RESOLVE"
  <2>1. /\ joint' = Issue(k, s) /\ user' = IF keep THEN "agreed" ELSE user
        /\ joint.request = r /\ joint.pending = NoCommand
    BY <1>3 DEF EnvDecide, Decide, Decided
  <2>2. /\ k \in JointType /\ k.request = r /\ k.pending = NoCommand
        /\ k.requireConfirmation = joint.requireConfirmation /\ k.publishAttempted = joint.publishAttempted
    BY <1>0, <2>1 DEF JointType
  <2>3. s \in Steps /\ s \notin Early /\ (s = "PUBLISH" => keep)
    BY DEF Steps, Dispatch, Early
  <2> HIDE DEF k, s
  <2>4. Asks(k, user') /\ (s = "PUBLISH" => user' # "asked")
    BY <2>1, <2>2, <2>3 DEF UserInv, Asks
  <2> QED
    BY <2>1, <2>2, <2>3, <2>4, UserIssue
<1>4. CASE EnvPublish
  BY <1>4 DEF EnvPublish
<1>5. ASSUME NEW result \in Replies, NEW current \in Generations \cup {Malformed},
             NEW confirm \in BOOLEAN, EnvReply(result, current, confirm)
      PROVE  Agreed'
  BY <1>5, UserReply
<1>6. CASE EnvTimeout
  BY <1>0, <1>6 DEF EnvTimeout, Timeout, TimedOut, UserInv, Asks, JointType
<1>7. ASSUME NEW e \in Epochs, Reinitialize(e) PROVE Agreed'
  BY <1>7 DEF Reinitialize, Fresh, UserInv, Asks
<1>8. CASE UNCHANGED vars
  BY <1>8 DEF vars
<1> QED
  BY <1>1, <1>2, <1>3, <1>4, <1>5, <1>6, <1>7, <1>8 DEF Next

THEOREM UserInvariance == Spec => []Agreed
<1>1. Init => Agreed
  BY DEF Init, Fresh, Agreed, UserInv, Asks
<1> QED
  BY <1>1, UserNext, Invariance, PTL DEF Spec

(* Every reachable state is well formed: a command, a step, a ticket and a  *)
(* count of what is left to restore that the code can represent.            *)
THEOREM TypeCorrect == Spec => []TypeOK
<1>1. IInv /\ Agreed => TypeOK
  BY DEF IInv, Inv, TypeInv, TypeOK, Agreed, UserInv, Asks
<1> QED
  BY <1>1, Invariance, UserInvariance, PTL

(* Publication only after both participants were verified and, where the    *)
(* user was asked, after the user agreed, whatever failed.                  *)
THEOREM PublishesOnlyVerified == Spec => []PublishAfterBothVerified
<1>1. IInv /\ Agreed => PublishAfterBothVerified
  BY DEF IInv, Inv, PublishInv, PublishAfterBothVerified, Agreed, UserInv, Asks
<1> QED
  BY <1>1, Invariance, UserInvariance, PTL

(* A published candidate is never undone, thrown away or reported aborted.  *)
THEOREM NeverCompensatesPublished == Spec => []NoCompensationAfterPublish
<1>1. IInv => NoCompensationAfterPublish
  <2> SUFFICES ASSUME IInv, Pending({"RESTORE", "ABANDON"}) \/ joint.state = "ABORTED"
               PROVE  completed = joint.request.base
    BY DEF NoCompensationAfterPublish
  <2>1. CASE joint.state = "ABORTED"
    BY <2>1 DEF IInv, Inv, VerdictInv
  <2>2. CASE Pending({"RESTORE", "ABANDON"})
    <3>1. joint.step \in Steps /\ Dispatch[joint.step].operation \in {"RESTORE", "ABANDON"}
      BY <2>2 DEF Pending, IInv, Inv, PendingInv, TypeInv, JointType
    <3>2. joint.step \in Compensation
      BY <3>1 DEF Steps, Dispatch, Compensation
    <3> QED
      BY <2>2, <3>2 DEF Pending, IInv, Inv, PendingInv, Ready
  <2> QED
    BY <2>1, <2>2
<1> QED
  BY <1>1, Invariance, PTL

(* Nothing becomes a participant's base before it is what the next boot     *)
(* will load.                                                               *)
THEOREM ConfirmsOnlyPublished == Spec => []ConfirmOnlyPublished
<1>1. IInv => ConfirmOnlyPublished
  <2> SUFFICES ASSUME IInv, Pending({"CONFIRM"}) \/ joint.state = "COMPLETE"
               PROVE  completed = joint.request.candidate
    BY DEF ConfirmOnlyPublished
  <2>1. CASE joint.state = "COMPLETE"
    BY <2>1 DEF IInv, Inv, VerdictInv
  <2>2. CASE Pending({"CONFIRM"})
    <3>1. joint.step \in Steps /\ Dispatch[joint.step].operation = "CONFIRM"
      BY <2>2 DEF Pending, IInv, Inv, PendingInv, TypeInv, JointType
    <3>2. joint.step \in Finalization
      BY <3>1 DEF Steps, Dispatch, Finalization
    <3> QED
      BY <2>2, <3>2 DEF Pending, IInv, Inv, PendingInv, Ready
  <2> QED
    BY <2>1, <2>2
<1> QED
  BY <1>1, Invariance, PTL

(* Every verdict rests on the acknowledgements it claims.                   *)
THEOREM VerdictsAcknowledged == Spec => []VerdictIsAcknowledged
<1>1. IInv => VerdictIsAcknowledged
  BY DEF IInv, Inv, VerdictInv, Undone, VerdictIsAcknowledged
<1> QED
  BY <1>1, Invariance, PTL

(* No late receipt, timeout or recovery request reopens a transaction.      *)
THEOREM VerdictsFinal == Spec => VerdictIsFinal
<1> DEFINE A == joint.state \in Verdicts /\ joint'.request = joint.request /\ ~joint.awaitingConfirmation
                  => joint' = joint
<1>1. IInv /\ [Next]_vars => A
  <2> SUFFICES ASSUME IInv, [Next]_vars, joint.state \in Verdicts,
                      joint'.request = joint.request, ~joint.awaitingConfirmation
               PROVE  joint' = joint
    OBVIOUS
  <2>1. joint.pending = NoCommand /\ joint.request \in Requests /\ joint \in JointType
    BY DEF Verdicts, IInv, Inv, TypeInv, IdleInv, PendingInv, JointType
  <2>2. ASSUME NEW r \in Requests, EnvStart(r) PROVE FALSE
    <3> DEFINE k == [joint EXCEPT !.request = r,
                                  !.requireConfirmation = FALSE, !.awaitingConfirmation = FALSE,
                                  !.touched = 0, !.restoreRemaining = 0, !.prepared = FALSE,
                                  !.publishAttempted = FALSE, !.restoreFailed = FALSE]
    <3>1. r.sequence > joint.request.sequence /\ r # joint.request
      BY <2>1, <2>2, SequenceAssumption, EmptyAssumption DEF EnvStart, Start, Accepts, Requests
    <3>2. joint' = Issue(k, "BASE")
      BY <2>2 DEF EnvStart, Start
    <3>3. k.request = r
      BY <2>1 DEF JointType
    <3>4. Issue(k, "BASE").request = k.request
      <4> HIDE DEF k
      <4> QED
        BY <3>2, <3>3 DEF Issue
    <3> QED
      BY <3>1, <3>2, <3>3, <3>4
  <2>3. ASSUME NEW e \in Epochs, Reinitialize(e) PROVE FALSE
    BY <2>1, <2>3, EmptyAssumption DEF Reinitialize, Fresh
  <2>4. ASSUME NEW r \in Requests, EnvRecover(r) PROVE FALSE
    BY <2>4 DEF EnvRecover, Recover, Verdicts
  <2>6. ASSUME NEW r \in Requests, NEW keep \in BOOLEAN, EnvDecide(r, keep) PROVE FALSE
    BY <2>6 DEF EnvDecide, Decide
  <2>7. ASSUME NEW result, NEW current, NEW confirm, EnvReply(result, current, confirm) PROVE FALSE
    BY <2>1, <2>7 DEF EnvReply, Reply
  <2>8. ~EnvTimeout
    BY <2>1 DEF EnvTimeout, Timeout
  <2>9. EnvPublish => joint' = joint
    BY DEF EnvPublish
  <2> QED
    BY <2>2, <2>3, <2>4, <2>6, <2>7, <2>8, <2>9 DEF Next, vars
<1>2. IInv /\ [Next]_vars => [A]_vars
  BY <1>1
<1> QED
  BY <1>2, Invariance, PTL DEF Spec, VerdictIsFinal

-----------------------------------------------------------------------------
(* CSettingsParticipant settles every request at most once, on the revision *)
(* it was prepared for, whatever the order of the calls.                    *)

(* The inductive invariant: what the runs check, and that the participant   *)
(* is idle exactly before its first request.                                *)
CallsInv ==
  /\ CallsTypeOK
  /\ native.phase = "IDLE" <=> native.request = NoRequest
  /\ Open => native.request.baseRevision = native.revision
  /\ QuiescentHoldsBase

(* The participant starts idle, with its slots on the boot generation.      *)
LEMMA CallsInitEstablishes == CallsInit => CallsInv
<1> SUFFICES ASSUME CallsInit PROVE CallsInv
  OBVIOUS
<1>1. PICK e \in Epochs, g \in Generations : native = FreshParticipant(e, g)
  BY DEF CallsInit
<1>2. native \in ParticipantType
  BY <1>1 DEF FreshParticipant, ParticipantType, Phases
<1>3. /\ native.phase = "IDLE" /\ native.request = NoRequest
      /\ native.live = native.generation
  BY <1>1 DEF FreshParticipant
<1>4. QED
  BY <1>2, <1>3 DEF CallsInit, CallsInv, CallsTypeOK, Open, Quiescent, QuiescentHoldsBase

(* A possible request is a request.                                         *)
LEMMA PossibleAreRequests ==
  ASSUME native \in ParticipantType
  PROVE  PossibleRequests \subseteq ParticipantRequests
  BY DEF PossibleRequests, ParticipantRequests, ParticipantType

(* A call that leaves the participant alone preserves everything.           *)
LEMMA UnchangedPreserves ==
  ASSUME CallsInv, UNCHANGED native, Called
  PROVE  CallsInv'
  BY DEF CallsInv, CallsTypeOK, Called, Settles, Open, QuiescentHoldsBase

(* prepare(): a request is recorded only on the current revision.           *)
LEMMA PreparePreserves ==
  ASSUME CallsInv, NEW q \in PossibleRequests, CallPrepare(q)
  PROVE  CallsInv'
<1>1. PICK result \in Results, reads \in BOOLEAN : Prepare(q, result, reads) /\ Called
  BY DEF CallPrepare
<1>2. q \in ParticipantRequests
  BY PossibleAreRequests DEF CallsInv, CallsTypeOK
<1>3. CASE UNCHANGED native
  BY <1>1, <1>3, UnchangedPreserves
<1>4. CASE /\ native.phase \in Quiescent
           /\ q.baseRevision = native.revision
           /\ native' = [native EXCEPT !.request = q, !.phase = IF ReadMatches(native.generation, reads)
                                                                THEN "PREPARED" ELSE "UNKNOWN"]
  <2>1. CallsTypeOK'
    BY <1>1, <1>2, <1>4 DEF CallsInv, CallsTypeOK, ParticipantType, Phases, Called, Settles, Open
  <2>2. native'.request = q /\ native'.phase \in {"PREPARED", "UNKNOWN"} /\ native'.revision = native.revision
    BY <1>4 DEF CallsInv, CallsTypeOK, ParticipantType
  <2>3. QED
    BY <1>2, <1>4, <2>1, <2>2, RequestAssumption DEF CallsInv, Open, Quiescent, QuiescentHoldsBase
<1>5. QED
  BY <1>1, <1>3, <1>4 DEF Prepare, PrepareOutOfDate, PrepareRepeated, PrepareNew

(* apply(): the request stays open, whatever was written.                   *)
LEMMA ApplyPreserves ==
  ASSUME CallsInv, NEW e \in Epochs, NEW n \in Sequences, CallApply(e, n)
  PROVE  CallsInv'
<1>1. PICK result \in Results, reads \in BOOLEAN : Apply(e, n, result, reads) /\ Called
  BY DEF CallApply
<1>2. CASE UNCHANGED native
  BY <1>1, <1>2, UnchangedPreserves
<1>3. CASE /\ Matches(e, n)
           /\ native.phase = "PREPARED"
           /\ \E phase \in {"APPLIED", "UNKNOWN"}, live \in Generations \cup {Foreign} :
                native' = [native EXCEPT !.phase = phase, !.live = live]
  BY <1>1, <1>3
  DEF CallsInv, CallsTypeOK, ParticipantType, Phases, Quiescent, Open, Called, Settles, QuiescentHoldsBase, Matches
<1>4. WrittenBy(native.request.generation) \subseteq Generations \cup {Foreign} \/ ~Matches(e, n)
  BY DEF WrittenBy, Matches, CallsInv, CallsTypeOK, ParticipantType, ParticipantRequests
<1>5. native.request.generation \in Generations \/ ~Matches(e, n)
  BY DEF Matches, CallsInv, CallsTypeOK, ParticipantType, ParticipantRequests
<1>6. QED
  BY <1>1, <1>2, <1>3, <1>4, <1>5 DEF Apply

(* restore(): the slots are back on the base when the request is settled.   *)
LEMMA RestorePreserves ==
  ASSUME CallsInv, NEW e \in Epochs, NEW n \in Sequences, CallRestore(e, n)
  PROVE  CallsInv'
<1>1. PICK result \in Results, reads \in BOOLEAN : Restore(e, n, result, reads) /\ Called
  BY DEF CallRestore
<1>2. CASE UNCHANGED native
  BY <1>1, <1>2, UnchangedPreserves
<1>3. CASE /\ Matches(e, n)
           /\ native.phase \notin {"RESTORED", "CONFIRMED"}
           /\ native' = [native EXCEPT !.phase = "RESTORED", !.live = native.generation, !.revision = @ + 1]
  <2> DEFINE revision == native.revision + 1
  <2>0. revision \in Nat /\ native' = [native EXCEPT !.phase = "RESTORED", !.live = native.generation,
                                                     !.revision = revision]
    BY <1>3 DEF CallsInv, CallsTypeOK, ParticipantType
  <2> HIDE DEF revision
  <2>1. /\ native' \in ParticipantType
        /\ native'.phase = "RESTORED" /\ native'.request # NoRequest
        /\ native'.live = native'.generation
    BY <1>3, <2>0 DEF CallsInv, CallsTypeOK, ParticipantType, Phases, Matches
  <2>2. touched' = FALSE /\ drifted' \in BOOLEAN
    BY <1>1 DEF CallsInv, CallsTypeOK, Called
  <2>3. QED
    BY <2>1, <2>2 DEF CallsInv, CallsTypeOK, Quiescent, Open, QuiescentHoldsBase
<1>4. CASE /\ Matches(e, n)
           /\ native.phase \notin {"RESTORED", "CONFIRMED"}
           /\ \E written \in WrittenBy(native.generation) :
                native' = [native EXCEPT !.phase = "UNKNOWN", !.live = written]
  BY <1>1, <1>4
  DEF CallsInv, CallsTypeOK, ParticipantType, Phases, Quiescent, Open, Called, Settles, QuiescentHoldsBase, Matches,
      WrittenBy
<1>5. QED
  BY <1>1, <1>2, <1>3, <1>4 DEF Restore

(* confirm(): the slots were read back as the generation that becomes base. *)
LEMMA ConfirmPreserves ==
  ASSUME CallsInv, NEW e \in Epochs, NEW n \in Sequences, CallConfirm(e, n)
  PROVE  CallsInv'
<1>1. PICK result \in Results, reads \in BOOLEAN : Confirm(e, n, result, reads) /\ Called
  BY DEF CallConfirm
<1>2. CASE UNCHANGED native
  BY <1>1, <1>2, UnchangedPreserves
<1>3. CASE /\ Matches(e, n)
           /\ native.phase = "APPLIED"
           /\ ReadMatches(native.request.generation, reads)
           /\ native' = [native EXCEPT !.generation = native.request.generation, !.revision = @ + 1,
                                       !.phase = "CONFIRMED"]
  <2>1. native.request \in ParticipantRequests
    BY <1>3 DEF CallsInv, CallsTypeOK, ParticipantType, Matches
  <2> DEFINE revision == native.revision + 1
             generation == native.request.generation
  <2>0. /\ revision \in Nat /\ generation \in Generations
        /\ native' = [native EXCEPT !.generation = generation, !.revision = revision, !.phase = "CONFIRMED"]
        /\ native.live = generation
    BY <1>3, <2>1 DEF CallsInv, CallsTypeOK, ParticipantType, ParticipantRequests, ReadMatches
  <2> HIDE DEF revision, generation
  <2>2. /\ native' \in ParticipantType
        /\ native'.phase = "CONFIRMED" /\ native'.request # NoRequest
        /\ native'.live = native'.generation
    BY <1>3, <2>0, <2>1
    DEF CallsInv, CallsTypeOK, ParticipantType, ParticipantRequests, Phases, Matches
  <2>3. touched' = FALSE /\ drifted' \in BOOLEAN
    BY <1>1 DEF CallsInv, CallsTypeOK, Called
  <2>4. QED
    BY <2>2, <2>3 DEF CallsInv, CallsTypeOK, Quiescent, Open, QuiescentHoldsBase
<1>4. QED
  BY <1>1, <1>2, <1>3 DEF Confirm

(* Every step of the participant or of its slots preserves the invariant.   *)
LEMMA CallsNextPreserves == CallsInv /\ [CallsNext]_callsVars => CallsInv'
<1> SUFFICES ASSUME CallsInv, [CallsNext]_callsVars PROVE CallsInv'
  OBVIOUS
<1>1. ASSUME NEW q \in PossibleRequests, CallPrepare(q) PROVE CallsInv'
  BY <1>1, PreparePreserves
<1>2. ASSUME NEW e \in Epochs, NEW n \in Sequences, CallApply(e, n) PROVE CallsInv'
  BY <1>2, ApplyPreserves
<1>3. ASSUME NEW e \in Epochs, NEW n \in Sequences, CallVerify(e, n) PROVE CallsInv'
  BY <1>3, UnchangedPreserves DEF CallVerify, Verify
<1>4. ASSUME NEW e \in Epochs, NEW n \in Sequences, CallRestore(e, n) PROVE CallsInv'
  BY <1>4, RestorePreserves
<1>5. ASSUME NEW e \in Epochs, NEW n \in Sequences, CallConfirm(e, n) PROVE CallsInv'
  BY <1>5, ConfirmPreserves
<1>6. CASE SlotWritten
  BY <1>6 DEF SlotWritten, Drift, CallsInv, CallsTypeOK, ParticipantType, Open, Quiescent, QuiescentHoldsBase
<1>7. CASE UNCHANGED callsVars
  BY <1>7 DEF callsVars, CallsInv, CallsTypeOK, Open, QuiescentHoldsBase
<1>8. QED
  BY <1>1, <1>2, <1>3, <1>4, <1>5, <1>6, <1>7 DEF CallsNext

(* The participant never leaves the states the invariant describes.         *)
THEOREM CallsInvariance == CallsSpec => []CallsInv
  BY CallsInitEstablishes, CallsNextPreserves, PTL DEF CallsSpec

(* The fields of CSettingsParticipant keep their ranges.                    *)
THEOREM CallsTypeCorrect == CallsSpec => []CallsTypeOK
<1>1. CallsInv => CallsTypeOK
  BY DEF CallsInv
<1>2. QED
  BY <1>1, CallsInvariance, PTL

(* An open request rests on the current revision: no outcome of another     *)
(* request slips between its prepare and its own outcome.                   *)
THEOREM BaseNeverStale == CallsSpec => []NoStaleBase
<1>1. CallsInv => NoStaleBase
  BY DEF CallsInv, NoStaleBase, Open, Quiescent
<1>2. QED
  BY <1>1, CallsInvariance, PTL

(* Between requests the slots hold the confirmed generation, unless they    *)
(* were written from outside.                                               *)
THEOREM SlotsHoldTheBase == CallsSpec => []QuiescentHoldsBase
<1>1. CallsInv => QuiescentHoldsBase
  BY DEF CallsInv
<1>2. QED
  BY <1>1, CallsInvariance, PTL

(* No call but a successful restore ends an unknown outcome.                *)
THEOREM UnknownIsUndone == CallsSpec => UnknownOnlyUndone
<1> DEFINE OnlyUndone == native.phase = "UNKNOWN" => native'.phase \in {"UNKNOWN", "RESTORED"}
<1>1. ASSUME CallsInv, CallsNext, native.phase = "UNKNOWN" PROVE native'.phase \in {"UNKNOWN", "RESTORED"}
  <2>0. native \in ParticipantType
    BY <1>1 DEF CallsInv, CallsTypeOK
  <2>1. ASSUME NEW q \in PossibleRequests, CallPrepare(q) PROVE native'.phase = "UNKNOWN"
    BY <1>1, <2>1 DEF CallPrepare, Prepare, PrepareOutOfDate, PrepareRepeated, PrepareNew, Quiescent
  <2>2. ASSUME NEW e \in Epochs, NEW n \in Sequences, CallApply(e, n) PROVE native'.phase = "UNKNOWN"
    BY <1>1, <2>2 DEF CallApply, Apply
  <2>3. ASSUME NEW e \in Epochs, NEW n \in Sequences, CallVerify(e, n) PROVE native'.phase = "UNKNOWN"
    BY <1>1, <2>3 DEF CallVerify, Verify
  <2>4. ASSUME NEW e \in Epochs, NEW n \in Sequences, CallRestore(e, n)
        PROVE  native'.phase \in {"UNKNOWN", "RESTORED"}
    BY <1>1, <2>0, <2>4 DEF CallRestore, Restore, ParticipantType
  <2>5. ASSUME NEW e \in Epochs, NEW n \in Sequences, CallConfirm(e, n) PROVE native'.phase = "UNKNOWN"
    BY <1>1, <2>5 DEF CallConfirm, Confirm
  <2>6. CASE SlotWritten
    BY <1>1, <2>0, <2>6 DEF SlotWritten, Drift, ParticipantType
  <2>7. QED
    BY <1>1, <2>1, <2>2, <2>3, <2>4, <2>5, <2>6 DEF CallsNext
<1>2. CallsInv /\ [CallsNext]_callsVars => [OnlyUndone]_callsVars
  BY <1>1
<1>3. QED
  BY <1>2, CallsInvariance, PTL DEF CallsSpec, UnknownOnlyUndone

-----------------------------------------------------------------------------
(* A step that changes neither the outcome nor the request is a stutter of  *)
(* the abstract participant.                                                *)
LEMMA StepImplements ==
  ASSUME CallsInv, CallsNext
  PROVE  [Abstract!Next]_(Abstract!vars)
<1> USE DEF Abstract!vars, Open
<1>0. native \in ParticipantType
  BY DEF CallsInv, CallsTypeOK
<1>1. CASE UNCHANGED native
  BY <1>1
<1>2. ASSUME NEW q \in PossibleRequests, CallPrepare(q) PROVE [Abstract!Next]_(Abstract!vars)
  <2>1. SUFFICES ASSUME native' # native PROVE Abstract!Open(q.sequence)
    BY <1>1, PossibleAreRequests, <1>0 DEF Abstract!Next, ParticipantRequests
  <2>2. q \in ParticipantRequests
    BY PossibleAreRequests, <1>0
  <2>3. /\ native.phase \in Quiescent
        /\ q.sequence # 0
        /\ native.request # NoRequest => q.sequence > native.request.sequence
        /\ \E phase \in {"PREPARED", "UNKNOWN"} : native' = [native EXCEPT !.request = q, !.phase = phase]
    BY <1>2, <2>1 DEF CallPrepare, Prepare, PrepareOutOfDate, PrepareRepeated, PrepareNew
  <2>4. /\ native'.request = q /\ native'.phase \in {"PREPARED", "UNKNOWN"}
        /\ native'.generation = native.generation /\ native'.revision = native.revision
    BY <2>3, <1>0 DEF ParticipantType
  <2>5. QED
    BY <2>2, <2>3, <2>4, RequestAssumption DEF Abstract!Open, Quiescent, ParticipantRequests
<1>3. ASSUME NEW e \in Epochs, NEW n \in Sequences, CallApply(e, n) PROVE [Abstract!Next]_(Abstract!vars)
  <2>1. SUFFICES ASSUME native' # native PROVE UNCHANGED Abstract!vars
    BY <1>1
  <2>2. /\ native.phase = "PREPARED"
        /\ \E phase \in {"APPLIED", "UNKNOWN"} : \E live :
             native' = [native EXCEPT !.phase = phase, !.live = live]
    BY <1>3, <2>1 DEF CallApply, Apply
  <2>3. QED
    BY <2>2, <1>0 DEF ParticipantType, Quiescent
<1>4. ASSUME NEW e \in Epochs, NEW n \in Sequences, CallVerify(e, n) PROVE [Abstract!Next]_(Abstract!vars)
  BY <1>1, <1>4 DEF CallVerify, Verify
<1>5. ASSUME NEW e \in Epochs, NEW n \in Sequences, CallRestore(e, n) PROVE [Abstract!Next]_(Abstract!vars)
  <2>1. SUFFICES ASSUME native' # native PROVE UNCHANGED Abstract!vars \/ Abstract!Undo
    BY <1>1 DEF Abstract!Next
  <2>2. native.phase \notin Quiescent
    BY <1>5, <2>1 DEF CallRestore, Restore, Matches, CallsInv, Quiescent
  <2>3. CASE native' = [native EXCEPT !.phase = "RESTORED", !.live = native.generation, !.revision = @ + 1]
    BY <2>2, <2>3, <1>0 DEF ParticipantType, Quiescent, Abstract!Undo, Abstract!Settle
  <2>4. CASE \E written : native' = [native EXCEPT !.phase = "UNKNOWN", !.live = written]
    BY <2>2, <2>4, <1>0 DEF ParticipantType, Quiescent
  <2>5. QED
    BY <1>5, <2>1, <2>3, <2>4 DEF CallRestore, Restore
<1>6. ASSUME NEW e \in Epochs, NEW n \in Sequences, CallConfirm(e, n) PROVE [Abstract!Next]_(Abstract!vars)
  <2>1. SUFFICES ASSUME native' # native PROVE Abstract!Keep
    BY <1>1 DEF Abstract!Next
  <2>2. /\ Matches(e, n)
        /\ native.phase = "APPLIED"
        /\ native' = [native EXCEPT !.generation = native.request.generation, !.revision = @ + 1,
                                    !.phase = "CONFIRMED"]
    BY <1>6, <2>1 DEF CallConfirm, Confirm
  <2>3. native.request.generation \in Generations
    BY <2>2, <1>0 DEF Matches, ParticipantType, ParticipantRequests
  <2>4. QED
    BY <2>2, <2>3, <1>0 DEF ParticipantType, Quiescent, Abstract!Keep, Abstract!Settle
<1>7. CASE SlotWritten
  BY <1>7, <1>0 DEF SlotWritten, Drift, ParticipantType
<1>8. QED
  BY <1>2, <1>3, <1>4, <1>5, <1>6, <1>7 DEF CallsNext

(* The participant implements SettledOnce: whatever the order, repetition   *)
(* or loss of the calls, requests are settled one at a time and once each.  *)
THEOREM Implementation == CallsSpec => SettlesOnce
<1>1. CallsInit => Abstract!Init
  <2> SUFFICES ASSUME CallsInit PROVE Abstract!Init
    OBVIOUS
  <2>1. PICK e \in Epochs, g \in Generations : native = FreshParticipant(e, g)
    BY DEF CallsInit
  <2>2. QED
    BY <2>1 DEF FreshParticipant, Abstract!Init, Open, Quiescent
<1>2. CallsInv /\ [CallsNext]_callsVars => [Abstract!Next]_(Abstract!vars)
  BY StepImplements DEF callsVars, Abstract!vars, Open
<1>3. QED
  BY <1>1, <1>2, CallsInvariance, PTL DEF CallsSpec, SettlesOnce, Abstract!Spec
=============================================================================
