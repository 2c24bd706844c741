---------------------------- MODULE ShellSession ----------------------------
(***************************************************************************)
(* The Shell's half of a settings transaction: SettingsServiceHost with    *)
(* its checkpoint worker, its participant and its lease, composed with the *)
(* coordinator of AsyncJointSettings.  A Shell serves its clients, talks   *)
(* to the compositor in calls whose request or answer may get lost, writes *)
(* through a worker thread, changes its own settings in callbacks of the   *)
(* GTK thread, and starts a new session whenever anything goes wrong.      *)
(* A Shell may close, be killed and be started again while another runs.   *)
(* Of the compositor there is what a Shell sees: the coordinator, answers  *)
(* of the native participant, and the recovery an attach begins.           *)
(***************************************************************************)
EXTENDS AsyncJointSettings, FiniteSets

CONSTANTS
  Shells,       \* processes
  Asks,         \* ids of the requests of clients
  Edit,         \* the generation each of them makes of another
  Nobody,       \* nothing, nobody
  Native,       \* the compositor as the owner of the Shell's lease
  MaxFaults,    \* bound on what goes wrong
  MaxLaunches   \* bound on the Shells that are started

Answers == {"ok", "rolled_back", "conflict", "validation"}

ASSUME EditAssumption == Edit \in [Asks -> [Generations -> Generations]]
ASSUME EpochAssumption == Epochs \subseteq Nat \* in the order they are drawn
ASSUME OwnerAssumption == Native \notin Shells /\ Nobody \notin Shells /\ Native # Nobody
ASSUME NobodyAssumption ==
  Nobody \notin Asks \cup Generations \cup {"OK", "FAILED", "unknown"} \cup Answers
              \cup [ask : Asks, base : Generations, candidate : Generations]
ASSUME RequestAssumption ==
  NoRequest \notin [epoch : Epochs, sequence : Nat, base : Generations, candidate : Generations]
ASSUME AskAssumption == \* there is a number for every request
  IsFiniteSet(Asks) /\ 1 .. Cardinality(Asks) \subseteq Sequences
ASSUME BoundAssumption == MaxFaults \in Nat /\ MaxLaunches \in Nat

VARIABLES
  recovering,   \* an attach is being carried out
  shown,        \* the display shows the layout in question
  lease,        \* who holds shell.lock
  disk,         \* the settings directory
  host,         \* SettingsServiceHost with its session and participant
  worker,       \* CheckpointWorker
  live,         \* the settings each Shell runs with
  flying,       \* start calls that were sent and have not arrived
  asked,        \* the generation a client made its request for
  told,         \* history: the answers each request got
  committed,    \* history: requests whose generation was published
  overtaken,    \* history: those another one replaced while a Shell had yet to answer them
  ran,          \* history: tickets of this epoch whose write a Shell carried out
  repeated,     \* history: one of them was carried out twice
  revived,      \* history: a layout was kept after the coordinator had gone on without it
  faults, launches

vars == <<joint, recovering, shown, lease, disk, host, worker, live, flying, asked, told, committed,
          overtaken, ran, repeated, revived, faults, launches>>

world  == <<joint, recovering, shown>>
past   == <<told, committed, overtaken, ran, repeated, revived>>
bounds == <<faults, launches>>

Idle == [status |-> "none", command |-> NoCommand, current |-> Malformed, closed |-> FALSE]

Unprepared(g) ==
  [confirmed |-> g, sequence |-> 0, candidate |-> Nobody, prepare |-> Nobody, apply |-> Nobody,
   restore |-> [ticket |-> 0, result |-> Nobody]]

(* A Shell that has just been started.                                      *)
Started ==
  [at |-> "attach", closed |-> FALSE, epoch |-> 0, sequence |-> 0, ask |-> Nobody,
   last |-> Nobody, answer |-> Nobody, queued |-> Nobody, snapshot |-> Nobody,
   seen |-> Nobody, receipt |-> Nobody, part |-> Unprepared(Nobody)]

Down == [Started EXCEPT !.at = "down"]

Init ==
  \E g \in Generations, e \in Epochs :
    /\ \A f \in Epochs : e <= f
    /\ joint = Fresh(e)
    /\ recovering = FALSE
    /\ shown = FALSE
    /\ lease = Nobody
    /\ disk = [completed |-> g, pending |-> Nobody, epoch |-> e, journal |-> Nobody]
    /\ host = [s \in Shells |-> Down]
    /\ worker = [s \in Shells |-> Idle]
    /\ live = [s \in Shells |-> Nobody]
    /\ flying = {}
    /\ asked = [a \in Asks |-> Nobody]
    /\ told = [a \in Asks |-> {}]
    /\ committed = {}
    /\ overtaken = {}
    /\ ran = {}
    /\ repeated = FALSE
    /\ revived = FALSE
    /\ faults = 0
    /\ launches = 0

-----------------------------------------------------------------------------
Fault == faults < MaxFaults /\ faults' = faults + 1 /\ UNCHANGED launches

Step(s, from, to) == host[s].at = from /\ host' = [host EXCEPT ![s].at = to]

(* The session raises, or finds that the Shell is closed.                   *)
Ends(s) == host' = [host EXCEPT ![s].at = "finally"]

Told(a, answer) == told' = [told EXCEPT ![a] = @ \cup {answer}]

(* edit_candidate(): what the request makes of the generation it is for.    *)
Candidate(a) == Edit[a][asked[a]]

(* What status, and every other call, answers.  A Shell acts on the last    *)
(* answer it got, which may be an old one.                                  *)
View ==
  [epoch |-> joint.epoch, recovering |-> recovering, state |-> joint.state,
   sequence |-> IF joint.request = NoRequest THEN 0 ELSE joint.request.sequence,
   command |-> joint.pending]

(* What is being written for this Shell.                                    *)
Writing(s) == worker[s].status = "running" \/ host[s].at \in {"boot", "gtk"}

-----------------------------------------------------------------------------
(* Clients.                                                                 *)

(* apply(): refused while the last request has no answer.                   *)
Apply(s, a, g) ==
  /\ asked[a] = Nobody
  /\ host[s].at # "down"
  /\ host[s].snapshot # Nobody
  /\ host[s].answer # "unknown"
  /\ asked' = [asked EXCEPT ![a] = g]
  /\ host' = [host EXCEPT ![s].last = a, ![s].answer = "unknown", ![s].queued = a]
  /\ UNCHANGED <<world, lease, disk, worker, live, flying, past, bounds>>

Launch(s) ==
  /\ launches < MaxLaunches
  /\ host[s].at = "down"
  /\ launches' = launches + 1
  /\ host' = [host EXCEPT ![s] = Started]
  /\ UNCHANGED <<world, lease, disk, worker, live, flying, asked, past, faults>>

Close(s) ==
  /\ host[s].at # "down"
  /\ ~host[s].closed
  /\ Fault
  /\ host' = [host EXCEPT ![s].closed = TRUE]
  /\ UNCHANGED <<world, lease, disk, worker, live, flying, asked, past>>

(* The process dies: its threads with it, and the lock it holds is free.    *)
Kill(s) ==
  /\ host[s].at # "down"
  /\ Fault
  /\ host' = [host EXCEPT ![s] = Down]
  /\ worker' = [worker EXCEPT ![s] = Idle]
  /\ live' = [live EXCEPT ![s] = Nobody]
  /\ lease' = IF lease = s THEN Nobody ELSE lease
  /\ UNCHANGED <<world, disk, flying, asked, past>>

-----------------------------------------------------------------------------
(* _session(), up to the loop.                                              *)

(* attach: refused while a Shell owns the lease.  Its answer may be lost.   *)
Attach(s) ==
  /\ host[s].at = "attach"
  /\ ~host[s].closed
  /\ IF ~recovering /\ lease = Nobody
     THEN recovering' = TRUE /\ lease' = Native
     ELSE UNCHANGED <<recovering, lease>>
  /\ \/ /\ recovering \/ lease = Nobody
        /\ Step(s, "attach", "recovering")
        /\ UNCHANGED bounds
     \/ /\ ~recovering /\ lease # Nobody
        /\ Ends(s)
        /\ UNCHANGED bounds
     \/ Ends(s) /\ Fault
  /\ UNCHANGED <<joint, shown, disk, worker, live, flying, asked, past>>

\* Fault: the store is not told the new epoch.
NativeRecovered_Unfenced ==
  /\ recovering
  /\ \E e \in Epochs :
       /\ e > joint.epoch
       /\ \A f \in Epochs : f > joint.epoch => e <= f
       /\ joint' = Fresh(e)
       /\ disk' = [disk EXCEPT !.pending = Nobody]
  /\ recovering' = FALSE
  /\ shown' = FALSE
  /\ lease' = Nobody
  /\ ran' = {}
  /\ UNCHANGED <<host, worker, live, flying, asked, told, committed, overtaken, repeated, revived, bounds>>

(* The compositor takes the next epoch, writes it down and starts over.     *)
NativeRecovered ==
  /\ recovering
  /\ \E e \in Epochs :
       /\ e > joint.epoch
       /\ \A f \in Epochs : f > joint.epoch => e <= f
       /\ joint' = Fresh(e)
       /\ disk' = [disk EXCEPT !.epoch = e, !.pending = Nobody]
  /\ recovering' = FALSE
  /\ shown' = FALSE
  /\ lease' = Nobody
  /\ ran' = {}
  /\ UNCHANGED <<host, worker, live, flying, asked, told, committed, overtaken, repeated, revived, bounds>>

Recovered(s) ==
  /\ host[s].at = "recovering"
  /\ ~recovering
  /\ host' = [host EXCEPT ![s].at = "lease", ![s].epoch = joint.epoch, ![s].seen = View]
  /\ UNCHANGED <<world, lease, disk, worker, live, flying, asked, past, bounds>>

Lease(s) ==
  /\ host[s].at = "lease"
  /\ \/ /\ lease = Nobody
        /\ lease' = s
        /\ Step(s, "lease", "bind")
     \/ /\ lease # Nobody
        /\ Ends(s)
        /\ UNCHANGED lease
  /\ UNCHANGED <<world, disk, worker, live, flying, asked, past, bounds>>

(* The epoch of the attach must still be the compositor's.  That it is idle *)
(* was said before the lease was taken.                                     *)
Attached(s) == ~recovering /\ joint.epoch = host[s].epoch /\ host[s].seen.state = "IDLE"

(* The recorded request is known again after a restart; the GTK thread is   *)
(* asked to run with the completed generation.                              *)
Bind(s) ==
  /\ host[s].at = "bind"
  /\ IF Attached(s)
     THEN LET h == host[s]
              known == IF h.last = Nobody /\ disk.journal # Nobody
                       THEN [h EXCEPT !.last = disk.journal.ask, !.answer = "unknown"] ELSE h
          IN  host' = [host EXCEPT ![s] = [known EXCEPT !.at = "boot", !.sequence = h.seen.sequence, !.seen = Nobody,
                                                         !.part = Unprepared(disk.completed)]]
     ELSE Ends(s)
  /\ UNCHANGED <<world, lease, disk, worker, live, flying, asked, past, bounds>>

\* Fault: a request that was not recorded is answered by the journal of an older one.
Verdict_Older(s, boot) ==
  IF disk.journal # Nobody
  THEN IF disk.journal.candidate = boot THEN "ok" ELSE "rolled_back"
  ELSE host[s].answer

\* Fault: nothing is said of a request that was never recorded.
Verdict_JournalOnly(s, boot) ==
  LET j == disk.journal IN
  IF j # Nobody /\ j.ask = host[s].last
  THEN IF j.candidate = boot THEN "ok" ELSE "rolled_back"
  ELSE host[s].answer

(* What the completed generation says of the last request.                  *)
Verdict(s, boot) ==
  LET h == host[s]
      j == disk.journal IN
  IF j # Nobody /\ j.ask = h.last
  THEN CASE j.candidate = boot -> "ok"
         [] j.candidate # boot /\ j.base = boot -> "rolled_back"
         [] OTHER -> "conflict"
  ELSE IF h.queued = Nobody /\ h.answer = "unknown" /\ asked[h.last] = boot
  THEN "rolled_back"
  ELSE h.answer

Boot(s) ==
  LET boot == host[s].part.confirmed
      verdict == Verdict(s, boot) IN
  /\ host[s].at = "boot"
  /\ \/ /\ live' = [live EXCEPT ![s] = boot]
        /\ host' = [host EXCEPT ![s].at = "idle", ![s].snapshot = boot, ![s].answer = verdict]
        /\ IF verdict \in Answers THEN Told(host[s].last, verdict) ELSE UNCHANGED told
        /\ UNCHANGED bounds
     \/ /\ Fault
        /\ \E g \in {live[s], boot} : live' = [live EXCEPT ![s] = g]
        /\ Ends(s)
        /\ UNCHANGED told
  /\ UNCHANGED <<world, lease, disk, worker, flying, asked, committed, overtaken, ran, repeated, revived>>

-----------------------------------------------------------------------------
(* The loop, between transactions.                                          *)

Same(s) == ~recovering /\ joint.epoch = host[s].epoch

(* The session ends with the Shell or with the epoch it was made for.       *)
Lost(s) ==
  /\ host[s].at = "idle"
  /\ \/ (host[s].closed \/ ~Same(s)) /\ UNCHANGED bounds
     \/ Fault
  /\ Ends(s)
  /\ UNCHANGED <<world, lease, disk, worker, live, flying, asked, past>>

Dequeue(s) ==
  /\ host[s].at = "idle"
  /\ ~host[s].closed
  /\ host[s].queued # Nobody
  /\ host' = [host EXCEPT ![s].at = "look", ![s].ask = host[s].queued, ![s].queued = Nobody]
  /\ UNCHANGED <<world, lease, disk, worker, live, flying, asked, past, bounds>>

Answer(s, answer) ==
  /\ host' = [host EXCEPT ![s].at = "idle", ![s].answer = answer]
  /\ Told(host[s].ask, answer)

(* A request against another generation, one that makes no sense or changes *)
(* nothing is answered at once.                                             *)
Look(s) ==
  LET a == host[s].ask
      current == disk.completed IN
  /\ host[s].at = "look"
  /\ \/ asked[a] # current /\ Answer(s, "conflict") /\ UNCHANGED bounds
     \/ asked[a] = current /\ Answer(s, "validation") /\ UNCHANGED bounds
     \/ asked[a] = current /\ Candidate(a) = current /\ Answer(s, "ok") /\ UNCHANGED bounds
     \/ /\ asked[a] = current /\ Candidate(a) # current
        /\ host' = [host EXCEPT ![s].at = "record"]
        /\ UNCHANGED <<told, bounds>>
     \/ Ends(s) /\ Fault /\ UNCHANGED told
  /\ UNCHANGED <<world, lease, disk, worker, live, flying, asked, committed, overtaken, ran, repeated, revived>>

(* SettingsStore._locked(): a store of another epoch does not write.        *)
Fenced(s) == disk.epoch = host[s].epoch

(* record_request(), then a new checkpoint worker.  It may fail before and  *)
(* after the journal is written.                                            *)
Record(s) ==
  LET a == host[s].ask
      entry == [ask |-> a, base |-> asked[a], candidate |-> Candidate(a)] IN
  /\ host[s].at = "record"
  /\ \/ /\ Fenced(s) /\ disk.completed = asked[a]
        /\ disk' = [disk EXCEPT !.journal = entry]
        /\ host' = [host EXCEPT ![s].at = "start", ![s].sequence = @ + 1]
        /\ worker' = [worker EXCEPT ![s] = [Idle EXCEPT !.status = "idle"]]
        /\ UNCHANGED bounds
     \/ /\ ~(Fenced(s) /\ disk.completed = asked[a])
        /\ Ends(s)
        /\ UNCHANGED <<disk, worker, bounds>>
     \/ /\ Fault
        /\ Ends(s)
        /\ disk' \in {disk} \cup (IF Fenced(s) /\ disk.completed = asked[a]
                                  THEN {[disk EXCEPT !.journal = entry]} ELSE {})
        /\ UNCHANGED worker
  /\ UNCHANGED <<world, lease, live, flying, asked, past>>

-----------------------------------------------------------------------------
(* A transaction.                                                           *)
Request(s) ==
  [epoch |-> host[s].epoch, sequence |-> host[s].sequence,
   base |-> asked[host[s].ask], candidate |-> Candidate(host[s].ask)]

Send(s) ==
  /\ Step(s, "start", "sent")
  /\ flying' = flying \cup {Request(s)}
  /\ UNCHANGED <<world, lease, disk, worker, live, asked, past, bounds>>

(* The call arrives, perhaps after the Shell has given it up.               *)
Arrives(r) ==
  /\ r \in flying
  /\ flying' = flying \ {r}
  /\ IF ~recovering /\ Accepts(r) THEN Start(r) ELSE UNCHANGED joint
  /\ UNCHANGED <<recovering, shown, lease, disk, host, worker, live, asked, past, bounds>>

(* The Shell goes by what status says, also when the call did not come back.*)
Sent(s) ==
  /\ host[s].at = "sent"
  /\ \/ Request(s) \notin flying /\ UNCHANGED bounds
     \/ Fault
  /\ host' = [host EXCEPT ![s].at = "poll", ![s].seen = View]
  /\ UNCHANGED <<world, lease, disk, worker, live, flying, asked, past>>

(* The compositor has another epoch or transaction, or a command of one.    *)
Strange(s) ==
  LET seen == host[s].seen IN
  \/ seen.epoch # host[s].epoch
  \/ seen.sequence # host[s].sequence
  \/ seen.command # NoCommand /\ seen.command.request # Request(s)
     /\ seen.state \notin {"COMPLETE", "ABORTED", "STALE"}

Ended(s) == worker[s].status \in {"ok", "failed"}

(* That, the end of the worker, or of the Shell, is the end of the session. *)
Abandons(s) ==
  /\ host[s].at = "poll"
  /\ \/ (host[s].closed \/ Strange(s)) /\ UNCHANGED bounds
     \/ Fault
  /\ Ends(s)
  /\ UNCHANGED <<world, lease, disk, worker, live, flying, asked, past>>

Polls(s) == host[s].at = "poll" /\ ~host[s].closed /\ ~Strange(s)

(* Nothing to do: no command, or one of somebody else, or of a worker that  *)
(* has not ended.                                                           *)
Status(s) ==
  /\ Polls(s)
  /\ host[s].seen # View
  /\ host[s].seen.command # NoCommand =>
       \/ host[s].seen.command.target = "NATIVE"
       \/ host[s].seen.command = worker[s].command /\ ~Ended(s)
  /\ host' = [host EXCEPT ![s].seen = View]
  /\ UNCHANGED <<world, lease, disk, worker, live, flying, asked, past, bounds>>

AskRecover(s) ==
  /\ Polls(s)
  /\ host[s].seen.state = "UNKNOWN"
  /\ host[s].seen.command = NoCommand
  /\ ~recovering
  /\ UNCHANGED <<recovering, shown>>
  /\ Recover(Request(s))
  /\ host' = [host EXCEPT ![s].seen = View']
  /\ UNCHANGED <<lease, disk, worker, live, flying, asked, past, bounds>>

(* The user, or the compositor after 15 seconds.  A display that does not   *)
(* show the layout is not kept, and one that is not kept is reverted.       *)
Decision(keep) ==
  LET kept == keep /\ shown IN
  /\ ~recovering
  /\ Decide(joint.request, kept)
  /\ \/ shown' = kept /\ UNCHANGED bounds
     \/ ~kept /\ shown' = shown /\ Fault
  /\ revived' = (revived \/ (kept /\ joint.step # "SHELL_VERIFY"))
  /\ UNCHANGED <<recovering, lease, disk, host, worker, live, flying, asked, told, committed, overtaken, ran, repeated>>

Finish(s) ==
  /\ Polls(s)
  /\ host[s].seen.state \in {"COMPLETE", "ABORTED", "STALE"}
  /\ IF host[s].seen.state = "COMPLETE"
     THEN IF disk.completed = Candidate(host[s].ask) /\ host[s].part.confirmed = Candidate(host[s].ask)
          THEN /\ host' = [host EXCEPT ![s].at = "idle", ![s].snapshot = disk.completed, ![s].answer = "ok"]
               /\ Told(host[s].ask, "ok")
          ELSE Ends(s) /\ UNCHANGED told
     ELSE Answer(s, "rolled_back")
  /\ worker' = [worker EXCEPT ![s].closed = TRUE]
  /\ UNCHANGED <<world, lease, disk, live, flying, asked, committed, overtaken, ran, repeated, revived, bounds>>

-----------------------------------------------------------------------------
(* Commands for the store.                                                  *)

(* CheckpointWorker.submit(): a command that comes again is only answered.  *)
(* One that comes while another is running ends the session.                *)
Submits(s, c) ==
  IF worker[s].command = c
  THEN /\ IF Ended(s)
          THEN host' = [host EXCEPT ![s].at = "receipt",
                                    ![s].receipt = [command |-> c, current |-> worker[s].current,
                                                    result |-> IF worker[s].status = "ok" THEN "OK" ELSE "FAILED"]]
          ELSE UNCHANGED host
       /\ UNCHANGED worker
  ELSE IF worker[s].status \in {"queued", "running"}
  THEN Ends(s) /\ UNCHANGED worker
  ELSE /\ worker' = [worker EXCEPT ![s].status = "queued", ![s].command = c]
       /\ UNCHANGED host

Store(s) ==
  /\ Polls(s)
  /\ host[s].seen.command # NoCommand
  /\ host[s].seen.command.target = "STORE"
  /\ Submits(s, host[s].seen.command)
  /\ UNCHANGED <<world, lease, disk, live, flying, asked, past, bounds>>

(* The worker thread takes the command, unless it was closed meanwhile.     *)
Work(s) ==
  /\ worker[s].status = "queued"
  /\ worker' = [worker EXCEPT ![s].status = IF worker[s].closed THEN "failed" ELSE "running",
                              ![s].current = Malformed]
  /\ UNCHANGED <<world, lease, disk, host, live, flying, asked, past, bounds>>

Granted(s, c) ==
  LET r == [base |-> c.request.base, candidate |-> c.request.candidate] IN
  CASE c.operation = "CURRENT" -> TRUE
    [] c.operation = "PREPARE" -> Fenced(s) /\ disk.completed = r.base /\ disk.pending \in {Nobody, r}
    [] c.operation = "PUBLISH" ->
         Fenced(s) /\ (disk.completed = r.candidate \/ (disk.completed = r.base /\ disk.pending = r))
    [] c.operation = "ABANDON" -> Fenced(s) /\ disk.completed = r.base /\ disk.pending \in {Nobody, r}

Written(c) ==
  LET r == [base |-> c.request.base, candidate |-> c.request.candidate] IN
  CASE c.operation = "CURRENT" -> disk
    [] c.operation = "PREPARE" -> [disk EXCEPT !.pending = r]
    [] c.operation = "PUBLISH" -> [disk EXCEPT !.completed = r.candidate, !.pending = IF @ = r THEN Nobody ELSE @]
    [] c.operation = "ABANDON" -> [disk EXCEPT !.pending = Nobody]

Carried(s, c) ==
  /\ ran' = ran \cup {<<s, c.ticket>>}
  /\ repeated' = (repeated \/ <<s, c.ticket>> \in ran)

Published(a) ==
  /\ committed' = committed \cup {a}
  /\ overtaken' = overtaken \cup
       {b \in committed \ {a} : \E t \in Shells : host[t].last = b /\ host[t].answer = "unknown"}

(* SettingsStore's operation: refused, done, or done and reported as failed;*)
(* a publication also before it has removed what was pending.               *)
Worked(s) ==
  LET c == worker[s].command IN
  /\ worker[s].status = "running"
  /\ \/ /\ ~Granted(s, c)
        /\ worker' = [worker EXCEPT ![s].status = "failed"]
        /\ UNCHANGED <<disk, committed, overtaken, ran, repeated, bounds>>
     \/ /\ Granted(s, c)
        /\ IF c.operation = "PUBLISH" THEN Published(host[s].ask) ELSE UNCHANGED <<committed, overtaken>>
        /\ IF c.operation # "CURRENT" THEN Carried(s, c) ELSE UNCHANGED <<ran, repeated>>
        /\ \/ /\ disk' = Written(c)
              /\ worker' = [worker EXCEPT ![s].status = "ok",
                                          ![s].current = IF c.operation = "CURRENT" THEN disk.completed
                                                                                    ELSE Malformed]
              /\ UNCHANGED bounds
           \/ /\ \/ disk' = Written(c)
                 \/ c.operation = "PUBLISH" /\ disk' = [disk EXCEPT !.completed = c.request.candidate]
              /\ worker' = [worker EXCEPT ![s].status = "failed"]
              /\ Fault
     \/ /\ Fault
        /\ worker' = [worker EXCEPT ![s].status = "failed"]
        /\ UNCHANGED <<disk, committed, overtaken, ran, repeated>>
  /\ UNCHANGED <<world, lease, host, live, flying, asked, told, revived>>

-----------------------------------------------------------------------------
(* Commands for the Shell: ShellSettingsParticipant.execute().              *)

Fresher(s, c) ==
  c.operation = "PREPARE" /\ c.request.sequence > host[s].part.sequence /\ c.request.base = host[s].part.confirmed

Known(s, c) == host[s].part.sequence = c.request.sequence

\* Fault: every command is carried out.
Kept_Never(p, c) == Nobody

(* The result a write that comes again is answered with.                    *)
Kept(p, c) ==
  CASE c.operation = "PREPARE" -> p.prepare
    [] c.operation = "APPLY"   -> p.apply
    [] c.operation = "RESTORE" -> IF p.restore.ticket = c.ticket THEN p.restore.result ELSE Nobody
    [] OTHER                   -> Nobody

Receives(s, p, c, result) ==
  host' = [host EXCEPT ![s].at = "receipt", ![s].part = p,
                       ![s].receipt = [command |-> c, result |-> result, current |-> Malformed]]

(* A transaction the participant does not know ends the session.            *)
Execute(s) ==
  LET c == host[s].seen.command
      p == host[s].part
      begun == [Unprepared(p.confirmed) EXCEPT !.sequence = c.request.sequence]
      now == IF Known(s, c) THEN p ELSE begun IN
  /\ Polls(s)
  /\ c # NoCommand
  /\ c.target = "SHELL"
  /\ \/ ~Known(s, c) /\ ~Fresher(s, c) /\ Ends(s)
     \/ /\ Known(s, c) \/ Fresher(s, c)
        /\ IF Kept(now, c) # Nobody
           THEN Receives(s, now, c, Kept(now, c))
           ELSE host' = [host EXCEPT ![s].at = "gtk", ![s].part = now,
                                     ![s].receipt = [command |-> c, result |-> "UNKNOWN", current |-> Malformed]]
  /\ UNCHANGED <<world, lease, disk, worker, live, flying, asked, past, bounds>>

(* The callbacks of the GTK thread are over.  One that fails may have       *)
(* changed the settings.                                                    *)
Executed(s) ==
  LET c == host[s].receipt.command
      p == host[s].part
      possible == c.operation = "RESTORE" \/ c.operation = "PREPARE" \/ p.candidate # Nobody
      seen == live[s] = p.candidate
      target == IF c.operation = "RESTORE" THEN p.confirmed ELSE p.candidate
      done(result) ==
        CASE c.operation = "PREPARE" -> [p EXCEPT !.prepare = result, !.candidate = IF result = "OK" THEN c.request.candidate ELSE @]
          [] c.operation = "APPLY"   -> [p EXCEPT !.apply = result]
          [] c.operation = "RESTORE" -> [p EXCEPT !.restore = [ticket |-> c.ticket, result |-> result]]
          [] c.operation = "CONFIRM" -> [p EXCEPT !.confirmed = IF result = "OK" THEN p.candidate ELSE @]
          [] OTHER                   -> p
      writes == c.operation \in {"APPLY", "RESTORE"} /\ possible
      sound == possible /\ (c.operation \in {"VERIFY", "CONFIRM"} => seen) IN
  /\ host[s].at = "gtk"
  /\ \/ /\ sound
        /\ Receives(s, done("OK"), c, "OK")
        /\ live' = IF writes THEN [live EXCEPT ![s] = target] ELSE live
        /\ UNCHANGED bounds
     \/ /\ ~sound
        /\ Receives(s, done("FAILED"), c, "FAILED")
        /\ UNCHANGED <<live, bounds>>
     \/ /\ sound
        /\ Fault
        /\ Receives(s, done("FAILED"), c, "FAILED")
        /\ \/ UNCHANGED live
           \/ writes /\ live' = [live EXCEPT ![s] = target]
  /\ IF c.operation \in {"APPLY", "RESTORE"} THEN Carried(s, c) ELSE UNCHANGED <<ran, repeated>>
  /\ UNCHANGED <<world, lease, disk, worker, flying, asked, told, committed, overtaken, revived>>

(* The receipt is sent.  When it or its answer is lost the Shell asks for   *)
(* the status, and when that fails too, goes on with what it last saw.      *)
Receipt(s) ==
  LET x == host[s].receipt
      c == x.command IN
  /\ host[s].at = "receipt"
  /\ UNCHANGED <<recovering, shown, lease, disk, worker, live, flying, asked, past>>
  /\ \/ /\ IF ~recovering /\ joint.pending = c THEN Reply(joint, c, x.result, x.current) ELSE UNCHANGED joint
        /\ \/ host' = [host EXCEPT ![s].at = "poll", ![s].receipt = Nobody, ![s].seen = View'] /\ UNCHANGED bounds
           \/ host' = [host EXCEPT ![s].at = "poll", ![s].receipt = Nobody] /\ Fault
     \/ /\ UNCHANGED joint
        /\ host' = [host EXCEPT ![s].at = "poll", ![s].receipt = Nobody, ![s].seen = View]
        /\ Fault

-----------------------------------------------------------------------------
(* The compositor's own commands, its clock, and its questions.             *)
NativeReply ==
  LET c == joint.pending IN
  /\ ~recovering
  /\ c # NoCommand
  /\ c.target = "NATIVE"
  /\ \/ /\ \E asks \in BOOLEAN : Reply(IF asks THEN RequireConfirmation(joint) ELSE joint, c, "OK", Malformed)
        /\ shown' = ((shown /\ c.operation # "RESTORE") \/ c.operation = "APPLY")
        /\ UNCHANGED bounds
     \/ /\ Reply(joint, c, "FAILED", Malformed)
        /\ shown' \in IF c.operation \in {"APPLY", "RESTORE"} THEN BOOLEAN ELSE {shown}
        /\ Fault
  /\ UNCHANGED <<recovering, lease, disk, host, worker, live, flying, asked, past>>

NativeTimeout ==
  /\ ~recovering
  /\ Timeout(joint.pending)
  /\ Fault
  /\ UNCHANGED <<recovering, shown, lease, disk, host, worker, live, flying, asked, past>>

-----------------------------------------------------------------------------
\* Fault: the lease goes before the worker has come to rest.
Finally_AtOnce(s) == TRUE

(* wait_closed(): queued work is cancelled, running work is waited for.     *)
Finally(s) == worker[s].status # "running"

(* The end of a session.  A Shell that is not closed begins another; what   *)
(* its clients ask for in between stays in the queue.                       *)
End(s) ==
  /\ host[s].at = "finally"
  /\ Finally(s)
  /\ lease' = IF lease = s THEN Nobody ELSE lease
  /\ worker' = [worker EXCEPT ![s] = IF @.status = "running" THEN @ ELSE Idle]
  /\ IF host[s].closed
     THEN /\ host' = [host EXCEPT ![s] = Down]
          /\ live' = [live EXCEPT ![s] = Nobody]
     ELSE /\ host' = [host EXCEPT ![s].at = "attach", ![s].snapshot = Nobody,
                                    ![s].seen = Nobody, ![s].receipt = Nobody]
          /\ UNCHANGED live
  /\ UNCHANGED <<world, disk, flying, asked, past, bounds>>

(* A closed Shell whose session has not got to the loop.                    *)
Stop(s) ==
  /\ host[s].closed
  /\ host[s].at \in {"attach", "recovering"}
  /\ Ends(s)
  /\ UNCHANGED <<world, lease, disk, worker, live, flying, asked, past, bounds>>

Session(s) ==
  \/ Attach(s) \/ Recovered(s) \/ Lease(s) \/ Bind(s) \/ Boot(s)
  \/ Lost(s) \/ Dequeue(s) \/ Look(s) \/ Record(s) \/ Send(s) \/ Sent(s)
  \/ Abandons(s) \/ Status(s) \/ AskRecover(s) \/ Finish(s) \/ Store(s) \/ Execute(s) \/ Executed(s) \/ Receipt(s)
  \/ End(s) \/ Stop(s)

Next ==
  \/ \E s \in Shells : Launch(s) \/ Close(s) \/ Kill(s) \/ Session(s) \/ Work(s) \/ Worked(s)
  \/ \E s \in Shells, a \in Asks, g \in Generations : Apply(s, a, g)
  \/ \E r \in flying : Arrives(r)
  \/ \E keep \in BOOLEAN : Decision(keep)
  \/ NativeRecovered
  \/ NativeReply
  \/ NativeTimeout

Spec == Init /\ [][Next]_vars

(* The threads of a Shell run, the calls it makes are answered or fail, and *)
(* the compositor decides for a user who does not.                          *)
Fair ==
  /\ \A s \in Shells : WF_vars(Session(s)) /\ WF_vars(Work(s)) /\ WF_vars(Worked(s))
  /\ WF_vars(\E r \in flying : Arrives(r))
  /\ WF_vars(NativeRecovered)
  /\ WF_vars(NativeReply)
  /\ WF_vars(Decision(FALSE))

FairSpec == Spec /\ Fair

-----------------------------------------------------------------------------
Places == {"down", "attach", "recovering", "lease", "bind", "boot", "idle", "look", "record", "start",
           "sent", "poll", "gtk", "receipt", "finally"}

TypeOK ==
  /\ joint \in JointType
  /\ recovering \in BOOLEAN
  /\ shown \in BOOLEAN
  /\ lease \in Shells \cup {Native, Nobody}
  /\ recovering <=> lease = Native
  /\ disk.completed \in Generations
  /\ disk.epoch = joint.epoch
  /\ \A s \in Shells :
       /\ host[s].at \in Places
       /\ host[s].answer \in Answers \cup {"unknown", Nobody}
       /\ host[s].snapshot \in Generations \cup {Nobody}
       /\ live[s] \in Generations \cup {Nobody}
       /\ worker[s].status \in {"none", "idle", "queued", "running", "ok", "failed"}
  /\ asked \in [Asks -> Generations \cup {Nobody}]
  /\ \A a \in Asks : told[a] \subseteq Answers
  /\ faults \in 0 .. MaxFaults
  /\ launches \in 0 .. MaxLaunches

(* "Only a released process-lifetime lease proves the old participant and   *)
(* its in-process disk worker are gone/quiescent": whoever holds the lease, *)
(* another Shell or the recovery, no one else's thread is still writing.    *)
OneWriter == \A s \in Shells : Writing(s) => lease = s

(* No Shell carries out a write twice for one command, however often its    *)
(* receipt or the answer to it gets lost and the command is handed out      *)
(* again.  Another Shell may: of two that attached in one recovery the      *)
(* second may take up the transaction the first has left behind.            *)
NothingTwice == ~repeated

(* A client is told one answer, and the truth: applied exactly when its     *)
(* generation was published, then or ever.  What is left out is a request   *)
(* whose Shell lost its session before the answer, while another Shell went *)
(* on from its generation to the next: the first takes a completed          *)
(* generation like that before the request for proof that it was not made.  *)
ToldTheTruth ==
  \A a \in Asks \ overtaken :
    /\ Cardinality(told[a]) <= 1
    /\ told[a] # {} => ((told[a] = {"ok"} /\ asked[a] # Candidate(a)) <=> a \in committed)

(* A publication that failed after its rename left pending.json behind.     *)
LeftOver == disk.pending # Nobody /\ disk.pending.candidate = disk.completed

(* A request for the settings as they are gets its answer, whatever call,   *)
(* write or session fails in between, unless the Shell is gone, what is     *)
(* left over refuses every transaction to come, or a late answer revived    *)
(* the layout of a Shell that had been restored.                            *)
AnsweredInTheEnd ==
  \A s \in Shells, a \in Asks :
    host[s].queued = a /\ asked[a] = disk.completed
      ~> told[a] # {} \/ host[s].at = "down" \/ LeftOver \/ revived

(* Between transactions the Shell runs with the completed generation, and   *)
(* shows it to its clients.                                                 *)
RunsWithCompleted ==
  \A s \in Shells :
    host[s].at = "idle" /\ Same(s) => live[s] = disk.completed /\ host[s].snapshot = disk.completed
=============================================================================
