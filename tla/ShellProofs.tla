----------------------------- MODULE ShellProofs -----------------------------
(***************************************************************************)
(* The Shell's half of the settings, for any number of Shells, requests,   *)
(* faults and epochs: whoever holds the lease, nobody else is still        *)
(* writing; no Shell carries out a write twice for one command; one that   *)
(* waits for its clients runs with the completed generation; what clients  *)
(* are told is the truth; and everything keeps its types.                  *)
(***************************************************************************)
EXTENDS ShellSession, TLAPS, FiniteSetTheorems

(* The places of a session that holds the lease.                            *)
Serving == {"bind", "boot", "idle", "look", "record", "start", "sent", "poll", "gtk", "receipt"}

Busy == {"queued", "running"}

Shape ==
  /\ DOMAIN host = Shells /\ DOMAIN worker = Shells
  /\ \A s \in Shells : DOMAIN host[s] = DOMAIN Started /\ DOMAIN worker[s] = DOMAIN Idle

(* A session gives its lease up at its end only, when the worker has come   *)
(* to rest.                                                                 *)
LeaseInv ==
  \A s \in Shells :
    /\ host[s].at \in Serving => lease = s
    /\ worker[s].status \in Busy => lease = s /\ host[s].at \in Serving \cup {"finally"}

IInv ==
  /\ Shape
  /\ LeaseInv
  /\ recovering => lease = Native

-----------------------------------------------------------------------------
LEMMA Initial == Init => IInv
BY DEF Init, IInv, Shape, LeaseInv, Serving, Busy, Down, Idle, Started

LEMMA Inductive == IInv /\ [Next]_vars => IInv'
<1> SUFFICES ASSUME IInv, [Next]_vars PROVE IInv'
  OBVIOUS
<1> USE OwnerAssumption DEF IInv, Shape, LeaseInv, Serving, Busy, Started, Idle
<1>1. ASSUME NEW s \in Shells, Launch(s) PROVE IInv'
  BY <1>1 DEF Launch, world
<1>2. ASSUME NEW s \in Shells, Close(s) PROVE IInv'
  BY <1>2 DEF Close, Fault, world
<1>3. ASSUME NEW s \in Shells, Kill(s) PROVE IInv'
  BY <1>3 DEF Kill, Fault, Down, world
<1>4. ASSUME NEW s \in Shells, Attach(s) PROVE IInv'
  BY <1>4 DEF Attach, Fault, Step, Ends, world
<1>5. ASSUME NEW s \in Shells, Recovered(s) PROVE IInv'
  BY <1>5 DEF Recovered, world
<1>6. ASSUME NEW s \in Shells, Lease(s) PROVE IInv'
  BY <1>6 DEF Lease, Step, Ends, world
<1>7. ASSUME NEW s \in Shells, Bind(s) PROVE IInv'
  <2>1. host[s].at = "bind" /\ UNCHANGED <<lease, worker, recovering>>
    BY <1>7 DEF Bind, world
  <2>2. PICK h : /\ h.at \in {"boot", "finally"} /\ DOMAIN h = DOMAIN Started
                 /\ host' = [host EXCEPT ![s] = h]
    <3>1. CASE Attached(s)
      <4> DEFINE known == IF host[s].last = Nobody /\ disk.journal # Nobody
                          THEN [host[s] EXCEPT !.last = disk.journal.ask, !.answer = "unknown"] ELSE host[s]
                 bound == [known EXCEPT !.at = "boot", !.sequence = host[s].seen.sequence, !.seen = Nobody,
                                        !.part = Unprepared(disk.completed)]
      <4>1. DOMAIN known = DOMAIN Started
        OBVIOUS
      <4>2. host' = [host EXCEPT ![s] = bound]
        BY <1>7, <3>1 DEF Bind
      <4> HIDE DEF known
      <4>3. bound.at = "boot" /\ DOMAIN bound = DOMAIN Started
        BY <4>1
      <4> QED
        BY <4>2, <4>3
    <3>2. CASE ~Attached(s)
      <4> DEFINE h == [host[s] EXCEPT !.at = "finally"]
      <4>1. h.at = "finally" /\ DOMAIN h = DOMAIN Started
        OBVIOUS
      <4>2. host' = [host EXCEPT ![s] = h]
        BY <1>7, <3>2 DEF Bind, Ends
      <4> QED
        BY <4>1, <4>2
    <3> QED
      BY <3>1, <3>2
  <2> QED
    BY <2>1, <2>2
<1>8. ASSUME NEW s \in Shells, Boot(s) PROVE IInv'
  BY <1>8 DEF Boot, Fault, Ends, world
<1>9. ASSUME NEW s \in Shells, Lost(s) PROVE IInv'
  BY <1>9 DEF Lost, Fault, Ends, world
<1>10. ASSUME NEW s \in Shells, Dequeue(s) PROVE IInv'
  BY <1>10 DEF Dequeue, world
<1>11. ASSUME NEW s \in Shells, Look(s) PROVE IInv'
  BY <1>11 DEF Look, Answer, Ends, Fault, world
<1>12. ASSUME NEW s \in Shells, Record(s) PROVE IInv'
  BY <1>12 DEF Record, Ends, Fault, world
<1>13. ASSUME NEW s \in Shells, Send(s) PROVE IInv'
  BY <1>13 DEF Send, Step, world
<1>14. ASSUME NEW s \in Shells, Sent(s) PROVE IInv'
  BY <1>14 DEF Sent, Fault, world
<1>15. ASSUME NEW s \in Shells, Abandons(s) PROVE IInv'
  BY <1>15 DEF Abandons, Ends, Fault, world
<1>16. ASSUME NEW s \in Shells, Status(s) PROVE IInv'
  BY <1>16 DEF Status, Polls, world
<1>17. ASSUME NEW s \in Shells, AskRecover(s) PROVE IInv'
  BY <1>17 DEF AskRecover, Polls, world
<1>18. ASSUME NEW s \in Shells, Finish(s) PROVE IInv'
  BY <1>18 DEF Finish, Polls, Ends, Answer, world
<1>19. ASSUME NEW s \in Shells, Store(s) PROVE IInv'
  BY <1>19 DEF Store, Polls, Submits, Ends, world
<1>20. ASSUME NEW s \in Shells, Execute(s) PROVE IInv'
  BY <1>20 DEF Execute, Polls, Ends, Receives, world
<1>21. ASSUME NEW s \in Shells, Executed(s) PROVE IInv'
  <2>1. PICK x, y : host' = [host EXCEPT ![s].at = "receipt", ![s].part = x, ![s].receipt = y]
    <3>1. \E p, c, result : Receives(s, p, c, result)
      <4> USE DEF Executed
      <4> QED
        BY <1>21, Zenon
    <3> QED
      BY <3>1 DEF Receives
  <2>2. host[s].at = "gtk" /\ UNCHANGED <<lease, worker, recovering>>
    BY <1>21, Zenon DEF Executed, world
  <2> QED
    BY <2>1, <2>2
<1>22. ASSUME NEW s \in Shells, Receipt(s) PROVE IInv'
  BY <1>22 DEF Receipt, world
<1>23. ASSUME NEW s \in Shells, End(s) PROVE IInv'
  BY <1>23 DEF End, Finally, Down, world
<1>24. ASSUME NEW s \in Shells, Stop(s) PROVE IInv'
  BY <1>24 DEF Stop, Ends, world
<1>25. ASSUME NEW s \in Shells, Work(s) PROVE IInv'
  BY <1>25 DEF Work, world
<1>26. ASSUME NEW s \in Shells, Worked(s) PROVE IInv'
  BY <1>26 DEF Worked, world
<1>27. ASSUME NEW s \in Shells, NEW a \in Asks, NEW g \in Generations, Apply(s, a, g) PROVE IInv'
  BY <1>27 DEF Apply, world
<1>28. CASE \E r \in flying : Arrives(r)
  BY <1>28 DEF Arrives
<1>29. CASE \E keep \in BOOLEAN : Decision(keep)
  BY <1>29 DEF Decision
<1>30. CASE NativeRecovered
  BY <1>30 DEF NativeRecovered
<1>31. CASE NativeReply
  BY <1>31 DEF NativeReply
<1>32. CASE NativeTimeout
  BY <1>32 DEF NativeTimeout
<1>33. CASE UNCHANGED vars
  BY <1>33 DEF vars, world
<1> QED
  BY <1>1, <1>2, <1>3, <1>4, <1>5, <1>6, <1>7, <1>8, <1>9, <1>10, <1>11, <1>12, <1>13, <1>14, <1>15, <1>16, <1>17, <1>18, <1>19, <1>20, <1>21, <1>22, <1>23, <1>24, <1>25, <1>26, <1>27, <1>28, <1>29, <1>30, <1>31, <1>32, <1>33 DEF Next, Session

(* The invariant of the lease holds of every behaviour.                     *)
THEOREM Invariance == Spec => []IInv
BY Initial, Inductive, PTL DEF Spec

(* The lease proves that the participant and the worker of the one before   *)
(* are at rest: no one but its owner is writing.                            *)
THEOREM LeaseFences == Spec => []OneWriter
<1>1. IInv => OneWriter
  BY DEF IInv, LeaseInv, OneWriter, Writing, Serving, Busy
<1> QED
  BY <1>1, Invariance, PTL

-----------------------------------------------------------------------------
(* What a session has carried out.                                          *)

(* It talks to the compositor about a transaction, or is between two.       *)
Talking == {"poll", "gtk", "receipt"}
Between == {"idle", "look", "record", "start", "sent"}
Writes  == {"APPLY", "RESTORE"}
Over   == {"COMPLETE", "ABORTED", "STALE"}

Did(s, t) == <<s, t>> \in ran

(* A pending command carries the last ticket.                               *)
Ticketed(j) ==
  /\ DOMAIN j = DOMAIN Fresh(0)
  /\ j.ticket \in Nat
  /\ j.pending # NoCommand => j.pending.ticket = j.ticket /\ j.state \in {"RUNNING", "UNKNOWN"}

PastInv ==
  /\ ran \subseteq Shells \X Nat
  /\ \A s \in Shells, t \in Nat : Did(s, t) => t <= joint.ticket

(* The session has the answer to a write, should it come again.             *)
Acked(s, c) ==
  /\ c.target = "STORE" => worker[s].command = c
  /\ c.target = "SHELL" /\ c.operation \in Writes => Known(s, c) /\ Kept(host[s].part, c) # Nobody

(* What a session last saw of the coordinator: the command that is pending, *)
(* or an earlier one, which it has answered if it was its own.              *)
SeenInv(s) ==
  LET seen == host[s].seen
      c == seen.command IN
  /\ seen.state \in Over => c = NoCommand
  /\ joint.pending # NoCommand /\ Did(s, joint.ticket) => c = joint.pending
  /\ c # NoCommand =>
       /\ c.ticket \in 0 .. joint.ticket
       /\ joint.pending # NoCommand /\ c.ticket = joint.ticket => c = joint.pending
       /\ \A t \in Nat : Did(s, t) => t <= c.ticket
       /\ c # joint.pending \/ Did(s, c.ticket) => Acked(s, c)

(* A queued or running command is the one that is pending and was seen.     *)
WorkInv(s) ==
  LET c == worker[s].command IN
  /\ c # NoCommand /\ c.target = "STORE" /\ c.ticket \in 0 .. joint.ticket /\ ~Did(s, c.ticket)
  /\ host[s].at \in {"poll", "finally"}
  /\ host[s].at = "poll" => c = joint.pending /\ c = host[s].seen.command

SessionInv(s) ==
  /\ DOMAIN host[s].part = DOMAIN Unprepared(0)
  /\ host[s].at = "recovering" => recovering \/ \A t \in Nat : ~Did(s, t)
  /\ host[s].at \in {"lease", "bind", "boot"} => \A t \in Nat : ~Did(s, t)
  /\ host[s].at \in Between /\ joint.pending # NoCommand => ~Did(s, joint.ticket)
  /\ host[s].at \in Talking => SeenInv(s)
  /\ host[s].at \in {"gtk", "receipt"} =>
       host[s].receipt.command = host[s].seen.command /\ host[s].seen.command # NoCommand
  /\ host[s].at = "gtk" =>
       /\ host[s].seen.command.target = "SHELL"
       /\ host[s].seen.command.operation \in Writes =>
            /\ Known(s, host[s].seen.command) /\ Kept(host[s].part, host[s].seen.command) = Nobody
            /\ ~Did(s, host[s].seen.command.ticket)
  /\ host[s].at = "receipt" => Acked(s, host[s].seen.command)
  /\ worker[s].status \in Busy => WorkInv(s)

TwiceInv == Ticketed(joint) /\ PastInv /\ ~repeated /\ \A s \in Shells : SessionInv(s)

-----------------------------------------------------------------------------
(* The coordinator's steps: the command stays, is answered, or is followed  *)
(* by one of a new ticket.                                                  *)
Moves(j, k) ==
  /\ Ticketed(k)
  /\ \/ k.ticket = j.ticket /\ k.pending \in {j.pending, NoCommand}
     \/ k.ticket = j.ticket + 1

LEMMA IssueMoves ==
  ASSUME NEW j, Ticketed(j), j.pending = NoCommand, NEW s
  PROVE  Moves(j, Issue(j, s))
<1> DEFINE k == Issue(j, s)
<1>1. CASE j.ticket = MaxTicket
  BY <1>1 DEF Issue, Moves, Ticketed, Fresh
<1>2. CASE j.ticket # MaxTicket
  <2> DEFINE c == [request |-> j.request, ticket |-> j.ticket + 1,
                   target |-> Dispatch[s].target, operation |-> Dispatch[s].operation]
             prep == j.prepared \/ s = "STORE_PREPARE"
             pub == j.publishAttempted \/ s = "PUBLISH"
             touch == CASE s = "NATIVE_PREPARE" -> 1 [] s = "SHELL_PREPARE" -> 2 [] OTHER -> j.touched
  <2>1. k = [j EXCEPT !.step = s, !.state = "RUNNING", !.ticket = j.ticket + 1, !.pending = c,
                      !.prepared = prep, !.publishAttempted = pub, !.touched = touch]
    BY <1>2 DEF Issue
  <2>2. c.ticket = j.ticket + 1
    OBVIOUS
  <2> HIDE DEF c, prep, pub, touch, k
  <2>3. DOMAIN k = DOMAIN j /\ k.ticket = j.ticket + 1 /\ k.pending = c /\ k.state = "RUNNING"
    BY <2>1 DEF Ticketed, Fresh
  <2>4. Moves(j, k)
    BY <2>2, <2>3 DEF Moves, Ticketed
  <2> QED
    BY <2>4 DEF k
<1> QED
  BY <1>1, <1>2

LEMMA RestoreNextMoves ==
  ASSUME NEW j, Ticketed(j), j.pending = NoCommand
  PROVE  Moves(j, RestoreNext(j))
<1>1. \A n : LET b == [j EXCEPT !.restoreRemaining = n] IN
        Ticketed(b) /\ b.pending = NoCommand /\ b.ticket = j.ticket
  BY DEF Ticketed, Fresh
<1>2. \A n, s : Moves(j, Issue([j EXCEPT !.restoreRemaining = n], s))
  <2> TAKE n, s
  <2> DEFINE b == [j EXCEPT !.restoreRemaining = n]
  <2>1. Ticketed(b) /\ b.pending = NoCommand /\ b.ticket = j.ticket
    BY <1>1
  <2> HIDE DEF b
  <2>2. Moves(b, Issue(b, s))
    BY <2>1, IssueMoves
  <2>3. Moves(j, Issue(b, s))
    BY <2>1, <2>2 DEF Moves
  <2> QED
    BY <2>3 DEF b
<1>3. \A s : Moves(j, Issue(j, s))
  BY IssueMoves
<1>4. \A x : Moves(j, [j EXCEPT !.state = x])
  BY DEF Moves, Ticketed, Fresh
<1>5. \/ RestoreNext(j) = Issue([j EXCEPT !.restoreRemaining = 1], "SHELL_RESTORE")
      \/ RestoreNext(j) = Issue([j EXCEPT !.restoreRemaining = 0], "NATIVE_RESTORE")
      \/ RestoreNext(j) = Issue(j, "ABANDON")
      \/ RestoreNext(j) = [j EXCEPT !.state = "UNKNOWN"]
      \/ RestoreNext(j) = [j EXCEPT !.state = "ABORTED"]
  BY DEF RestoreNext
<1> QED
  BY <1>2, <1>3, <1>4, <1>5

LEMMA ReplyMoves ==
  ASSUME NEW j, Ticketed(j), NEW c, NEW result, NEW current, Reply(j, c, result, current)
  PROVE  Moves(j, joint')
<1> DEFINE a == Answered(j)
<1>1. /\ Ticketed(a) /\ a.pending = NoCommand /\ a.ticket = j.ticket
      /\ \A k : Moves(a, k) => Moves(j, k)
  BY DEF Answered, Ticketed, Fresh, Moves
<1>2. \A b : Ticketed(b) /\ b.pending = NoCommand /\ b.ticket = j.ticket =>
        Moves(j, b) /\ Moves(j, RestoreNext(b)) /\ \A s : Moves(j, Issue(b, s))
  <2>1. ASSUME NEW b, Ticketed(b), b.pending = NoCommand, b.ticket = j.ticket
        PROVE  Moves(j, b) /\ Moves(j, RestoreNext(b)) /\ \A s : Moves(j, Issue(b, s))
    <3>1. Moves(b, b) /\ Moves(b, RestoreNext(b)) /\ \A s : Moves(b, Issue(b, s))
      BY <2>1, IssueMoves, RestoreNextMoves DEF Moves
    <3> QED
      BY <2>1, <3>1 DEF Moves
  <2> QED
    BY <2>1
<1>3. \A x, y :
        LET b == [a EXCEPT !.restoreRemaining = x]
            d == [a EXCEPT !.restoreFailed = x]
            e == [a EXCEPT !.restoreRemaining = x, !.restoreFailed = y] IN
        /\ Ticketed(b) /\ b.pending = NoCommand /\ b.ticket = j.ticket
        /\ Ticketed(d) /\ d.pending = NoCommand /\ d.ticket = j.ticket
        /\ Ticketed(e) /\ e.pending = NoCommand /\ e.ticket = j.ticket
  BY <1>1 DEF Ticketed, Fresh
<1>4. \A x : LET b == [a EXCEPT !.state = x]
                 d == [a EXCEPT !.awaitingConfirmation = x] IN
        Moves(j, b) /\ Moves(j, d)
  BY <1>1 DEF Moves, Ticketed, Fresh
<1>5. CASE ReplyUnresolved(j, result, current)
  BY <1>5 DEF ReplyUnresolved, Moves, Ticketed, Fresh
<1> HIDE DEF a
<1>6. CASE ReplyRestore(j, result)
  BY <1>2, <1>3, <1>6 DEF ReplyRestore, a
<1>7. CASE ReplyFailed(j, result)
  BY <1>1, <1>2, <1>4, <1>7 DEF ReplyFailed, a
<1>8. CASE ReplyBase(j, result, current)
  BY <1>1, <1>2, <1>4, <1>8 DEF ReplyBase, a
<1>9. CASE ReplyAdvance(j, result)
  BY <1>1, <1>2, <1>9 DEF ReplyAdvance, a
<1>10. CASE ReplyShellVerify(j, result)
  BY <1>1, <1>2, <1>4, <1>10 DEF ReplyShellVerify, a
<1>11. CASE ReplyResolve(j, result, current)
  BY <1>1, <1>2, <1>3, <1>4, <1>11 DEF ReplyResolve, a
<1>12. CASE ReplyFinish(j, result)
  BY <1>1, <1>4, <1>12 DEF ReplyFinish, a
<1> QED
  BY <1>5, <1>6, <1>7, <1>8, <1>9, <1>10, <1>11, <1>12 DEF Reply

-----------------------------------------------------------------------------
(* What others do leaves a session as it is: they answer no command of the  *)
(* store or the Shell while it talks.                                       *)
Leaves(s) ==
  /\ Moves(joint, joint')
  /\ recovering => recovering'
  /\ \/ joint'.pending = joint.pending \/ joint.pending = NoCommand
     \/ joint.pending.target = "NATIVE"
     \/ host[s].at \notin Talking

Like(h, g) == h.at = g.at /\ h.seen = g.seen /\ h.part = g.part /\ h.receipt = g.receipt

LEMMA SessionLeft ==
  ASSUME NEW s \in Shells, Ticketed(joint), PastInv, SessionInv(s), Leaves(s),
         Like(host'[s], host[s]), worker'[s] = worker[s],
         \A t \in Nat : Did(s, t)' <=> Did(s, t)
  PROVE  SessionInv(s)'
<1>1. joint.ticket \in Nat /\ joint'.ticket \in Nat /\ joint'.ticket \in {joint.ticket, joint.ticket + 1}
  BY DEF Leaves, Moves, Ticketed
<1>2. \A t \in Nat : Did(s, t) => t <= joint.ticket
  BY DEF PastInv
<1>3. /\ joint'.pending # NoCommand => joint'.pending.ticket = joint'.ticket
      /\ joint.pending # NoCommand => joint.pending.ticket = joint.ticket
      /\ joint'.ticket = joint.ticket => joint'.pending \in {joint.pending, NoCommand}
  BY <1>1 DEF Leaves, Moves, Ticketed
<1>4. \A c : Acked(s, c) => Acked(s, c)'
  BY DEF Like, Acked, Known, Kept
<1>17. Did(s, joint.ticket)' <=> Did(s, joint'.ticket)
  BY <1>1 DEF Did
<1>5. host[s].at \in Talking => SeenInv(s)'
  <2> SUFFICES ASSUME host[s].at \in Talking PROVE SeenInv(s)'
    OBVIOUS
  <2>0. PICK c : c = host[s].seen.command
    OBVIOUS
  <2>1. SeenInv(s)
    BY DEF SessionInv
  <2>2. joint'.pending # NoCommand /\ Did(s, joint'.ticket) => c = joint'.pending
    BY <1>1, <1>2, <1>3, <2>0, <2>1 DEF SeenInv
  <2>3. ASSUME c # NoCommand
        PROVE  /\ c.ticket \in 0 .. joint'.ticket
               /\ joint'.pending # NoCommand /\ c.ticket = joint'.ticket => c = joint'.pending
    BY <1>1, <1>3, <2>0, <2>1, <2>3 DEF SeenInv
  <2>4. ASSUME c # NoCommand, c # joint'.pending \/ Did(s, c.ticket)
        PROVE  Acked(s, c)
    <3>1. CASE c = joint.pending /\ ~Did(s, c.ticket)
      <4>1. c.target = "NATIVE"
        BY <2>4, <3>1 DEF Leaves
      <4> QED
        BY <4>1 DEF Acked
    <3> QED
      BY <2>0, <2>1, <2>4, <3>1 DEF SeenInv
  <2>5. c # NoCommand => (Did(s, c.ticket)' <=> Did(s, c.ticket))
    BY <1>1, <2>0, <2>1 DEF SeenInv
  <2>6. host'[s].seen = host[s].seen
    BY DEF Like
  <2>7. \A t \in Nat : Did(s, t)' <=> Did(s, t)
    OBVIOUS
  <2>8. c = host'[s].seen.command /\ host'[s].seen.state = host[s].seen.state
    BY <2>0, <2>6
  <2>9. /\ host[s].seen.state \in Over => c = NoCommand
        /\ c # NoCommand => \A t \in Nat : Did(s, t)' => t <= c.ticket
    BY <2>0, <2>1, <2>7 DEF SeenInv
  <2>10. joint'.pending # NoCommand /\ Did(s, joint.ticket)' => c = joint'.pending
    BY <1>17, <2>2
  <2>11. c # NoCommand /\ (c # joint'.pending \/ Did(s, c.ticket)') => Acked(s, c)'
    BY <1>4, <2>4, <2>5
  <2> QED
    BY <2>3, <2>8, <2>9, <2>10, <2>11 DEF SeenInv
<1>6. worker[s].status \in Busy => WorkInv(s)'
  <2> SUFFICES ASSUME worker[s].status \in Busy PROVE WorkInv(s)'
    OBVIOUS
  <2>1. WorkInv(s)
    BY DEF SessionInv
  <2>2. host[s].at = "poll" => worker[s].command = joint'.pending
    BY <2>1 DEF WorkInv, Leaves, Talking
  <2> QED
    BY <1>1, <2>1, <2>2 DEF WorkInv, Like
<1>7. host[s].at \in Between /\ joint'.pending # NoCommand => ~Did(s, joint'.ticket)
  BY <1>1, <1>2, <1>3 DEF SessionInv
<1>8. host[s].at = "gtk" /\ Known(s, host[s].seen.command) => Known(s, host[s].seen.command)'
  BY DEF Like, Known
<1>9. ASSUME host[s].at = "gtk", host[s].seen.command.operation \in Writes
      PROVE  ~Did(s, host[s].seen.command.ticket)'
  <2>0. host'[s].seen = host[s].seen
    BY DEF Like
  <2>1. SeenInv(s) /\ host[s].seen.command # NoCommand /\ ~Did(s, host[s].seen.command.ticket)
    BY <1>9 DEF SessionInv, Talking
  <2>2. host[s].seen.command.ticket \in Nat
    BY <1>1, <2>1 DEF SeenInv
  <2> QED
    BY <2>0, <2>1, <2>2 DEF Did
<1>10. Like(host'[s], host[s]) /\ worker'[s] = worker[s]
  OBVIOUS
<1>11. \A t \in Nat : Did(s, t)' <=> Did(s, t)
  OBVIOUS
<1>12. /\ DOMAIN host[s].part = DOMAIN Unprepared(0)
       /\ host[s].at = "recovering" => recovering' \/ \A t \in Nat : ~Did(s, t)'
       /\ host[s].at \in {"lease", "bind", "boot"} => \A t \in Nat : ~Did(s, t)'
  BY <1>11 DEF SessionInv, Leaves
<1>13. host[s].at \in {"gtk", "receipt"} =>
         host[s].receipt.command = host[s].seen.command /\ host[s].seen.command # NoCommand
  BY DEF SessionInv
<1>14. host[s].at = "gtk" =>
         /\ host[s].seen.command.target = "SHELL"
         /\ host[s].seen.command.operation \in Writes => Known(s, host[s].seen.command)'
  BY <1>8 DEF SessionInv
<1>15. host[s].at = "receipt" => Acked(s, host[s].seen.command)'
  BY <1>4 DEF SessionInv, Like
<1>16. host[s].at \in Between /\ joint'.pending # NoCommand => ~Did(s, joint.ticket)'
  BY <1>7, <1>17
<1> QED
  BY <1>5, <1>6, <1>9, <1>10, <1>12, <1>13, <1>14, <1>15, <1>16 DEF SessionInv, Like

(* Only the session of s makes this step, and no command is carried out.    *)
Alone(s) ==
  /\ \A t \in Shells \ {s} : Like(host'[t], host[t]) /\ worker'[t] = worker[t]
  /\ ran' = ran /\ repeated' = repeated
  /\ recovering => recovering'

LEMMA OthersLeft ==
  ASSUME NEW s \in Shells, TwiceInv, Alone(s), \A t \in Shells \ {s} : Leaves(t),
         Moves(joint, joint'), SessionInv(s)'
  PROVE  TwiceInv'
<1>1. ASSUME NEW t \in Shells \ {s} PROVE SessionInv(t)'
  BY <1>1, SessionLeft DEF TwiceInv, Alone, Did
<1>2. Ticketed(joint)' /\ joint'.ticket \in Nat /\ joint.ticket \in Nat /\ joint'.ticket \in {joint.ticket, joint.ticket + 1}
  BY DEF TwiceInv, Moves, Ticketed
<1>3. PastInv'
  BY <1>2 DEF TwiceInv, PastInv, Alone, Did
<1>4. ~repeated'
  BY DEF TwiceInv, Alone
<1> QED
  BY <1>1, <1>2, <1>3, <1>4 DEF TwiceInv

(* It carries out one for the first time.                                   *)
Carries(s, n) ==
  /\ n \in 0 .. joint.ticket
  /\ \/ UNCHANGED <<ran, repeated>>
     \/ ~Did(s, n) /\ ran' = ran \cup {<<s, n>>} /\ (repeated' <=> repeated \/ Did(s, n))

LEMMA CarriedOnce ==
  ASSUME NEW s \in Shells, TwiceInv, NEW n, Carries(s, n), joint' = joint, recovering' = recovering,
         \A t \in Shells \ {s} : Like(host'[t], host[t]) /\ worker'[t] = worker[t],
         SessionInv(s)'
  PROVE  TwiceInv'
<1>1. joint.ticket \in Nat /\ Ticketed(joint) /\ PastInv
  BY DEF TwiceInv, Ticketed
<1>2. ASSUME NEW t \in Shells \ {s} PROVE SessionInv(t)'
  <2>1. \A m \in Nat : Did(t, m)' <=> Did(t, m)
    BY DEF Carries, Did
  <2>2. Leaves(t)
    BY <1>1 DEF Leaves, Moves
  <2> QED
    BY <1>1, <2>1, <2>2, SessionLeft DEF TwiceInv
<1>3. PastInv' /\ ~repeated'
  BY <1>1 DEF TwiceInv, PastInv, Carries, Did
<1> QED
  BY <1>1, <1>2, <1>3 DEF TwiceInv

LEMMA Steady ==
  ASSUME NEW s \in Shells, TwiceInv, Alone(s), joint' = joint, SessionInv(s)'
  PROVE  TwiceInv'
<1>1. Moves(joint, joint')
  BY DEF TwiceInv, Moves, Ticketed
<1>2. \A t \in Shells \ {s} : Leaves(t)
  BY <1>1 DEF Leaves, Alone
<1> QED
  BY <1>1, <1>2, OthersLeft

(* The places of a session at which nothing is said of what it has seen.    *)
LEMMA Rests ==
  ASSUME NEW s \in Shells, TwiceInv, Alone(s), joint' = joint,
         DOMAIN host'[s].part = DOMAIN Unprepared(0),
         worker'[s] = worker[s] \/ worker'[s].status \notin Busy,
         \/ host'[s].at = "finally"
         \/ host'[s].at \in {"down", "attach"} /\ worker'[s].status \notin Busy
         \/ host'[s].at = "recovering" /\ recovering' /\ worker'[s].status \notin Busy
         \/ /\ host'[s].at \in {"lease", "bind", "boot"} \cup Between /\ worker'[s].status \notin Busy
            /\ host[s].at \in {"lease", "bind", "boot"}
         \/ host'[s].at = "lease" /\ host[s].at = "recovering" /\ ~recovering /\ worker'[s].status \notin Busy
         \/ host'[s].at \in Between /\ host[s].at \in Between /\ worker'[s].status \notin Busy
  PROVE  TwiceInv'
<1>1. joint.ticket \in Nat /\ \A t \in Nat : Did(s, t)' <=> Did(s, t)
  BY DEF TwiceInv, Ticketed, Alone, Did
<1>2. worker'[s].status \in Busy => WorkInv(s)'
  <2> SUFFICES ASSUME worker'[s].status \in Busy PROVE WorkInv(s)'
    OBVIOUS
  <2>1. WorkInv(s) /\ worker'[s] = worker[s] /\ host'[s].at = "finally"
    BY DEF TwiceInv, SessionInv
  <2> QED
    BY <1>1, <2>1 DEF WorkInv
<1>3. SessionInv(s)
  BY DEF TwiceInv
<1>4. host'[s].at = "recovering" => recovering'
  BY DEF Between
<1>5. host'[s].at \in {"lease", "bind", "boot"} => \A t \in Nat : ~Did(s, t)
  BY <1>3 DEF SessionInv, Between
<1>6. host'[s].at \in Between /\ joint.pending # NoCommand => ~Did(s, joint.ticket)
  BY <1>1, <1>3 DEF SessionInv, Between
<1>7. host'[s].at \notin Talking /\ host'[s].at \notin {"gtk", "receipt"}
  BY DEF Between, Talking
<1>8. Did(s, joint.ticket)' <=> Did(s, joint.ticket)
  BY DEF Did, Alone
<1>9. SessionInv(s)'
  BY <1>1, <1>2, <1>4, <1>5, <1>6, <1>7, <1>8 DEF SessionInv
<1> QED
  BY <1>9, Steady

LEMMA AllLeft ==
  ASSUME TwiceInv, Moves(joint, joint'), UNCHANGED <<host, worker, ran, repeated, recovering>>,
         \/ joint'.pending = joint.pending \/ joint.pending = NoCommand
         \/ joint.pending.target = "NATIVE"
  PROVE  TwiceInv'
<1>1. ASSUME NEW s \in Shells PROVE SessionInv(s)'
  <2>1. Leaves(s) /\ Like(host'[s], host[s])
    BY DEF Leaves, Like
  <2> QED
    BY <2>1, SessionLeft DEF TwiceInv, Did
<1>2. Ticketed(joint)' /\ joint'.ticket \in Nat /\ joint.ticket \in Nat /\ joint'.ticket \in {joint.ticket, joint.ticket + 1}
  BY DEF TwiceInv, Moves, Ticketed
<1>3. PastInv'
  BY <1>2 DEF TwiceInv, PastInv, Did
<1> QED
  BY <1>1, <1>2, <1>3 DEF TwiceInv

LEMMA CoordinatorTwice ==
  ASSUME TwiceInv, \/ \E r \in flying : Arrives(r)
                   \/ \E keep \in BOOLEAN : Decision(keep)
                   \/ NativeReply \/ NativeTimeout
  PROVE  TwiceInv'
<1> USE DEF world, past
<1>0. Ticketed(joint)
  BY DEF TwiceInv
<1>1. ASSUME NEW r \in flying, Arrives(r) PROVE TwiceInv'
  <2>1. Moves(joint, joint') /\ (joint' = joint \/ joint.pending = NoCommand)
    <3>1. CASE joint' = joint
      BY <1>0, <3>1 DEF Moves
    <3>2. CASE Start(r)
      <4> DEFINE b == [joint EXCEPT !.request = r,
                                  !.requireConfirmation = FALSE, !.awaitingConfirmation = FALSE,
                                  !.touched = 0, !.restoreRemaining = 0, !.prepared = FALSE,
                                  !.publishAttempted = FALSE, !.restoreFailed = FALSE]
      <4>1. joint.pending = NoCommand
        BY <1>0, <3>2 DEF Start, Accepts, Ticketed
      <4>2. Ticketed(b) /\ b.pending = NoCommand /\ b.ticket = joint.ticket
        BY <1>0, <4>1 DEF Ticketed, Fresh
      <4>3. joint' = Issue(b, "BASE")
        BY <3>2 DEF Start
      <4> HIDE DEF b
      <4>4. Moves(b, joint')
        BY <4>2, <4>3, IssueMoves
      <4> QED
        BY <4>1, <4>2, <4>4 DEF Moves
    <3> QED
      BY <1>1, <3>1, <3>2 DEF Arrives
  <2> QED
    BY <1>1, <2>1, AllLeft DEF Arrives
<1>2. ASSUME NEW keep \in BOOLEAN, Decision(keep) PROVE TwiceInv'
  <2> DEFINE b == [joint EXCEPT !.awaitingConfirmation = FALSE]
  <2>1. joint.pending = NoCommand /\ \E s : joint' = Issue(b, s)
    BY <1>2 DEF Decision, Decide, Decided
  <2>2. Ticketed(b) /\ b.pending = NoCommand /\ b.ticket = joint.ticket
    BY <1>0, <2>1 DEF Ticketed, Fresh
  <2> HIDE DEF b
  <2>3. Moves(b, joint')
    BY <2>1, <2>2, IssueMoves
  <2>4. Moves(joint, joint')
    BY <2>1, <2>2, <2>3 DEF Moves
  <2> QED
    BY <1>2, <2>1, <2>4, AllLeft DEF Decision
<1>3. ASSUME NativeReply PROVE TwiceInv'
  <2>1. PICK j, c, result : /\ Reply(j, c, result, Malformed)
                            /\ j \in {joint, RequireConfirmation(joint)}
    <3>1. \/ \E asks \in BOOLEAN : Reply(IF asks THEN RequireConfirmation(joint) ELSE joint, joint.pending, "OK", Malformed)
          \/ Reply(joint, joint.pending, "FAILED", Malformed)
      BY <1>3 DEF NativeReply
    <3> QED
      BY <3>1
  <2>2. Ticketed(j) /\ j.pending = joint.pending /\ j.ticket = joint.ticket
    BY <1>0, <2>1 DEF RequireConfirmation, Ticketed, Fresh
  <2>3. Moves(j, joint')
    BY <2>1, <2>2, ReplyMoves
  <2>4. Moves(joint, joint')
    BY <2>2, <2>3 DEF Moves
  <2> QED
    BY <1>3, <2>4, AllLeft DEF NativeReply
<1>4. ASSUME NativeTimeout PROVE TwiceInv'
  <2>1. Moves(joint, joint') /\ joint'.pending = joint.pending
    BY <1>0, <1>4 DEF NativeTimeout, Timeout, TimedOut, Moves, Ticketed, Fresh
  <2> QED
    BY <1>4, <2>1, AllLeft DEF NativeTimeout
<1> QED
  BY <1>1, <1>2, <1>3, <1>4

LEMMA RecoveredTwice ==
  ASSUME IInv, TwiceInv, NativeRecovered
  PROVE  TwiceInv'
<1>1. lease = Native /\ ran' = {} /\ UNCHANGED <<host, worker, repeated>>
  BY DEF NativeRecovered, IInv
<1>2. PICK e : joint' = Fresh(e)
  BY DEF NativeRecovered
<1>3. Ticketed(joint)'
  BY <1>2 DEF Ticketed, Fresh
<1>4. PastInv'
  BY <1>1 DEF PastInv, Did
<1>5. ASSUME NEW s \in Shells PROVE SessionInv(s)'
  <2>1. host[s].at \notin Serving /\ worker[s].status \notin Busy
    BY <1>1, OwnerAssumption DEF IInv, LeaseInv
  <2>2. \A t \in Nat : ~Did(s, t)'
    BY <1>1 DEF Did
  <2> QED
    BY <1>1, <2>1, <2>2 DEF TwiceInv, SessionInv, Serving, Between, Talking
<1> QED
  BY <1>1, <1>3, <1>4, <1>5 DEF TwiceInv

(* The steps of a session that are no part of the talk.                     *)
LEMMA RestTwice ==
  ASSUME IInv, TwiceInv, NEW s \in Shells,
         \/ Launch(s) \/ Kill(s) \/ Attach(s) \/ Recovered(s) \/ Lease(s) \/ Bind(s) \/ Boot(s)
         \/ Lost(s) \/ Dequeue(s) \/ Look(s) \/ Record(s) \/ Send(s) \/ Abandons(s) \/ End(s) \/ Stop(s)
  PROVE  TwiceInv'
<1> USE DEF world, past, Fault, Step, Ends
<1>1. /\ DOMAIN host = Shells /\ DOMAIN worker = Shells /\ DOMAIN host[s] = DOMAIN Started
      /\ DOMAIN worker[s] = DOMAIN Idle
  BY DEF IInv, Shape
<1>2. SessionInv(s) /\ DOMAIN host[s].part = DOMAIN Unprepared(0)
  BY DEF TwiceInv, SessionInv
<1>3. worker[s].status \in Busy => host[s].at \in {"poll", "finally"}
  BY <1>2 DEF SessionInv, WorkInv
<1>4. \A g : DOMAIN Unprepared(g) = DOMAIN Unprepared(0)
  BY DEF Unprepared
<1>5. CASE Launch(s)
  BY <1>1, <1>2, <1>3, <1>4, <1>5, Rests DEF Launch, Started, Alone, Like
<1>6. CASE Kill(s)
  BY <1>1, <1>2, <1>3, <1>4, <1>6, Rests DEF Kill, Down, Started, Idle, Busy, Alone, Like
<1>7. CASE Attach(s)
  BY <1>1, <1>2, <1>3, <1>7, Rests DEF Attach, Started, Alone, Like
<1>8. CASE Recovered(s)
  BY <1>1, <1>2, <1>3, <1>8, Rests DEF Recovered, Started, Alone, Like
<1>9. CASE Lease(s)
  BY <1>1, <1>2, <1>3, <1>9, Rests DEF Lease, Started, Alone, Like
<1>10. CASE Boot(s)
  BY <1>1, <1>2, <1>3, <1>10, Rests DEF Boot, Told, Started, Alone, Like, Between
<1>11. CASE Lost(s)
  BY <1>1, <1>2, <1>3, <1>11, Rests DEF Lost, Started, Alone, Like
<1>12. CASE Dequeue(s)
  BY <1>1, <1>2, <1>3, <1>12, Rests DEF Dequeue, Started, Alone, Like, Between
<1>13. CASE Look(s)
  BY <1>1, <1>2, <1>3, <1>13, Rests DEF Look, Answer, Told, Started, Alone, Like, Between
<1>14. CASE Record(s)
  BY <1>1, <1>2, <1>3, <1>14, Rests DEF Record, Started, Idle, Busy, Alone, Like, Between
<1>15. CASE Send(s)
  BY <1>1, <1>2, <1>3, <1>15, Rests DEF Send, Started, Alone, Like, Between
<1>16. CASE Abandons(s)
  BY <1>1, <1>2, <1>3, <1>16, Rests DEF Abandons, Started, Alone, Like
<1>17. CASE End(s)
  BY <1>1, <1>2, <1>3, <1>4, <1>17, Rests DEF End, Finally, Down, Started, Idle, Busy, Alone, Like
<1>18. CASE Stop(s)
  BY <1>1, <1>2, <1>3, <1>18, Rests DEF Stop, Started, Alone, Like
<1>19. CASE Bind(s)
  <2>1. host[s].at = "bind" /\ UNCHANGED <<joint, ran, repeated, recovering, worker>>
    BY <1>19 DEF Bind
  <2>2. PICK h : h.at \in {"boot", "finally"} /\ DOMAIN h.part = DOMAIN Unprepared(0) /\ host' = [host EXCEPT ![s] = h]
    <3>1. CASE Attached(s)
      <4> DEFINE known == IF host[s].last = Nobody /\ disk.journal # Nobody
                          THEN [host[s] EXCEPT !.last = disk.journal.ask, !.answer = "unknown"] ELSE host[s]
                 part == Unprepared(disk.completed)
                 bound == [known EXCEPT !.at = "boot", !.sequence = host[s].seen.sequence, !.seen = Nobody,
                                        !.part = part]
      <4>1. DOMAIN known = DOMAIN Started
        BY <1>1
      <4>2. host' = [host EXCEPT ![s] = bound]
        BY <1>19, <3>1 DEF Bind
      <4>3. DOMAIN part = DOMAIN Unprepared(0)
        BY <1>4
      <4> HIDE DEF known, part
      <4>4. bound.at = "boot" /\ bound.part = part
        BY <4>1 DEF Started
      <4> QED
        BY <4>2, <4>3, <4>4
    <3>2. CASE ~Attached(s)
      <4> DEFINE h == [host[s] EXCEPT !.at = "finally"]
      <4>1. h.at = "finally" /\ h.part = host[s].part
        BY <1>1 DEF Started
      <4>2. host' = [host EXCEPT ![s] = h]
        BY <1>19, <3>2 DEF Bind
      <4> QED
        BY <1>2, <4>1, <4>2
    <3> QED
      BY <3>1, <3>2
  <2> QED
    BY <1>1, <1>3, <2>1, <2>2, Rests DEF Alone, Like
<1> QED
  BY <1>5, <1>6, <1>7, <1>8, <1>9, <1>10, <1>11, <1>12, <1>13, <1>14, <1>15, <1>16, <1>17, <1>18, <1>19

(* What the session sees when it looks at the coordinator as it is now.     *)
LEMMA SeesNow ==
  ASSUME NEW s \in Shells, Ticketed(joint)', PastInv', host'[s].seen = View',
         joint'.pending # NoCommand /\ Did(s, joint.ticket)' => Acked(s, joint.pending)'
  PROVE  SeenInv(s)'
<1>1. View'.state = joint'.state /\ View'.command = joint'.pending
  BY DEF View
<1>2. joint'.pending # NoCommand => joint'.pending.ticket = joint'.ticket /\ joint'.state \in {"RUNNING", "UNKNOWN"}
  BY DEF Ticketed
<1>3. joint'.ticket \in Nat /\ \A t \in Nat : Did(s, t)' => t <= joint'.ticket
  BY DEF Ticketed, PastInv
<1>4. joint'.ticket \in 0 .. joint'.ticket
  BY <1>3
<1>5. host'[s].seen.state = joint'.state /\ host'[s].seen.command = joint'.pending
  BY <1>1
<1>6. joint'.pending # NoCommand => (Did(s, joint.pending.ticket)' <=> Did(s, joint.ticket)')
  BY <1>2 DEF Did
<1> QED
  BY <1>2, <1>3, <1>4, <1>5, <1>6 DEF SeenInv, Over, Did

LEMMA ViewTwice ==
  ASSUME IInv, TwiceInv, NEW s \in Shells, Sent(s) \/ Status(s) \/ Finish(s) \/ Close(s)
  PROVE  TwiceInv'
<1> USE DEF world, past, Fault, Ends
<1>1. /\ DOMAIN host = Shells /\ DOMAIN worker = Shells /\ DOMAIN host[s] = DOMAIN Started
      /\ DOMAIN worker[s] = DOMAIN Idle
  BY DEF IInv, Shape
<1>2. SessionInv(s) /\ DOMAIN host[s].part = DOMAIN Unprepared(0)
  BY DEF TwiceInv, SessionInv
<1>3. worker[s].status \in Busy => WorkInv(s)
  BY <1>2 DEF SessionInv
<1>4. joint.ticket \in Nat /\ Ticketed(joint) /\ PastInv
  BY DEF TwiceInv, Ticketed
<1>5. CASE Sent(s)
  <2>1. /\ host[s].at = "sent" /\ host'[s].at = "poll" /\ host'[s].part = host[s].part
        /\ host'[s].seen = View /\ View' = View
        /\ UNCHANGED <<joint, ran, repeated, recovering, worker>> /\ Alone(s)
    BY <1>1, <1>5 DEF Sent, Started, Alone, Like, View
  <2>2. joint.pending # NoCommand => ~Did(s, joint.ticket)
    BY <1>2, <2>1 DEF SessionInv, Between
  <2>3. Ticketed(joint)' /\ PastInv' /\ (Did(s, joint.ticket)' <=> Did(s, joint.ticket))
    BY <1>4, <2>1 DEF PastInv, Did
  <2>4. SeenInv(s)'
    BY <2>1, <2>2, <2>3, SeesNow
  <2>5. worker'[s].status \notin Busy
    BY <1>3, <2>1 DEF WorkInv
  <2>6. SessionInv(s)'
    BY <1>2, <2>1, <2>4, <2>5 DEF SessionInv, Between, Talking
  <2> QED
    BY <2>1, <2>6, Steady
<1>6. CASE Status(s)
  <2>1. /\ host[s].at = "poll" /\ host'[s].at = "poll" /\ host'[s].part = host[s].part
        /\ host'[s].seen = View /\ View' = View
        /\ UNCHANGED <<joint, ran, repeated, recovering, worker>> /\ Alone(s)
    BY <1>1, <1>6 DEF Status, Polls, Started, Alone, Like, View
  <2>2. joint.pending # NoCommand /\ Did(s, joint.ticket) => Acked(s, joint.pending)
    BY <1>2, <1>4, <2>1 DEF SessionInv, SeenInv, Talking, Ticketed
  <2>3. Ticketed(joint)' /\ PastInv' /\ (Did(s, joint.ticket)' <=> Did(s, joint.ticket))
    BY <1>4, <2>1 DEF PastInv, Did
  <2>4. Acked(s, joint.pending) => Acked(s, joint.pending)'
    BY <2>1 DEF Acked, Known, Kept
  <2>5. SeenInv(s)'
    BY <2>1, <2>2, <2>3, <2>4, SeesNow
  <2>6. worker'[s].status \in Busy => WorkInv(s)'
    BY <1>3, <2>1 DEF WorkInv, View, Did
  <2>7. SessionInv(s)'
    BY <1>2, <2>1, <2>5, <2>6 DEF SessionInv, Between, Talking
  <2> QED
    BY <2>1, <2>7, Steady
<1>7. CASE Finish(s)
  <2>1. host[s].at = "poll" /\ host[s].seen.state \in Over
    BY <1>7 DEF Finish, Polls, Over
  <2>2. SeenInv(s)
    BY <1>2, <2>1 DEF SessionInv, Talking
  <2>3. worker[s].status \notin Busy
    BY <1>3, <2>1, <2>2 DEF SeenInv, WorkInv
  <2>4. /\ UNCHANGED <<joint, ran, repeated, recovering>> /\ Alone(s)
        /\ host'[s].part = host[s].part /\ host'[s].at \in {"idle", "finally"}
        /\ worker'[s].status = worker[s].status
    BY <1>1, <1>7 DEF Finish, Answer, Told, Started, Idle, Alone, Like
  <2>5. joint.pending # NoCommand => ~Did(s, joint.ticket)
    BY <2>1, <2>2 DEF SeenInv
  <2>6. joint'.pending # NoCommand => ~Did(s, joint.ticket)'
    BY <2>4, <2>5 DEF Did
  <2>7. SessionInv(s)'
    BY <1>2, <2>3, <2>4, <2>6 DEF SessionInv, Between, Talking
  <2> QED
    BY <2>4, <2>7, Steady
<1>8. CASE Close(s)
  <2>1. /\ UNCHANGED <<joint, ran, repeated, recovering, worker>> /\ Alone(s)
        /\ Like(host'[s], host[s])
    BY <1>1, <1>8 DEF Close, Started, Alone, Like
  <2>2. Leaves(s)
    BY <1>4, <2>1 DEF Leaves, Moves
  <2>3. SessionInv(s)'
    BY <1>2, <1>4, <2>1, <2>2, SessionLeft DEF Did
  <2> QED
    BY <2>1, <2>3, Steady
<1> QED
  BY <1>5, <1>6, <1>7, <1>8

(* The worker: it carries out what it was given, once.                      *)
LEMMA WorkerTwice ==
  ASSUME IInv, TwiceInv, NEW s \in Shells, Store(s) \/ Work(s) \/ Worked(s)
  PROVE  TwiceInv'
<1> USE DEF world, past, Fault, Ends
<1>1. /\ DOMAIN host = Shells /\ DOMAIN worker = Shells /\ DOMAIN host[s] = DOMAIN Started
      /\ DOMAIN worker[s] = DOMAIN Idle
  BY DEF IInv, Shape
<1>2. SessionInv(s) /\ DOMAIN host[s].part = DOMAIN Unprepared(0)
  BY DEF TwiceInv, SessionInv
<1>3. worker[s].status \in Busy => WorkInv(s)
  BY <1>2 DEF SessionInv
<1>4. joint.ticket \in Nat /\ Ticketed(joint) /\ PastInv
  BY DEF TwiceInv, Ticketed
<1>5. CASE Store(s)
  <2>0. PICK c : c = host[s].seen.command
    OBVIOUS
  <2>1. /\ host[s].at = "poll" /\ c # NoCommand /\ c.target = "STORE" /\ Submits(s, c)
        /\ UNCHANGED <<joint, ran, repeated, recovering>>
    BY <1>5, <2>0 DEF Store, Polls
  <2>2. SeenInv(s) /\ c.ticket \in Nat /\ c.ticket \in 0 .. joint.ticket
    BY <1>2, <1>4, <2>0, <2>1 DEF SessionInv, SeenInv, Talking
  <2>3. \A t \in Nat : Did(s, t)' <=> Did(s, t)
    BY <2>1 DEF Did
  <2>4. CASE worker[s].command = c /\ Ended(s)
    <3>1. /\ host'[s].at = "receipt" /\ host'[s].receipt.command = c /\ host'[s].part = host[s].part
          /\ host'[s].seen = host[s].seen /\ worker' = worker /\ Alone(s)
      BY <1>1, <2>1, <2>4 DEF Submits, Started, Alone, Like
    <3>2. Acked(s, c)'
      BY <2>1, <2>4, <3>1 DEF Acked
    <3>3. SeenInv(s)'
      BY <1>4, <2>0, <2>1, <2>2, <3>1, <3>2 DEF SeenInv, Did
    <3>4. worker'[s].status \notin Busy
      BY <2>4, <3>1 DEF Ended, Busy
    <3>5. SessionInv(s)'
      BY <1>2, <2>0, <2>1, <3>1, <3>2, <3>3, <3>4 DEF SessionInv, Between
    <3> QED
      BY <2>1, <3>1, <3>5, Steady
  <2>5. CASE worker[s].command = c /\ ~Ended(s)
    <3>1. UNCHANGED <<host, worker>>
      BY <2>1, <2>5 DEF Submits
    <3> QED
      BY <1>4, <2>1, <3>1, AllLeft DEF Moves
  <2>6. CASE worker[s].command # c /\ worker[s].status \in {"queued", "running"}
    <3>1. /\ host'[s].at = "finally" /\ host'[s].part = host[s].part /\ worker' = worker /\ Alone(s)
      BY <1>1, <2>1, <2>6 DEF Submits, Started, Alone, Like
    <3> QED
      BY <1>2, <2>1, <3>1, Rests
  <2>7. CASE worker[s].command # c /\ worker[s].status \notin {"queued", "running"}
    <3>1. /\ host' = host /\ worker'[s].command = c /\ Alone(s)
      BY <1>1, <2>1, <2>7 DEF Submits, Started, Idle, Alone, Like
    <3>2. c = joint.pending /\ ~Did(s, c.ticket)
      BY <2>0, <2>1, <2>2, <2>7 DEF SeenInv, Acked
    <3>3. ~Did(s, c.ticket)'
      BY <2>1, <3>2 DEF Did
    <3>4. WorkInv(s)'
      BY <2>0, <2>1, <2>2, <3>1, <3>2, <3>3 DEF WorkInv
    <3>5. SeenInv(s)'
      BY <1>4, <2>0, <2>1, <2>2, <3>1, <3>2, <3>3 DEF SeenInv, Did
    <3>6. SessionInv(s)'
      BY <1>2, <2>1, <3>1, <3>4, <3>5 DEF SessionInv, Between
    <3> QED
      BY <2>1, <3>1, <3>6, Steady
  <2> QED
    BY <2>4, <2>5, <2>6, <2>7
<1>6. CASE Work(s)
  <2>1. /\ UNCHANGED <<joint, ran, repeated, recovering, host>> /\ Alone(s)
        /\ worker[s].status \in Busy /\ worker'[s].command = worker[s].command
    BY <1>1, <1>6 DEF Work, Busy, Idle, Alone, Like
  <2>2. WorkInv(s)'
    BY <1>3, <2>1 DEF WorkInv, Did
  <2>3. \A c : Acked(s, c) => Acked(s, c)'
    BY <2>1 DEF Acked, Known, Kept
  <2>4. SeenInv(s) => SeenInv(s)'
    BY <2>1, <2>3 DEF SeenInv, Did
  <2>5. SessionInv(s)'
    BY <1>2, <1>3, <2>1, <2>2, <2>4 DEF SessionInv, WorkInv, Between, Talking
  <2> QED
    BY <2>1, <2>5, Steady
<1>7. CASE Worked(s)
  <2>0. PICK c : c = worker[s].command
    OBVIOUS
  <2>1. /\ UNCHANGED <<joint, recovering, host>> /\ worker[s].status \in Busy
        /\ worker'[s].command = c /\ worker'[s].status \in {"ok", "failed"}
        /\ \A t \in Shells \ {s} : worker'[t] = worker[t]
    BY <1>1, <1>7, <2>0 DEF Worked, Busy, Idle
  <2>2. WorkInv(s) /\ c # NoCommand /\ c.target = "STORE" /\ c.ticket \in 0 .. joint.ticket /\ ~Did(s, c.ticket)
    BY <1>3, <2>0, <2>1 DEF WorkInv
  <2>3. Carries(s, c.ticket)
    BY <1>7, <2>0, <2>2 DEF Worked, Carried, Carries, Did
  <2>4. host[s].at \in {"poll", "finally"} /\ (host[s].at = "poll" => c = joint.pending /\ c = host[s].seen.command)
    BY <2>0, <2>2 DEF WorkInv
  <2>5. ASSUME host[s].at = "poll" PROVE SeenInv(s)'
    <3>1. SeenInv(s) /\ c = host[s].seen.command /\ c = joint.pending /\ c.ticket = joint.ticket
      BY <1>2, <1>4, <2>2, <2>4, <2>5 DEF SessionInv, Talking, Ticketed
    <3>2. Acked(s, c)'
      BY <2>1, <2>2 DEF Acked
    <3>3. \A n \in Nat : Did(s, n)' => Did(s, n) \/ n = c.ticket
      BY <2>3 DEF Carries, Did
    <3> QED
      BY <1>4, <2>1, <2>2, <3>1, <3>2, <3>3 DEF SeenInv
  <2>6. SessionInv(s)'
    BY <1>2, <2>1, <2>4, <2>5 DEF SessionInv, Between, Talking, Busy
  <2>7. \A t \in Shells \ {s} : Like(host'[t], host[t]) /\ worker'[t] = worker[t]
    BY <2>1 DEF Like
  <2> QED
    BY <2>1, <2>3, <2>6, <2>7, CarriedOnce
<1> QED
  BY <1>5, <1>6, <1>7

(* The participant: a write that comes again is answered and not repeated.  *)
LEMMA ExecuteTwice ==
  ASSUME IInv, TwiceInv, NEW s \in Shells, Execute(s)
  PROVE  TwiceInv'
<1> USE DEF world, past
<1>1. /\ DOMAIN host = Shells /\ DOMAIN host[s] = DOMAIN Started
  BY DEF IInv, Shape
<1>2. SessionInv(s) /\ DOMAIN host[s].part = DOMAIN Unprepared(0)
  BY DEF TwiceInv, SessionInv
<1>3. joint.ticket \in Nat /\ Ticketed(joint) /\ PastInv
  BY DEF TwiceInv, Ticketed
<1>4. PICK c, p : c = host[s].seen.command /\ p = host[s].part
  OBVIOUS
<1> DEFINE begun == [Unprepared(p.confirmed) EXCEPT !.sequence = c.request.sequence]
           now == IF Known(s, c) THEN p ELSE begun
<1>5. /\ DOMAIN now = DOMAIN Unprepared(0)
      /\ Known(s, c) \/ now.sequence = c.request.sequence
      /\ Known(s, c) => now = p /\ now.sequence = c.request.sequence
  BY <1>2, <1>4 DEF Unprepared, Known
<1>6. /\ host[s].at = "poll" /\ c # NoCommand /\ c.target = "SHELL"
      /\ UNCHANGED <<joint, ran, repeated, recovering, worker>>
      /\ \/ Ends(s)
         \/ Kept(now, c) # Nobody /\ Receives(s, now, c, Kept(now, c))
         \/ /\ Kept(now, c) = Nobody
            /\ host' = [host EXCEPT ![s].at = "gtk", ![s].part = now,
                                    ![s].receipt = [command |-> c, result |-> "UNKNOWN", current |-> Malformed]]
  <2>1. host[s].at = "poll" /\ c # NoCommand /\ c.target = "SHELL"
    BY <1>4, Zenon DEF Execute, Polls
  <2>2. UNCHANGED <<joint, ran, repeated, recovering, worker>>
    BY Zenon DEF Execute
  <2> QED
    BY <1>4, <2>1, <2>2, Zenon DEF Execute
<1>7. SeenInv(s) /\ c.ticket \in Nat
  BY <1>2, <1>3, <1>4, <1>6 DEF SessionInv, SeenInv, Talking
<1>8. worker[s].status \notin Busy
  BY <1>2, <1>4, <1>6 DEF SessionInv, WorkInv
<1>9. ASSUME c.operation \in Writes, c # joint.pending \/ Did(s, c.ticket)
      PROVE  Kept(now, c) # Nobody
  BY <1>4, <1>5, <1>6, <1>7, <1>9 DEF SeenInv, Acked
<1> HIDE DEF now
<1>10. CASE Ends(s)
  <2>1. host'[s].at = "finally" /\ host'[s].part = p /\ Alone(s)
    BY <1>1, <1>4, <1>6, <1>10 DEF Ends, Started, Alone, Like
  <2> QED
    BY <1>2, <1>4, <1>6, <2>1, Rests
<1>11. CASE ~Ends(s)
  <2>1. /\ host'[s].at \in {"receipt", "gtk"} /\ host'[s].part = now /\ host'[s].receipt.command = c
        /\ host'[s].seen = host[s].seen /\ Alone(s)
        /\ host'[s].at = "receipt" => Kept(now, c) # Nobody
        /\ host'[s].at = "gtk" => Kept(now, c) = Nobody
    BY <1>1, <1>4, <1>6, <1>11 DEF Receives, Started, Alone, Like
  <2>2. Known(s, c)'
    BY <1>5, <2>1 DEF Known
  <2>3. Kept(host'[s].part, c) = Kept(now, c) /\ Kept(host[s].part, c)' = Kept(now, c)
    BY <2>1 DEF Kept
  <2>4. host'[s].at = "receipt" => Acked(s, c)'
    BY <1>6, <2>1, <2>2, <2>3 DEF Acked
  <2>5. c # joint.pending \/ Did(s, c.ticket) => Acked(s, c)'
    BY <1>6, <1>9, <2>2, <2>3 DEF Acked
  <2>6. SeenInv(s)'
    BY <1>3, <1>4, <1>6, <1>7, <2>1, <2>5 DEF SeenInv, Did
  <2>7. host'[s].at = "gtk" /\ c.operation \in Writes => ~Did(s, c.ticket)'
    BY <1>6, <1>9, <2>1 DEF Did
  <2>8. SessionInv(s)'
    BY <1>4, <1>5, <1>6, <1>8, <2>1, <2>2, <2>4, <2>6, <2>7 DEF SessionInv, Between
  <2> QED
    BY <1>6, <2>1, <2>8, Steady
<1> QED
  BY <1>10, <1>11

LEMMA ExecutedTwice ==
  ASSUME IInv, TwiceInv, NEW s \in Shells, Executed(s)
  PROVE  TwiceInv'
<1>1. /\ DOMAIN host = Shells /\ DOMAIN host[s] = DOMAIN Started
  BY DEF IInv, Shape
<1>2. SessionInv(s) /\ DOMAIN host[s].part = DOMAIN Unprepared(0)
  BY DEF TwiceInv, SessionInv
<1>3. joint.ticket \in Nat /\ Ticketed(joint) /\ PastInv
  BY DEF TwiceInv, Ticketed
<1>4. PICK c, p : c = host[s].receipt.command /\ p = host[s].part
  OBVIOUS
<1>5. /\ host[s].at = "gtk" /\ UNCHANGED <<joint, recovering, worker>>
      /\ IF c.operation \in Writes THEN Carried(s, c) ELSE UNCHANGED <<ran, repeated>>
  BY <1>4 DEF Executed, world, Writes
<1>6. /\ c = host[s].seen.command /\ c # NoCommand /\ c.target = "SHELL" /\ SeenInv(s)
      /\ c.operation \in Writes => Known(s, c) /\ ~Did(s, c.ticket)
  BY <1>2, <1>4, <1>5 DEF SessionInv, Talking
<1>7. c.ticket \in 0 .. joint.ticket
  BY <1>3, <1>6 DEF SeenInv
<1>8. PICK q, result : /\ Receives(s, q, c, result) /\ result \in {"OK", "FAILED"}
                       /\ DOMAIN q = DOMAIN p /\ q.sequence = p.sequence
                       /\ c.operation \in Writes => Kept(q, c) = result
  <2> DEFINE done(result) ==
        CASE c.operation = "PREPARE" -> [p EXCEPT !.prepare = result, !.candidate = IF result = "OK" THEN c.request.candidate ELSE @]
          [] c.operation = "APPLY"   -> [p EXCEPT !.apply = result]
          [] c.operation = "RESTORE" -> [p EXCEPT !.restore = [ticket |-> c.ticket, result |-> result]]
          [] c.operation = "CONFIRM" -> [p EXCEPT !.confirmed = IF result = "OK" THEN p.candidate ELSE @]
          [] OTHER                   -> p
  <2>1. \E result \in {"OK", "FAILED"} : Receives(s, done(result), c, result)
    BY <1>4, Zenon DEF Executed
  <2>2. \A result : DOMAIN done(result) = DOMAIN p /\ done(result).sequence = p.sequence
    BY <1>2, <1>4 DEF Unprepared
  <2>3. \A result : c.operation \in Writes => Kept(done(result), c) = result
    BY <1>2, <1>4 DEF Unprepared, Kept, Writes
  <2> HIDE DEF done
  <2> QED
    BY <2>1, <2>2, <2>3
<1>16. host' = [host EXCEPT ![s].at = "receipt", ![s].part = q,
                           ![s].receipt = [command |-> c, result |-> result, current |-> Malformed]]
  BY <1>8 DEF Receives
<1>17. UNCHANGED worker
  BY <1>5
<1>9. /\ host'[s].at = "receipt" /\ host'[s].part = q /\ host'[s].receipt.command = c
      /\ host'[s].seen = host[s].seen
      /\ \A t \in Shells \ {s} : Like(host'[t], host[t]) /\ worker'[t] = worker[t]
  BY <1>1, <1>16, <1>17 DEF Started, Like
<1>10. Acked(s, c)'
  <2>1. Kept(host[s].part, c)' = Kept(q, c)
    BY <1>9 DEF Kept
  <2>2. c.operation \in Writes => Known(s, c)'
    BY <1>4, <1>6, <1>8, <1>9 DEF Known
  <2> QED
    BY <1>6, <1>8, <2>1, <2>2, NobodyAssumption DEF Acked
<1>11. Carries(s, c.ticket)
  BY <1>5, <1>6, <1>7 DEF Carries, Carried, Did
<1>12. \A n \in Nat : Did(s, n)' => Did(s, n) \/ n = c.ticket
  BY <1>11 DEF Carries, Did
<1>13. SeenInv(s)'
  BY <1>3, <1>5, <1>6, <1>7, <1>9, <1>10, <1>12 DEF SeenInv
<1>14. worker'[s].status \notin Busy
  BY <1>2, <1>5 DEF SessionInv, WorkInv
<1>15. SessionInv(s)'
  BY <1>2, <1>4, <1>6, <1>8, <1>9, <1>10, <1>13, <1>14 DEF SessionInv, Between
<1> QED
  BY <1>5, <1>9, <1>11, <1>15, CarriedOnce

(* While a session talks no other does.                                     *)
LEMMA OthersSilent ==
  ASSUME IInv, NEW s \in Shells, host[s].at \in Serving, Moves(joint, joint'), Alone(s)
  PROVE  \A t \in Shells \ {s} : Leaves(t)
BY DEF IInv, LeaseInv, Serving, Talking, Leaves, Alone

LEMMA RecoverTwice ==
  ASSUME IInv, TwiceInv, NEW s \in Shells, AskRecover(s) \/ Receipt(s)
  PROVE  TwiceInv'
<1> USE DEF world, past, Fault
<1>1. /\ DOMAIN host = Shells /\ DOMAIN worker = Shells /\ DOMAIN host[s] = DOMAIN Started
  BY DEF IInv, Shape
<1>2. SessionInv(s) /\ DOMAIN host[s].part = DOMAIN Unprepared(0)
  BY DEF TwiceInv, SessionInv
<1>3. joint.ticket \in Nat /\ Ticketed(joint) /\ PastInv
  BY DEF TwiceInv, Ticketed
<1>4. PICK c : c = host[s].seen.command
  OBVIOUS
<1>5. CASE AskRecover(s)
  <2>1. /\ host[s].at = "poll" /\ c = NoCommand /\ joint.pending = NoCommand /\ \E x : joint' = Issue(joint, x)
        /\ UNCHANGED <<ran, repeated, recovering, worker>>
    BY <1>4, <1>5 DEF AskRecover, Polls, Recover
  <2>2. host'[s].seen = View' /\ host'[s].at = "poll" /\ host'[s].part = host[s].part /\ Alone(s)
    BY <1>1, <1>5, <2>1 DEF AskRecover, Started, Alone, Like
  <2>3. Moves(joint, joint')
    BY <1>3, <2>1, IssueMoves
  <2>4. Ticketed(joint') /\ joint'.ticket \in Nat /\ joint'.ticket \in {joint.ticket, joint.ticket + 1}
    BY <1>3, <2>3 DEF Moves, Ticketed
  <2>5. PastInv' /\ (joint'.pending # NoCommand => ~Did(s, joint.ticket)')
    BY <1>3, <2>1, <2>3, <2>4 DEF PastInv, Moves, Did
  <2>6. SeenInv(s)'
    BY <2>2, <2>4, <2>5, SeesNow
  <2>7. worker'[s].status \notin Busy
    BY <1>2, <1>4, <2>1 DEF SessionInv, WorkInv
  <2>8. SessionInv(s)'
    BY <1>2, <2>2, <2>6, <2>7 DEF SessionInv, Between
  <2>9. host[s].at \in Serving
    BY <2>1 DEF Serving
  <2> QED
    BY <2>2, <2>3, <2>8, <2>9, OthersSilent, OthersLeft
<1>6. CASE Receipt(s)
  <2>1. /\ host[s].at = "receipt" /\ UNCHANGED <<ran, repeated, recovering, worker>>
        /\ joint' = joint \/ \E d, result, current : Reply(joint, d, result, current)
    BY <1>6 DEF Receipt
  <2>2. /\ host'[s].at = "poll" /\ host'[s].part = host[s].part /\ Alone(s)
        /\ host'[s].seen \in {View', host[s].seen}
    <3>1. joint' = joint => View' = View
      BY <2>1 DEF View
    <3> QED
      BY <1>1, <1>6, <2>1, <3>1 DEF Receipt, Started, Alone, Like
  <2>3. Moves(joint, joint')
    BY <1>3, <2>1, ReplyMoves DEF Moves
  <2>4. /\ Ticketed(joint') /\ joint'.ticket \in Nat /\ joint'.ticket \in {joint.ticket, joint.ticket + 1}
        /\ joint'.pending # NoCommand /\ joint'.ticket = joint.ticket => joint'.pending = joint.pending
    BY <1>3, <2>3 DEF Moves, Ticketed
  <2>5. PastInv' /\ \A n \in Nat : Did(s, n)' <=> Did(s, n)
    BY <1>3, <2>1, <2>4 DEF PastInv, Did
  <2>6. SeenInv(s) /\ c # NoCommand /\ Acked(s, c)
    BY <1>2, <1>4, <2>1 DEF SessionInv, Talking
  <2>7. Acked(s, c)'
    BY <2>1, <2>2, <2>6 DEF Acked, Known, Kept
  <2>8. joint'.pending # NoCommand /\ Did(s, joint'.ticket) => c = joint'.pending
    BY <1>3, <1>4, <2>4, <2>6 DEF SeenInv, PastInv
  <2>9. Did(s, joint.ticket)' <=> Did(s, joint'.ticket)
    BY <2>4, <2>5 DEF Did
  <2>10. ASSUME host'[s].seen = View' PROVE SeenInv(s)'
    BY <2>4, <2>5, <2>7, <2>8, <2>9, <2>10, SeesNow
  <2>11. ASSUME host'[s].seen = host[s].seen PROVE SeenInv(s)'
    <3>1. c.ticket \in 0 .. joint'.ticket
      BY <1>3, <1>4, <2>4, <2>6 DEF SeenInv
    <3>2. joint'.pending # NoCommand /\ c.ticket = joint'.ticket => c = joint'.pending
      BY <1>3, <1>4, <2>4, <2>6 DEF SeenInv
    <3> QED
      BY <1>4, <2>5, <2>6, <2>7, <2>8, <2>9, <2>11, <3>1, <3>2 DEF SeenInv
  <2>12. worker'[s].status \notin Busy
    BY <1>2, <2>1 DEF SessionInv, WorkInv
  <2>13. SessionInv(s)'
    BY <1>2, <2>2, <2>10, <2>11, <2>12 DEF SessionInv, Between
  <2>14. host[s].at \in Serving
    BY <2>1 DEF Serving
  <2> QED
    BY <2>2, <2>3, <2>13, <2>14, OthersSilent, OthersLeft
<1> QED
  BY <1>5, <1>6

LEMMA ApplyTwice ==
  ASSUME IInv, TwiceInv, NEW s \in Shells, NEW a \in Asks, NEW g \in Generations, Apply(s, a, g)
  PROVE  TwiceInv'
<1>1. /\ UNCHANGED <<joint, ran, repeated, recovering, worker>> /\ Alone(s)
      /\ Like(host'[s], host[s])
  BY DEF IInv, Shape, Apply, world, past, Started, Alone, Like
<1>2. Leaves(s)
  BY <1>1 DEF TwiceInv, Leaves, Moves
<1>3. SessionInv(s)'
  BY <1>1, <1>2, SessionLeft DEF TwiceInv, Did
<1> QED
  BY <1>1, <1>3, Steady

LEMMA TwiceInitial == Init => TwiceInv
BY DEF Init, TwiceInv, Ticketed, Fresh, PastInv, SessionInv, Down, Started, Unprepared, Idle, Busy, Between, Talking, Did

LEMMA TwiceInductive == IInv /\ TwiceInv /\ [Next]_vars => TwiceInv'
<1> SUFFICES ASSUME IInv, TwiceInv, [Next]_vars PROVE TwiceInv'
  OBVIOUS
<1>1. ASSUME NEW s \in Shells, Launch(s) \/ Close(s) \/ Kill(s) \/ Session(s) \/ Work(s) \/ Worked(s)
      PROVE  TwiceInv'
  BY <1>1, RestTwice, ViewTwice, WorkerTwice, ExecuteTwice, ExecutedTwice, RecoverTwice DEF Session
<1>2. CASE UNCHANGED vars
  BY <1>2, AllLeft DEF vars, TwiceInv, Moves
<1> QED
  BY <1>1, <1>2, ApplyTwice, CoordinatorTwice, RecoveredTwice DEF Next

(* However calls, answers and receipts get lost, a Shell does not carry out *)
(* a write twice for one command.                                           *)
THEOREM WritesOnce == Spec => []NothingTwice
<1>1. TwiceInv => NothingTwice
  BY DEF TwiceInv, NothingTwice
<1> QED
  BY <1>1, Invariance, TwiceInitial, TwiceInductive, PTL DEF Spec

-----------------------------------------------------------------------------
(* What the coordinator's fields say of one another.                        *)
Wide == [epoch : Epochs, sequence : Nat, base : Generations, candidate : Generations]

Going  == {"NATIVE_FINAL_VERIFY", "SHELL_FINAL_VERIFY", "NATIVE_CONFIRM", "SHELL_CONFIRM"}
Trying == {"NATIVE_APPLY", "SHELL_APPLY", "NATIVE_VERIFY", "SHELL_VERIFY"}

(* Whatever is pending.                                                     *)
Grounded(j) ==
  /\ j.epoch \in Epochs
  /\ j.request \in Wide \cup {NoRequest}
  /\ j.step \in Steps
  /\ j.touched \in 0 .. 2
  /\ j.touched # 0 => j.prepared /\ j.request # NoRequest
  /\ j.publishAttempted \/ j.awaitingConfirmation => j.touched = 2

(* A command of step s is pending, or about to be.                          *)
Opens(j, s) ==
  /\ j.request # NoRequest
  /\ s \in Trying \cup Going \cup {"PUBLISH", "SHELL_RESTORE"} => j.touched = 2
  /\ s = "SHELL_RESTORE" => j.restoreRemaining = 1
  /\ s = "NATIVE_RESTORE" => j.restoreRemaining = 0

PendingInv(j) ==
  j.pending # NoCommand =>
    /\ Opens(j, j.step)
    /\ j.pending.request = j.request
    /\ j.pending.target = Dispatch[j.step].target /\ j.pending.operation = Dispatch[j.step].operation
    /\ j.step \in {"BASE", "STORE_PREPARE"} => j.touched = 0
    /\ j.step = "STORE_PREPARE" => j.prepared
    /\ j.step = "NATIVE_PREPARE" => j.touched = 1
    /\ j.step = "SHELL_PREPARE" => j.touched = 2
    /\ j.step = "PUBLISH" => j.publishAttempted

ProgressInv(j) ==
  /\ Grounded(j)
  /\ PendingInv(j)
  /\ j.state = "IDLE" => j.request = NoRequest
  /\ j.state = "STALE" => j.touched = 0
  /\ j.state = "ABORTED" => j.step = "ABANDON" \/ j.touched = 0

(* On its way forward, back where it was, and sure that the Shell is.       *)
Forward(j)  == j.pending # NoCommand /\ j.step \in Going
Back(j)     == j.state = "ABORTED" /\ j.touched # 0
Restored(j) ==
  \/ j.pending # NoCommand /\ j.step = "NATIVE_RESTORE" /\ ~j.restoreFailed
  \/ j.step = "ABANDON" /\ (j.pending # NoCommand \/ j.state = "ABORTED")

CompletedInv(j, g) ==
  /\ Forward(j) => g = j.request.candidate
  /\ Back(j) => g = j.request.base

-----------------------------------------------------------------------------
(* A session and the transaction it has asked for.                          *)
Base(s)  == asked[host[s].ask]
Goal(s)  == Candidate(host[s].ask)
Begun(s) == host[s].part.sequence = host[s].sequence

(* The coordinator is at that transaction, or past it.                      *)
Ours(s) == joint.request # NoRequest /\ joint.request = Request(s)
Past(s) == joint.request # NoRequest /\ joint.request.sequence > host[s].sequence

InForce(s, g) == live[s] = g /\ host[s].part.confirmed = g /\ disk.completed = g

(* While the transaction goes on: how far it has come in the Shell.         *)
WayInv(s) ==
  LET p == host[s].part IN
  /\ host[s].snapshot = Base(s) /\ Base(s) # Goal(s)
  /\ disk.completed # Base(s) =>
       disk.completed = Goal(s) /\ (Past(s) \/ (Ours(s) /\ joint.publishAttempted))
  /\ ~Begun(s) => live[s] = Base(s) /\ p.confirmed = Base(s)
  /\ Begun(s) =>
       /\ (Past(s) \/ (Ours(s) /\ joint.touched = 2))
       /\ p.candidate \in {Nobody, Goal(s)}
       /\ p.confirmed \in {Base(s), Goal(s)}
       /\ p.confirmed = Goal(s) => p.candidate = Goal(s) /\ live[s] = Goal(s) /\ disk.completed = Goal(s)
       /\ Ours(s) /\ Restored(joint) => live[s] = p.confirmed

(* What it has last seen of the coordinator.                                *)
SightInv(s) ==
  LET p == host[s].part
      seen == host[s].seen
      c == seen.command IN
  /\ seen.state \in {"ABORTED", "STALE"} /\ seen.sequence = host[s].sequence => InForce(s, Base(s))
  /\ c # NoCommand =>
       /\ joint.request # NoRequest
       /\ c.request.sequence \in Nat
       /\ (joint.request = c.request \/ joint.request.sequence > c.request.sequence)
       /\ joint.request = c.request /\ c.target = "SHELL" => joint.touched = 2
       /\ c.target = "SHELL" /\ c.operation = "CONFIRM" => disk.completed = c.request.candidate
       /\ c.target = "SHELL" /\ c.operation = "RESTORE" /\ p.restore.ticket = c.ticket /\ p.restore.result = "OK" =>
            live[s] = p.confirmed

(* What a receipt that is about to be sent says.                            *)
ReceiptInv(s) ==
  LET x == host[s].receipt
      c == x.command IN
  x.result = "OK" =>
    /\ c.target = "STORE" /\ c.operation = "CURRENT" => x.current = disk.completed
    /\ c.target = "STORE" /\ c.operation = "ABANDON" => disk.completed = c.request.base
    /\ c.target = "SHELL" /\ c.operation = "RESTORE" => live[s] = host[s].part.confirmed

WorkedInv(s) ==
  LET w == worker[s] IN
  w.status = "ok" =>
    /\ w.command.operation = "CURRENT" => w.current = disk.completed
    /\ w.command.operation = "ABANDON" => disk.completed = w.command.request.base

(* A session that holds the lease, by its place.                            *)
Transacting == {"start", "sent"} \cup Talking

KeptInv(s) ==
  LET p == host[s].part IN
  /\ host[s].epoch \in Epochs /\ host[s].sequence \in Nat /\ p.sequence \in 0 .. host[s].sequence
  /\ p.restore.result # Nobody => p.restore.ticket \in Nat /\ Did(s, p.restore.ticket)

HeldInv(s) ==
  /\ host[s].queued # Nobody => host[s].queued \in Asks /\ asked[host[s].queued] # Nobody
  /\ host[s].at \in {"lease", "bind"} =>
       host[s].epoch \in Epochs /\ (host[s].seen.state = "IDLE" => host[s].seen.sequence = 0)
  /\ host[s].at \in {"boot"} \cup Between \cup Talking => KeptInv(s)
  /\ host[s].at = "boot" => host[s].part = Unprepared(disk.completed)
  /\ host[s].at \in Between => InForce(s, disk.completed) /\ host[s].snapshot = disk.completed
  /\ host[s].at \in {"look", "record"} \cup Transacting => host[s].ask \in Asks /\ Base(s) # Nobody
  /\ host[s].at \in {"record", "start", "sent"} => Base(s) = disk.completed /\ Goal(s) # Base(s)
  /\ host[s].at \in {"start", "sent"} => host[s].part.sequence < host[s].sequence
  /\ host[s].at \in Transacting => WorkedInv(s)
  /\ host[s].at \in Talking => WayInv(s) /\ SightInv(s)
  /\ host[s].at = "gtk" => host[s].receipt.command.request = Request(s) /\ Begun(s)
  /\ host[s].at = "receipt" => ReceiptInv(s)
  /\ worker[s].status \in Busy =>
       /\ worker[s].command = joint.pending
       /\ host[s].at = "poll" => worker[s].command.request = Request(s)

RunsInv ==
  /\ ProgressInv(joint)
  /\ CompletedInv(joint, disk.completed)
  /\ flying \subseteq Wide
  /\ asked \in [Asks -> Generations \cup {Nobody}]
  /\ DOMAIN live = Shells
  /\ \A s \in Shells : HeldInv(s)

-----------------------------------------------------------------------------
(* issue(), field by field.                                                 *)
Issued(j, k, s) ==
  /\ DOMAIN k = DOMAIN j
  /\ k.epoch = j.epoch /\ k.request = j.request /\ k.restoreRemaining = j.restoreRemaining
  /\ k.restoreFailed = j.restoreFailed /\ k.awaitingConfirmation = j.awaitingConfirmation
  /\ \/ /\ k.state = "UNKNOWN" /\ k.pending = j.pending /\ k.step = j.step /\ k.prepared = j.prepared
        /\ k.publishAttempted = j.publishAttempted /\ k.touched = j.touched
     \/ /\ k.state = "RUNNING" /\ k.step = s
        /\ k.pending.request = j.request
        /\ k.pending.target = Dispatch[s].target /\ k.pending.operation = Dispatch[s].operation
        /\ (k.prepared <=> j.prepared \/ s = "STORE_PREPARE")
        /\ (k.publishAttempted <=> j.publishAttempted \/ s = "PUBLISH")
        /\ s = "NATIVE_PREPARE" => k.touched = 1
        /\ s = "SHELL_PREPARE" => k.touched = 2
        /\ s \notin {"NATIVE_PREPARE", "SHELL_PREPARE"} => k.touched = j.touched

LEMMA IssueFields ==
  ASSUME NEW j, Ticketed(j), NEW s
  PROVE  Issued(j, Issue(j, s), s)
<1> DEFINE k == Issue(j, s)
<1>1. CASE j.ticket = MaxTicket
  BY <1>1 DEF Issue, Issued, Ticketed, Fresh
<1>2. CASE j.ticket # MaxTicket
  <2> DEFINE c == [request |-> j.request, ticket |-> j.ticket + 1,
                   target |-> Dispatch[s].target, operation |-> Dispatch[s].operation]
             prep == j.prepared \/ s = "STORE_PREPARE"
             pub == j.publishAttempted \/ s = "PUBLISH"
             touch == CASE s = "NATIVE_PREPARE" -> 1 [] s = "SHELL_PREPARE" -> 2 [] OTHER -> j.touched
  <2>1. k = [j EXCEPT !.step = s, !.state = "RUNNING", !.ticket = j.ticket + 1, !.pending = c,
                      !.prepared = prep, !.publishAttempted = pub, !.touched = touch]
    BY <1>2 DEF Issue
  <2>2. /\ c.request = j.request
        /\ c.target = Dispatch[s].target /\ c.operation = Dispatch[s].operation
    OBVIOUS
  <2>3. /\ s = "NATIVE_PREPARE" => touch = 1
        /\ s = "SHELL_PREPARE" => touch = 2
        /\ s \notin {"NATIVE_PREPARE", "SHELL_PREPARE"} => touch = j.touched
    OBVIOUS
  <2>4. prep = (j.prepared \/ s = "STORE_PREPARE") /\ pub = (j.publishAttempted \/ s = "PUBLISH")
    OBVIOUS
  <2> HIDE DEF c, prep, pub, touch, k
  <2>5. /\ DOMAIN k = DOMAIN j /\ k.epoch = j.epoch /\ k.request = j.request /\ k.restoreRemaining = j.restoreRemaining
        /\ k.restoreFailed = j.restoreFailed /\ k.awaitingConfirmation = j.awaitingConfirmation
        /\ k.state = "RUNNING" /\ k.step = s /\ k.pending = c
        /\ k.prepared = prep /\ k.publishAttempted = pub /\ k.touched = touch
    BY <2>1 DEF Ticketed, Fresh
  <2>6. Issued(j, k, s)
    BY <2>2, <2>3, <2>4, <2>5 DEF Issued
  <2> QED
    BY <2>6 DEF k
<1> QED
  BY <1>1, <1>2

(* What no step of the coordinator takes back, and what it takes to become  *)
(* sure of something.                                                       *)
Keeps(j, k) ==
  /\ ProgressInv(k)
  /\ k.request = j.request
  /\ j.touched = 2 => k.touched = 2
  /\ j.publishAttempted => k.publishAttempted

LEMMA IssueKeeps ==
  ASSUME NEW j, Ticketed(j), Grounded(j), j.pending = NoCommand, NEW s \in Steps, Opens(j, s),
         s \in {"BASE", "STORE_PREPARE", "NATIVE_PREPARE"} => j.touched = 0,
         s = "NATIVE_PREPARE" => j.prepared,
         s = "SHELL_PREPARE" => j.touched = 1
  PROVE  LET k == Issue(j, s) IN
         /\ Keeps(j, k) /\ ~Back(k) /\ (s # "NATIVE_PREPARE" /\ s # "SHELL_PREPARE" => k.touched = j.touched)
         /\ Forward(k) => s \in Going
         /\ Restored(k) => s = "ABANDON" \/ (s = "NATIVE_RESTORE" /\ ~j.restoreFailed)
<1> DEFINE k == Issue(j, s)
<1>1. Issued(j, k, s)
  BY IssueFields
<1> HIDE DEF k
<1>2. Grounded(k) /\ k.state \in {"UNKNOWN", "RUNNING"} /\ k.request = j.request
  <2>1. k.epoch \in Epochs /\ k.request \in Wide \cup {NoRequest} /\ k.step \in Steps /\ k.touched \in 0 .. 2
    BY <1>1 DEF Issued, Grounded
  <2>2. k.touched # 0 => k.prepared /\ k.request # NoRequest
    BY <1>1 DEF Issued, Grounded, Opens
  <2>3. k.publishAttempted \/ k.awaitingConfirmation => k.touched = 2
    BY <1>1 DEF Issued, Grounded, Opens
  <2> QED
    BY <1>1, <2>1, <2>2, <2>3 DEF Issued, Grounded
<1>6. PendingInv(k)
  BY <1>1 DEF Issued, Opens, PendingInv, Trying, Going
<1>7. (j.touched = 2 => k.touched = 2) /\ (j.publishAttempted => k.publishAttempted)
  BY <1>1 DEF Issued
<1>8. Keeps(j, k)
  BY <1>2, <1>6, <1>7 DEF Keeps, ProgressInv
<1>3. ~Back(k) /\ (s # "NATIVE_PREPARE" /\ s # "SHELL_PREPARE" => k.touched = j.touched)
  BY <1>1 DEF Issued, Back
<1>4. Forward(k) => s \in Going
  BY <1>1 DEF Issued, Forward
<1>5. Restored(k) => s = "ABANDON" \/ (s = "NATIVE_RESTORE" /\ ~j.restoreFailed)
  BY <1>1 DEF Issued, Restored
<1> QED
  BY <1>3, <1>4, <1>5, <1>8 DEF k

LEMMA RestoreNextKeeps ==
  ASSUME NEW j, Ticketed(j), Grounded(j), j.pending = NoCommand, j.request # NoRequest,
         j.restoreRemaining \in 0 .. 2, j.restoreRemaining = 2 => j.touched = 2
  PROVE  LET k == RestoreNext(j) IN
         /\ Keeps(j, k) /\ k.touched = j.touched /\ ~Forward(k) /\ ~Back(k)
         /\ Restored(k) => (~j.restoreFailed /\ j.restoreRemaining \in {0, 1}) \/ j.touched = 0
<1>1. CASE j.restoreRemaining = 2
  <2> DEFINE b == [j EXCEPT !.restoreRemaining = 1]
  <2>1. RestoreNext(j) = Issue(b, "SHELL_RESTORE")
    BY <1>1 DEF RestoreNext
  <2>2. /\ Ticketed(b) /\ Grounded(b) /\ b.pending = NoCommand /\ Opens(b, "SHELL_RESTORE")
        /\ b.touched = j.touched /\ b.request = j.request /\ b.publishAttempted = j.publishAttempted
    BY <1>1 DEF Ticketed, Fresh, Grounded, Opens
  <2> HIDE DEF b
  <2>3. "SHELL_RESTORE" \in Steps
    BY DEF Steps, Dispatch
  <2> QED
    BY <2>1, <2>2, <2>3, IssueKeeps DEF Keeps, Going
<1>2. CASE j.restoreRemaining = 1
  <2> DEFINE b == [j EXCEPT !.restoreRemaining = 0]
  <2>1. RestoreNext(j) = Issue(b, "NATIVE_RESTORE")
    BY <1>2 DEF RestoreNext
  <2>2. /\ Ticketed(b) /\ Grounded(b) /\ b.pending = NoCommand /\ Opens(b, "NATIVE_RESTORE")
        /\ b.touched = j.touched /\ b.request = j.request /\ b.publishAttempted = j.publishAttempted
        /\ b.restoreFailed = j.restoreFailed
    BY <1>2 DEF Ticketed, Fresh, Grounded, Opens, Trying, Going
  <2> HIDE DEF b
  <2>3. "NATIVE_RESTORE" \in Steps
    BY DEF Steps, Dispatch
  <2> QED
    BY <1>2, <2>1, <2>2, <2>3, IssueKeeps DEF Keeps, Going
<1>3. CASE j.restoreRemaining = 0 /\ ~j.restoreFailed /\ j.prepared
  <2>1. RestoreNext(j) = Issue(j, "ABANDON")
    BY <1>3 DEF RestoreNext
  <2>2. Opens(j, "ABANDON") /\ "ABANDON" \in Steps
    BY DEF Opens, Trying, Going, Steps, Dispatch
  <2> QED
    BY <1>3, <2>1, <2>2, IssueKeeps DEF Going
<1>4. CASE j.restoreRemaining = 0 /\ j.restoreFailed
  <2>1. RestoreNext(j) = [j EXCEPT !.state = "UNKNOWN"]
    BY <1>4 DEF RestoreNext
  <2> QED
    BY <1>4, <2>1 DEF Ticketed, Fresh, Grounded, Keeps, ProgressInv, PendingInv, Forward, Back, Restored
<1>5. CASE j.restoreRemaining = 0 /\ ~j.restoreFailed /\ ~j.prepared
  <2>1. RestoreNext(j) = [j EXCEPT !.state = "ABORTED"]
    BY <1>5 DEF RestoreNext
  <2> QED
    BY <1>5, <2>1 DEF Ticketed, Fresh, Grounded, Keeps, ProgressInv, PendingInv, Forward, Back, Restored
<1> QED
  BY <1>1, <1>2, <1>3, <1>4, <1>5

(* What a receipt may bring: it goes forward by the completed pointer, and  *)
(* is sure of having gone back by what the store and the Shell say.         *)
LEMMA ReplyKeeps ==
  ASSUME NEW j, Ticketed(j), ProgressInv(j), NEW c, NEW result, NEW current, Reply(j, c, result, current)
  PROVE  /\ Keeps(j, joint')
         /\ Forward(joint') => Forward(j) \/ (j.step = "RESOLVE" /\ result = "OK" /\ current = j.request.candidate)
         /\ Back(joint') => j.step = "ABANDON" /\ result = "OK"
         /\ Restored(joint') /\ joint'.touched = 2 =>
              Restored(j) \/ (j.step = "SHELL_RESTORE" /\ result = "OK")
<1> DEFINE a == Answered(j)
           Good == /\ Keeps(j, joint')
                   /\ Forward(joint') => Forward(j) \/ (j.step = "RESOLVE" /\ result = "OK" /\ current = j.request.candidate)
                   /\ Back(joint') => j.step = "ABANDON" /\ result = "OK"
                   /\ Restored(joint') /\ joint'.touched = 2 =>
                        Restored(j) \/ (j.step = "SHELL_RESTORE" /\ result = "OK")
<1>1. /\ j.pending # NoCommand /\ j.pending = c /\ j.state \in {"RUNNING", "UNKNOWN"}
      /\ Grounded(j) /\ Opens(j, j.step) /\ PendingInv(j)
      /\ j.step \in Steps /\ j.request # NoRequest
  BY DEF Reply, Ticketed, ProgressInv, PendingInv, Opens, Grounded
<1>2. /\ Ticketed(a) /\ Grounded(a) /\ a.pending = NoCommand /\ a.touched = j.touched /\ a.prepared = j.prepared
      /\ a.request = j.request /\ a.publishAttempted = j.publishAttempted /\ a.step = j.step
      /\ a.restoreRemaining = j.restoreRemaining /\ a.restoreFailed = j.restoreFailed
      /\ \A s : Opens(j, s) => Opens(a, s)
  BY <1>1 DEF Answered, Ticketed, Fresh, Grounded, Opens
<1>3. /\ \A k : Keeps(a, k) => Keeps(j, k)
      /\ {"RESOLVE", "PUBLISH", "STORE_PREPARE", "NATIVE_FINAL_VERIFY"} \subseteq Steps
  BY <1>2 DEF Keeps, Steps, Dispatch
<1>4. CASE ReplyUnresolved(j, result, current)
  <2>1. joint' = [j EXCEPT !.state = "UNKNOWN"]
    BY <1>4 DEF ReplyUnresolved
  <2> QED
    BY <1>1, <2>1 DEF Ticketed, Fresh, Grounded, Keeps, ProgressInv, PendingInv, Opens, Forward, Back, Restored
<1>5. \A x \in {"UNKNOWN", "COMPLETE"} : joint' = [a EXCEPT !.state = x] => Good
  BY <1>1, <1>2, <1>3 DEF Ticketed, Fresh, Grounded, Keeps, ProgressInv, PendingInv, Forward, Back, Restored
<1>6. CASE ReplyRestore(j, result)
  <2> DEFINE b == [a EXCEPT !.restoreFailed = j.restoreFailed \/ result = "FAILED"]
  <2>1. joint' = RestoreNext(b) /\ j.step \in RestoreSteps /\ result \in {"OK", "FAILED"}
    BY <1>2, <1>6 DEF ReplyRestore
  <2>2. /\ Ticketed(b) /\ Grounded(b) /\ b.pending = NoCommand /\ b.request = j.request /\ b.touched = j.touched
        /\ b.publishAttempted = j.publishAttempted /\ b.restoreRemaining = j.restoreRemaining
    BY <1>2 DEF Ticketed, Fresh, Grounded
  <2>3. ~b.restoreFailed => ~j.restoreFailed /\ result # "FAILED"
    BY <1>2 DEF Ticketed, Fresh
  <2> HIDE DEF b
  <2>4. \/ j.step = "SHELL_RESTORE" /\ j.restoreRemaining = 1 /\ j.touched = 2
        \/ j.step = "NATIVE_RESTORE" /\ j.restoreRemaining = 0
    BY <1>1, <2>1 DEF RestoreSteps, Opens
  <2>5. /\ Keeps(b, joint') /\ joint'.touched = j.touched /\ ~Forward(joint') /\ ~Back(joint')
        /\ Restored(joint') => ~b.restoreFailed \/ j.touched = 0
    BY <1>1, <2>1, <2>2, <2>4, RestoreNextKeeps
  <2>6. Keeps(j, joint')
    BY <2>2, <2>5 DEF Keeps
  <2>7. Restored(joint') /\ joint'.touched = 2 => Restored(j) \/ (j.step = "SHELL_RESTORE" /\ result = "OK")
    BY <1>1, <2>1, <2>3, <2>4, <2>5 DEF Restored
  <2> QED
    BY <2>5, <2>6, <2>7
<1>7. CASE ReplyFailed(j, result)
  <2>1. joint' = [a EXCEPT !.state = "UNKNOWN"] \/ joint' = Issue(a, "RESOLVE")
    BY <1>7 DEF ReplyFailed
  <2>2. Opens(a, "RESOLVE")
    BY <1>1, <1>2 DEF Opens, Trying, Going
  <2> QED
    BY <1>2, <1>3, <1>5, <2>1, <2>2, IssueKeeps DEF Going
<1>8. CASE ReplyBase(j, result, current)
  <2>1. j.touched = 0 /\ (joint' = [a EXCEPT !.state = "STALE"] \/ joint' = Issue(a, "STORE_PREPARE"))
    BY <1>1, <1>8 DEF ReplyBase, PendingInv
  <2>2. Opens(a, "STORE_PREPARE")
    BY <1>1, <1>2 DEF Opens, Trying, Going
  <2>3. CASE joint' = [a EXCEPT !.state = "STALE"]
    BY <1>1, <1>2, <2>1, <2>3 DEF Ticketed, Fresh, Grounded, Keeps, ProgressInv, PendingInv, Forward, Back, Restored
  <2> QED
    BY <1>2, <1>3, <2>1, <2>2, <2>3, IssueKeeps DEF Going
<1>9. CASE ReplyAdvance(j, result)
  <2>1. PICK s : s = Follows[j.step] /\ joint' = Issue(a, s)
    BY <1>9 DEF ReplyAdvance
  <2>2. \/ j.step = "STORE_PREPARE" /\ s = "NATIVE_PREPARE"
        \/ j.step = "NATIVE_PREPARE" /\ s = "SHELL_PREPARE"
        \/ j.step = "SHELL_PREPARE" /\ s = "NATIVE_APPLY"
        \/ j.step = "NATIVE_APPLY" /\ s = "SHELL_APPLY"
        \/ j.step = "SHELL_APPLY" /\ s = "NATIVE_VERIFY"
        \/ j.step = "NATIVE_VERIFY" /\ s = "SHELL_VERIFY"
        \/ j.step = "PUBLISH" /\ s = "RESOLVE"
        \/ j.step = "NATIVE_FINAL_VERIFY" /\ s = "SHELL_FINAL_VERIFY"
        \/ j.step = "SHELL_FINAL_VERIFY" /\ s = "NATIVE_CONFIRM"
        \/ j.step = "NATIVE_CONFIRM" /\ s = "SHELL_CONFIRM"
    BY <1>9, <2>1 DEF ReplyAdvance, Follows
  <2>3. s \in Steps /\ (s \in Going => j.step \in Going) /\ s \notin {"ABANDON", "NATIVE_RESTORE", "BASE", "STORE_PREPARE"}
    BY <2>2 DEF Steps, Dispatch, Going
  <2>4. Opens(j, s)
    BY <1>1, <2>2 DEF PendingInv, Opens, Trying, Going
  <2>5. (s = "NATIVE_PREPARE" => j.touched = 0 /\ j.prepared) /\ (s = "SHELL_PREPARE" => j.touched = 1)
    BY <1>1, <2>2 DEF PendingInv
  <2> QED
    BY <1>1, <1>2, <1>3, <2>1, <2>3, <2>4, <2>5, IssueKeeps DEF Forward
<1>10. CASE ReplyShellVerify(j, result)
  <2>1. j.step = "SHELL_VERIFY" /\ j.touched = 2
    BY <1>1, <1>10 DEF ReplyShellVerify, Opens, Trying
  <2>2. joint' = [a EXCEPT !.awaitingConfirmation = TRUE] \/ joint' = Issue(a, "PUBLISH")
    BY <1>10 DEF ReplyShellVerify
  <2>3. Opens(a, "PUBLISH")
    BY <1>1, <1>2, <2>1 DEF Opens
  <2>4. CASE joint' = [a EXCEPT !.awaitingConfirmation = TRUE]
    <3>1. a.state = j.state
      BY <1>1 DEF Answered, Ticketed, Fresh
    <3> QED
      BY <1>1, <1>2, <2>1, <2>4, <3>1 DEF Ticketed, Fresh, Grounded, Keeps, ProgressInv, PendingInv, Forward, Back, Restored
  <2> QED
    BY <1>2, <1>3, <2>2, <2>3, <2>4, IssueKeeps DEF Going
<1>11. CASE ReplyResolve(j, result, current)
  <2> DEFINE b == [a EXCEPT !.restoreRemaining = j.touched, !.restoreFailed = FALSE]
  <2>1. /\ j.step = "RESOLVE" /\ result = "OK"
        /\ \/ current = j.request.candidate /\ j.publishAttempted /\ joint' = Issue(a, "NATIVE_FINAL_VERIFY")
           \/ joint' = RestoreNext(b)
           \/ joint' = [a EXCEPT !.state = "UNKNOWN"]
    BY <1>11 DEF ReplyResolve
  <2>2. j.publishAttempted => Opens(a, "NATIVE_FINAL_VERIFY")
    BY <1>1, <1>2 DEF Opens, Grounded
  <2>3. /\ Ticketed(b) /\ Grounded(b) /\ b.pending = NoCommand /\ b.request = j.request /\ b.touched = j.touched
        /\ b.publishAttempted = j.publishAttempted /\ b.restoreRemaining = j.touched
    BY <1>2 DEF Ticketed, Fresh, Grounded
  <2> HIDE DEF b
  <2>4. CASE joint' = RestoreNext(b)
    <3>1. /\ Keeps(b, joint') /\ joint'.touched = j.touched /\ ~Forward(joint') /\ ~Back(joint')
          /\ Restored(joint') => j.touched # 2
      BY <1>1, <2>3, <2>4, RestoreNextKeeps DEF Grounded
    <3> QED
      BY <2>3, <3>1 DEF Keeps
  <2>5. CASE current = j.request.candidate /\ j.publishAttempted /\ joint' = Issue(a, "NATIVE_FINAL_VERIFY")
    BY <1>2, <1>3, <2>1, <2>2, <2>5, IssueKeeps
  <2> QED
    BY <1>5, <2>1, <2>4, <2>5
<1>12. CASE ReplyFinish(j, result)
  <2>1. CASE j.step = "ABANDON" /\ result = "OK" /\ joint' = [a EXCEPT !.state = "ABORTED"]
    BY <1>1, <1>2, <2>1 DEF Ticketed, Fresh, Grounded, Keeps, ProgressInv, PendingInv, Forward, Back, Restored
  <2> QED
    BY <1>5, <1>12, <2>1 DEF ReplyFinish
<1> QED
  BY <1>4, <1>6, <1>7, <1>8, <1>9, <1>10, <1>11, <1>12 DEF Reply

(* Every other step of it is sure of nothing new.                           *)
Turns(j, k) ==
  /\ Keeps(j, k)
  /\ Forward(k) => Forward(j)
  /\ Back(k) => Back(j)
  /\ Restored(k) /\ k.touched = 2 => Restored(j)

Renews(j, k) ==
  /\ ProgressInv(k)
  /\ k.request \in Wide /\ k.request # NoRequest
  /\ j.request # NoRequest => k.request.sequence > j.request.sequence
  /\ ~Forward(k) /\ ~Back(k) /\ ~Restored(k)

LEMMA StartRenews ==
  ASSUME Ticketed(joint), ProgressInv(joint), NEW r \in Wide, Start(r)
  PROVE  Renews(joint, joint') /\ joint.pending = NoCommand
<1> DEFINE b == [joint EXCEPT !.request = r,
                            !.requireConfirmation = FALSE, !.awaitingConfirmation = FALSE,
                            !.touched = 0, !.restoreRemaining = 0, !.prepared = FALSE,
                            !.publishAttempted = FALSE, !.restoreFailed = FALSE]
<1>1. joint.pending = NoCommand /\ (joint.request # NoRequest => r.sequence > joint.request.sequence)
  BY DEF Start, Accepts, Ticketed
<1>2. r # NoRequest
  BY RequestAssumption DEF Wide
<1>3. /\ Ticketed(b) /\ b.pending = NoCommand /\ b.request = r /\ b.touched = 0
      /\ Grounded(b)
  BY <1>1 DEF Ticketed, Fresh, ProgressInv, Grounded
<1>4. joint' = Issue(b, "BASE")
  BY DEF Start
<1> HIDE DEF b
<1>5. Opens(b, "BASE") /\ "BASE" \in Steps
  BY <1>2, <1>3 DEF Opens, Trying, Going, Steps, Dispatch
<1> QED
  BY <1>1, <1>2, <1>3, <1>4, <1>5, IssueKeeps DEF Renews, Keeps, Going

LEMMA DecisionTurns ==
  ASSUME Ticketed(joint), ProgressInv(joint), NEW keep \in BOOLEAN, Decision(keep)
  PROVE  Turns(joint, joint') /\ joint.pending = NoCommand
<1> DEFINE b == [joint EXCEPT !.awaitingConfirmation = FALSE]
<1>1. /\ joint.pending = NoCommand /\ joint.awaitingConfirmation
      /\ \E s \in {"PUBLISH", "RESOLVE"} : joint' = Issue(b, s)
  BY DEF Decision, Decide, Decided
<1>2. joint.touched = 2 /\ Grounded(joint) /\ joint.request # NoRequest
  BY <1>1 DEF ProgressInv, Grounded
<1>3. /\ Ticketed(b) /\ b.pending = NoCommand /\ b.request = joint.request /\ b.touched = 2
      /\ b.publishAttempted = joint.publishAttempted /\ Grounded(b)
  BY <1>1, <1>2 DEF Ticketed, Fresh, Grounded
<1> HIDE DEF b
<1>4. Opens(b, "PUBLISH") /\ Opens(b, "RESOLVE") /\ {"PUBLISH", "RESOLVE"} \subseteq Steps
  BY <1>2, <1>3 DEF Opens, Trying, Going, Steps, Dispatch
<1>5. ASSUME NEW s \in {"PUBLISH", "RESOLVE"}, joint' = Issue(b, s) PROVE Turns(joint, joint')
  <2>1. Keeps(b, joint') /\ ~Back(joint') /\ ~Forward(joint') /\ ~Restored(joint')
    BY <1>3, <1>4, <1>5, IssueKeeps DEF Going
  <2> QED
    BY <1>3, <2>1 DEF Turns, Keeps
<1> QED
  BY <1>1, <1>5

LEMMA RecoverTurns ==
  ASSUME Ticketed(joint), ProgressInv(joint), NEW r, r # NoRequest, Recover(r)
  PROVE  Turns(joint, joint')
<1>1. joint.pending = NoCommand /\ joint.request # NoRequest /\ joint' = Issue(joint, "RESOLVE") /\ Grounded(joint)
  BY DEF Recover, ProgressInv
<1>2. Opens(joint, "RESOLVE") /\ "RESOLVE" \in Steps
  BY <1>1 DEF Opens, Trying, Going, Steps, Dispatch
<1> QED
  BY <1>1, <1>2, IssueKeeps DEF Turns, Going

LEMMA NativeTurns ==
  ASSUME Ticketed(joint), ProgressInv(joint), NativeReply \/ NativeTimeout
  PROVE  Turns(joint, joint') /\ (joint'.pending = joint.pending \/ joint.pending.target = "NATIVE")
<1>1. CASE NativeTimeout
  <2>1. joint' = [joint EXCEPT !.state = "UNKNOWN"] /\ joint.pending # NoCommand /\ joint.state \in {"RUNNING", "UNKNOWN"}
    BY <1>1 DEF NativeTimeout, Timeout, TimedOut, Ticketed
  <2>2. /\ joint'.pending = joint.pending /\ joint'.state = "UNKNOWN" /\ joint'.request = joint.request
        /\ joint'.touched = joint.touched /\ joint'.publishAttempted = joint.publishAttempted
        /\ joint'.step = joint.step /\ joint'.restoreFailed = joint.restoreFailed /\ joint'.restoreRemaining = joint.restoreRemaining
        /\ joint'.prepared = joint.prepared /\ joint'.awaitingConfirmation = joint.awaitingConfirmation
        /\ joint'.epoch = joint.epoch
    BY <2>1 DEF Ticketed, Fresh
  <2>3. ProgressInv(joint')
    BY <2>2 DEF ProgressInv, Grounded, PendingInv, Opens
  <2> QED
    BY <2>1, <2>2, <2>3 DEF Turns, Keeps, Forward, Back, Restored
<1>2. CASE NativeReply
  <2>1. joint.pending # NoCommand /\ joint.pending.target = "NATIVE"
    BY <1>2 DEF NativeReply
  <2>2. joint.step \notin {"RESOLVE", "ABANDON", "SHELL_RESTORE"}
    BY <2>1 DEF ProgressInv, PendingInv, Dispatch
  <2>3. PICK j, c, result : /\ Reply(j, c, result, Malformed)
                            /\ j \in {joint, RequireConfirmation(joint)}
    <3>1. \/ \E asks \in BOOLEAN : Reply(IF asks THEN RequireConfirmation(joint) ELSE joint, joint.pending, "OK", Malformed)
          \/ Reply(joint, joint.pending, "FAILED", Malformed)
      BY <1>2 DEF NativeReply
    <3> QED
      BY <3>1
  <2>4. /\ Ticketed(j) /\ j.pending = joint.pending /\ j.state = joint.state /\ j.request = joint.request
        /\ j.touched = joint.touched /\ j.publishAttempted = joint.publishAttempted
        /\ j.step = joint.step /\ j.restoreFailed = joint.restoreFailed /\ j.restoreRemaining = joint.restoreRemaining
        /\ j.prepared = joint.prepared /\ j.awaitingConfirmation = joint.awaitingConfirmation
        /\ j.epoch = joint.epoch
    BY <2>3 DEF RequireConfirmation, Ticketed, Fresh
  <2>5. ProgressInv(j)
    BY <2>4 DEF ProgressInv, Grounded, PendingInv, Opens
  <2>6. /\ Keeps(j, joint') /\ (Forward(joint') => Forward(j)) /\ ~Back(joint')
        /\ Restored(joint') /\ joint'.touched = 2 => Restored(j)
    BY <2>2, <2>3, <2>4, <2>5, ReplyKeeps
  <2> QED
    BY <2>1, <2>4, <2>6 DEF Turns, Keeps, Forward, Restored
<1> QED
  BY <1>1, <1>2

-----------------------------------------------------------------------------
(* The coordinator as a session meets it later.                             *)
Later(j, k) ==
  \/ k.request = j.request /\ (j.touched = 2 => k.touched = 2) /\ (j.publishAttempted => k.publishAttempted)
  \/ /\ k.request \in Wide /\ k.request # NoRequest
     /\ j.request # NoRequest => k.request.sequence > j.request.sequence

(* What a session is made of, but for what it has seen and what it does.    *)
Alike(s) ==
  /\ host'[s].part = host[s].part /\ host'[s].ask = host[s].ask /\ host'[s].snapshot = host[s].snapshot
  /\ host'[s].sequence = host[s].sequence /\ host'[s].epoch = host[s].epoch
  /\ live'[s] = live[s]
  /\ disk'.completed = disk.completed

LEMMA WayKept ==
  ASSUME NEW s, Grounded(joint), host[s].sequence \in Nat, WayInv(s), Alike(s),
         asked'[host[s].ask] = asked[host[s].ask], Later(joint, joint'),
         Begun(s) /\ Ours(s) /\ joint'.request = joint.request /\ joint'.touched = 2 /\ Restored(joint') =>
           live[s] = host[s].part.confirmed
  PROVE  WayInv(s)'
<1>1. /\ Base(s)' = Base(s) /\ Goal(s)' = Goal(s) /\ (Begun(s)' <=> Begun(s)) /\ Request(s)' = Request(s)
  BY DEF Alike, Base, Goal, Candidate, Begun, Request
<1>2. Past(s) => Past(s)'
  BY DEF Past, Later, Alike, Grounded, Wide
<1>3. Ours(s) => Past(s)' \/ (Ours(s)' /\ joint'.request = joint.request)
  BY <1>1 DEF Past, Ours, Later, Alike, Request
<1>4. Past(s)' => ~Ours(s)'
  BY <1>1 DEF Past, Ours, Alike, Request
<1>8. joint.request # NoRequest /\ joint'.request = joint.request =>
        (joint.touched = 2 => joint'.touched = 2) /\ (joint.publishAttempted => joint'.publishAttempted)
  BY DEF Later, Grounded, Wide
<1>5. Past(s) \/ (Ours(s) /\ joint.publishAttempted) => Past(s)' \/ (Ours(s)' /\ joint'.publishAttempted)
  BY <1>2, <1>3, <1>4, <1>8 DEF Ours
<1>6. Past(s) \/ (Ours(s) /\ joint.touched = 2) =>
        Past(s)' \/ (Ours(s)' /\ joint'.touched = 2 /\ joint'.request = joint.request)
  BY <1>2, <1>3, <1>4, <1>8 DEF Ours
<1>7. Begun(s) /\ Ours(s)' /\ Restored(joint') => live[s] = host[s].part.confirmed
  BY <1>1, <1>4, <1>6 DEF WayInv, Ours
<1> QED
  BY <1>1, <1>5, <1>6, <1>7 DEF WayInv, Alike

LEMMA SightKept ==
  ASSUME NEW s, Grounded(joint), SightInv(s), Alike(s), host'[s].seen = host[s].seen,
         asked'[host[s].ask] = asked[host[s].ask], Later(joint, joint')
  PROVE  SightInv(s)'
<1> DEFINE c == host[s].seen.command
<1>1. InForce(s, Base(s)) => InForce(s, Base(s))'
  BY DEF Alike, InForce, Base
<1>2. ASSUME c # NoCommand
      PROVE  /\ joint'.request # NoRequest
             /\ (joint'.request = c.request \/ joint'.request.sequence > c.request.sequence)
             /\ joint'.request = c.request /\ c.target = "SHELL" => joint'.touched = 2
  <2>1. /\ joint.request # NoRequest /\ joint.request.sequence \in Nat /\ c.request.sequence \in Nat
        /\ (joint.request = c.request \/ joint.request.sequence > c.request.sequence)
        /\ joint.request = c.request /\ c.target = "SHELL" => joint.touched = 2
    BY <1>2 DEF SightInv, Grounded, Wide
  <2>2. CASE joint'.request = joint.request /\ (joint.touched = 2 => joint'.touched = 2)
    BY <2>1, <2>2
  <2>3. CASE joint'.request \in Wide /\ joint'.request # NoRequest /\ joint'.request.sequence > joint.request.sequence
    <3>1. joint'.request.sequence \in Nat /\ joint'.request.sequence > c.request.sequence
      BY <2>1, <2>3 DEF Wide
    <3> QED
      BY <2>1, <2>3, <3>1
  <2> QED
    BY <2>1, <2>2, <2>3 DEF Later
<1>3. ASSUME c # NoCommand
      PROVE  /\ c.request.sequence \in Nat
             /\ c.target = "SHELL" /\ c.operation = "CONFIRM" => disk.completed = c.request.candidate
             /\ c.target = "SHELL" /\ c.operation = "RESTORE" /\ host[s].part.restore.ticket = c.ticket
                  /\ host[s].part.restore.result = "OK" => live[s] = host[s].part.confirmed
  BY <1>3 DEF SightInv
<1>4. host[s].seen.state \in {"ABORTED", "STALE"} /\ host[s].seen.sequence = host[s].sequence => InForce(s, Base(s))
  BY DEF SightInv
<1> QED
  BY <1>1, <1>2, <1>3, <1>4 DEF SightInv, Alike

(* A session that looks at the coordinator as it is now.                    *)
LEMMA SightNow ==
  ASSUME NEW s, Ticketed(joint)', ProgressInv(joint'), CompletedInv(joint', disk'.completed),
         WayInv(s)', host'[s].sequence \in Nat, host'[s].seen = View',
         LET c == joint'.pending
             p == host'[s].part IN
         c # NoCommand /\ c.target = "SHELL" /\ c.operation = "RESTORE"
           /\ p.restore.ticket = joint'.ticket /\ p.restore.result = "OK" => live'[s] = p.confirmed
  PROVE  SightInv(s)'
<1> DEFINE c == joint'.pending
<1>1. /\ host'[s].seen.state = joint'.state /\ host'[s].seen.command = c
      /\ joint'.request # NoRequest => host'[s].seen.sequence = joint'.request.sequence
  BY DEF View
<1>2. Grounded(joint') /\ (joint'.request # NoRequest => joint'.request.sequence \in Nat)
  BY DEF ProgressInv, Grounded, Wide
<1>3. ASSUME c # NoCommand
      PROVE  /\ joint'.request # NoRequest /\ joint'.request = c.request /\ c.request.sequence \in Nat
             /\ c.target = "SHELL" => joint'.touched = 2
             /\ c.target = "SHELL" /\ c.operation = "CONFIRM" => disk'.completed = c.request.candidate
  <2>1. /\ Opens(joint', joint'.step) /\ c.request = joint'.request /\ PendingInv(joint')
        /\ c.target = Dispatch[joint'.step].target /\ c.operation = Dispatch[joint'.step].operation
        /\ joint'.step \in Steps
    BY <1>2, <1>3 DEF ProgressInv, PendingInv, Grounded
  <2>2. c.target = "SHELL" =>
          joint'.step \in {"SHELL_PREPARE", "SHELL_APPLY", "SHELL_VERIFY", "SHELL_FINAL_VERIFY", "SHELL_CONFIRM", "SHELL_RESTORE"}
    BY <2>1 DEF Steps, Dispatch
  <2>3. c.target = "SHELL" => joint'.touched = 2
    BY <1>3, <2>1, <2>2 DEF Opens, PendingInv, Trying, Going
  <2>4. c.target = "SHELL" /\ c.operation = "CONFIRM" => joint'.step = "SHELL_CONFIRM"
    BY <2>1, <2>2 DEF Dispatch
  <2>5. c.target = "SHELL" /\ c.operation = "CONFIRM" => disk'.completed = c.request.candidate
    BY <1>3, <2>1, <2>4 DEF CompletedInv, Forward, Going
  <2> QED
    BY <1>2, <2>1, <2>3, <2>5 DEF Opens
<1>4. ASSUME joint'.state \in {"ABORTED", "STALE"}, host'[s].seen.sequence = host'[s].sequence
      PROVE  InForce(s, Base(s))'
  <2>1. ~Past(s)'
    BY <1>1, <1>2, <1>4 DEF Past
  <2>2. CASE ~Ours(s)'
    BY <2>1, <2>2 DEF WayInv, InForce
  <2>3. CASE Ours(s)'
    <3>1. joint'.request.base = Base(s)'
      BY <2>3 DEF Ours, Request, Base
    <3>2. joint'.touched = 2 => disk'.completed = Base(s)' /\ Restored(joint')
      BY <1>4, <3>1 DEF CompletedInv, Back, ProgressInv, Restored
    <3>3. joint'.touched # 2 => ~joint'.publishAttempted
      BY <1>2 DEF Grounded
    <3> QED
      BY <2>1, <2>3, <3>2, <3>3 DEF WayInv, InForce
  <2> QED
    BY <2>2, <2>3
<1>5. c # NoCommand => c.ticket = joint'.ticket
  BY DEF Ticketed
<1> QED
  BY <1>1, <1>3, <1>4, <1>5 DEF SightInv

-----------------------------------------------------------------------------
(* What others do leaves a session as it is.                                *)
Same9(h, g) ==
  /\ h.at = g.at /\ h.seen = g.seen /\ h.part = g.part /\ h.receipt = g.receipt /\ h.ask = g.ask
  /\ h.snapshot = g.snapshot /\ h.sequence = g.sequence /\ h.epoch = g.epoch

LEMMA HeldKept ==
  ASSUME NEW s \in Shells, Grounded(joint), HeldInv(s), worker'[s] = worker[s], live'[s] = live[s],
         Same9(host'[s], host[s]),
         \/ host'[s].queued = host[s].queued
         \/ host'[s].queued \in Asks /\ asked'[host'[s].queued] # Nobody,
         \A a \in Asks : asked[a] # Nobody => asked'[a] = asked[a],
         \A n \in Nat : Did(s, n) => Did(s, n)',
         host[s].at \in {"boot"} \cup Between \cup Talking => disk'.completed = disk.completed,
         host[s].at \in Talking => Later(joint, joint'),
         host[s].at \in Talking /\ joint'.request = joint.request /\ joint'.touched = 2 /\ Restored(joint') => Restored(joint),
         worker[s].status \in Busy => joint'.pending = joint.pending
  PROVE  HeldInv(s)'
<1>1. host[s].ask \in Asks /\ Base(s) # Nobody =>
        asked'[host[s].ask] = asked[host[s].ask] /\ Base(s)' = Base(s) /\ Goal(s)' = Goal(s) /\ Request(s)' = Request(s)
  BY DEF Base, Goal, Candidate, Request, Same9
<1>2. KeptInv(s) => KeptInv(s)'
  BY DEF KeptInv, Same9
<1>3. ASSUME host[s].at \in Talking PROVE WayInv(s)' /\ SightInv(s)'
  <2>1. /\ WayInv(s) /\ SightInv(s) /\ host[s].sequence \in Nat /\ host[s].ask \in Asks /\ Base(s) # Nobody
    BY <1>3 DEF HeldInv, KeptInv, Transacting
  <2>2. Alike(s) /\ host'[s].seen = host[s].seen /\ Later(joint, joint')
    BY <1>3 DEF Alike, Same9
  <2>3. Begun(s) /\ Ours(s) /\ joint'.request = joint.request /\ joint'.touched = 2 /\ Restored(joint') =>
           live[s] = host[s].part.confirmed
    BY <1>3, <2>1 DEF WayInv
  <2>4. WayInv(s)'
    BY <1>1, <2>1, <2>2, <2>3, WayKept
  <2>5. SightInv(s)'
    BY <1>1, <2>1, <2>2, SightKept
  <2> QED
    BY <2>4, <2>5
<1>4. host'[s].queued # Nobody => host'[s].queued \in Asks /\ asked'[host'[s].queued] # Nobody
  BY DEF HeldInv
<1>5. host'[s].at \in {"lease", "bind"} =>
       host'[s].epoch \in Epochs /\ (host'[s].seen.state = "IDLE" => host'[s].seen.sequence = 0)
  BY DEF HeldInv, Same9
<1>6. host'[s].at \in {"boot"} \cup Between \cup Talking => KeptInv(s)'
  BY <1>2 DEF HeldInv, Same9
<1>7. host'[s].at = "boot" => host'[s].part = Unprepared(disk'.completed)
  BY DEF HeldInv, Same9
<1>8. host'[s].at \in Between => InForce(s, disk.completed)' /\ host'[s].snapshot = disk'.completed
  BY DEF HeldInv, Same9, InForce
<1>9. host'[s].at \in {"look", "record"} \cup Transacting => host'[s].ask \in Asks /\ (Base(s) # Nobody)'
  BY <1>1 DEF HeldInv, Same9
<1>10. host'[s].at \in {"record", "start", "sent"} => Base(s)' = disk'.completed /\ (Goal(s) # Base(s))'
  BY <1>1 DEF HeldInv, Same9, Transacting, Between
<1>11. host'[s].at \in {"start", "sent"} => host'[s].part.sequence < host'[s].sequence
  BY DEF HeldInv, Same9
<1>12. host'[s].at \in Transacting => WorkedInv(s)'
  BY DEF HeldInv, Same9, WorkedInv, Transacting, Between
<1>13. host'[s].at \in Talking => WayInv(s)' /\ SightInv(s)'
  BY <1>3 DEF Same9
<1>14. host'[s].at = "gtk" => host'[s].receipt.command.request = Request(s)' /\ Begun(s)'
  BY <1>1 DEF HeldInv, Same9, Begun, Transacting, Talking
<1>15. host'[s].at = "receipt" => ReceiptInv(s)'
  BY DEF HeldInv, Same9, ReceiptInv, Talking
<1>16. worker'[s].status \in Busy =>
         worker'[s].command = joint'.pending /\ (host'[s].at = "poll" => worker'[s].command.request = Request(s)')
  BY <1>1 DEF HeldInv, Same9, Transacting, Talking
<1> QED
  BY <1>4, <1>5, <1>6, <1>7, <1>8, <1>9, <1>10, <1>11, <1>12, <1>13, <1>14, <1>15, <1>16 DEF HeldInv

(* Only the session of s makes this step; if it touches what others see, it *)
(* holds the lease.                                                         *)
LEMMA RunsAlone ==
  ASSUME NEW s \in Shells, IInv, RunsInv,
         \A t \in Shells \ {s} : Same9(host'[t], host[t]) /\ host'[t].queued = host[t].queued
                                 /\ worker'[t] = worker[t] /\ live'[t] = live[t],
         \A t \in Shells \ {s}, n \in Nat : Did(t, n) => Did(t, n)',
         asked' = asked, DOMAIN live' = DOMAIN live,
         \/ joint' = joint /\ disk'.completed = disk.completed
         \/ host[s].at \in Serving \/ worker[s].status \in Busy,
         ProgressInv(joint'), CompletedInv(joint', disk'.completed), flying' \subseteq Wide, HeldInv(s)'
  PROVE  RunsInv'
<1>1. ASSUME NEW t \in Shells \ {s} PROVE HeldInv(t)'
  <2>1. Grounded(joint) /\ HeldInv(t)
    BY DEF RunsInv, ProgressInv
  <2>2. CASE joint' = joint /\ disk'.completed = disk.completed
    BY <2>1, <2>2, HeldKept DEF Later
  <2>3. CASE host[s].at \in Serving \/ worker[s].status \in Busy
    <3>1. host[t].at \notin Serving /\ worker[t].status \notin Busy
      BY <2>3 DEF IInv, LeaseInv
    <3>2. host[t].at \notin {"boot"} \cup Between \cup Talking
      BY <3>1 DEF Serving, Between, Talking
    <3> QED
      BY <2>1, <3>1, <3>2, HeldKept
  <2> QED
    BY <2>2, <2>3
<1> QED
  BY <1>1 DEF RunsInv

(* The coordinator's own steps, and those of the native participant.        *)
LEMMA CoordinatorRuns ==
  ASSUME IInv, TwiceInv, RunsInv, \/ \E r \in flying : Arrives(r)
                                  \/ \E keep \in BOOLEAN : Decision(keep)
                                  \/ NativeReply \/ NativeTimeout
  PROVE  RunsInv'
<1>1. Ticketed(joint) /\ ProgressInv(joint) /\ Grounded(joint) /\ CompletedInv(joint, disk.completed)
  BY DEF TwiceInv, RunsInv, ProgressInv
<1>2. /\ UNCHANGED <<host, worker, live, disk, asked, ran>> /\ flying' \subseteq Wide
      /\ \/ joint' = joint
         \/ Renews(joint, joint') /\ joint.pending = NoCommand
         \/ Turns(joint, joint') /\ (joint'.pending = joint.pending \/ joint.pending = NoCommand \/ joint.pending.target = "NATIVE")
  <2>1. CASE \E r \in flying : Arrives(r)
    BY <1>1, <2>1, StartRenews DEF Arrives, RunsInv, world, past
  <2>2. CASE \E keep \in BOOLEAN : Decision(keep)
    BY <1>1, <2>2, DecisionTurns DEF Decision, RunsInv
  <2>3. CASE NativeReply \/ NativeTimeout
    BY <1>1, <2>3, NativeTurns DEF NativeReply, NativeTimeout, RunsInv, past
  <2> QED
    BY <2>1, <2>2, <2>3
<1>3. ProgressInv(joint') /\ CompletedInv(joint', disk'.completed) /\ Later(joint, joint')
      /\ (joint'.request = joint.request /\ joint'.touched = 2 /\ Restored(joint') => Restored(joint))
  BY <1>1, <1>2 DEF Renews, Turns, Keeps, CompletedInv, Later
<1>4. ASSUME NEW s \in Shells PROVE HeldInv(s)'
  <2>1. worker[s].status \in Busy => joint'.pending = joint.pending
    <3>1. worker[s].status \in Busy => WorkInv(s) /\ worker[s].command = joint.pending
      BY DEF TwiceInv, SessionInv, RunsInv, HeldInv
    <3> QED
      BY <1>2, <3>1 DEF WorkInv
  <2>2. Same9(host'[s], host[s]) /\ \A n \in Nat : Did(s, n) => Did(s, n)'
    BY <1>2 DEF Same9, Did
  <2> QED
    BY <1>1, <1>2, <1>3, <2>1, <2>2, HeldKept DEF RunsInv
<1> QED
  BY <1>2, <1>3, <1>4 DEF RunsInv

-----------------------------------------------------------------------------
(* The steps of a session, one by one.                                      *)
Gone == {"down", "attach", "recovering", "finally"}

(* The step of s changes nothing that others see.                           *)
Quiet(s) ==
  /\ joint' = joint /\ disk'.completed = disk.completed /\ asked' = asked /\ flying' \subseteq Wide
  /\ DOMAIN live' = DOMAIN live
  /\ \A t \in Shells \ {s} : host'[t] = host[t] /\ worker'[t] = worker[t] /\ live'[t] = live[t]
  /\ ran' = ran

LEMMA QuietRuns ==
  ASSUME NEW s \in Shells, IInv, RunsInv, Quiet(s), HeldInv(s)'
  PROVE  RunsInv'
BY RunsAlone DEF Quiet, RunsInv, Same9, Did

LEMMA GoneRuns ==
  ASSUME NEW s \in Shells, IInv, RunsInv, Quiet(s), host'[s].at \in Gone,
         host'[s].queued \in {host[s].queued, Nobody},
         worker'[s] = worker[s] \/ worker'[s].status \notin Busy
  PROVE  RunsInv'
<1>1. HeldInv(s)
  BY DEF RunsInv
<1>2. host'[s].at \notin {"lease", "bind", "boot", "poll", "gtk", "receipt"} \cup Between \cup Transacting \cup Talking
  BY DEF Gone, Between, Transacting, Talking
<1>3. host'[s].queued # Nobody => host'[s].queued \in Asks /\ asked'[host'[s].queued] # Nobody
  BY <1>1 DEF HeldInv, Quiet
<1>4. worker'[s].status \in Busy => worker'[s].command = joint'.pending
  BY <1>1 DEF HeldInv, Quiet
<1>5. host'[s].at # "poll"
  BY DEF Gone
<1>6. HeldInv(s)'
  BY <1>2, <1>3, <1>4, <1>5 DEF HeldInv, Between, Transacting, Talking
<1> QED
  BY <1>6, QuietRuns

LEMMA LeavingRuns ==
  ASSUME IInv, TwiceInv, RunsInv, NEW s \in Shells,
         \/ Launch(s) \/ Kill(s) \/ Attach(s) \/ Lost(s) \/ Abandons(s) \/ End(s) \/ Stop(s)
  PROVE  RunsInv'
<1> USE DEF world, past, Fault, Step, Ends, Gone
<1>1. /\ DOMAIN host = Shells /\ DOMAIN worker = Shells /\ DOMAIN host[s] = DOMAIN Started
      /\ DOMAIN worker[s] = DOMAIN Idle /\ flying \subseteq Wide /\ DOMAIN live = Shells
  BY DEF IInv, Shape, RunsInv
<1>2. /\ UNCHANGED <<joint, disk, asked, ran>> /\ flying' \subseteq Wide
  BY <1>1 DEF Launch, Kill, Attach, Lost, Abandons, End, Stop
<1>3. /\ \A t \in Shells \ {s} : host'[t] = host[t] /\ worker'[t] = worker[t] /\ live'[t] = live[t]
      /\ DOMAIN live' = DOMAIN live
  BY <1>1 DEF Launch, Kill, Attach, Lost, Abandons, End, Stop
<1>4. Quiet(s)
  BY <1>2, <1>3 DEF Quiet
<1>5. CASE Launch(s)
  BY <1>1, <1>4, <1>5, GoneRuns DEF Launch, Started
<1>6. CASE Kill(s)
  BY <1>1, <1>4, <1>6, GoneRuns DEF Kill, Down, Started, Idle, Busy
<1>7. CASE Attach(s)
  BY <1>1, <1>4, <1>7, GoneRuns DEF Attach, Started
<1>8. CASE Lost(s)
  BY <1>1, <1>4, <1>8, GoneRuns DEF Lost, Started
<1>9. CASE Abandons(s)
  BY <1>1, <1>4, <1>9, GoneRuns DEF Abandons, Started
<1>10. CASE End(s)
  BY <1>1, <1>4, <1>10, GoneRuns DEF End, Finally, Down, Started, Idle, Busy
<1>11. CASE Stop(s)
  BY <1>1, <1>4, <1>11, GoneRuns DEF Stop, Started
<1> QED
  BY <1>5, <1>6, <1>7, <1>8, <1>9, <1>10, <1>11

(* From the attach to the loop.                                             *)
LEMMA ArrivingRuns ==
  ASSUME IInv, TwiceInv, RunsInv, NEW s \in Shells, Recovered(s) \/ Lease(s) \/ Bind(s) \/ Boot(s) \/ Close(s)
  PROVE  RunsInv'
<1> USE DEF world, past, Fault, Step, Ends, Gone
<1>1. /\ DOMAIN host = Shells /\ DOMAIN worker = Shells /\ DOMAIN host[s] = DOMAIN Started
      /\ DOMAIN worker[s] = DOMAIN Idle /\ flying \subseteq Wide /\ DOMAIN live = Shells
  BY DEF IInv, Shape, RunsInv
<1>2. /\ UNCHANGED <<joint, disk, asked, ran, worker, flying>>
  BY DEF Recovered, Lease, Bind, Boot, Close
<1>3. /\ \A t \in Shells \ {s} : host'[t] = host[t] /\ worker'[t] = worker[t] /\ live'[t] = live[t]
      /\ DOMAIN live' = DOMAIN live
  BY <1>1 DEF Recovered, Lease, Bind, Boot, Close
<1>4. Quiet(s)
  BY <1>1, <1>2, <1>3 DEF Quiet
<1>5. HeldInv(s) /\ ProgressInv(joint) /\ SessionInv(s)
  BY DEF RunsInv, TwiceInv
<1>6. host[s].at \in {"recovering", "lease", "bind", "boot"} => worker[s].status \notin Busy
  BY <1>5 DEF SessionInv, WorkInv
<1>7. host'[s].queued # Nobody /\ host'[s].queued = host[s].queued =>
        host'[s].queued \in Asks /\ asked'[host'[s].queued] # Nobody
  BY <1>2, <1>5 DEF HeldInv
<1>8. CASE Recovered(s)
  <2>1. /\ host'[s].at = "lease" /\ host'[s].epoch = joint.epoch /\ host'[s].seen = View
        /\ host'[s].queued = host[s].queued /\ host[s].at = "recovering"
    BY <1>1, <1>8 DEF Recovered, Started
  <2>2. joint.epoch \in Epochs /\ (View.state = "IDLE" => View.sequence = 0)
    BY <1>5 DEF ProgressInv, Grounded, View
  <2>3. HeldInv(s)'
    BY <1>2, <1>6, <1>7, <2>1, <2>2 DEF HeldInv, Between, Transacting, Talking
  <2> QED
    BY <1>4, <2>3, QuietRuns
<1>9. CASE Lease(s)
  <2>1. CASE host'[s].at = "bind"
    <3>1. /\ host'[s].epoch = host[s].epoch /\ host'[s].seen = host[s].seen
          /\ host'[s].queued = host[s].queued /\ host[s].at = "lease"
      BY <1>1, <1>9, <2>1 DEF Lease, Started
    <3>2. HeldInv(s)'
      BY <1>2, <1>5, <1>6, <1>7, <2>1, <3>1 DEF HeldInv, Between, Transacting, Talking
    <3> QED
      BY <1>4, <3>2, QuietRuns
  <2>2. CASE host'[s].at # "bind"
    BY <1>1, <1>2, <1>4, <1>9, <2>2, GoneRuns DEF Lease, Started
  <2> QED
    BY <2>1, <2>2
<1>10. CASE Bind(s)
  <2>1. CASE Attached(s)
    <3> DEFINE known == IF host[s].last = Nobody /\ disk.journal # Nobody
                        THEN [host[s] EXCEPT !.last = disk.journal.ask, !.answer = "unknown"] ELSE host[s]
               part == Unprepared(disk.completed)
               bound == [known EXCEPT !.at = "boot", !.sequence = host[s].seen.sequence, !.seen = Nobody,
                                      !.part = part]
    <3>1. DOMAIN known = DOMAIN Started /\ known.queued = host[s].queued /\ known.epoch = host[s].epoch
      BY <1>1 DEF Started
    <3>2. host' = [host EXCEPT ![s] = bound] /\ host[s].at = "bind" /\ host[s].seen.state = "IDLE"
      BY <1>10, <2>1 DEF Bind, Attached
    <3>3. part.sequence = 0 /\ part.restore.result = Nobody /\ part = Unprepared(disk.completed)
      BY DEF Unprepared
    <3> HIDE DEF known, part
    <3>4. /\ bound.at = "boot" /\ bound.part = part /\ bound.queued = host[s].queued /\ bound.epoch = host[s].epoch
          /\ bound.sequence = host[s].seen.sequence
      BY <3>1 DEF Started
    <3> HIDE DEF bound
    <3>5. host'[s] = bound
      BY <1>1, <3>2
    <3>6. host[s].epoch \in Epochs /\ host[s].seen.sequence = 0
      BY <1>5, <3>2 DEF HeldInv
    <3>7. KeptInv(s)'
      BY <3>3, <3>4, <3>5, <3>6 DEF KeptInv
    <3>8. HeldInv(s)'
      BY <1>2, <1>6, <1>7, <3>2, <3>3, <3>4, <3>5, <3>7 DEF HeldInv, Between, Transacting, Talking
    <3> QED
      BY <1>4, <3>8, QuietRuns
  <2>2. CASE ~Attached(s)
    BY <1>1, <1>2, <1>4, <1>10, <2>2, GoneRuns DEF Bind, Started
  <2> QED
    BY <2>1, <2>2
<1>11. CASE Boot(s)
  <2>1. CASE host'[s].at = "idle"
    <3>1. /\ host[s].at = "boot" /\ host'[s].part = host[s].part /\ host'[s].queued = host[s].queued
          /\ host'[s].snapshot = host[s].part.confirmed
          /\ host'[s].epoch = host[s].epoch /\ host'[s].sequence = host[s].sequence
      BY <1>1, <1>11, <2>1 DEF Boot, Started
    <3>2. live' = [live EXCEPT ![s] = host[s].part.confirmed]
      BY <1>1, <1>11, <2>1 DEF Boot, Started
    <3>3. KeptInv(s) /\ host[s].part.confirmed = disk.completed
      BY <1>5, <3>1 DEF HeldInv, Unprepared
    <3>4. s \in DOMAIN live
      BY <1>1
    <3>5. KeptInv(s)' /\ InForce(s, disk.completed)' /\ host'[s].snapshot = disk'.completed
      BY <1>2, <3>1, <3>2, <3>3, <3>4 DEF KeptInv, InForce, Did
    <3>6. HeldInv(s)'
      BY <1>2, <1>6, <1>7, <2>1, <3>1, <3>5 DEF HeldInv, Between, Transacting, Talking
    <3> QED
      BY <1>4, <3>6, QuietRuns
  <2>2. CASE host'[s].at # "idle"
    BY <1>1, <1>2, <1>4, <1>11, <2>2, GoneRuns DEF Boot, Started
  <2> QED
    BY <2>1, <2>2
<1>12. CASE Close(s)
  <2>1. Same9(host'[s], host[s]) /\ host'[s].queued = host[s].queued /\ live' = live
    BY <1>1, <1>12 DEF Close, Started, Same9
  <2>2. HeldInv(s)'
    BY <1>2, <1>5, <2>1, HeldKept DEF ProgressInv, Later, Did
  <2> QED
    BY <1>4, <2>2, QuietRuns
<1> QED
  BY <1>8, <1>9, <1>10, <1>11, <1>12

(* Between two transactions.                                                *)
LEMMA BetweenRuns ==
  ASSUME IInv, TwiceInv, RunsInv, NEW s \in Shells, Dequeue(s) \/ Look(s) \/ Record(s) \/ Send(s)
  PROVE  RunsInv'
<1> USE DEF world, past, Fault, Step, Ends, Gone
<1>1. /\ DOMAIN host = Shells /\ DOMAIN worker = Shells /\ DOMAIN host[s] = DOMAIN Started
      /\ DOMAIN worker[s] = DOMAIN Idle /\ flying \subseteq Wide /\ asked \in [Asks -> Generations \cup {Nobody}]
  BY DEF IInv, Shape, RunsInv
<1>2. HeldInv(s) /\ SessionInv(s) /\ host[s].at \in Between /\ worker[s].status \notin Busy
  BY DEF RunsInv, TwiceInv, SessionInv, WorkInv, Dequeue, Look, Record, Send, Between
<1>3. /\ KeptInv(s) /\ InForce(s, disk.completed) /\ host[s].snapshot = disk.completed
      /\ host[s].queued # Nobody => host[s].queued \in Asks /\ asked[host[s].queued] # Nobody
  BY <1>2 DEF HeldInv
<1>4. UNCHANGED <<joint, asked, ran, live>> /\ disk'.completed = disk.completed
  <2>1. CASE Record(s)
    <3>1. \A e : [disk EXCEPT !.journal = e].completed = disk.completed
      BY SMT
    <3>2. disk' = disk \/ \E e : disk' = [disk EXCEPT !.journal = e]
      BY <2>1 DEF Record
    <3>3. UNCHANGED <<joint, asked, ran, live>>
      BY <2>1 DEF Record
    <3> QED
      BY <3>1, <3>2, <3>3
  <2> QED
    BY <2>1 DEF Dequeue, Look, Send
<1>5. \A t \in Shells \ {s} : host'[t] = host[t] /\ worker'[t] = worker[t]
  BY <1>1 DEF Dequeue, Look, Answer, Record, Send
<1>6. host[s].at = "start" => Request(s) \in Wide
  <2>1. host[s].at = "start" => /\ asked[host[s].ask] \in Generations /\ host[s].ask \in Asks
    BY <1>1, <1>2 DEF HeldInv, Transacting, Base
  <2>2. host[s].at = "start" => Candidate(host[s].ask) \in Generations
    BY <2>1, EditAssumption DEF Candidate
  <2> QED
    BY <1>3, <2>1, <2>2 DEF Request, Wide, KeptInv
<1>7. flying' \subseteq Wide
  BY <1>1, <1>6 DEF Dequeue, Look, Record, Send
<1>8. Quiet(s)
  BY <1>4, <1>5, <1>7 DEF Quiet
<1>9. CASE host'[s].at = "finally"
  <2>1. host'[s].queued \in {host[s].queued, Nobody}
    BY <1>1 DEF Dequeue, Look, Answer, Record, Send, Started
  <2>2. worker'[s] = worker[s] \/ worker'[s].status \notin Busy
    BY <1>1 DEF Dequeue, Look, Record, Send, Idle, Busy
  <2> QED
    BY <1>8, <1>9, <2>1, <2>2, GoneRuns
<1>10. CASE host'[s].at # "finally"
  <2>1. /\ host'[s].part = host[s].part /\ host'[s].snapshot = host[s].snapshot
        /\ host'[s].epoch = host[s].epoch
        /\ host'[s].queued \in {host[s].queued, Nobody}
        /\ worker'[s].status \notin Busy
    BY <1>1, <1>2 DEF Dequeue, Look, Answer, Record, Send, Started, Idle, Busy
  <2>2. \/ host'[s].at \in {"idle", "look", "record", "sent"} /\ host'[s].sequence = host[s].sequence
        \/ host'[s].at = "start" /\ host'[s].sequence = host[s].sequence + 1
    BY <1>1, <1>10 DEF Dequeue, Look, Answer, Record, Send, Started
  <2>3. InForce(s, disk.completed)' /\ host'[s].snapshot = disk'.completed
    BY <1>3, <1>4, <2>1 DEF InForce
  <2>4. KeptInv(s)' /\ (host'[s].at = "start" => host'[s].part.sequence < host'[s].sequence)
    BY <1>3, <1>4, <2>1, <2>2 DEF KeptInv, Did
  <2>5. host'[s].at \in {"look", "record", "start", "sent"} => host'[s].ask \in Asks /\ asked[host'[s].ask] # Nobody
    BY <1>1, <1>2, <1>3, <1>10 DEF Dequeue, Look, Answer, Record, Send, HeldInv, Base, Transacting, Started
  <2>6. host'[s].at \in {"record", "start", "sent"} =>
          asked[host'[s].ask] = disk.completed /\ Candidate(host'[s].ask) # asked[host'[s].ask]
    BY <1>1, <1>2, <1>10 DEF Dequeue, Look, Answer, Record, Send, HeldInv, Base, Goal, Started
  <2>7. /\ Base(s)' = asked[host'[s].ask]
        /\ Goal(s)' = Candidate(host'[s].ask)
    BY <1>4 DEF Base, Goal, Candidate
  <2>8. host'[s].at = "sent" => host'[s].part.sequence < host'[s].sequence
    BY <1>1, <1>2, <1>10 DEF Dequeue, Look, Answer, Record, Send, HeldInv, Started
  <2>9. host'[s].at \in {"start", "sent"} => WorkedInv(s)'
    <3>1. CASE Record(s)
      BY <1>1, <1>10, <3>1 DEF Record, WorkedInv, Idle, Started
    <3>2. CASE Send(s)
      BY <1>2, <1>4, <3>2 DEF Send, WorkedInv, HeldInv, Transacting
    <3> QED
      BY <1>1, <3>1, <3>2 DEF Dequeue, Look, Answer, Started
  <2>10. HeldInv(s)'
    BY <1>3, <1>4, <2>1, <2>2, <2>3, <2>4, <2>5, <2>6, <2>7, <2>8, <2>9 DEF HeldInv, Between, Transacting, Talking
  <2> QED
    BY <1>8, <2>10, QuietRuns
<1> QED
  BY <1>9, <1>10

(* A session looks at the coordinator.                                      *)
LEMMA LookingRuns ==
  ASSUME IInv, TwiceInv, RunsInv, NEW s \in Shells, Sent(s) \/ Status(s)
  PROVE  RunsInv'
<1> USE DEF world, past, Fault
<1>1. /\ DOMAIN host = Shells /\ DOMAIN worker = Shells /\ DOMAIN host[s] = DOMAIN Started
      /\ flying \subseteq Wide
  BY DEF IInv, Shape, RunsInv
<1>2. /\ UNCHANGED <<joint, disk, asked, ran, worker, live, flying>> /\ host[s].at \in {"sent", "poll"}
      /\ \A t \in Shells \ {s} : host'[t] = host[t]
      /\ UNCHANGED recovering
  BY <1>1 DEF Sent, Status, Polls
<1>13. View' = View
  BY <1>2 DEF View
<1>3. Quiet(s)
  BY <1>1, <1>2 DEF Quiet
<1>4. /\ host'[s].at = "poll" /\ host'[s].part = host[s].part /\ host'[s].seen = View' /\ host'[s].ask = host[s].ask
      /\ host'[s].sequence = host[s].sequence /\ host'[s].epoch = host[s].epoch /\ host'[s].snapshot = host[s].snapshot
      /\ host'[s].queued = host[s].queued
  <2>1. host' = [host EXCEPT ![s].at = "poll", ![s].seen = View]
    <3>1. CASE Sent(s)
      BY <3>1 DEF Sent
    <3>2. CASE Status(s)
      <4>1. host' = [host EXCEPT ![s].seen = View] /\ host[s].at = "poll"
        BY <3>2 DEF Status, Polls
      <4> QED
        BY <1>1, <4>1 DEF Started
    <3> QED
      BY <3>1, <3>2
  <2> QED
    BY <1>1, <1>13, <2>1 DEF Started
<1>5. HeldInv(s) /\ SessionInv(s) /\ KeptInv(s) /\ host[s].ask \in Asks /\ Base(s) # Nobody /\ WorkedInv(s)
  BY <1>2 DEF RunsInv, TwiceInv, HeldInv, Between, Talking, Transacting
<1>6. /\ Base(s)' = Base(s) /\ Goal(s)' = Goal(s) /\ Request(s)' = Request(s) /\ (Begun(s)' <=> Begun(s))
  BY <1>2, <1>4 DEF Base, Goal, Candidate, Request, Begun
<1>7. Ticketed(joint) /\ ProgressInv(joint) /\ CompletedInv(joint, disk.completed) /\ Grounded(joint) /\ joint.ticket \in Nat
  BY DEF RunsInv, TwiceInv, ProgressInv, Ticketed
<1>8. WayInv(s)'
  <2>1. CASE host[s].at = "sent"
    <3>1. /\ InForce(s, disk.completed) /\ host[s].snapshot = disk.completed /\ Base(s) = disk.completed /\ Goal(s) # Base(s)
          /\ host[s].part.sequence < host[s].sequence
      BY <1>5, <2>1 DEF HeldInv, Between
    <3>2. ~Begun(s)
      BY <1>5, <3>1 DEF Begun, KeptInv
    <3> QED
      BY <1>2, <1>4, <1>6, <3>1, <3>2 DEF WayInv, InForce
  <2>2. CASE host[s].at = "poll"
    <3>1. WayInv(s)
      BY <1>5, <2>2 DEF HeldInv, Talking
    <3> QED
      BY <1>2, <1>4, <1>5, <1>7, <3>1, WayKept DEF Alike, Later, WayInv, KeptInv
  <2> QED
    BY <1>2, <2>1, <2>2
<1>9. SightInv(s)'
  <2>1. LET c == joint.pending
            p == host[s].part IN
        c # NoCommand /\ c.target = "SHELL" /\ c.operation = "RESTORE"
           /\ p.restore.ticket = joint.ticket /\ p.restore.result = "OK" => live[s] = p.confirmed
    <3>1. host[s].part.restore.result = "OK" => Did(s, host[s].part.restore.ticket)
      BY <1>5, NobodyAssumption DEF KeptInv
    <3>2. CASE host[s].at = "sent"
      BY <1>5, <3>1, <3>2 DEF SessionInv, Between
    <3>3. CASE host[s].at = "poll"
      <4>1. SeenInv(s) /\ SightInv(s)
        BY <1>5, <3>3 DEF SessionInv, HeldInv, Talking
      <4> QED
        BY <1>7, <3>1, <4>1 DEF SeenInv, SightInv, Ticketed
    <3> QED
      BY <1>2, <3>2, <3>3
  <2> QED
    BY <1>2, <1>4, <1>5, <1>7, <1>8, <2>1, SightNow DEF KeptInv
<1>10. KeptInv(s)' /\ WorkedInv(s)'
  BY <1>2, <1>4, <1>5 DEF KeptInv, WorkedInv, Did
<1>11. worker'[s].status \in Busy => worker'[s].command = joint'.pending /\ worker'[s].command.request = Request(s)'
  BY <1>2, <1>5, <1>6 DEF HeldInv, SessionInv, WorkInv
<1>12. HeldInv(s)'
  BY <1>2, <1>4, <1>5, <1>6, <1>8, <1>9, <1>10, <1>11 DEF HeldInv, Between, Transacting, Talking
<1> QED
  BY <1>3, <1>12, QuietRuns

LEMMA FinishRuns ==
  ASSUME IInv, TwiceInv, RunsInv, NEW s \in Shells, Finish(s)
  PROVE  RunsInv'
<1> USE DEF world, past, Ends, Gone
<1>1. /\ DOMAIN host = Shells /\ DOMAIN worker = Shells /\ DOMAIN host[s] = DOMAIN Started
      /\ DOMAIN worker[s] = DOMAIN Idle /\ flying \subseteq Wide
  BY DEF IInv, Shape, RunsInv
<1>2. /\ UNCHANGED <<joint, disk, asked, ran, live, flying>> /\ host[s].at = "poll" /\ ~Strange(s)
      /\ \A t \in Shells \ {s} : host'[t] = host[t] /\ worker'[t] = worker[t]
      /\ worker'[s].status = worker[s].status
  BY <1>1 DEF Finish, Polls, Answer, Idle
<1>3. Quiet(s)
  BY <1>1, <1>2 DEF Quiet
<1>4. HeldInv(s) /\ SeenInv(s) /\ KeptInv(s) /\ WayInv(s) /\ SightInv(s) /\ SessionInv(s)
  BY <1>2 DEF RunsInv, TwiceInv, HeldInv, SessionInv, Talking
<1>5. worker'[s].status \notin Busy
  BY <1>2, <1>4 DEF Finish, SeenInv, Over, SessionInv, WorkInv
<1>6. host'[s].queued = host[s].queued
  BY <1>1 DEF Finish, Answer, Started
<1>7. CASE host'[s].at = "finally"
  BY <1>3, <1>5, <1>6, <1>7, GoneRuns
<1>8. CASE host'[s].at # "finally"
  <2>1. /\ host'[s].at = "idle" /\ host'[s].part = host[s].part /\ host'[s].epoch = host[s].epoch
        /\ host'[s].sequence = host[s].sequence
    BY <1>1, <1>8 DEF Finish, Answer, Started
  <2>2. InForce(s, disk.completed) /\ host'[s].snapshot = disk.completed
    <3>1. CASE host[s].seen.state = "COMPLETE"
      <4>1. /\ disk.completed = Goal(s) /\ host[s].part.confirmed = Goal(s) /\ host'[s].snapshot = disk.completed
        BY <1>1, <1>8, <3>1 DEF Finish, Goal, Started
      <4> QED
        BY <1>4, <4>1 DEF WayInv, InForce
    <3>2. CASE host[s].seen.state # "COMPLETE"
      <4>1. host[s].seen.state \in {"ABORTED", "STALE"} /\ host[s].seen.sequence = host[s].sequence
            /\ host'[s].snapshot = host[s].snapshot
        BY <1>1, <1>2, <3>2 DEF Finish, Answer, Strange, Started
      <4> QED
        BY <1>4, <4>1 DEF SightInv, WayInv, InForce
    <3> QED
      BY <3>1, <3>2
  <2>3. InForce(s, disk.completed)' /\ KeptInv(s)'
    BY <1>2, <1>4, <2>1, <2>2 DEF InForce, KeptInv, Did
  <2>4. host'[s].queued # Nobody => host'[s].queued \in Asks /\ asked'[host'[s].queued] # Nobody
    BY <1>2, <1>4, <1>6 DEF HeldInv
  <2>5. HeldInv(s)'
    BY <1>2, <1>5, <2>1, <2>2, <2>3, <2>4 DEF HeldInv, Between, Transacting, Talking
  <2> QED
    BY <1>3, <2>5, QuietRuns
<1> QED
  BY <1>7, <1>8

(* The worker.                                                              *)
LEMMA WorkerRuns ==
  ASSUME IInv, TwiceInv, RunsInv, NEW s \in Shells, Store(s) \/ Work(s)
  PROVE  RunsInv'
<1> USE DEF world, past, Fault, Ends, Gone
<1>1. /\ DOMAIN host = Shells /\ DOMAIN worker = Shells /\ DOMAIN host[s] = DOMAIN Started
      /\ DOMAIN worker[s] = DOMAIN Idle /\ flying \subseteq Wide
  BY DEF IInv, Shape, RunsInv
<1>2. /\ UNCHANGED <<joint, disk, asked, ran, live, flying>>
      /\ \A t \in Shells \ {s} : host'[t] = host[t] /\ worker'[t] = worker[t]
  BY <1>1 DEF Store, Submits, Work
<1>3. Quiet(s)
  BY <1>1, <1>2 DEF Quiet
<1>4. HeldInv(s) /\ SessionInv(s) /\ ProgressInv(joint)
  BY DEF RunsInv, TwiceInv
<1>5. CASE Work(s)
  <2>1. /\ host' = host /\ worker[s].status \in Busy /\ worker'[s].status # "ok"
        /\ worker'[s].command = worker[s].command
    BY <1>1, <1>5 DEF Work, Busy, Idle
  <2>3. host[s].at \in {"poll", "finally"} /\ worker[s].command = joint.pending
    BY <1>4, <2>1 DEF SessionInv, WorkInv, HeldInv
  <2>4. CASE host[s].at = "finally"
    <3>1. HeldInv(s)'
      BY <1>2, <1>4, <2>1, <2>3, <2>4 DEF HeldInv, Between, Transacting, Talking
    <3> QED
      BY <1>3, <3>1, QuietRuns
  <2>5. CASE host[s].at = "poll"
    <3>1. KeptInv(s)' /\ WayInv(s)' /\ SightInv(s)' /\ WorkedInv(s)'
      <4>1. KeptInv(s) /\ WayInv(s) /\ SightInv(s)
        BY <1>4, <2>5 DEF HeldInv, Talking
      <4>2. KeptInv(s)'
        BY <1>2, <2>1, <4>1 DEF KeptInv, Did
      <4>4. /\ Base(s)' = Base(s) /\ Goal(s)' = Goal(s)
            /\ Begun(s)' = Begun(s) /\ Past(s)' = Past(s) /\ Ours(s)' = Ours(s)
            /\ \A g : InForce(s, g)' <=> InForce(s, g)
        BY <1>2, <2>1 DEF Base, Goal, Candidate, Begun, Past, Ours, Request, InForce
      <4>5. WayInv(s)'
        BY <1>2, <2>1, <4>1, <4>4 DEF WayInv
      <4>6. SightInv(s)'
        BY <1>2, <2>1, <4>1, <4>4 DEF SightInv
      <4> QED
        BY <2>1, <4>2, <4>5, <4>6 DEF WorkedInv
    <3>2. Base(s)' = Base(s) /\ Request(s)' = Request(s)
      BY <1>2, <2>1 DEF Base, Request, Candidate
    <3>3. HeldInv(s)'
      BY <1>2, <1>4, <2>1, <2>5, <3>1, <3>2 DEF HeldInv, Between, Transacting, Talking
    <3> QED
      BY <1>3, <3>3, QuietRuns
  <2> QED
    BY <2>3, <2>4, <2>5
<1>6. CASE Store(s)
  <2> DEFINE c == host[s].seen.command
  <2>1. /\ host[s].at = "poll" /\ c # NoCommand /\ c.target = "STORE" /\ Submits(s, c) /\ ~Strange(s)
    BY <1>6 DEF Store, Polls
  <2>2. /\ KeptInv(s) /\ WayInv(s) /\ SightInv(s) /\ SeenInv(s) /\ WorkedInv(s)
        /\ host[s].ask \in Asks /\ Base(s) # Nobody
    BY <1>4, <2>1 DEF HeldInv, SessionInv, Talking, Transacting
  <2>3. c.request = Request(s)
    BY <2>1, <2>2 DEF Strange, SeenInv, Over
  <2> HIDE DEF c
  <2>4. CASE host'[s].at = "finally"
    BY <1>1, <1>3, <2>1, <2>4, GoneRuns DEF Submits, Started
  <2>5. CASE host'[s].at # "finally"
    <3>1. /\ host'[s].part = host[s].part /\ host'[s].ask = host[s].ask /\ host'[s].snapshot = host[s].snapshot
          /\ host'[s].sequence = host[s].sequence /\ host'[s].epoch = host[s].epoch /\ host'[s].queued = host[s].queued
          /\ host'[s].seen = host[s].seen
      BY <1>1, <2>1, <2>5 DEF Submits, Started
    <3>2. \/ /\ host'[s].at = "receipt" /\ worker' = worker /\ worker[s].command = c /\ worker[s].status \in {"ok", "failed"}
             /\ host'[s].receipt.command = c /\ host'[s].receipt.current = worker[s].current
             /\ host'[s].receipt.result = "OK" => worker[s].status = "ok"
          \/ host'[s].at = "poll" /\ worker'[s] = worker[s]
          \/ host'[s].at = "poll" /\ worker'[s].status = "queued" /\ worker'[s].command = c /\ worker[s].command # c
      BY <1>1, <2>1, <2>5 DEF Submits, Ended, Started, Idle
    <3>3. KeptInv(s)' /\ WayInv(s)' /\ SightInv(s)'
      <4>1. KeptInv(s)'
        BY <1>2, <2>2, <3>1 DEF KeptInv, Did
      <4>2. /\ Base(s)' = Base(s) /\ Goal(s)' = Goal(s)
            /\ Begun(s)' = Begun(s) /\ Past(s)' = Past(s) /\ Ours(s)' = Ours(s)
            /\ \A g : InForce(s, g)' <=> InForce(s, g)
        BY <1>2, <3>1 DEF Base, Goal, Candidate, Begun, Past, Ours, Request, InForce
      <4>3. WayInv(s)'
        BY <1>2, <2>2, <3>1, <4>2 DEF WayInv
      <4>4. SightInv(s)'
        BY <1>2, <2>2, <3>1, <4>2 DEF SightInv
      <4> QED
        BY <4>1, <4>3, <4>4
    <3>4. Base(s)' = Base(s) /\ Request(s)' = Request(s)
      BY <1>2, <3>1 DEF Base, Request, Candidate
    <3>5. WorkedInv(s)'
      BY <1>2, <2>2, <3>2 DEF WorkedInv
    <3>6. host'[s].at = "receipt" => ReceiptInv(s)'
      BY <1>2, <2>1, <2>2, <3>2 DEF WorkedInv, ReceiptInv
    <3>7. worker'[s].status \in Busy => worker'[s].command = joint'.pending /\ worker'[s].command.request = Request(s)'
      <4>1. CASE worker'[s].command = c /\ worker[s].command # c
        <5>1. c = joint.pending
          BY <2>1, <2>2, <4>1 DEF SeenInv, Acked, c
        <5> QED
          BY <1>2, <2>3, <3>4, <4>1, <5>1
      <4> QED
        BY <1>2, <1>4, <2>1, <3>2, <3>4, <4>1 DEF HeldInv, Busy
    <3>8. HeldInv(s)'
      BY <1>2, <1>4, <2>2, <3>1, <3>2, <3>3, <3>4, <3>5, <3>6, <3>7 DEF HeldInv, Between, Transacting, Talking
    <3> QED
      BY <1>3, <3>8, QuietRuns
  <2> QED
    BY <2>4, <2>5
<1> QED
  BY <1>5, <1>6

LEMMA WorkedRuns ==
  ASSUME IInv, TwiceInv, RunsInv, NEW s \in Shells, Worked(s)
  PROVE  RunsInv'
<1>1. /\ DOMAIN host = Shells /\ DOMAIN worker = Shells /\ DOMAIN worker[s] = DOMAIN Idle /\ flying \subseteq Wide
  BY DEF IInv, Shape, RunsInv
<1>2. PICK c : c = worker[s].command
  OBVIOUS
<1>3. /\ UNCHANGED <<joint, host, live, flying, asked>> /\ worker[s].status = "running"
      /\ ran \subseteq ran'
  BY DEF Worked, Carried, world
<1>4. HeldInv(s) /\ SessionInv(s) /\ ProgressInv(joint) /\ Ticketed(joint) /\ WorkInv(s) /\ c = joint.pending
      /\ CompletedInv(joint, disk.completed)
  BY <1>2, <1>3 DEF RunsInv, TwiceInv, SessionInv, HeldInv, Busy
<1>5. /\ c # NoCommand /\ c.target = "STORE" /\ host[s].at \in {"poll", "finally"}
      /\ host[s].at = "poll" => c = host[s].seen.command /\ c.request = Request(s)
  BY <1>2, <1>3, <1>4 DEF WorkInv, HeldInv, Busy
<1>6. /\ c.request = joint.request /\ joint.request # NoRequest /\ joint.state \in {"RUNNING", "UNKNOWN"}
      /\ joint.step \in Steps /\ c.target = Dispatch[joint.step].target /\ c.operation = Dispatch[joint.step].operation
      /\ joint.step = "PUBLISH" => joint.publishAttempted
  BY <1>4, <1>5 DEF ProgressInv, PendingInv, Grounded, Opens, Ticketed
<1>7. /\ c.operation \in {"CURRENT", "PREPARE", "PUBLISH", "ABANDON"}
      /\ c.operation = "PUBLISH" => joint.step = "PUBLISH"
  BY <1>5, <1>6 DEF Steps, Dispatch
<1>8. /\ DOMAIN worker'[s] = DOMAIN Idle /\ worker'[s].command = c /\ worker'[s].status \in {"ok", "failed"}
      /\ \A t \in Shells \ {s} : worker'[t] = worker[t]
  BY <1>1, <1>2 DEF Worked, Idle
<1>9. \/ disk'.completed = disk.completed
      \/ c.operation = "PUBLISH" /\ disk'.completed = c.request.candidate
  <2>1. /\ \A x : /\ [disk EXCEPT !.pending = x].completed = disk.completed
                  /\ [disk EXCEPT !.completed = c.request.candidate].completed \in {c.request.candidate, disk.completed}
        /\ \A x, y : [disk EXCEPT !.completed = x, !.pending = y].completed \in {x, disk.completed}
    BY SMT
  <2>2. \/ disk' = disk \/ disk' = Written(c)
        \/ c.operation = "PUBLISH" /\ disk' = [disk EXCEPT !.completed = c.request.candidate]
    BY <1>2 DEF Worked
  <2>3. Written(c).completed = disk.completed \/ (c.operation = "PUBLISH" /\ Written(c).completed = c.request.candidate)
    BY <1>7, <2>1 DEF Written
  <2> QED
    BY <2>1, <2>2, <2>3
<1>10. WorkedInv(s)'
  <2> SUFFICES ASSUME worker'[s].status = "ok" PROVE WorkedInv(s)'
    BY DEF WorkedInv
  <2>1. Granted(s, c) /\ worker'[s] = [worker[s] EXCEPT !.status = "ok", !.current = IF c.operation = "CURRENT" THEN disk.completed ELSE Malformed]
    BY <1>1, <1>2 DEF Worked, Idle
  <2>2. c.operation = "CURRENT" => worker'[s].current = disk.completed
    BY <1>1, <2>1 DEF Idle
  <2>3. c.operation = "ABANDON" => disk.completed = c.request.base
    BY <2>1 DEF Granted
  <2> QED
    BY <1>8, <1>9, <2>2, <2>3 DEF WorkedInv
<1>11. CompletedInv(joint', disk'.completed)
  BY <1>3, <1>4, <1>6, <1>7, <1>9 DEF CompletedInv, Forward, Back, Going
<1>12. ASSUME host[s].at = "poll" PROVE KeptInv(s)' /\ WayInv(s)' /\ SightInv(s)'
  <2>1. KeptInv(s) /\ WayInv(s) /\ SightInv(s) /\ SeenInv(s)
    BY <1>4, <1>12 DEF HeldInv, SessionInv, Talking
  <2>2. Request(s)' = Request(s) /\ Base(s)' = Base(s) /\ Goal(s)' = Goal(s) /\ (Begun(s)' <=> Begun(s))
        /\ (Ours(s)' <=> Ours(s)) /\ (Past(s)' <=> Past(s))
    BY <1>3 DEF Request, Base, Goal, Candidate, Begun, Ours, Past
  <2>3. disk'.completed # disk.completed => disk'.completed = Goal(s) /\ Ours(s) /\ joint.publishAttempted
    BY <1>5, <1>6, <1>7, <1>9, <1>12 DEF Ours, Request, Goal
  <2>4. KeptInv(s)'
    BY <1>3, <2>1 DEF KeptInv, Did
  <2>5. WayInv(s)'
    BY <1>3, <2>1, <2>2, <2>3 DEF WayInv
  <2>6. host[s].seen.state \notin {"ABORTED", "STALE"} /\ host[s].seen.command = c
    BY <1>5, <1>12, <2>1 DEF SeenInv, Over
  <2>7. SightInv(s)'
    BY <1>3, <1>5, <2>1, <2>6 DEF SightInv
  <2> QED
    BY <2>4, <2>5, <2>7
<1>13. HeldInv(s)'
  <2>1. host'[s].queued # Nobody => host'[s].queued \in Asks /\ asked'[host'[s].queued] # Nobody
    BY <1>3, <1>4 DEF HeldInv
  <2>2. worker'[s].status \notin Busy /\ host'[s].at \in {"poll", "finally"}
    BY <1>3, <1>5, <1>8 DEF Busy
  <2>3. host'[s].at = "poll" => host'[s].ask \in Asks /\ (Base(s) # Nobody)'
    BY <1>3, <1>4 DEF HeldInv, Base, Transacting, Talking
  <2> QED
    BY <1>3, <1>10, <1>12, <2>1, <2>2, <2>3 DEF HeldInv, Between, Transacting, Talking
<1>14. \A t \in Shells \ {s}, n \in Nat : Did(t, n) => Did(t, n)'
  BY <1>3 DEF Did
<1> QED
  BY <1>1, <1>3, <1>4, <1>8, <1>11, <1>13, <1>14, RunsAlone DEF Same9, Busy

(* The participant takes a command up, or answers it as it did before.      *)
LEMMA ExecuteRuns ==
  ASSUME IInv, TwiceInv, RunsInv, NEW s \in Shells, Execute(s)
  PROVE  RunsInv'
<1> USE DEF world, past, Gone
<1>1. /\ DOMAIN host = Shells /\ DOMAIN host[s] = DOMAIN Started /\ flying \subseteq Wide
  BY DEF IInv, Shape, RunsInv
<1>2. HeldInv(s) /\ SessionInv(s) /\ DOMAIN host[s].part = DOMAIN Unprepared(0) /\ ProgressInv(joint)
  BY DEF RunsInv, TwiceInv, SessionInv
<1>3. PICK c, p : c = host[s].seen.command /\ p = host[s].part
  OBVIOUS
<1> DEFINE begun == [Unprepared(p.confirmed) EXCEPT !.sequence = c.request.sequence]
           now == IF Known(s, c) THEN p ELSE begun
<1>4. /\ begun.sequence = c.request.sequence /\ begun.confirmed = p.confirmed /\ begun.candidate = Nobody
      /\ begun.restore.result = Nobody /\ Kept(begun, c) = Nobody
  BY DEF Unprepared, Kept
<1>5. \/ Known(s, c) /\ now = p
      \/ Fresher(s, c) /\ ~Known(s, c) /\ now = begun
      \/ Ends(s)
  <2>1. Known(s, c) \/ Fresher(s, c) \/ Ends(s)
    BY <1>3, Zenon DEF Execute
  <2> QED
    BY <2>1, Zenon
<1>6. /\ host[s].at = "poll" /\ c # NoCommand /\ c.target = "SHELL" /\ ~Strange(s)
      /\ UNCHANGED <<joint, disk, asked, live, flying, ran, worker>>
      /\ \/ Ends(s)
         \/ Kept(now, c) # Nobody /\ Receives(s, now, c, Kept(now, c))
         \/ host' = [host EXCEPT ![s].at = "gtk", ![s].part = now,
                                 ![s].receipt = [command |-> c, result |-> "UNKNOWN", current |-> Malformed]]
  BY <1>3 DEF Execute, Polls
<1>7. \A t \in Shells \ {s} : host'[t] = host[t]
  BY <1>1, <1>6 DEF Ends, Receives
<1>8. Quiet(s)
  BY <1>1, <1>6, <1>7 DEF Quiet
<1> HIDE DEF now, begun
<1>9. CASE Ends(s)
  BY <1>1, <1>6, <1>8, <1>9, GoneRuns DEF Ends, Started
<1>10. CASE ~Ends(s)
  <2>1. /\ host'[s].at \in {"receipt", "gtk"} /\ host'[s].part = now /\ host'[s].receipt.command = c
        /\ host'[s].seen = host[s].seen /\ host'[s].ask = host[s].ask /\ host'[s].snapshot = host[s].snapshot
        /\ host'[s].sequence = host[s].sequence /\ host'[s].epoch = host[s].epoch /\ host'[s].queued = host[s].queued
        /\ host'[s].at = "receipt" => Kept(now, c) # Nobody /\ host'[s].receipt.result = Kept(now, c)
    BY <1>1, <1>6, <1>10 DEF Receives, Started
  <2>2. KeptInv(s) /\ WayInv(s) /\ SightInv(s) /\ SeenInv(s) /\ WorkedInv(s) /\ host[s].ask \in Asks /\ Base(s) # Nobody
    BY <1>2, <1>6 DEF HeldInv, SessionInv, Talking, Transacting
  <2>3. c.request = Request(s) /\ c.request.sequence = host[s].sequence /\ host[s].seen.state \notin {"ABORTED", "STALE"}
    BY <1>3, <1>6, <2>2 DEF Strange, SeenInv, Over, Request
  <2>4. /\ Base(s)' = Base(s) /\ Goal(s)' = Goal(s) /\ Request(s)' = Request(s)
        /\ (Past(s)' <=> Past(s)) /\ (Ours(s)' <=> Ours(s))
    BY <1>6, <2>1 DEF Base, Goal, Candidate, Request, Past, Ours
  <2>5. Past(s) \/ (Ours(s) /\ joint.touched = 2)
    BY <1>3, <1>6, <2>2, <2>3 DEF SightInv, Past, Ours
  <2>6. worker[s].status \notin Busy
    BY <1>2, <1>3, <1>6 DEF SessionInv, WorkInv
  <2>7. /\ Begun(s)' /\ KeptInv(s)' /\ WayInv(s)' /\ SightInv(s)'
        /\ host'[s].at = "receipt" => ReceiptInv(s)'
    <3>1. CASE now = p
      <4>1. Begun(s)' /\ Begun(s)
        BY <1>3, <1>5, <1>10, <2>1, <2>3, <3>1, <1>4 DEF Begun, Known
      <4>2. KeptInv(s)'
        BY <1>3, <1>6, <2>1, <2>2, <3>1 DEF KeptInv, Did
      <4>3. WayInv(s)'
        BY <1>3, <1>6, <2>1, <2>2, <2>4, <3>1, <4>1 DEF WayInv
      <4>4. SightInv(s)'
        BY <1>3, <1>6, <2>1, <2>2, <2>4, <3>1 DEF SightInv, InForce
      <4>5. host'[s].at = "receipt" => ReceiptInv(s)'
        <5>1. Kept(p, c) = "OK" /\ c.operation = "RESTORE" => live[s] = p.confirmed
          BY <1>3, <1>6, <2>2, NobodyAssumption DEF Kept, SightInv
        <5> QED
          BY <1>6, <2>1, <3>1, <5>1 DEF ReceiptInv
      <4> QED
        BY <4>1, <4>2, <4>3, <4>4, <4>5
    <3>2. CASE now # p
      <4>1. now = begun /\ Fresher(s, c) /\ ~Begun(s)
        BY <1>3, <1>5, <1>10, <2>2, <2>3, <3>2 DEF Fresher, Begun, KeptInv
      <4>2. Begun(s)' /\ KeptInv(s)'
        BY <1>4, <1>6, <2>1, <2>2, <2>3, <4>1 DEF Begun, KeptInv
      <4>3. live[s] = Base(s) /\ p.confirmed = Base(s)
        BY <1>3, <2>2, <4>1 DEF WayInv
      <4>4. WayInv(s)'
        BY <1>4, <1>6, <2>1, <2>2, <2>4, <2>5, <4>1, <4>2, <4>3 DEF WayInv
      <4>5. SightInv(s)'
        BY <1>3, <1>4, <1>6, <2>1, <2>2, <2>3, <4>1, NobodyAssumption DEF SightInv
      <4>6. host'[s].at # "receipt"
        BY <1>4, <2>1, <4>1
      <4> QED
        BY <4>2, <4>4, <4>5, <4>6
    <3> QED
      BY <3>1, <3>2
  <2>8. WorkedInv(s)'
    BY <1>6, <2>2 DEF WorkedInv
  <2>9. host'[s].queued # Nobody => host'[s].queued \in Asks /\ asked'[host'[s].queued] # Nobody
    BY <1>2, <1>6, <2>1 DEF HeldInv
  <2>10. HeldInv(s)'
    BY <1>6, <2>1, <2>2, <2>3, <2>4, <2>6, <2>7, <2>8, <2>9 DEF HeldInv, Between, Transacting, Talking
  <2> QED
    BY <1>8, <2>10, QuietRuns
<1> QED
  BY <1>9, <1>10

(* The callbacks of the GTK thread.                                         *)
LEMMA ExecutedRuns ==
  ASSUME IInv, TwiceInv, RunsInv, NEW s \in Shells, Executed(s)
  PROVE  RunsInv'
<1>1. /\ DOMAIN host = Shells /\ DOMAIN host[s] = DOMAIN Started /\ flying \subseteq Wide /\ DOMAIN live = Shells
  BY DEF IInv, Shape, RunsInv
<1>2. /\ HeldInv(s) /\ SessionInv(s) /\ DOMAIN host[s].part = DOMAIN Unprepared(0) /\ ProgressInv(joint)
      /\ Ticketed(joint) /\ joint.ticket \in Nat /\ CompletedInv(joint, disk.completed)
  BY DEF RunsInv, TwiceInv, SessionInv, Ticketed
<1>3. PICK c, p : c = host[s].receipt.command /\ p = host[s].part
  OBVIOUS
<1> DEFINE possible == c.operation = "RESTORE" \/ c.operation = "PREPARE" \/ p.candidate # Nobody
           seen == live[s] = p.candidate
           target == IF c.operation = "RESTORE" THEN p.confirmed ELSE p.candidate
           done(result) ==
             CASE c.operation = "PREPARE" -> [p EXCEPT !.prepare = result, !.candidate = IF result = "OK" THEN c.request.candidate ELSE @]
               [] c.operation = "APPLY"   -> [p EXCEPT !.apply = result]
               [] c.operation = "RESTORE" -> [p EXCEPT !.restore = [ticket |-> c.ticket, result |-> result]]
               [] c.operation = "CONFIRM" -> [p EXCEPT !.confirmed = IF result = "OK" THEN p.candidate ELSE @]
               [] OTHER                   -> p
           writes == c.operation \in Writes /\ possible
           sound == possible /\ (c.operation \in {"VERIFY", "CONFIRM"} => seen)
<1>4. /\ host[s].at = "gtk" /\ UNCHANGED <<joint, disk, asked, flying, worker>>
      /\ c.operation \in Writes => ran' = ran \cup {<<s, c.ticket>>}
      /\ ran \subseteq ran'
  BY <1>3 DEF Executed, Carried, world, Writes
<1>5. \/ /\ sound /\ Receives(s, done("OK"), c, "OK")
         /\ live' = IF writes THEN [live EXCEPT ![s] = target] ELSE live
      \/ Receives(s, done("FAILED"), c, "FAILED") /\ live' = live
      \/ Receives(s, done("FAILED"), c, "FAILED") /\ writes /\ live' = [live EXCEPT ![s] = target]
  BY <1>3, Zenon DEF Executed, Writes
<1> HIDE DEF done
<1>6. PICK result \in {"OK", "FAILED"} :
        /\ Receives(s, done(result), c, result)
        /\ live' = live \/ (writes /\ live' = [live EXCEPT ![s] = target])
        /\ result = "OK" => sound /\ (writes => live' = [live EXCEPT ![s] = target])
  <2>1. CASE Receives(s, done("OK"), c, "OK") /\ sound /\ live' = IF writes THEN [live EXCEPT ![s] = target] ELSE live
    BY <2>1
  <2> QED
    BY <1>5, <2>1
<1>7. PICK q : q = done(result)
  OBVIOUS
<1>8. /\ q.sequence = p.sequence
      /\ q.candidate = IF c.operation = "PREPARE" /\ result = "OK" THEN c.request.candidate ELSE p.candidate
      /\ q.confirmed = IF c.operation = "CONFIRM" /\ result = "OK" THEN p.candidate ELSE p.confirmed
      /\ q.restore = IF c.operation = "RESTORE" THEN [ticket |-> c.ticket, result |-> result] ELSE p.restore
  BY <1>2, <1>3, <1>7 DEF Unprepared, done
<1>9. host' = [host EXCEPT ![s].at = "receipt", ![s].part = q,
                           ![s].receipt = [command |-> c, result |-> result, current |-> Malformed]]
  BY <1>6, <1>7 DEF Receives
<1>10. /\ host'[s].at = "receipt" /\ host'[s].part = q /\ host'[s].receipt.command = c /\ host'[s].receipt.result = result
       /\ host'[s].seen = host[s].seen /\ host'[s].ask = host[s].ask /\ host'[s].snapshot = host[s].snapshot
       /\ host'[s].sequence = host[s].sequence /\ host'[s].epoch = host[s].epoch /\ host'[s].queued = host[s].queued
       /\ \A t \in Shells \ {s} : host'[t] = host[t]
  BY <1>1, <1>9 DEF Started
<1>11. /\ \A t \in Shells \ {s} : live'[t] = live[t]
       /\ DOMAIN live' = DOMAIN live
       /\ live'[s] \in {live[s], target}
       /\ live'[s] # live[s] => writes /\ (c.operation = "APPLY" => p.candidate # Nobody)
       /\ result = "OK" /\ c.operation = "RESTORE" => live'[s] = p.confirmed
  BY <1>1, <1>6 DEF Writes
<1>12. /\ c = host[s].seen.command /\ c # NoCommand /\ c.target = "SHELL" /\ SeenInv(s)
       /\ writes => Kept(p, c) = Nobody
       /\ KeptInv(s) /\ WayInv(s) /\ SightInv(s) /\ WorkedInv(s) /\ host[s].ask \in Asks /\ Base(s) # Nobody
       /\ c.request = Request(s) /\ Begun(s)
  BY <1>2, <1>3, <1>4 DEF SessionInv, HeldInv, Talking, Transacting
<1>13. writes => joint.pending = c /\ ~Restored(joint)
  <2>1. writes => c = joint.pending
    BY <1>3, <1>12 DEF SeenInv, Acked
  <2>2. writes => joint.step \in {"SHELL_APPLY", "SHELL_RESTORE"}
    BY <1>2, <1>12, <2>1 DEF ProgressInv, PendingInv, Grounded, Steps, Dispatch, Writes
  <2> QED
    BY <2>1, <2>2 DEF Restored
<1>14. /\ Base(s)' = Base(s) /\ Goal(s)' = Goal(s) /\ Request(s)' = Request(s)
       /\ (Past(s)' <=> Past(s)) /\ (Ours(s)' <=> Ours(s)) /\ Begun(s)'
       /\ c.request.candidate = Goal(s)
  BY <1>3, <1>4, <1>8, <1>10, <1>12 DEF Base, Goal, Candidate, Request, Past, Ours, Begun
<1>15. /\ p.candidate \in {Nobody, Goal(s)} /\ p.confirmed \in {Base(s), Goal(s)}
       /\ p.confirmed = Goal(s) => p.candidate = Goal(s) /\ live[s] = Goal(s) /\ disk.completed = Goal(s)
       /\ Ours(s) /\ Restored(joint) => live[s] = p.confirmed
  BY <1>3, <1>12 DEF WayInv
<1>16. c.operation = "CONFIRM" /\ result = "OK" => p.candidate = Goal(s) /\ live[s] = Goal(s) /\ disk.completed = Goal(s)
  BY <1>6, <1>12, <1>14, <1>15 DEF SightInv
<1>17. /\ q.candidate \in {Nobody, Goal(s)} /\ q.confirmed \in {Base(s), Goal(s)}
       /\ q.confirmed = Goal(s) => q.candidate = Goal(s) /\ live'[s] = Goal(s) /\ disk.completed = Goal(s)
       /\ Ours(s) /\ Restored(joint) => live'[s] = q.confirmed
  <2>1. q.candidate \in {Nobody, Goal(s)} /\ q.confirmed \in {Base(s), Goal(s)}
    BY <1>8, <1>14, <1>15, <1>16
  <2>2. p.confirmed = Goal(s) => live'[s] = Goal(s)
    BY <1>11, <1>15
  <2>3. q.confirmed = Goal(s) => q.candidate = Goal(s) /\ live'[s] = Goal(s) /\ disk.completed = Goal(s)
    BY <1>8, <1>11, <1>14, <1>15, <1>16, <2>2 DEF Writes
  <2>4. Ours(s) /\ Restored(joint) => live'[s] = q.confirmed
    BY <1>8, <1>11, <1>13, <1>15, <1>16
  <2> QED
    BY <2>1, <2>3, <2>4
<1>18. WayInv(s)'
  BY <1>4, <1>10, <1>12, <1>14, <1>17 DEF WayInv
<1>19. c.operation = "RESTORE" /\ q.restore.result = "OK" => live'[s] = q.confirmed
  BY <1>8, <1>11
<1>20. SightInv(s)' /\ ReceiptInv(s)'
  <2>1. host[s].seen.state \notin {"ABORTED", "STALE"}
    BY <1>12 DEF SeenInv, Over
  <2>2. ReceiptInv(s)'
    BY <1>8, <1>10, <1>12, <1>19 DEF ReceiptInv
  <2>3. SightInv(s)'
    BY <1>4, <1>10, <1>12, <1>19, <2>1 DEF SightInv
  <2> QED
    BY <2>2, <2>3
<1>21. KeptInv(s)'
  <2>1. c.ticket \in Nat
    BY <1>2, <1>12 DEF SeenInv
  <2>2. c.operation = "RESTORE" => Did(s, c.ticket)'
    BY <1>4 DEF Writes, Did
  <2>3. p.restore.result # Nobody => p.restore.ticket \in Nat /\ Did(s, p.restore.ticket)'
    BY <1>3, <1>4, <1>12 DEF KeptInv, Did
  <2>4. q.restore.result # Nobody => q.restore.ticket \in Nat /\ Did(s, q.restore.ticket)'
    BY <1>8, <2>1, <2>2, <2>3 DEF Did
  <2> QED
    BY <1>3, <1>8, <1>10, <1>12, <2>4 DEF KeptInv
<1>22. WorkedInv(s)'
  BY <1>4, <1>12 DEF WorkedInv
<1>23. worker'[s].status \notin Busy
  BY <1>2, <1>4 DEF SessionInv, WorkInv
<1>24. host'[s].queued # Nobody => host'[s].queued \in Asks /\ asked'[host'[s].queued] # Nobody
  BY <1>2, <1>4, <1>10 DEF HeldInv
<1>25. HeldInv(s)'
  BY <1>10, <1>12, <1>14, <1>18, <1>20, <1>21, <1>22, <1>23, <1>24 DEF HeldInv, Between, Transacting, Talking
<1>26. \A t \in Shells \ {s}, n \in Nat : Did(t, n) => Did(t, n)'
  BY <1>4 DEF Did
<1> QED
  BY <1>1, <1>2, <1>4, <1>10, <1>11, <1>25, <1>26, RunsAlone DEF Same9

(* A session moves the coordinator on, and looks at it, or does not.        *)
LEMMA TellingRuns ==
  ASSUME IInv, TwiceInv, RunsInv, NEW s \in Shells, host[s].at \in {"poll", "receipt"}, worker[s].status \notin Busy,
         Moves(joint, joint'), ProgressInv(joint'), CompletedInv(joint', disk.completed), Later(joint, joint'),
         joint'.request = joint.request /\ joint'.touched = 2 /\ Restored(joint') =>
           Restored(joint) \/ live[s] = host[s].part.confirmed,
         UNCHANGED <<disk, worker, live, flying, asked, ran>>,
         \A t \in Shells \ {s} : host'[t] = host[t],
         host'[s].at = "poll", host'[s].part = host[s].part, host'[s].ask = host[s].ask,
         host'[s].snapshot = host[s].snapshot, host'[s].sequence = host[s].sequence,
         host'[s].epoch = host[s].epoch, host'[s].queued = host[s].queued,
         host'[s].seen \in {View', host[s].seen}
  PROVE  RunsInv'
<1> DEFINE p == host[s].part
<1>1. /\ HeldInv(s) /\ SessionInv(s) /\ Grounded(joint) /\ Ticketed(joint) /\ joint.ticket \in Nat /\ PastInv
      /\ flying \subseteq Wide
  BY DEF RunsInv, TwiceInv, ProgressInv, Ticketed
<1>2. /\ KeptInv(s) /\ WayInv(s) /\ SightInv(s) /\ SeenInv(s) /\ WorkedInv(s)
      /\ host[s].ask \in Asks /\ Base(s) # Nobody /\ host[s].sequence \in Nat
  BY <1>1 DEF HeldInv, SessionInv, Talking, Transacting, KeptInv
<1>3. Alike(s) /\ asked'[host[s].ask] = asked[host[s].ask]
  BY DEF Alike
<1>4. WayInv(s)'
  BY <1>1, <1>2, <1>3, WayKept DEF WayInv
<1>5. /\ Ticketed(joint)' /\ joint'.ticket \in {joint.ticket, joint.ticket + 1}
      /\ joint'.ticket = joint.ticket => joint'.pending \in {joint.pending, NoCommand}
  BY <1>1 DEF Moves
<1>6. ASSUME joint'.pending # NoCommand, p.restore.ticket = joint'.ticket, p.restore.result = "OK",
             joint'.pending.target = "SHELL", joint'.pending.operation = "RESTORE"
      PROVE  live[s] = p.confirmed
  <2>1. Did(s, joint'.ticket) /\ joint'.ticket \in Nat
    BY <1>2, <1>6, NobodyAssumption DEF KeptInv
  <2>2. joint'.ticket = joint.ticket /\ joint'.pending = joint.pending
    BY <1>1, <1>5, <1>6, <2>1 DEF PastInv
  <2>3. host[s].seen.command = joint'.pending /\ joint'.pending.ticket = joint'.ticket
    BY <1>1, <1>2, <1>6, <2>1, <2>2 DEF SeenInv, Ticketed
  <2> QED
    BY <1>2, <1>6, <2>3 DEF SightInv
<1>7. SightInv(s)'
  <2>1. CASE host'[s].seen = View'
    BY <1>2, <1>4, <1>5, <1>6, <2>1, SightNow
  <2>2. CASE host'[s].seen = host[s].seen
    BY <1>1, <1>2, <1>3, <2>2, SightKept
  <2> QED
    BY <2>1, <2>2
<1>8. KeptInv(s)' /\ WorkedInv(s)' /\ Base(s)' = Base(s)
  BY <1>2 DEF KeptInv, WorkedInv, Did, Base
<1>9. host'[s].queued # Nobody => host'[s].queued \in Asks /\ asked'[host'[s].queued] # Nobody
  BY <1>1 DEF HeldInv
<1>10. HeldInv(s)'
  BY <1>2, <1>4, <1>7, <1>8, <1>9 DEF HeldInv, Between, Transacting, Talking
<1>11. host[s].at \in Serving /\ \A t \in Shells \ {s}, n \in Nat : Did(t, n) => Did(t, n)'
  BY DEF Serving, Did
<1> QED
  BY <1>1, <1>10, <1>11, RunsAlone DEF Same9

LEMMA ReceiptRuns ==
  ASSUME IInv, TwiceInv, RunsInv, NEW s \in Shells, Receipt(s)
  PROVE  RunsInv'
<1> USE DEF world, past, Fault
<1>1. /\ DOMAIN host = Shells /\ DOMAIN host[s] = DOMAIN Started
  BY DEF IInv, Shape
<1>2. /\ HeldInv(s) /\ SessionInv(s) /\ ProgressInv(joint) /\ Ticketed(joint) /\ CompletedInv(joint, disk.completed)
  BY DEF RunsInv, TwiceInv
<1>3. PICK x, c : x = host[s].receipt /\ c = x.command
  OBVIOUS
<1>4. /\ host[s].at = "receipt" /\ UNCHANGED <<recovering, disk, worker, live, flying, asked, ran>>
      /\ joint' = joint \/ (joint.pending = c /\ Reply(joint, c, x.result, x.current))
  BY <1>3 DEF Receipt
<1>5. /\ host'[s].at = "poll" /\ host'[s].part = host[s].part /\ host'[s].ask = host[s].ask
      /\ host'[s].snapshot = host[s].snapshot /\ host'[s].sequence = host[s].sequence
      /\ host'[s].epoch = host[s].epoch /\ host'[s].queued = host[s].queued
      /\ host'[s].seen \in {View', host[s].seen} /\ \A t \in Shells \ {s} : host'[t] = host[t]
  <2>1. joint' = joint => View' = View
    BY <1>4 DEF View
  <2> QED
    BY <1>1, <2>1 DEF Receipt, Started
<1>6. worker[s].status \notin Busy /\ ReceiptInv(s)
  BY <1>2, <1>4 DEF SessionInv, WorkInv, HeldInv
<1>7. CASE joint' = joint
  BY <1>2, <1>4, <1>5, <1>6, <1>7, TellingRuns DEF Moves, Later
<1>8. CASE joint.pending = c /\ Reply(joint, c, x.result, x.current)
  <2>1. /\ Keeps(joint, joint') /\ Moves(joint, joint')
        /\ Forward(joint') => Forward(joint) \/ (joint.step = "RESOLVE" /\ x.result = "OK" /\ x.current = joint.request.candidate)
        /\ Back(joint') => joint.step = "ABANDON" /\ x.result = "OK"
        /\ Restored(joint') /\ joint'.touched = 2 =>
             Restored(joint) \/ (joint.step = "SHELL_RESTORE" /\ x.result = "OK")
    BY <1>2, <1>8, ReplyKeeps, ReplyMoves
  <2>2. /\ c # NoCommand /\ c.request = joint.request
        /\ c.target = Dispatch[joint.step].target /\ c.operation = Dispatch[joint.step].operation
    BY <1>2, <1>8 DEF Reply, ProgressInv, PendingInv
  <2>3. /\ joint.step = "RESOLVE" /\ x.result = "OK" => x.current = disk.completed
        /\ joint.step = "ABANDON" /\ x.result = "OK" => disk.completed = joint.request.base
        /\ joint.step = "SHELL_RESTORE" /\ x.result = "OK" => live[s] = host[s].part.confirmed
    BY <1>3, <1>6, <2>2 DEF ReceiptInv, Dispatch
  <2>4. CompletedInv(joint', disk.completed) /\ ProgressInv(joint') /\ Later(joint, joint')
    BY <1>2, <2>1, <2>3 DEF CompletedInv, Keeps, Later
  <2>5. joint'.request = joint.request /\ joint'.touched = 2 /\ Restored(joint') =>
           Restored(joint) \/ live[s] = host[s].part.confirmed
    BY <2>1, <2>3
  <2> QED
    BY <1>4, <1>5, <1>6, <2>1, <2>4, <2>5, TellingRuns
<1> QED
  BY <1>4, <1>7, <1>8

LEMMA AskRecoverRuns ==
  ASSUME IInv, TwiceInv, RunsInv, NEW s \in Shells, AskRecover(s)
  PROVE  RunsInv'
<1> USE DEF world, past
<1>1. /\ DOMAIN host = Shells /\ DOMAIN host[s] = DOMAIN Started /\ asked \in [Asks -> Generations \cup {Nobody}]
  BY DEF IInv, Shape, RunsInv
<1>2. /\ HeldInv(s) /\ SessionInv(s) /\ ProgressInv(joint) /\ Ticketed(joint) /\ CompletedInv(joint, disk.completed)
  BY DEF RunsInv, TwiceInv
<1>3. /\ host[s].at = "poll" /\ host[s].seen.command = NoCommand /\ Recover(Request(s))
      /\ UNCHANGED <<disk, worker, live, flying, asked, ran>>
      /\ host' = [host EXCEPT ![s].seen = View']
  BY DEF AskRecover, Polls
<1>4. /\ host'[s].at = "poll" /\ host'[s].part = host[s].part /\ host'[s].ask = host[s].ask
      /\ host'[s].snapshot = host[s].snapshot /\ host'[s].sequence = host[s].sequence
      /\ host'[s].epoch = host[s].epoch /\ host'[s].queued = host[s].queued
      /\ host'[s].seen = View' /\ \A t \in Shells \ {s} : host'[t] = host[t]
  BY <1>1, <1>3 DEF Started
<1>5. worker[s].status \notin Busy
  BY <1>2, <1>3 DEF SessionInv, WorkInv
<1>6. Request(s) # NoRequest
  <2>1. KeptInv(s) /\ host[s].ask \in Asks /\ Base(s) # Nobody
    BY <1>2, <1>3 DEF HeldInv, Talking, Transacting
  <2>2. asked[host[s].ask] \in Generations
    BY <1>1, <2>1 DEF Base
  <2>3. Candidate(host[s].ask) \in Generations
    BY <2>1, <2>2, EditAssumption DEF Candidate
  <2> QED
    BY <2>1, <2>2, <2>3, RequestAssumption DEF Request, KeptInv
<1>7. Turns(joint, joint')
  BY <1>2, <1>3, <1>6, RecoverTurns
<1>8. Moves(joint, joint')
  BY <1>2, <1>3, IssueMoves DEF Recover
<1>9. CompletedInv(joint', disk.completed) /\ ProgressInv(joint') /\ Later(joint, joint')
  BY <1>2, <1>7 DEF CompletedInv, Turns, Keeps, Later
<1> QED
  BY <1>3, <1>4, <1>5, <1>7, <1>8, <1>9, TellingRuns DEF Turns

LEMMA ApplyRuns ==
  ASSUME IInv, TwiceInv, RunsInv, NEW s \in Shells, NEW a \in Asks, NEW g \in Generations, Apply(s, a, g)
  PROVE  RunsInv'
<1>1. /\ DOMAIN host = Shells /\ DOMAIN host[s] = DOMAIN Started /\ asked \in [Asks -> Generations \cup {Nobody}]
      /\ g # Nobody /\ Grounded(joint)
  BY NobodyAssumption DEF IInv, Shape, RunsInv, ProgressInv
<1>2. /\ UNCHANGED <<joint, disk, worker, live, flying, ran>>
      /\ asked' = [asked EXCEPT ![a] = g] /\ asked[a] = Nobody
      /\ host' = [host EXCEPT ![s].last = a, ![s].answer = "unknown", ![s].queued = a]
  BY DEF Apply, world, past
<1>3. /\ asked'[a] # Nobody /\ \A b \in Asks : asked[b] # Nobody => asked'[b] = asked[b]
      /\ asked' \in [Asks -> Generations \cup {Nobody}]
  BY <1>1, <1>2
<1>4. ASSUME NEW t \in Shells PROVE HeldInv(t)'
  <2>1. Same9(host'[t], host[t]) /\ (host'[t].queued = host[t].queued \/ host'[t].queued = a)
    BY <1>1, <1>2 DEF Started, Same9
  <2> QED
    BY <1>1, <1>2, <1>3, <2>1, HeldKept DEF RunsInv, Later, Did
<1> QED
  BY <1>2, <1>3, <1>4 DEF RunsInv

(* Nobody holds the lease while the compositor starts over.                 *)
LEMMA FreshRuns ==
  ASSUME NEW e \in Epochs, NEW g
  PROVE  ProgressInv(Fresh(e)) /\ CompletedInv(Fresh(e), g)
<1>1. "BASE" \in Steps
  BY DEF Steps, Dispatch
<1> QED
  BY <1>1 DEF Fresh, ProgressInv, Grounded, PendingInv, CompletedInv, Forward, Back

LEMMA RecoveredRuns ==
  ASSUME IInv, RunsInv, NativeRecovered
  PROVE  RunsInv'
<1>1. PICK e \in Epochs : joint' = Fresh(e) /\ disk' = [disk EXCEPT !.epoch = e, !.pending = Nobody]
  BY DEF NativeRecovered
<1>2. UNCHANGED <<host, worker, live, flying, asked>> /\ recovering
  BY DEF NativeRecovered
<1>3. \A s \in Shells : host[s].at \notin Serving /\ worker[s].status \notin Busy
  BY <1>2, OwnerAssumption DEF IInv, LeaseInv
<1>4. ASSUME NEW s \in Shells PROVE HeldInv(s)'
  <2>1. HeldInv(s)
    BY DEF RunsInv
  <2>2. host[s].at \notin {"bind", "boot"} \cup Between \cup Talking \cup Transacting
    BY <1>3 DEF Serving, Between, Talking, Transacting
  <2>3. host'[s].at \notin {"bind", "boot", "idle", "look", "record", "start", "sent", "poll", "gtk", "receipt"}
    BY <1>2, <2>2 DEF Between, Talking
  <2> QED
    BY <1>2, <1>3, <2>1, <2>3 DEF HeldInv, Between, Talking, Transacting
<1>5. ProgressInv(joint') /\ CompletedInv(joint', disk'.completed)
  BY <1>1, FreshRuns
<1> QED
  BY <1>2, <1>4, <1>5 DEF RunsInv

LEMMA RunsInitial == Init => RunsInv
<1> SUFFICES ASSUME Init PROVE RunsInv
  OBVIOUS
<1>1. ProgressInv(joint) /\ CompletedInv(joint, disk.completed)
  BY FreshRuns DEF Init
<1>2. ASSUME NEW s \in Shells PROVE HeldInv(s)
  BY DEF Init, Down, Started, Idle, Busy, HeldInv, Between, Talking, Transacting
<1> QED
  BY <1>1, <1>2 DEF Init, RunsInv

LEMMA RunsInductive == IInv /\ TwiceInv /\ RunsInv /\ [Next]_vars => RunsInv'
<1> SUFFICES ASSUME IInv, TwiceInv, RunsInv, [Next]_vars PROVE RunsInv'
  OBVIOUS
<1>1. ASSUME NEW s \in Shells, Launch(s) \/ Close(s) \/ Kill(s) \/ Session(s) \/ Work(s) \/ Worked(s)
      PROVE  RunsInv'
  BY <1>1, LeavingRuns, ArrivingRuns, BetweenRuns, LookingRuns, AskRecoverRuns, FinishRuns, WorkerRuns,
     WorkedRuns, ExecuteRuns, ExecutedRuns, ReceiptRuns DEF Session
<1>2. CASE UNCHANGED vars
  <2>1. UNCHANGED <<joint, disk, host, worker, live, flying, asked, ran>>
    BY <1>2 DEF vars
  <2>2. ASSUME NEW s \in Shells PROVE HeldInv(s)'
    BY <2>1, HeldKept DEF RunsInv, ProgressInv, Same9, Later, Did
  <2> QED
    BY <2>1, <2>2 DEF RunsInv
<1> QED
  BY <1>1, <1>2, ApplyRuns, CoordinatorRuns, RecoveredRuns DEF Next

(* Whatever was lost, failed or closed before: a Shell that waits for its   *)
(* clients runs with the completed generation, and that is what they see.   *)
THEOREM RunsCompleted == Spec => []RunsWithCompleted
<1>1. RunsInv => RunsWithCompleted
  BY DEF RunsInv, HeldInv, Between, InForce, RunsWithCompleted
<1> QED
  BY <1>1, Invariance, TwiceInitial, TwiceInductive, RunsInitial, RunsInductive, PTL DEF Spec

-----------------------------------------------------------------------------
(* The answers a session has yet to give.                                   *)
Open(s, a) == host[s].last = a /\ host[s].answer = "unknown"

(* A request that only its own Shell knows of.                              *)
Unseen(s, a) ==
  /\ told[a] = {} /\ a \notin committed
  /\ disk.journal # Nobody => disk.journal.ask # a
  /\ \A t \in Shells \ {s} : host[t].last # a

Entry(a) == [ask |-> a, base |-> asked[a], candidate |-> Candidate(a)]

Doing(s) == host[s].at \in Transacting \/ worker[s].status \in Busy

(* From the client's call to the journal, and from there to the end of the  *)
(* transaction, a session has one request to answer.                        *)
QueuedInv(s) ==
  host[s].queued # Nobody => Open(s, host[s].queued) /\ Unseen(s, host[s].queued)

AskedInv(s) ==
  host[s].at \in {"look", "record"} =>
    host[s].queued = Nobody /\ Open(s, host[s].ask) /\ Unseen(s, host[s].ask)

DoingInv(s) ==
  Doing(s) =>
    /\ host[s].queued = Nobody /\ Open(s, host[s].ask) /\ told[host[s].ask] = {}
    /\ disk.journal = Entry(host[s].ask)
    /\ \A t \in Shells \ {s} : host[t].last # host[s].ask
    /\ worker[s].status \in Busy => worker[s].command.request = Request(s)

(* What a Shell says of its last request, or would say if it had to find    *)
(* out from the completed generation alone.                                 *)
LastInv(s) ==
  LET a == host[s].last
      answer == host[s].answer IN
  /\ answer \in Answers \cup {"unknown", Nobody}
  /\ a = Nobody => answer = Nobody
  /\ a # Nobody => a \in Asks /\ asked[a] # Nobody
  /\ answer \in Answers => answer \in told[a]
  /\ answer = "unknown" =>
       /\ a \notin committed => told[a] \subseteq {"rolled_back"}
       /\ a \in committed \ overtaken /\ disk.journal.ask # a => disk.completed = Candidate(a)

(* The journal explains the completed generation, and so the answers given. *)
JournalInv ==
  disk.journal # Nobody =>
    LET a == disk.journal.ask IN
    /\ a \in Asks \ overtaken /\ asked[a] # Nobody /\ disk.journal = Entry(a)
    /\ Candidate(a) # asked[a] /\ disk.completed \in {asked[a], Candidate(a)}
    /\ disk.completed = Candidate(a) <=> a \in committed
    /\ told[a] \subseteq {IF a \in committed THEN "ok" ELSE "rolled_back"}

PublishedInv ==
  /\ overtaken \subseteq committed /\ committed \subseteq Asks
  /\ \A a \in committed : asked[a] # Nobody /\ Candidate(a) # asked[a]
  /\ committed # {} => disk.journal # Nobody

SaidInv ==
  /\ DOMAIN told = Asks
  /\ \A a \in Asks : told[a] # {} => asked[a] # Nobody
  /\ \A a \in Asks \ overtaken :
       told[a] = {} \/ \E x : told[a] = {x} /\ ((x = "ok" /\ asked[a] # Candidate(a)) <=> a \in committed)

TruthInv ==
  /\ JournalInv /\ PublishedInv /\ SaidInv
  /\ \A s \in Shells : QueuedInv(s) /\ AskedInv(s) /\ DoingInv(s) /\ LastInv(s)

(* What a step keeps of a session, as far as answers go.                    *)
Settled(s) ==
  /\ host'[s].last = host[s].last /\ host'[s].answer = host[s].answer /\ host'[s].queued = host[s].queued
  /\ host'[s].at \in {"look", "record"} => host[s].at \in {"look", "record"} /\ host'[s].ask = host[s].ask
  /\ Doing(s)' => Doing(s) /\ host'[s].ask = host[s].ask
  /\ worker'[s].status \in Busy => worker'[s].command.request = Request(s)'

LEMMA TruthKept ==
  ASSUME TruthInv, UNCHANGED <<told, committed, overtaken, asked>>,
         disk'.journal = disk.journal, disk'.completed = disk.completed,
         \A t \in Shells : Settled(t)
  PROVE  TruthInv'
<1>1. \A a : Entry(a)' = Entry(a) /\ Candidate(a)' = Candidate(a)
  BY DEF Entry, Candidate
<1>2. JournalInv'
  BY <1>1 DEF TruthInv, JournalInv
<1>3. PublishedInv' /\ SaidInv'
  BY <1>1 DEF TruthInv, PublishedInv, SaidInv
<1>4. ASSUME NEW s \in Shells PROVE QueuedInv(s)' /\ AskedInv(s)' /\ DoingInv(s)' /\ LastInv(s)'
  <2>1. Settled(s) /\ \A t \in Shells : host'[t].last = host[t].last
    BY DEF Settled
  <2>2. \A a : Unseen(s, a)' <=> Unseen(s, a)
    BY <2>1 DEF Unseen
  <2>3. \A a : Open(s, a)' <=> Open(s, a)
    BY <2>1 DEF Open, Settled
  <2>4. QueuedInv(s)' /\ AskedInv(s)'
    BY <2>1, <2>2, <2>3 DEF TruthInv, QueuedInv, AskedInv, Settled
  <2>5. DoingInv(s)'
    BY <1>1, <2>1, <2>3 DEF TruthInv, DoingInv, Settled
  <2>6. LastInv(s)'
    BY <1>1, <2>1 DEF TruthInv, LastInv, Settled
  <2> QED
    BY <2>4, <2>5, <2>6
<1> QED
  BY <1>2, <1>3, <1>4 DEF TruthInv

(* A session nobody has asked anything.                                     *)
Silent(s) ==
  /\ host'[s].last = Nobody /\ host'[s].answer = Nobody /\ host'[s].queued = Nobody
  /\ host'[s].at \notin {"look", "record"} \cup Transacting /\ worker'[s].status \notin Busy

LEMMA TruthGone ==
  ASSUME TruthInv, UNCHANGED <<told, committed, overtaken, asked, disk>>, NEW s \in Shells, Silent(s),
         \A t \in Shells \ {s} : host'[t] = host[t] /\ worker'[t] = worker[t]
  PROVE  TruthInv'
<1>1. \A a : Entry(a)' = Entry(a) /\ Candidate(a)' = Candidate(a)
  BY DEF Entry, Candidate
<1>2. JournalInv'
  BY <1>1 DEF TruthInv, JournalInv
<1>3. PublishedInv' /\ SaidInv'
  BY <1>1 DEF TruthInv, PublishedInv, SaidInv
<1>4. QueuedInv(s)' /\ AskedInv(s)' /\ DoingInv(s)' /\ LastInv(s)'
  BY NobodyAssumption DEF QueuedInv, AskedInv, DoingInv, LastInv, Silent, Doing, Open, Answers
<1>5. ASSUME NEW t \in Shells \ {s} PROVE QueuedInv(t)' /\ AskedInv(t)' /\ DoingInv(t)' /\ LastInv(t)'
  <2>1. \A a : a # Nobody /\ Unseen(t, a) => Unseen(t, a)'
    BY <1>5 DEF Unseen, Silent
  <2>2. \A a : Open(t, a)' <=> Open(t, a)
    BY <1>5 DEF Open
  <2>3. LastInv(t) /\ (Open(t, Nobody) => FALSE)
    BY NobodyAssumption DEF TruthInv, LastInv, Open
  <2>4. QueuedInv(t)' /\ AskedInv(t)'
    BY <1>5, <2>1, <2>2, <2>3 DEF TruthInv, QueuedInv, AskedInv
  <2>5. DoingInv(t)'
    BY <1>1, <1>5, <2>2, <2>3 DEF TruthInv, DoingInv, Doing, Silent, Request
  <2>6. LastInv(t)'
    BY <1>1, <1>5 DEF TruthInv, LastInv
  <2> QED
    BY <2>4, <2>5, <2>6
<1> QED
  BY <1>2, <1>3, <1>4, <1>5 DEF TruthInv

(* One session settled, no other changed.                                   *)
LEMMA TruthSettled ==
  ASSUME TruthInv, UNCHANGED <<told, committed, overtaken, asked>>,
         disk'.journal = disk.journal, disk'.completed = disk.completed,
         NEW s \in Shells, Settled(s),
         \A t \in Shells \ {s} : host'[t] = host[t] /\ worker'[t] = worker[t]
  PROVE  TruthInv'
<1>1. ASSUME NEW t \in Shells \ {s} PROVE Settled(t)
  <2>1. DoingInv(t)
    BY DEF TruthInv
  <2>2. Doing(t)' <=> Doing(t)
    BY <1>1 DEF Doing
  <2>3. worker[t].status \in Busy => worker[t].command.request = Request(t)
    BY <2>1 DEF DoingInv, Doing
  <2>4. Request(t)' = Request(t)
    BY <1>1 DEF Request, Candidate
  <2> QED
    BY <1>1, <2>2, <2>3, <2>4 DEF Settled
<1> QED
  BY <1>1, TruthKept

(* The coordinator and the native participant say nothing to clients.       *)
LEMMA CoordinatorTruth ==
  ASSUME TruthInv,
         \/ \E r \in flying : Arrives(r)
         \/ \E keep \in BOOLEAN : Decision(keep)
         \/ NativeRecovered \/ NativeReply \/ NativeTimeout
  PROVE  TruthInv'
<1>1. UNCHANGED <<told, committed, overtaken, asked, host, worker>>
  BY DEF Arrives, Decision, NativeRecovered, NativeReply, NativeTimeout, past
<1>2. disk'.journal = disk.journal /\ disk'.completed = disk.completed
  <2>1. CASE NativeRecovered
    <3>1. PICK e : disk' = [disk EXCEPT !.epoch = e, !.pending = Nobody]
      BY <2>1 DEF NativeRecovered
    <3> QED
      BY <3>1
  <2> QED
    BY <2>1 DEF Arrives, Decision, NativeReply, NativeTimeout
<1>3. ASSUME NEW t \in Shells PROVE Settled(t)
  <2>1. DoingInv(t) /\ (Doing(t)' <=> Doing(t)) /\ Request(t)' = Request(t)
    BY <1>1 DEF TruthInv, Doing, Request, Candidate
  <2> QED
    BY <1>1, <2>1 DEF Settled, DoingInv, Doing
<1> QED
  BY <1>1, <1>2, <1>3, TruthKept

(* Steps between the calls of a session.                                    *)
Moved(s, x) ==
  /\ host'[s].at = x /\ host'[s].ask = host[s].ask /\ host'[s].last = host[s].last
  /\ host'[s].answer = host[s].answer /\ host'[s].queued = host[s].queued

LEMMA LeavingTruth ==
  ASSUME IInv, TwiceInv, TruthInv, NEW s \in Shells,
         \/ Launch(s) \/ Kill(s) \/ Close(s) \/ Attach(s) \/ Recovered(s) \/ Lease(s)
         \/ Lost(s) \/ Abandons(s) \/ End(s) \/ Stop(s)
  PROVE  TruthInv'
<1> USE DEF world, past, Fault, Step, Ends
<1>1. /\ DOMAIN host = Shells /\ DOMAIN worker = Shells /\ DOMAIN host[s] = DOMAIN Started
      /\ DOMAIN worker[s] = DOMAIN Idle
  BY DEF IInv, Shape
<1>2. UNCHANGED <<told, committed, overtaken, asked, disk>>
  BY DEF Launch, Kill, Close, Attach, Recovered, Lease, Lost, Abandons, End, Stop
<1>3. \A t \in Shells \ {s} : host'[t] = host[t] /\ worker'[t] = worker[t]
  BY <1>1 DEF Launch, Kill, Close, Attach, Recovered, Lease, Lost, Abandons, End, Stop
<1>4. DoingInv(s) /\ SessionInv(s)
  BY DEF TruthInv, TwiceInv
<1>5. CASE Launch(s)
  <2>1. host'[s] = Started /\ worker' = worker /\ worker[s].status \notin Busy
    BY <1>1, <1>5 DEF Launch, IInv, LeaseInv, Serving
  <2>2. Silent(s)
    BY <2>1 DEF Silent, Started, Transacting, Talking
  <2> QED
    BY <1>2, <1>3, <2>2, TruthGone
<1>6. CASE Kill(s) \/ (End(s) /\ host[s].closed)
  <2>1. host'[s] = Down /\ worker'[s].status \notin Busy
    BY <1>1, <1>6 DEF Kill, End, Finally, Idle, Busy
  <2>2. Silent(s)
    BY <2>1 DEF Silent, Down, Started, Transacting, Talking
  <2> QED
    BY <1>2, <1>3, <2>2, TruthGone
<1>7. CASE Close(s)
  <2>1. Moved(s, host[s].at) /\ worker' = worker /\ host'[s].epoch = host[s].epoch /\ host'[s].sequence = host[s].sequence
    BY <1>1, <1>7 DEF Close, Started, Moved
  <2>2. Request(s)' = Request(s)
    BY <1>2, <2>1 DEF Request, Candidate, Moved
  <2>3. Settled(s)
    BY <1>4, <2>1, <2>2 DEF Settled, Moved, DoingInv, Doing
  <2> QED
    BY <1>2, <1>3, <2>3, TruthSettled
<1>8. CASE Attach(s) \/ Lost(s) \/ Abandons(s) \/ Stop(s) \/ Lease(s)
  <2>1. \E x \in {"recovering", "finally", "bind"} : Moved(s, x)
    BY <1>1, <1>8 DEF Attach, Lost, Abandons, Stop, Lease, Started, Moved
  <2>2. worker' = worker /\ host'[s].epoch = host[s].epoch /\ host'[s].sequence = host[s].sequence
    BY <1>1, <1>8 DEF Attach, Lost, Abandons, Stop, Lease, Started
  <2>3. Request(s)' = Request(s)
    BY <1>2, <2>1, <2>2 DEF Request, Candidate, Moved
  <2>4. Settled(s)
    BY <1>4, <2>1, <2>2, <2>3 DEF Settled, Moved, DoingInv, Doing, Transacting, Talking
  <2> QED
    BY <1>2, <1>3, <2>4, TruthSettled
<1>9. CASE Recovered(s)
  <2>1. Moved(s, "lease") /\ worker' = worker /\ host[s].at = "recovering"
    BY <1>1, <1>9 DEF Recovered, Started, Moved
  <2>2. worker[s].status \notin Busy
    BY <1>4, <2>1 DEF SessionInv, WorkInv
  <2>3. Settled(s)
    BY <2>1, <2>2 DEF Settled, Moved, Doing, Transacting, Talking
  <2> QED
    BY <1>2, <1>3, <2>3, TruthSettled
<1>10. CASE End(s) /\ ~host[s].closed
  <2>1. Moved(s, "attach") /\ worker'[s].status \notin Busy
    BY <1>1, <1>10 DEF End, Finally, Idle, Busy, Started, Moved
  <2>2. Settled(s)
    BY <2>1 DEF Settled, Moved, Doing, Transacting, Talking
  <2> QED
    BY <1>2, <1>3, <2>2, TruthSettled
<1> QED
  BY <1>5, <1>6, <1>7, <1>8, <1>9, <1>10

LEMMA TalkingTruth ==
  ASSUME IInv, TwiceInv, TruthInv, NEW s \in Shells,
         \/ Send(s) \/ Sent(s) \/ Status(s) \/ AskRecover(s) \/ Execute(s) \/ Executed(s) \/ Receipt(s)
         \/ Store(s) \/ Work(s)
  PROVE  TruthInv'
<1> USE DEF world, past, Fault, Step, Ends
<1>1. /\ DOMAIN host = Shells /\ DOMAIN worker = Shells /\ DOMAIN host[s] = DOMAIN Started
      /\ DOMAIN worker[s] = DOMAIN Idle
  BY DEF IInv, Shape
<1>2. UNCHANGED <<told, committed, overtaken, asked, disk>>
  BY DEF Send, Sent, Status, AskRecover, Execute, Executed, Receipt, Store, Work
<1>3. DoingInv(s) /\ SessionInv(s)
  BY DEF TruthInv, TwiceInv
<1>4. CASE Work(s)
  <2>1. /\ host' = host /\ worker[s].status \in Busy /\ worker'[s].command = worker[s].command
        /\ \A t \in Shells \ {s} : worker'[t] = worker[t]
    BY <1>1, <1>4 DEF Work, Busy, Idle
  <2>2. Request(s)' = Request(s)
    BY <1>2, <2>1 DEF Request, Candidate
  <2>3. Settled(s)
    BY <1>3, <2>1, <2>2 DEF Settled, DoingInv, Doing
  <2> QED
    BY <1>2, <2>1, <2>3, TruthSettled
<1>5. CASE ~Work(s)
  <2>1. \A t \in Shells \ {s} : host'[t] = host[t] /\ worker'[t] = worker[t]
    <3>1. CASE Executed(s)
      <4>1. \E p, c, result : Receives(s, p, c, result)
        <5> USE DEF Executed
        <5> QED
          BY <3>1, Zenon
      <4>2. worker' = worker
        BY <3>1, Zenon DEF Executed
      <4>3. \E h : host' = [host EXCEPT ![s] = h]
        BY <4>1, Zenon DEF Receives
      <4> QED
        BY <4>2, <4>3
    <3>2. CASE ~Executed(s)
      BY <1>1, <1>5, <3>2 DEF Send, Sent, Status, AskRecover, Execute, Receives, Receipt, Store, Submits
    <3> QED
      BY <3>1, <3>2
  <2>2. /\ \E x \in Transacting \cup {"finally"} : Moved(s, x)
        /\ host'[s].epoch = host[s].epoch /\ host'[s].sequence = host[s].sequence
    <3>1. CASE Executed(s)
      <4>1. PICK x, y : host' = [host EXCEPT ![s].at = "receipt", ![s].part = x, ![s].receipt = y]
        <5>1. \E p, c, result : Receives(s, p, c, result)
          <6> USE DEF Executed
          <6> QED
            BY <3>1, Zenon
        <5> QED
          BY <5>1 DEF Receives
      <4> QED
        BY <1>1, <4>1 DEF Started, Moved, Transacting, Talking
    <3>2. CASE Execute(s)
      <4>1. \/ host' = [host EXCEPT ![s].at = "finally"]
            \/ \E z \in {"receipt", "gtk"} : \E x, y : host' = [host EXCEPT ![s].at = z, ![s].part = x, ![s].receipt = y]
        BY <3>2, Zenon DEF Execute, Receives
      <4>2. CASE host' = [host EXCEPT ![s].at = "finally"]
        BY <1>1, <4>2 DEF Started, Moved, Transacting, Talking
      <4>3. ASSUME NEW z \in {"receipt", "gtk"}, NEW x, NEW y,
                   host' = [host EXCEPT ![s].at = z, ![s].part = x, ![s].receipt = y]
            PROVE  Moved(s, z) /\ host'[s].epoch = host[s].epoch /\ host'[s].sequence = host[s].sequence
        BY <1>1, <4>3 DEF Started, Moved
      <4> QED
        BY <4>1, <4>2, <4>3, Zenon DEF Transacting, Talking
    <3>3. CASE Receipt(s)
      <4>1. \/ host' = [host EXCEPT ![s].at = "poll", ![s].receipt = Nobody]
            \/ \E x : host' = [host EXCEPT ![s].at = "poll", ![s].receipt = Nobody, ![s].seen = x]
        BY <3>3 DEF Receipt
      <4> QED
        BY <1>1, <4>1 DEF Started, Moved, Transacting, Talking
    <3>4. CASE Store(s)
      <4>1. host[s].at = "poll" /\ Submits(s, host[s].seen.command)
        BY <3>4 DEF Store, Polls
      <4> QED
        BY <1>1, <4>1 DEF Submits, Started, Moved, Transacting, Talking
    <3>5. CASE Send(s) \/ Sent(s) \/ Status(s) \/ AskRecover(s)
      BY <1>1, <3>5 DEF Send, Sent, Status, AskRecover, Polls, Started, Moved, Transacting, Talking
    <3> QED
      BY <1>5, <3>1, <3>2, <3>3, <3>4, <3>5
  <2>3. Request(s)' = Request(s)
    BY <1>2, <2>2 DEF Request, Candidate, Moved
  <2>4. worker'[s].status \in Busy =>
          worker'[s] = worker[s] \/ worker'[s].command.request = Request(s)
    <3>1. CASE Store(s)
      <4> DEFINE c == host[s].seen.command
      <4>1. c # NoCommand /\ Submits(s, c) /\ ~Strange(s) /\ SeenInv(s)
        BY <1>3, <3>1 DEF Store, Polls, SessionInv, Talking
      <4>2. c.request = Request(s)
        BY <4>1 DEF Strange, SeenInv, Over
      <4> HIDE DEF c
      <4>3. worker' = worker \/ worker'[s].command = c
        BY <1>1, <4>1 DEF Submits, Idle
      <4> QED
        BY <4>2, <4>3
    <3> QED
      BY <1>5, <3>1 DEF Send, Sent, Status, AskRecover, Execute, Executed, Receipt
  <2>5. Doing(s)
    BY <1>5, <2>2 DEF Doing, Transacting, Talking, Send, Sent, Status, AskRecover, Polls, Execute, Executed, Receipt, Store
  <2>6. Settled(s)
    BY <1>3, <2>2, <2>3, <2>4, <2>5 DEF Settled, Moved, DoingInv, Doing, Transacting, Talking
  <2> QED
    BY <1>2, <2>1, <2>6, TruthSettled
<1> QED
  BY <1>4, <1>5

(* The owner of the lease has its way with a request that it was asked last,*)
(* or that is recorded: none that only another Shell knows of.              *)
Concerns(s, x) ==
  /\ host[s].at \in Serving \/ worker[s].status \in Busy
  /\ host[s].last = x \/ (disk.journal # Nobody /\ disk.journal.ask = x)
  /\ host'[s].last \in {host[s].last, x}
  /\ disk'.journal = disk.journal \/ disk'.journal.ask = x
  /\ asked' = asked
  /\ \A a \in Asks \ {x} : told'[a] = told[a] /\ (a \in committed' <=> a \in committed)
  /\ \A t \in Shells \ {s} : host'[t] = host[t] /\ worker'[t] = worker[t]

LEMMA TruthOf ==
  ASSUME IInv, TruthInv, NEW s \in Shells, NEW x, Concerns(s, x),
         JournalInv', PublishedInv', SaidInv', QueuedInv(s)', AskedInv(s)', DoingInv(s)', LastInv(s)',
         \A t \in Shells \ {s} : LastInv(t)'
  PROVE  TruthInv'
<1>1. ASSUME NEW t \in Shells \ {s} PROVE QueuedInv(t)' /\ AskedInv(t)' /\ DoingInv(t)'
  <2>1. host'[t] = host[t] /\ worker'[t] = worker[t]
    BY DEF Concerns
  <2>2. ~Doing(t)'
    BY <2>1 DEF Concerns, IInv, LeaseInv, Doing, Serving, Transacting, Talking
  <2>3. \A a \in Asks : Unseen(t, a) => Unseen(t, a)'
    <3>1. ASSUME NEW a \in Asks, Unseen(t, a) PROVE Unseen(t, a)'
      <4>1. a # x /\ host[s].last # a
        BY <3>1 DEF Unseen, Concerns
      <4> QED
        BY <3>1, <4>1 DEF Unseen, Concerns
    <3> QED
      BY <3>1
  <2>4. \A a : Open(t, a) => Open(t, a)' /\ a \in Asks
    BY <2>1, NobodyAssumption DEF Open, TruthInv, LastInv
  <2>5. QueuedInv(t)' /\ AskedInv(t)'
    BY <2>1, <2>3, <2>4 DEF TruthInv, QueuedInv, AskedInv
  <2> QED
    BY <2>2, <2>5 DEF DoingInv
<1> QED
  BY <1>1 DEF TruthInv

(* The request leaves the queue.                                            *)
LEMMA DequeueTruth ==
  ASSUME IInv, TruthInv, NEW s \in Shells, Dequeue(s)
  PROVE  TruthInv'
<1>1. /\ DOMAIN host = Shells /\ DOMAIN worker = Shells /\ DOMAIN host[s] = DOMAIN Started
  BY DEF IInv, Shape
<1>2. /\ UNCHANGED <<told, committed, overtaken, asked, disk, worker>> /\ host[s].at = "idle"
      /\ host[s].queued # Nobody
      /\ host'[s].at = "look" /\ host'[s].ask = host[s].queued /\ host'[s].queued = Nobody
      /\ host'[s].last = host[s].last /\ host'[s].answer = host[s].answer
      /\ \A t \in Shells \ {s} : host'[t] = host[t]
  BY <1>1 DEF Dequeue, past, Started
<1>3. \A a : Entry(a)' = Entry(a) /\ Candidate(a)' = Candidate(a)
  BY <1>2 DEF Entry, Candidate
<1>4. JournalInv' /\ PublishedInv' /\ SaidInv'
  BY <1>2, <1>3 DEF TruthInv, JournalInv, PublishedInv, SaidInv
<1>5. \A t \in Shells : LastInv(t)'
  BY <1>2, <1>3 DEF TruthInv, LastInv
<1>6. AskedInv(s)'
  BY <1>2 DEF TruthInv, QueuedInv, AskedInv, Open, Unseen
<1>7. QueuedInv(s)'
  BY <1>2 DEF QueuedInv
<1>8. DoingInv(s)'
  BY <1>2 DEF TruthInv, QueuedInv, DoingInv, Doing, Transacting, Talking
<1>9. Concerns(s, host[s].last)
  BY <1>2 DEF Concerns, Serving
<1> QED
  BY <1>4, <1>5, <1>6, <1>7, <1>8, <1>9, TruthOf

(* A request that makes no sense is answered at once.                       *)
LEMMA LookTruth ==
  ASSUME IInv, TwiceInv, TruthInv, NEW s \in Shells, Look(s)
  PROVE  TruthInv'
<1> DEFINE a == host[s].ask
<1>1. /\ DOMAIN host = Shells /\ DOMAIN worker = Shells /\ DOMAIN host[s] = DOMAIN Started
  BY DEF IInv, Shape
<1>2. /\ UNCHANGED <<committed, overtaken, asked, disk, worker>> /\ host[s].at = "look"
      /\ host'[s].ask = host[s].ask /\ host'[s].queued = host[s].queued /\ host'[s].last = host[s].last
      /\ \A t \in Shells \ {s} : host'[t] = host[t]
  BY <1>1 DEF Look, Answer, Ends, Started
<1>3. /\ a \in Asks /\ asked[a] # Nobody /\ host[s].last = a /\ host[s].answer = "unknown" /\ host[s].queued = Nobody
      /\ told[a] = {} /\ Unseen(s, a) /\ a \notin committed /\ DOMAIN told = Asks
  BY <1>2, NobodyAssumption DEF TruthInv, AskedInv, LastInv, Open, Unseen, SaidInv
<1>4. worker[s].status \notin Busy
  BY <1>2 DEF TwiceInv, SessionInv, WorkInv
<1>5. \/ told' = told /\ host'[s].answer = "unknown" /\ host'[s].at \in {"record", "finally"}
      \/ \E x \in Answers : /\ told' = [told EXCEPT ![a] = {x}] /\ host'[s].answer = x /\ host'[s].at = "idle"
                            /\ x = "ok" => Candidate(a) = asked[a]
  BY <1>1, <1>3 DEF Look, Answer, Told, Ends, Started, Answers
<1>6. \A b : Entry(b)' = Entry(b) /\ Candidate(b)' = Candidate(b)
  BY <1>2 DEF Entry, Candidate
<1>7. \A b \in Asks \ {a} : told'[b] = told[b]
  BY <1>5, <1>3
<1>8. JournalInv'
  BY <1>2, <1>3, <1>6, <1>7 DEF TruthInv, JournalInv, Unseen
<1>9. PublishedInv'
  BY <1>2, <1>6 DEF TruthInv, PublishedInv
<1>10. SaidInv'
  <2>1. CASE told' = told
    BY <1>2, <1>6, <2>1 DEF TruthInv, SaidInv
  <2>2. CASE told' # told
    <3>1. PICK x : told' = [told EXCEPT ![a] = {x}] /\ (x = "ok" => Candidate(a) = asked[a])
      BY <1>5, <2>2
    <3> HIDE DEF a
    <3>2. DOMAIN told' = Asks /\ told'[a] = {x}
      BY <1>3, <3>1
    <3> QED
      BY <1>2, <1>3, <1>6, <1>7, <3>1, <3>2 DEF TruthInv, SaidInv
  <2> QED
    BY <2>1, <2>2
<1>11. QueuedInv(s)' /\ DoingInv(s)'
  BY <1>2, <1>3, <1>4, <1>5 DEF QueuedInv, DoingInv, Doing, Transacting, Talking
<1>12. AskedInv(s)'
  BY <1>2, <1>3, <1>5 DEF AskedInv, Open, Unseen
<1>13. LastInv(s)'
  <2>1. CASE told' = told /\ host'[s].answer = "unknown"
    BY <1>2, <1>3, <1>6, <2>1 DEF TruthInv, LastInv
  <2>2. CASE \E x \in Answers : told' = [told EXCEPT ![a] = {x}] /\ host'[s].answer = x
    <3>1. PICK x \in Answers : told' = [told EXCEPT ![a] = {x}] /\ host'[s].answer = x
      BY <2>2
    <3> HIDE DEF a
    <3> QED
      BY <1>2, <1>3, <3>1, NobodyAssumption DEF LastInv, Answers
  <2> QED
    BY <1>5, <2>1, <2>2
<1>14. ASSUME NEW t \in Shells \ {s} PROVE LastInv(t)'
  <2>1. host[t].last # a
    BY <1>3, <1>14 DEF Unseen
  <2> QED
    BY <1>2, <1>6, <1>7, <1>14, <2>1, NobodyAssumption DEF TruthInv, LastInv
<1>15. Concerns(s, a)
  BY <1>2, <1>3, <1>7 DEF Concerns, Serving
<1> QED
  BY <1>8, <1>9, <1>10, <1>11, <1>12, <1>13, <1>14, <1>15, TruthOf

(* The settings directory keeps its four files.                             *)
Files == DOMAIN disk = {"completed", "pending", "epoch", "journal"}

LEMMA WorkersCommand ==
  ASSUME TwiceInv, RunsInv, NEW s \in Shells, worker[s].status \in Busy
  PROVE  worker[s].command.operation \in {"CURRENT", "PREPARE", "PUBLISH", "ABANDON"}
<1>1. PICK c : c = worker[s].command
  OBVIOUS
<1>2. HeldInv(s) /\ WorkInv(s) /\ ProgressInv(joint)
  BY DEF RunsInv, TwiceInv, SessionInv
<1>3. c # NoCommand /\ c.target = "STORE" /\ c = joint.pending
  BY <1>1, <1>2 DEF WorkInv, HeldInv
<1>4. /\ joint.step \in Steps /\ c.target = Dispatch[joint.step].target /\ c.operation = Dispatch[joint.step].operation
  BY <1>2, <1>3 DEF ProgressInv, PendingInv, Grounded
<1> QED
  BY <1>1, <1>3, <1>4 DEF Steps, Dispatch

LEMMA FilesInductive == TwiceInv /\ RunsInv /\ Files /\ [Next]_vars => Files'
<1> SUFFICES ASSUME TwiceInv, RunsInv, Files, [Next]_vars PROVE Files'
  OBVIOUS
<1>2. disk' = disk \/ NativeRecovered \/ \E s \in Shells : Record(s) \/ Worked(s)
  <2>1. ASSUME NEW s \in Shells, Session(s), ~Record(s) PROVE disk' = disk
    BY <2>1 DEF Session, Attach, Recovered, Lease, Bind, Boot, Lost, Dequeue, Look, Send, Sent, Abandons, Status,
                AskRecover, Finish, Store, Execute, Executed, Receipt, End, Stop
  <2>2. ASSUME NEW s \in Shells, Launch(s) \/ Close(s) \/ Kill(s) \/ Work(s) PROVE disk' = disk
    BY <2>2 DEF Launch, Close, Kill, Work
  <2>3. ASSUME NEW s \in Shells, NEW a \in Asks, NEW g \in Generations, Apply(s, a, g) PROVE disk' = disk
    BY <2>3 DEF Apply
  <2>4. (\E r \in flying : Arrives(r)) \/ (\E keep \in BOOLEAN : Decision(keep)) \/ NativeReply \/ NativeTimeout => disk' = disk
    BY DEF Arrives, Decision, NativeReply, NativeTimeout
  <2>5. UNCHANGED vars => disk' = disk
    BY DEF vars
  <2> QED
    BY <2>1, <2>2, <2>3, <2>4, <2>5 DEF Next
<1>3. CASE NativeRecovered
  BY <1>3 DEF NativeRecovered, Files
<1>4. ASSUME NEW s \in Shells, Record(s) PROVE Files'
  <2>1. disk' = disk \/ \E e : disk' = [disk EXCEPT !.journal = e]
    BY <1>4, Zenon DEF Record
  <2> QED
    BY <2>1 DEF Files
<1>5. ASSUME NEW s \in Shells, Worked(s) PROVE Files'
  <2> DEFINE c == worker[s].command
  <2>1. disk' \in {disk, Written(c), [disk EXCEPT !.completed = c.request.candidate]}
    BY <1>5, Zenon DEF Worked
  <2>2. c.operation \in {"CURRENT", "PREPARE", "PUBLISH", "ABANDON"}
    BY <1>5, WorkersCommand DEF Worked, Busy
  <2>3. DOMAIN Written(c) = DOMAIN disk
    <3>1. \A x, y : /\ DOMAIN [disk EXCEPT !.completed = x, !.pending = y] = DOMAIN disk
                   /\ DOMAIN [disk EXCEPT !.pending = y] = DOMAIN disk
      OBVIOUS
    <3>2. \/ Written(c) = disk
          \/ \E x, y : Written(c) = [disk EXCEPT !.completed = x, !.pending = y] \/ Written(c) = [disk EXCEPT !.pending = y]
      BY <2>2 DEF Written
    <3> QED
      BY <3>1, <3>2
  <2>4. DOMAIN [disk EXCEPT !.completed = c.request.candidate] = DOMAIN disk
    OBVIOUS
  <2> QED
    BY <2>1, <2>3, <2>4 DEF Files
<1> QED
  BY <1>2, <1>3, <1>4, <1>5 DEF Files

(* The request is recorded: from now on the journal answers for it.         *)
LEMMA RecordTruth ==
  ASSUME Files, IInv, TwiceInv, RunsInv, TruthInv, NEW s \in Shells, Record(s)
  PROVE  TruthInv'
<1> DEFINE a == host[s].ask
<1>1. /\ DOMAIN host = Shells /\ DOMAIN worker = Shells /\ DOMAIN host[s] = DOMAIN Started
      /\ DOMAIN worker[s] = DOMAIN Idle
  BY DEF IInv, Shape
<1>2. /\ UNCHANGED <<told, committed, overtaken, asked>> /\ host[s].at = "record"
      /\ host'[s].ask = host[s].ask /\ host'[s].queued = host[s].queued /\ host'[s].last = host[s].last
      /\ host'[s].answer = host[s].answer /\ host'[s].at \in {"start", "finally"}
      /\ \A t \in Shells \ {s} : host'[t] = host[t] /\ worker'[t] = worker[t]
  BY <1>1 DEF Record, past, Ends, Fault, Started
<1>3. /\ a \in Asks /\ asked[a] # Nobody /\ host[s].last = a /\ host[s].answer = "unknown" /\ host[s].queued = Nobody
      /\ told[a] = {} /\ Unseen(s, a) /\ a \notin committed
  BY <1>2, NobodyAssumption DEF TruthInv, AskedInv, LastInv, Open, Unseen
<1>4. worker[s].status \notin Busy /\ worker'[s].status \notin Busy
  <2>1. worker[s].status \notin Busy
    BY <1>2 DEF TwiceInv, SessionInv, WorkInv
  <2>2. worker' = worker \/ worker'[s].status = "idle"
    BY <1>1 DEF Record, Idle
  <2> QED
    BY <2>1, <2>2 DEF Busy
<1>5. disk.completed = asked[a] /\ Candidate(a) # asked[a]
  BY <1>2 DEF RunsInv, HeldInv, Base, Goal
<1>6. /\ disk'.completed = disk.completed
      /\ \/ disk'.journal = disk.journal /\ host'[s].at = "finally"
         \/ disk'.journal = Entry(a)
  <2> DEFINE e == [ask |-> a, base |-> asked[a], candidate |-> Candidate(a)]
  <2>1. \/ disk' = disk /\ host' = [host EXCEPT ![s].at = "finally"]
        \/ disk' = [disk EXCEPT !.journal = e]
    BY Zenon DEF Record, Ends
  <2>2. CASE disk' = disk /\ host' = [host EXCEPT ![s].at = "finally"]
    BY <1>1, <2>2 DEF Started
  <2>3. CASE disk' = [disk EXCEPT !.journal = e]
    <3>1. "journal" \in DOMAIN disk
      BY DEF Files
    <3> QED
      BY <2>3, <3>1 DEF Entry
  <2> QED
    BY <2>1, <2>2, <2>3
<1>7. \A b : Entry(b)' = Entry(b) /\ Candidate(b)' = Candidate(b)
  BY <1>2 DEF Entry, Candidate
<1>8. Entry(a) # Nobody /\ Entry(a).ask = a
  BY <1>3, EditAssumption, NobodyAssumption DEF RunsInv, Entry, Candidate
<1> HIDE DEF a
<1>9. CASE disk'.journal = disk.journal /\ host'[s].at = "finally"
  <2>1. Settled(s)
    BY <1>2, <1>4, <1>9 DEF Settled, Doing, Transacting, Talking, a
  <2> QED
    BY <1>2, <1>6, <1>9, <2>1, TruthSettled
<1>10. CASE disk'.journal = Entry(a)
  <2>1. JournalInv'
    BY <1>2, <1>3, <1>5, <1>6, <1>7, <1>8, <1>10 DEF TruthInv, PublishedInv, JournalInv
  <2>2. PublishedInv' /\ SaidInv'
    BY <1>2, <1>7, <1>8, <1>10 DEF TruthInv, PublishedInv, SaidInv
  <2>3. QueuedInv(s)' /\ AskedInv(s)'
    BY <1>2, <1>3 DEF QueuedInv, AskedInv
  <2>4. DoingInv(s)'
    BY <1>2, <1>3, <1>4, <1>7, <1>10 DEF DoingInv, Open, Unseen, a
  <2>5. ASSUME NEW t \in Shells PROVE LastInv(t)'
    <3>1. /\ host'[t].last = host[t].last /\ host'[t].answer = host[t].answer /\ LastInv(t)
      BY <1>2, <2>5 DEF TruthInv
    <3>2. host[t].last \in committed \ overtaken => disk.completed = Candidate(host[t].last) \/ host[t].answer # "unknown"
      BY <3>1 DEF TruthInv, LastInv, JournalInv, PublishedInv
    <3> QED
      BY <1>2, <1>6, <1>7, <3>1, <3>2 DEF LastInv
  <2>6. Concerns(s, a)
    BY <1>2, <1>3, <1>8, <1>10 DEF Concerns, Serving
  <2> QED
    BY <2>1, <2>2, <2>3, <2>4, <2>5, <2>6, TruthOf
<1> QED
  BY <1>6, <1>9, <1>10

(* A restarted Shell takes the recorded request for its last.               *)
LEMMA BindTruth ==
  ASSUME Files, IInv, TwiceInv, TruthInv, NEW s \in Shells, Bind(s)
  PROVE  TruthInv'
<1>1. /\ DOMAIN host = Shells /\ DOMAIN worker = Shells /\ DOMAIN host[s] = DOMAIN Started
  BY DEF IInv, Shape
<1>2. /\ UNCHANGED <<told, committed, overtaken, asked, disk, worker>> /\ host[s].at = "bind"
      /\ \A t \in Shells \ {s} : host'[t] = host[t]
  BY <1>1 DEF Bind, past, Ends
<1>3. worker[s].status \notin Busy
  BY <1>2 DEF TwiceInv, SessionInv, WorkInv
<1>4. /\ host'[s].ask = host[s].ask /\ host'[s].queued = host[s].queued /\ host'[s].at \in {"boot", "finally"}
      /\ \/ host'[s].last = host[s].last /\ host'[s].answer = host[s].answer
         \/ /\ host[s].last = Nobody /\ disk.journal # Nobody
            /\ host'[s].last = disk.journal.ask /\ host'[s].answer = "unknown"
  <2>1. CASE Attached(s)
    <3> DEFINE h == host[s]
               known == IF h.last = Nobody /\ disk.journal # Nobody
                        THEN [h EXCEPT !.last = disk.journal.ask, !.answer = "unknown"] ELSE h
    <3>1. host' = [host EXCEPT ![s] = [known EXCEPT !.at = "boot", !.sequence = h.seen.sequence, !.seen = Nobody,
                                                    !.part = Unprepared(disk.completed)]]
      BY <2>1 DEF Bind
    <3>2. /\ DOMAIN known = DOMAIN Started /\ known.ask = h.ask /\ known.queued = h.queued
          /\ \/ known.last = h.last /\ known.answer = h.answer
             \/ /\ h.last = Nobody /\ disk.journal # Nobody
                /\ known.last = disk.journal.ask /\ known.answer = "unknown"
      BY <1>1 DEF Started
    <3> HIDE DEF known
    <3> QED
      BY <1>1, <3>1, <3>2 DEF Started
  <2>2. CASE ~Attached(s)
    BY <1>1, <2>2 DEF Bind, Ends, Started
  <2> QED
    BY <2>1, <2>2
<1>5. CASE host'[s].last = host[s].last /\ host'[s].answer = host[s].answer
  <2>1. Settled(s)
    BY <1>2, <1>3, <1>4, <1>5 DEF Settled, Doing, Transacting, Talking
  <2> QED
    BY <1>2, <2>1, TruthSettled
<1>6. CASE /\ host[s].last = Nobody /\ disk.journal # Nobody
           /\ host'[s].last = disk.journal.ask /\ host'[s].answer = "unknown"
  <2> DEFINE a == disk.journal.ask
  <2>1. \A b : Entry(b)' = Entry(b) /\ Candidate(b)' = Candidate(b)
    BY <1>2 DEF Entry, Candidate
  <2>2. JournalInv' /\ PublishedInv' /\ SaidInv'
    BY <1>2, <2>1 DEF TruthInv, JournalInv, PublishedInv, SaidInv
  <2>3. host[s].queued = Nobody
    BY <1>6 DEF TruthInv, QueuedInv, Open
  <2>4. QueuedInv(s)' /\ AskedInv(s)' /\ DoingInv(s)'
    BY <1>2, <1>3, <1>4, <2>3 DEF QueuedInv, AskedInv, DoingInv, Doing, Transacting, Talking
  <2>5. /\ a \in Asks /\ asked[a] # Nobody
        /\ told[a] \subseteq {IF a \in committed THEN "ok" ELSE "rolled_back"}
    BY <1>6 DEF TruthInv, JournalInv
  <2>6. LastInv(s)'
    <3> HIDE DEF a
    <3>1. host'[s].last = a /\ disk'.journal.ask = a
      BY <1>2, <1>6 DEF a
    <3>2. a # Nobody /\ "unknown" \notin Answers
      BY <2>5, NobodyAssumption DEF Answers
    <3> QED
      BY <1>2, <1>6, <2>5, <3>1, <3>2 DEF LastInv
  <2>7. \A t \in Shells \ {s} : LastInv(t)'
    BY <1>2, <2>1 DEF TruthInv, LastInv
  <2>8. Concerns(s, a)
    BY <1>2, <1>6 DEF Concerns, Serving
  <2> QED
    BY <2>2, <2>4, <2>6, <2>7, <2>8, TruthOf
<1> QED
  BY <1>4, <1>5, <1>6

(* What the completed generation says of the last request, if it says       *)
(* anything, is the truth: the journal explains that generation, and        *)
(* without the journal it is still the one the request was made for.        *)
LEMMA VerdictTrue ==
  ASSUME IInv, RunsInv, TruthInv, NEW s \in Shells, host[s].at = "boot"
  PROVE  LET v == Verdict(s, host[s].part.confirmed)
             a == host[s].last IN
         /\ v \in Answers \cup {"unknown", Nobody}
         /\ v \notin Answers => v = host[s].answer
         /\ v \in Answers =>
              /\ a \in Asks /\ asked[a] # Nobody
              /\ a \in Asks \ overtaken => told[a] \subseteq {v} /\ ((v = "ok" /\ asked[a] # Candidate(a)) <=> a \in committed)
              /\ v # "rolled_back" => a \in committed \/ v \in told[a]
         /\ host[s].queued # Nobody => v = "unknown"
<1> DEFINE h == host[s]
           j == disk.journal
           a == h.last
           v == Verdict(s, host[s].part.confirmed)
<1>1. host[s].part.confirmed = disk.completed
  BY DEF RunsInv, HeldInv, Unprepared
<1>2. LastInv(s) /\ JournalInv /\ PublishedInv /\ SaidInv /\ QueuedInv(s)
  BY DEF TruthInv
<1>3. Nobody \notin Asks /\ Nobody \notin Answers /\ "unknown" \notin Answers /\ "unknown" # Nobody
  BY NobodyAssumption DEF Answers
<1>4. h.queued # Nobody => h.answer = "unknown" /\ (j # Nobody => j.ask # a)
  BY <1>2 DEF QueuedInv, Open, Unseen
<1>5. CASE j # Nobody /\ j.ask = a
  <2>1. /\ a \in Asks \ overtaken /\ asked[a] # Nobody /\ j.candidate = Candidate(a) /\ j.base = asked[a]
        /\ Candidate(a) # asked[a] /\ disk.completed \in {asked[a], Candidate(a)}
        /\ disk.completed = Candidate(a) <=> a \in committed
        /\ told[a] \subseteq {IF a \in committed THEN "ok" ELSE "rolled_back"}
    BY <1>2, <1>5 DEF JournalInv, Entry
  <2>2. v = IF a \in committed THEN "ok" ELSE "rolled_back"
    BY <1>1, <1>5, <2>1 DEF Verdict
  <2> QED
    BY <1>4, <1>5, <2>1, <2>2 DEF Answers
<1>6. CASE ~(j # Nobody /\ j.ask = a) /\ h.queued = Nobody /\ h.answer = "unknown" /\ asked[a] = disk.completed
  <2>1. v = "rolled_back"
    BY <1>1, <1>6 DEF Verdict
  <2>2. a \in Asks /\ asked[a] # Nobody
    BY <1>2, <1>3, <1>6 DEF LastInv
  <2>3. a \notin committed \ overtaken
    BY <1>2, <1>6 DEF LastInv, PublishedInv
  <2>4. a \notin committed => told[a] \subseteq {"rolled_back"}
    BY <1>2, <1>6 DEF LastInv
  <2> QED
    BY <1>2, <1>6, <2>1, <2>2, <2>3, <2>4 DEF Answers, PublishedInv
<1>7. CASE ~(j # Nobody /\ j.ask = a) /\ ~(h.queued = Nobody /\ h.answer = "unknown" /\ asked[a] = disk.completed)
  <2>1. v = h.answer
    BY <1>1, <1>7 DEF Verdict
  <2>2. h.answer \in Answers => a \in Asks /\ asked[a] # Nobody /\ h.answer \in told[a]
    BY <1>2, <1>3 DEF LastInv
  <2>3. h.answer \in Answers /\ a \in Asks \ overtaken =>
          told[a] = {h.answer} /\ ((h.answer = "ok" /\ asked[a] # Candidate(a)) <=> a \in committed)
    BY <1>2, <2>2 DEF SaidInv
  <2> QED
    BY <1>2, <1>4, <2>1, <2>2, <2>3 DEF LastInv
<1> QED
  BY <1>5, <1>6, <1>7

LEMMA BootTruth ==
  ASSUME IInv, TwiceInv, RunsInv, TruthInv, NEW s \in Shells, Boot(s)
  PROVE  TruthInv'
<1> DEFINE a == host[s].last
           v == Verdict(s, host[s].part.confirmed)
<1>1. /\ DOMAIN host = Shells /\ DOMAIN worker = Shells /\ DOMAIN host[s] = DOMAIN Started
  BY DEF IInv, Shape
<1>2. /\ UNCHANGED <<committed, overtaken, asked, disk, worker>> /\ host[s].at = "boot"
      /\ \A t \in Shells \ {s} : host'[t] = host[t]
  BY <1>1 DEF Boot, Ends
<1>3. worker[s].status \notin Busy
  BY <1>2 DEF TwiceInv, SessionInv, WorkInv
<1>4. /\ host'[s].ask = host[s].ask /\ host'[s].queued = host[s].queued /\ host'[s].last = host[s].last
      /\ \/ host'[s].at = "finally" /\ host'[s].answer = host[s].answer /\ told' = told
         \/ /\ host'[s].at = "idle" /\ host'[s].answer = v
            /\ IF v \in Answers THEN told' = [told EXCEPT ![a] = @ \cup {v}] ELSE told' = told
  BY <1>1 DEF Boot, Ends, Told, Started
<1>5. CASE host'[s].at = "finally" /\ host'[s].answer = host[s].answer /\ told' = told
  <2>1. Settled(s)
    BY <1>2, <1>3, <1>4, <1>5 DEF Settled, Doing, Transacting, Talking
  <2> QED
    BY <1>2, <1>5, <2>1, TruthSettled
<1>6. CASE /\ host'[s].at = "idle" /\ host'[s].answer = v
           /\ IF v \in Answers THEN told' = [told EXCEPT ![a] = @ \cup {v}] ELSE told' = told
  <2>1. /\ v \in Answers \cup {"unknown", Nobody}
        /\ v \notin Answers => v = host[s].answer
        /\ v \in Answers =>
             /\ a \in Asks /\ asked[a] # Nobody
             /\ a \in Asks \ overtaken => told[a] \subseteq {v} /\ ((v = "ok" /\ asked[a] # Candidate(a)) <=> a \in committed)
             /\ v # "rolled_back" => a \in committed \/ v \in told[a]
        /\ host[s].queued # Nobody => v = "unknown"
    BY <1>2, VerdictTrue
  <2>2. DOMAIN told = Asks /\ LastInv(s) /\ JournalInv /\ PublishedInv /\ SaidInv /\ QueuedInv(s)
    BY DEF TruthInv, SaidInv
  <2> HIDE DEF a, v
  <2>3. /\ DOMAIN told' = Asks
        /\ \A b \in Asks \ {a} : told'[b] = told[b]
        /\ v \in Answers => told'[a] = told[a] \cup {v}
        /\ v \notin Answers => told' = told
    BY <1>6, <2>1, <2>2
  <2>4. \A b : Entry(b)' = Entry(b) /\ Candidate(b)' = Candidate(b)
    BY <1>2 DEF Entry, Candidate
  <2>5. JournalInv'
    <3>1. ASSUME disk.journal # Nobody, disk.journal.ask = a, v \in Answers
          PROVE  told'[a] \subseteq {IF a \in committed THEN "ok" ELSE "rolled_back"}
      <4>1. a \in Asks \ overtaken /\ told[a] \subseteq {IF a \in committed THEN "ok" ELSE "rolled_back"}
        BY <2>2, <3>1 DEF JournalInv
      <4>2. Candidate(a) # asked[a]
        BY <2>2, <3>1 DEF JournalInv
      <4>3. a \in committed => v = "ok"
        BY <2>1, <3>1, <4>1
      <4>4. a \notin committed => v = "rolled_back"
        BY <2>1, <3>1, <4>1, <4>2
      <4> QED
        BY <2>3, <3>1, <4>1, <4>3, <4>4
    <3>2. disk.journal # Nobody => told'[disk.journal.ask] = told[disk.journal.ask] \/ (disk.journal.ask = a /\ v \in Answers)
      BY <2>2, <2>3 DEF JournalInv
    <3> QED
      BY <1>2, <2>2, <2>4, <3>1, <3>2 DEF JournalInv
  <2>6. PublishedInv'
    BY <1>2, <2>2, <2>4 DEF PublishedInv
  <2>7. SaidInv'
    <3>1. ASSUME NEW b \in Asks PROVE told'[b] # {} => asked'[b] # Nobody
      BY <1>2, <2>1, <2>2, <2>3, <3>1 DEF SaidInv
    <3>2. ASSUME NEW b \in Asks \ overtaken
          PROVE  told'[b] = {} \/ \E x : told'[b] = {x} /\ ((x = "ok" /\ asked[b] # Candidate(b)) <=> b \in committed)
      <4>1. CASE b = a /\ v \in Answers
        <5>1. told'[b] = {v}
          BY <2>1, <2>3, <3>2, <4>1
        <5> QED
          BY <2>1, <3>2, <4>1, <5>1
      <4>2. CASE ~(b = a /\ v \in Answers)
        BY <2>2, <2>3, <3>2, <4>2 DEF SaidInv
      <4> QED
        BY <4>1, <4>2
    <3> QED
      BY <1>2, <2>3, <2>4, <3>1, <3>2 DEF SaidInv
  <2>8. QueuedInv(s)'
    <3>1. ASSUME host[s].queued # Nobody PROVE told' = told
      BY <2>1, <2>3, <3>1 DEF Answers
    <3> QED
      BY <1>2, <1>4, <1>6, <2>1, <2>2, <3>1 DEF QueuedInv, Open, Unseen
  <2>9. AskedInv(s)' /\ DoingInv(s)'
    BY <1>2, <1>3, <1>6 DEF AskedInv, DoingInv, Doing, Transacting, Talking
  <2>10. ASSUME NEW t \in Shells PROVE LET b == host[t].last IN
             /\ host[t].answer \in told[b] => host[t].answer \in told'[b] \/ host[t].answer \notin Answers
             /\ host[t].answer = "unknown" /\ b \notin committed => told'[b] \subseteq {"rolled_back"}
    <3>1. LastInv(t)
      BY DEF TruthInv
    <3>2. CASE host[t].last = a /\ v \in Answers
      <4>1. a \notin committed => v = "rolled_back" \/ v \in told[a]
        BY <2>1, <3>2
      <4> QED
        BY <2>1, <2>3, <3>1, <3>2, <4>1 DEF LastInv
    <3>3. CASE host[t].last \in Asks /\ ~(host[t].last = a /\ v \in Answers)
      BY <2>3, <3>1, <3>3 DEF LastInv
    <3>4. CASE host[t].last \notin Asks
      BY <3>1, <3>4, NobodyAssumption DEF LastInv
    <3> QED
      BY <3>2, <3>3, <3>4
  <2>11. LastInv(s)'
    <3>1. host'[s].last = a
      BY <1>4 DEF a
    <3>2. CASE v \in Answers
      BY <1>2, <1>6, <2>1, <2>3, <3>1, <3>2, NobodyAssumption DEF LastInv, Answers
    <3>3. CASE v \notin Answers
      BY <1>2, <1>6, <2>1, <2>2, <2>3, <2>4, <3>1, <3>3 DEF LastInv, a
    <3> QED
      BY <3>2, <3>3
  <2>12. ASSUME NEW t \in Shells \ {s} PROVE LastInv(t)'
    BY <1>2, <2>4, <2>10, <2>12 DEF TruthInv, LastInv
  <2>13. Concerns(s, a)
    BY <1>2, <1>4, <2>3 DEF Concerns, Serving, a
  <2> QED
    BY <2>5, <2>6, <2>7, <2>8, <2>9, <2>11, <2>12, <2>13, TruthOf
<1> QED
  BY <1>4, <1>5, <1>6

(* The transaction is over.                                                 *)
LEMMA FinishTruth ==
  ASSUME IInv, TwiceInv, RunsInv, TruthInv, NEW s \in Shells, Finish(s)
  PROVE  TruthInv'
<1> DEFINE a == host[s].ask
<1>1. /\ DOMAIN host = Shells /\ DOMAIN worker = Shells /\ DOMAIN host[s] = DOMAIN Started
      /\ DOMAIN worker[s] = DOMAIN Idle
  BY DEF IInv, Shape
<1>2. /\ UNCHANGED <<committed, overtaken, asked, disk>> /\ host[s].at = "poll" /\ ~Strange(s)
      /\ host[s].seen.state \in Over
      /\ host'[s].ask = host[s].ask /\ host'[s].queued = host[s].queued /\ host'[s].last = host[s].last
      /\ \A t \in Shells \ {s} : host'[t] = host[t] /\ worker'[t] = worker[t]
      /\ worker'[s].status = worker[s].status
  BY <1>1 DEF Finish, Polls, Answer, Ends, Started, Idle, Over
<1>3. worker[s].status \notin Busy
  BY <1>2 DEF TwiceInv, SessionInv, SeenInv, WorkInv, Talking
<1>4. /\ a \in Asks /\ asked[a] # Nobody /\ host[s].last = a /\ host[s].answer = "unknown" /\ host[s].queued = Nobody
      /\ told[a] = {} /\ DOMAIN told = Asks /\ disk.journal = Entry(a)
      /\ \A t \in Shells \ {s} : host[t].last # a
  BY <1>2, NobodyAssumption DEF TruthInv, DoingInv, Doing, LastInv, Open, SaidInv, Transacting, Talking
<1>5. /\ Entry(a) # Nobody /\ Entry(a).ask = a
  BY <1>4, EditAssumption, NobodyAssumption DEF RunsInv, Entry, Candidate
<1>6. /\ a \in Asks \ overtaken /\ Candidate(a) # asked[a]
      /\ disk.completed = Candidate(a) <=> a \in committed
  BY <1>4, <1>5 DEF TruthInv, JournalInv
<1>7. \/ told' = told /\ host'[s].answer = "unknown" /\ host'[s].at = "finally"
      \/ LET x == IF a \in committed THEN "ok" ELSE "rolled_back" IN
            told' = [told EXCEPT ![a] = {x}] /\ host'[s].answer = x /\ host'[s].at = "idle"
  <2>1. CASE host[s].seen.state = "COMPLETE"
    BY <1>1, <1>4, <1>6, <2>1 DEF Finish, Told, Ends, Started
  <2>2. CASE host[s].seen.state # "COMPLETE"
    <3>1. host[s].seen.state \in {"ABORTED", "STALE"} /\ host[s].seen.sequence = host[s].sequence
      BY <1>2, <2>2 DEF Over, Strange
    <3>2. disk.completed = asked[a]
      BY <1>2, <3>1 DEF RunsInv, HeldInv, SightInv, InForce, Base, Talking
    <3>3. host' = [host EXCEPT ![s].at = "idle", ![s].answer = "rolled_back"] /\ Told(a, "rolled_back")
      BY <2>2 DEF Finish, Answer
    <3> QED
      BY <1>1, <1>4, <1>6, <3>2, <3>3 DEF Told, Started
  <2> QED
    BY <2>1, <2>2
<1>8. \A b : Entry(b)' = Entry(b) /\ Candidate(b)' = Candidate(b)
  BY <1>2 DEF Entry, Candidate
<1>9. CASE told' = told /\ host'[s].answer = "unknown" /\ host'[s].at = "finally"
  <2>1. Settled(s)
    BY <1>2, <1>3, <1>4, <1>9 DEF Settled, Doing, Transacting, Talking
  <2> QED
    BY <1>2, <1>9, <2>1, TruthSettled
<1>10. ASSUME NEW x, x = (IF a \in committed THEN "ok" ELSE "rolled_back"),
              told' = [told EXCEPT ![a] = {x}], host'[s].answer = x, host'[s].at = "idle"
       PROVE  TruthInv'
  <2> HIDE DEF a
  <2>1. DOMAIN told' = Asks /\ told'[a] = {x} /\ \A b \in Asks \ {a} : told'[b] = told[b]
    BY <1>4, <1>10
  <2>2. JournalInv' /\ PublishedInv'
    BY <1>2, <1>4, <1>5, <1>8, <1>10, <2>1 DEF TruthInv, JournalInv, PublishedInv
  <2>3. SaidInv'
    BY <1>2, <1>4, <1>6, <1>8, <1>10, <2>1 DEF TruthInv, SaidInv
  <2>4. QueuedInv(s)' /\ AskedInv(s)' /\ DoingInv(s)'
    BY <1>2, <1>3, <1>4, <1>10 DEF QueuedInv, AskedInv, DoingInv, Doing, Transacting, Talking
  <2>5. LastInv(s)'
    BY <1>2, <1>4, <1>10, <2>1, NobodyAssumption DEF LastInv, Answers
  <2>6. ASSUME NEW t \in Shells \ {s} PROVE LastInv(t)'
    <3>1. host[t].last # a
      BY <1>4, <2>6
    <3> QED
      BY <1>2, <1>8, <2>1, <2>6, <3>1, NobodyAssumption DEF TruthInv, LastInv
  <2>7. Concerns(s, a)
    BY <1>2, <1>4, <2>1 DEF Concerns, Serving
  <2> QED
    BY <2>2, <2>3, <2>4, <2>5, <2>6, <2>7, TruthOf
<1> QED
  BY <1>7, <1>9, <1>10

(* Of what a client is told, a write concerns the completed generation.     *)
LEMMA WrittenFields ==
  ASSUME Files, NEW c, c.operation \in {"CURRENT", "PREPARE", "PUBLISH", "ABANDON"}
  PROVE  /\ Written(c).journal = disk.journal
         /\ Written(c).completed = IF c.operation = "PUBLISH" THEN c.request.candidate ELSE disk.completed
<1>1. CASE c.operation = "CURRENT"
  BY <1>1 DEF Written
<1>2. CASE c.operation \in {"PREPARE", "ABANDON"}
  <2>1. \A y : /\ [disk EXCEPT !.pending = y].journal = disk.journal
              /\ [disk EXCEPT !.pending = y].completed = disk.completed
    OBVIOUS
  <2>2. \E y : Written(c) = [disk EXCEPT !.pending = y]
    BY <1>2 DEF Written
  <2> QED
    BY <1>2, <2>1, <2>2
<1>3. CASE c.operation = "PUBLISH"
  <2>1. \A x, y : /\ [disk EXCEPT !.completed = x, !.pending = y].journal = disk.journal
                 /\ [disk EXCEPT !.completed = x, !.pending = y].completed = x
    BY DEF Files
  <2>2. \E y : Written(c) = [disk EXCEPT !.completed = c.request.candidate, !.pending = y]
    BY <1>3 DEF Written
  <2> QED
    BY <1>3, <2>1, <2>2
<1> QED
  BY <1>1, <1>2, <1>3

(* A publication makes the request that is being carried out the one that   *)
(* explains the completed generation.  A Shell that still had to answer for *)
(* an earlier one can no longer tell.                                       *)
LEMMA WorkedTruth ==
  ASSUME Files, IInv, TwiceInv, RunsInv, TruthInv, NEW s \in Shells, Worked(s)
  PROVE  TruthInv'
<1> DEFINE a == host[s].ask
           c == worker[s].command
<1>1. /\ DOMAIN host = Shells /\ DOMAIN worker = Shells /\ DOMAIN worker[s] = DOMAIN Idle
  BY DEF IInv, Shape
<1>2. UNCHANGED <<told, asked, host>> /\ worker[s].status \in Busy
  BY DEF Worked, Busy
<1>3. /\ worker'[s].status \notin Busy
      /\ \A t \in Shells \ {s} : host'[t] = host[t] /\ worker'[t] = worker[t]
  BY <1>1, <1>2 DEF Worked, Idle, Busy
<1>4. c.operation \in {"CURRENT", "PREPARE", "PUBLISH", "ABANDON"}
  BY <1>2, WorkersCommand
<1>5. host[s].at \in {"poll", "finally"}
  BY <1>2 DEF TwiceInv, SessionInv, WorkInv
<1>6. disk'.journal = disk.journal /\ disk'.completed \in {disk.completed, c.request.candidate}
  <2>1. disk' \in {disk, Written(c), [disk EXCEPT !.completed = c.request.candidate]}
    BY Zenon DEF Worked
  <2>2. /\ [disk EXCEPT !.completed = c.request.candidate].journal = disk.journal
        /\ [disk EXCEPT !.completed = c.request.candidate].completed = c.request.candidate
    BY DEF Files
  <2>3. Written(c).journal = disk.journal /\ Written(c).completed \in {disk.completed, c.request.candidate}
    BY <1>4, WrittenFields
  <2> QED
    BY <2>1, <2>2, <2>3
<1>7. CASE ~(Granted(s, c) /\ c.operation = "PUBLISH" /\ Published(a))
  <2>1. UNCHANGED <<committed, overtaken>>
    BY <1>7 DEF Worked
  <2>2. disk'.completed = disk.completed
    <3>1. disk' = disk \/ (Granted(s, c) /\ c.operation # "PUBLISH" /\ disk' = Written(c))
      BY <1>7, Zenon DEF Worked
    <3> QED
      BY <1>4, <3>1, WrittenFields
  <2>3. Settled(s)
    BY <1>2, <1>3, <1>5 DEF Settled, Doing
  <2> QED
    BY <1>2, <1>3, <1>6, <2>1, <2>2, <2>3, TruthSettled
<1>8. CASE Granted(s, c) /\ c.operation = "PUBLISH" /\ Published(a)
  <2>1. /\ a \in Asks /\ asked[a] # Nobody /\ host[s].last = a /\ host[s].answer = "unknown" /\ host[s].queued = Nobody
        /\ told[a] = {} /\ disk.journal = Entry(a) /\ c.request = Request(s)
        /\ \A t \in Shells \ {s} : host[t].last # a
    BY <1>2, NobodyAssumption DEF TruthInv, DoingInv, Doing, LastInv, Open
  <2>2. Entry(a) # Nobody /\ Entry(a).ask = a
    BY <2>1, EditAssumption, NobodyAssumption DEF RunsInv, Entry, Candidate
  <2>3. a \in Asks \ overtaken /\ Candidate(a) # asked[a] /\ (disk.completed = Candidate(a) <=> a \in committed)
    BY <2>1, <2>2 DEF TruthInv, JournalInv
  <2>4. /\ committed' = committed \cup {a}
        /\ overtaken' = overtaken \cup
             {b \in committed \ {a} : \E t \in Shells : host[t].last = b /\ host[t].answer = "unknown"}
    BY <1>8 DEF Published
  <2>5. disk'.completed = Candidate(a)
    <3>1. c.request.candidate = Candidate(a)
      BY <2>1 DEF Request
    <3>2. \/ disk' = Written(c) \/ disk' = [disk EXCEPT !.completed = c.request.candidate]
          \/ disk' = disk /\ committed' = committed
      BY <1>8, Zenon DEF Worked
    <3>3. [disk EXCEPT !.completed = c.request.candidate].completed = c.request.candidate
      BY DEF Files
    <3> QED
      <4>1. Written(c).completed = c.request.candidate
        BY <1>8, WrittenFields
      <4>2. CASE disk' = disk /\ committed' = committed
        BY <2>3, <2>4, <4>2
      <4>3. CASE disk' = Written(c)
        BY <3>1, <4>1, <4>3
      <4>4. CASE disk' = [disk EXCEPT !.completed = c.request.candidate]
        BY <3>1, <3>3, <4>4
      <4> QED
        BY <3>2, <4>2, <4>3, <4>4
  <2>7. \A b : Entry(b)' = Entry(b) /\ Candidate(b)' = Candidate(b)
    BY <1>2 DEF Entry, Candidate
  <2> HIDE DEF a, c
  <2>8. JournalInv'
    BY <1>2, <1>6, <2>1, <2>2, <2>3, <2>4, <2>5, <2>7 DEF JournalInv
  <2>9. PublishedInv' /\ SaidInv'
    BY <1>2, <1>6, <2>1, <2>2, <2>3, <2>4, <2>7 DEF TruthInv, PublishedInv, SaidInv
  <2>10. QueuedInv(s)' /\ AskedInv(s)' /\ DoingInv(s)'
    BY <1>2, <1>3, <1>5, <1>6, <2>1, <2>7 DEF QueuedInv, AskedInv, DoingInv, Open, a
  <2>11. LastInv(s)'
    BY <1>2, <1>6, <2>1, <2>2, <2>5, <2>7 DEF TruthInv, LastInv
  <2>12. ASSUME NEW t \in Shells \ {s} PROVE LastInv(t)'
    <3>1. LastInv(t) /\ host[t].last # a
      BY <2>1, <2>12 DEF TruthInv
    <3>2. host[t].answer = "unknown" => host[t].last \notin committed' \ overtaken'
      BY <2>4, <2>12, <3>1
    <3>3. host[t].last \in committed' <=> host[t].last \in committed
      BY <2>4, <3>1
    <3> QED
      BY <1>2, <2>7, <3>1, <3>2, <3>3 DEF LastInv
  <2>13. Concerns(s, a)
    BY <1>2, <1>3, <1>6, <2>1, <2>4 DEF Concerns
  <2> QED
    BY <2>8, <2>9, <2>10, <2>11, <2>12, <2>13, TruthOf
<1> QED
  BY <1>7, <1>8

(* A new request is one that nobody knows of.                               *)
LEMMA ApplyTruth ==
  ASSUME IInv, TwiceInv, RunsInv, TruthInv, NEW s \in Shells, NEW a \in Asks, NEW g \in Generations, Apply(s, a, g)
  PROVE  TruthInv'
<1>1. /\ DOMAIN host = Shells /\ DOMAIN host[s] = DOMAIN Started /\ asked \in [Asks -> Generations \cup {Nobody}]
      /\ g # Nobody /\ a # Nobody
  BY NobodyAssumption DEF IInv, Shape, RunsInv
<1>2. /\ UNCHANGED <<told, committed, overtaken, disk, worker>>
      /\ asked' = [asked EXCEPT ![a] = g] /\ asked[a] = Nobody /\ host[s].answer # "unknown"
      /\ host' = [host EXCEPT ![s].last = a, ![s].answer = "unknown", ![s].queued = a]
  BY DEF Apply, past
<1>3. /\ host'[s].last = a /\ host'[s].answer = "unknown" /\ host'[s].queued = a
      /\ host'[s].at = host[s].at /\ host'[s].ask = host[s].ask
      /\ \A t \in Shells \ {s} : host'[t] = host[t]
  BY <1>1, <1>2 DEF Started
<1>4. /\ told[a] = {} /\ a \notin committed /\ (disk.journal # Nobody => disk.journal.ask # a)
      /\ \A t \in Shells : host[t].last # a
  BY <1>1, <1>2 DEF TruthInv, SaidInv, PublishedInv, JournalInv, LastInv
<1>5. /\ asked'[a] # Nobody
      /\ \A b \in Asks \ {a} : asked'[b] = asked[b] /\ Candidate(b)' = Candidate(b) /\ Entry(b)' = Entry(b)
  BY <1>1, <1>2 DEF Candidate, Entry
<1>6. ~Doing(s) /\ host[s].at \notin {"look", "record"}
  BY <1>2 DEF TruthInv, DoingInv, AskedInv, Open
<1>7. JournalInv'
  BY <1>2, <1>4, <1>5 DEF TruthInv, JournalInv
<1>8. PublishedInv' /\ SaidInv'
  BY <1>2, <1>4, <1>5 DEF TruthInv, PublishedInv, SaidInv
<1>9. QueuedInv(s)' /\ AskedInv(s)' /\ DoingInv(s)'
  <2>1. QueuedInv(s)'
    <3>1. Open(s, a)' /\ Unseen(s, a)'
      BY <1>2, <1>3, <1>4 DEF Open, Unseen
    <3>2. host'[s].queued = a
      BY <1>3
    <3> QED
      BY <3>1, <3>2 DEF QueuedInv
  <2>2. AskedInv(s)'
    BY <1>3, <1>6 DEF AskedInv
  <2>3. DoingInv(s)'
    BY <1>2, <1>3, <1>6 DEF DoingInv, Doing
  <2> QED
    BY <2>1, <2>2, <2>3
<1>10. LastInv(s)'
  BY <1>1, <1>2, <1>3, <1>4, <1>5 DEF LastInv, Answers
<1>11. ASSUME NEW t \in Shells \ {s} PROVE QueuedInv(t)' /\ AskedInv(t)' /\ DoingInv(t)' /\ LastInv(t)'
  <2>1. host'[t] = host[t] /\ worker'[t] = worker[t] /\ host[t].last # a
    BY <1>2, <1>3, <1>4, <1>11
  <2>2. LastInv(t)'
    <3>1. LastInv(t) /\ (host[t].last = Nobody \/ host[t].last \in Asks \ {a})
      BY <2>1 DEF TruthInv, LastInv
    <3>2. CASE host[t].last = Nobody
      <4>1. Nobody \notin Answers /\ Nobody # "unknown"
        BY NobodyAssumption DEF Answers
      <4>2. host[t].answer = Nobody
        BY <3>1, <3>2 DEF LastInv
      <4> QED
        BY <2>1, <3>2, <4>1, <4>2 DEF LastInv
    <3>3. CASE host[t].last \in Asks \ {a}
      <4> DEFINE b == host[t].last
      <4>1. host'[t].last = b /\ asked'[b] = asked[b] /\ Candidate(b)' = Candidate(b)
        BY <1>5, <2>1, <3>3 DEF Candidate
      <4>2. UNCHANGED <<told, committed, overtaken, disk>> /\ host'[t].answer = host[t].answer
        BY <1>2, <2>1
      <4> HIDE DEF b
      <4>3. LastInv(t)'
        BY <3>1, <4>1, <4>2 DEF LastInv, b
      <4> QED
        BY <4>3
    <3> QED
      BY <3>1, <3>2, <3>3
  <2>3. \A b \in Asks \ {a} : Unseen(t, b) => Unseen(t, b)'
    BY <1>2, <1>3 DEF Unseen
  <2>4. \A b : Open(t, b) => Open(t, b)' /\ b \in Asks \ {a}
    BY <2>1, NobodyAssumption DEF Open, TruthInv, LastInv
  <2>5. QueuedInv(t)' /\ AskedInv(t)'
    BY <2>1, <2>3, <2>4 DEF TruthInv, QueuedInv, AskedInv
  <2>6. DoingInv(t)'
    <3>1. CASE Doing(t)
      <4>1. /\ host[t].queued = Nobody /\ Open(t, host[t].ask) /\ told[host[t].ask] = {}
            /\ disk.journal = Entry(host[t].ask)
            /\ \A u \in Shells \ {t} : host[u].last # host[t].ask
            /\ worker[t].status \in Busy => worker[t].command.request = Request(t)
        BY <3>1 DEF TruthInv, DoingInv
      <4>2. host[t].ask \in Asks \ {a}
        BY <2>4, <4>1
      <4>3. Request(t)' = Request(t)
        BY <1>5, <2>1, <4>2 DEF Request
      <4>4. \A u \in Shells \ {t} : host'[u].last # host[t].ask
        BY <1>3, <4>1, <4>2
      <4>5. UNCHANGED <<told, disk>> /\ Entry(host[t].ask)' = Entry(host[t].ask) /\ Open(t, host[t].ask)'
        BY <1>2, <1>5, <2>1, <4>1, <4>2 DEF Open, Entry
      <4> QED
        BY <2>1, <4>1, <4>3, <4>4, <4>5 DEF DoingInv
    <3>2. CASE ~Doing(t)
      BY <2>1, <3>2 DEF DoingInv, Doing
    <3> QED
      BY <3>1, <3>2
  <2> QED
    BY <2>2, <2>5, <2>6
<1> QED
  BY <1>7, <1>8, <1>9, <1>10, <1>11 DEF TruthInv

LEMMA TruthInitial == Init => TruthInv /\ Files
<1> SUFFICES ASSUME Init PROVE TruthInv /\ Files
  OBVIOUS
<1>1. JournalInv /\ PublishedInv /\ SaidInv /\ Files
  BY DEF Init, JournalInv, PublishedInv, SaidInv, Files
<1>2. ASSUME NEW s \in Shells PROVE QueuedInv(s) /\ AskedInv(s) /\ DoingInv(s) /\ LastInv(s)
  <2>1. host[s] = Down /\ worker[s] = Idle
    BY DEF Init
  <2> QED
    BY <2>1, NobodyAssumption DEF Down, Idle, Started, Busy, QueuedInv, AskedInv, DoingInv, Doing, LastInv, Transacting, Talking
<1> QED
  BY <1>1, <1>2 DEF TruthInv

LEMMA TruthInductive == Files /\ IInv /\ TwiceInv /\ RunsInv /\ TruthInv /\ [Next]_vars => TruthInv'
<1> SUFFICES ASSUME Files, IInv, TwiceInv, RunsInv, TruthInv, [Next]_vars PROVE TruthInv'
  OBVIOUS
<1>1. ASSUME NEW s \in Shells, Launch(s) \/ Close(s) \/ Kill(s) \/ Session(s) \/ Work(s) \/ Worked(s)
      PROVE  TruthInv'
  BY <1>1, LeavingTruth, TalkingTruth, DequeueTruth, LookTruth, RecordTruth, BindTruth, BootTruth, FinishTruth,
     WorkedTruth DEF Session
<1>2. CASE UNCHANGED vars
  <2>1. UNCHANGED <<told, committed, overtaken, asked, disk, host, worker>>
    BY <1>2 DEF vars
  <2>2. ASSUME NEW t \in Shells PROVE Settled(t)
    <3>1. Request(t)' = Request(t) /\ DoingInv(t)
      BY <2>1 DEF Request, Candidate, TruthInv
    <3> QED
      BY <2>1, <3>1 DEF Settled, Doing, DoingInv
  <2> QED
    BY <2>1, <2>2, TruthKept
<1> QED
  BY <1>1, <1>2, ApplyTruth, CoordinatorTruth DEF Next

(* However often sessions fail, Shells are killed and answers get lost: a   *)
(* client is told one answer, and it says whether its generation was        *)
(* published, unless another Shell went on from that generation before the  *)
(* answer was given.                                                        *)
THEOREM AnswersAreTrue == Spec => []ToldTheTruth
<1>1. TruthInv => ToldTheTruth
  <2> SUFFICES ASSUME TruthInv, NEW a \in Asks \ overtaken
               PROVE  /\ Cardinality(told[a]) <= 1
                      /\ told[a] # {} => ((told[a] = {"ok"} /\ asked[a] # Candidate(a)) <=> a \in committed)
    BY DEF ToldTheTruth
  <2>1. CASE told[a] = {}
    BY <2>1, FS_EmptySet
  <2>2. CASE \E x : told[a] = {x} /\ ((x = "ok" /\ asked[a] # Candidate(a)) <=> a \in committed)
    <3>1. PICK x : told[a] = {x} /\ ((x = "ok" /\ asked[a] # Candidate(a)) <=> a \in committed)
      BY <2>2
    <3>2. Cardinality(told[a]) = 1
      BY <3>1, FS_Singleton
    <3> QED
      BY <3>1, <3>2
  <2> QED
    BY <2>1, <2>2 DEF TruthInv, SaidInv
<1> QED
  BY <1>1, Initial, Inductive, TwiceInitial, TwiceInductive, RunsInitial, RunsInductive, TruthInitial, FilesInductive,
     TruthInductive, PTL DEF Spec

-----------------------------------------------------------------------------
(* The requests that were recorded, or will never be.  The number of a      *)
(* transaction is the last one plus one, and is drawn when its request is   *)
(* recorded: there are at least as many of them as the number says.         *)
Spent ==
  {a \in Asks : /\ asked[a] # Nobody
                /\ \A s \in Shells : /\ host[s].queued # a
                                     /\ host[s].at \in {"look", "record"} => host[s].ask # a}

Numbers == 0 .. Cardinality(Spent)

(* The places of a session that has a number.                               *)
Counted == {"boot"} \cup Between \cup Talking

NumberInv ==
  /\ joint \in JointType
  /\ joint.request # NoRequest => joint.request.sequence \in Numbers
  /\ \A r \in flying : r \in Requests /\ r.sequence \in Numbers
  /\ \A s \in Shells :
       /\ host[s].at \in {"lease", "bind"} => host[s].seen.sequence \in Numbers
       /\ host[s].at \in Counted => host[s].sequence \in Numbers

PlainInv ==
  /\ recovering \in BOOLEAN /\ shown \in BOOLEAN
  /\ lease \in Shells \cup {Native, Nobody}
  /\ lease = Native => recovering
  /\ disk.completed \in Generations /\ disk.epoch = joint.epoch
  /\ \A s \in Shells :
       /\ host[s].at \in Places
       /\ host[s].snapshot \in Generations \cup {Nobody}
       /\ live[s] \in Generations \cup {Nobody}
       /\ worker[s].status \in {"none", "idle", "queued", "running", "ok", "failed"}
  /\ \A a \in Asks : told[a] \subseteq Answers
  /\ faults \in 0 .. MaxFaults /\ launches \in 0 .. MaxLaunches

-----------------------------------------------------------------------------
(* issue() keeps the coordinator well formed, also when the tickets are     *)
(* spent.                                                                   *)
LEMMA IssueType ==
  ASSUME NEW j \in JointType, j.request \in Requests, NEW s \in Steps
  PROVE  LET k == Issue(j, s) IN k \in JointType /\ k.request = j.request /\ k.epoch = j.epoch
<1>1. CASE j.ticket = MaxTicket
  BY <1>1 DEF Issue, JointType, States
<1>2. CASE j.ticket # MaxTicket
  <2> DEFINE c == [request |-> j.request, ticket |-> j.ticket + 1,
                   target |-> Dispatch[s].target, operation |-> Dispatch[s].operation]
             n == j.ticket + 1
             prep == j.prepared \/ s = "STORE_PREPARE"
             pub == j.publishAttempted \/ s = "PUBLISH"
             touch == CASE s = "NATIVE_PREPARE" -> 1 [] s = "SHELL_PREPARE" -> 2 [] OTHER -> j.touched
  <2>1. n \in 1 .. MaxTicket /\ n \in 0 .. MaxTicket
    BY <1>2, TicketAssumption DEF JointType
  <2>2. Dispatch[s].target \in Targets /\ Dispatch[s].operation \in Operations
    BY DEF Steps, Dispatch, Targets, Operations
  <2>3. c \in Commands \cup {NoCommand}
    BY <2>1, <2>2 DEF Commands
  <2>4. prep \in BOOLEAN /\ pub \in BOOLEAN
    OBVIOUS
  <2>5. touch \in 0 .. 2
    BY DEF JointType
  <2>6. Issue(j, s) = [j EXCEPT !.step = s, !.state = "RUNNING", !.ticket = n, !.pending = c,
                                !.prepared = prep, !.publishAttempted = pub, !.touched = touch]
    BY <1>2 DEF Issue
  <2> HIDE DEF n, c, prep, pub, touch
  <2>7. Issue(j, s) \in JointType
    BY <2>1, <2>3, <2>4, <2>5, <2>6, Zenon DEF JointType, States
  <2>8. Issue(j, s).request = j.request /\ Issue(j, s).epoch = j.epoch
    BY <2>6 DEF JointType
  <2> QED
    BY <2>7, <2>8
<1> QED
  BY <1>1, <1>2

LEMMA RestoreNextType ==
  ASSUME NEW j \in JointType, j.request \in Requests
  PROVE  LET k == RestoreNext(j) IN k \in JointType /\ k.request = j.request /\ k.epoch = j.epoch
<1>1. {"SHELL_RESTORE", "NATIVE_RESTORE", "ABANDON"} \subseteq Steps
  BY DEF Steps, Dispatch
<1>2. ASSUME NEW n \in 0 .. 1
      PROVE  LET b == [j EXCEPT !.restoreRemaining = n] IN b \in JointType /\ b.request = j.request /\ b.epoch = j.epoch
  BY <1>2 DEF JointType
<1>3. ASSUME NEW x \in {"UNKNOWN", "ABORTED"}
      PROVE  LET k == [j EXCEPT !.state = x] IN k \in JointType /\ k.request = j.request /\ k.epoch = j.epoch
  BY <1>3 DEF JointType, States
<1>4. CASE j.restoreRemaining = 2
  <2> DEFINE b == [j EXCEPT !.restoreRemaining = 1]
  <2>1. RestoreNext(j) = Issue(b, "SHELL_RESTORE")
    BY <1>4 DEF RestoreNext
  <2>2. b \in JointType /\ b.request = j.request /\ b.epoch = j.epoch
    BY <1>2
  <2> HIDE DEF b
  <2> QED
    BY <1>1, <2>1, <2>2, IssueType
<1>5. CASE j.restoreRemaining = 1
  <2> DEFINE b == [j EXCEPT !.restoreRemaining = 0]
  <2>1. RestoreNext(j) = Issue(b, "NATIVE_RESTORE")
    BY <1>5 DEF RestoreNext
  <2>2. b \in JointType /\ b.request = j.request /\ b.epoch = j.epoch
    BY <1>2
  <2> HIDE DEF b
  <2> QED
    BY <1>1, <2>1, <2>2, IssueType
<1>6. CASE j.restoreRemaining = 0
  <2>1. \/ \E x \in {"UNKNOWN", "ABORTED"} : RestoreNext(j) = [j EXCEPT !.state = x]
        \/ RestoreNext(j) = Issue(j, "ABANDON")
    <3>1. ~(j.restoreRemaining = 2) /\ ~(j.restoreRemaining = 1)
      BY <1>6
    <3>2. j.restoreFailed => RestoreNext(j) = [j EXCEPT !.state = "UNKNOWN"]
      BY <1>6, <3>1, Zenon DEF RestoreNext
    <3>3. ~j.restoreFailed /\ j.prepared => RestoreNext(j) = Issue(j, "ABANDON")
      BY <1>6, <3>1, Zenon DEF RestoreNext
    <3>4. ~j.restoreFailed /\ ~j.prepared => RestoreNext(j) = [j EXCEPT !.state = "ABORTED"]
      BY <1>6, <3>1, Zenon DEF RestoreNext
    <3> QED
      BY <3>2, <3>3, <3>4, Zenon
  <2> DEFINE Good(k) == k \in JointType /\ k.request = j.request /\ k.epoch = j.epoch
  <2>2. \A x \in {"UNKNOWN", "ABORTED"} : Good([j EXCEPT !.state = x])
    BY <1>3
  <2>3. Good(Issue(j, "ABANDON"))
    BY <1>1, IssueType
  <2>4. Good(RestoreNext(j))
    <3> HIDE DEF Good
    <3> QED
      BY <2>1, <2>2, <2>3, Zenon
  <2> QED
    BY <2>4
<1> QED
  BY <1>4, <1>5, <1>6 DEF JointType

(* reply(), whatever the receipt says.                                      *)
LEMMA ReplyType ==
  ASSUME NEW j \in JointType, j.request \in Requests, NEW c, NEW result, NEW current, Reply(j, c, result, current)
  PROVE  joint' \in JointType /\ joint'.request = j.request /\ joint'.epoch = j.epoch
<1> DEFINE b == Answered(j)
           Good(k) == k \in JointType /\ k.request = j.request /\ k.epoch = j.epoch
<1>1. Good(b)
  BY DEF Answered, JointType
<1>2. /\ Good([j EXCEPT !.state = "UNKNOWN"])
      /\ \A x \in {"UNKNOWN", "STALE", "COMPLETE", "ABORTED"} : Good([b EXCEPT !.state = x])
  BY <1>1 DEF JointType, States
<1>3. /\ \A x \in BOOLEAN : Good([b EXCEPT !.restoreFailed = x])
      /\ Good([b EXCEPT !.restoreRemaining = j.touched, !.restoreFailed = FALSE])
      /\ Good([b EXCEPT !.awaitingConfirmation = TRUE])
  BY <1>1 DEF JointType
<1>4. \A k : Good(k) => Good(RestoreNext(k)) /\ \A x \in Steps : Good(Issue(k, x))
  BY IssueType, RestoreNextType
<1>5. /\ \A x \in DOMAIN Follows : Follows[x] \in Steps
      /\ {"RESOLVE", "STORE_PREPARE", "PUBLISH", "NATIVE_FINAL_VERIFY"} \subseteq Steps
  BY DEF Follows, Steps, Dispatch
<1>6. b.restoreFailed \in BOOLEAN
  BY <1>1 DEF JointType
<1> SUFFICES Good(joint')
  OBVIOUS
<1> HIDE DEF b, Good
<1>7. CASE ReplyUnresolved(j, result, current)
  BY <1>2, <1>7, Zenon DEF ReplyUnresolved
<1>8. CASE ReplyRestore(j, result)
  <2>1. PICK x \in BOOLEAN : joint' = RestoreNext([b EXCEPT !.restoreFailed = x])
    BY <1>6, <1>8 DEF ReplyRestore, b
  <2>2. Good([b EXCEPT !.restoreFailed = x])
    BY <1>3, Zenon
  <2> QED
    BY <1>4, <2>1, <2>2, Zenon
<1>9. CASE ReplyFailed(j, result)
  <2>1. joint' = [b EXCEPT !.state = "UNKNOWN"] \/ joint' = Issue(b, "RESOLVE")
    BY <1>9 DEF ReplyFailed, b
  <2>2. Good([b EXCEPT !.state = "UNKNOWN"]) /\ Good(Issue(b, "RESOLVE"))
    BY <1>1, <1>2, <1>4, <1>5
  <2> QED
    BY <2>1, <2>2, Zenon
<1>10. CASE ReplyBase(j, result, current)
  <2>1. joint' = [b EXCEPT !.state = "STALE"] \/ joint' = Issue(b, "STORE_PREPARE")
    BY <1>10 DEF ReplyBase, b
  <2>2. Good([b EXCEPT !.state = "STALE"]) /\ Good(Issue(b, "STORE_PREPARE"))
    BY <1>1, <1>2, <1>4, <1>5
  <2> QED
    BY <2>1, <2>2, Zenon
<1>11. CASE ReplyAdvance(j, result)
  <2>1. PICK x \in Steps : joint' = Issue(b, x)
    BY <1>5, <1>11 DEF ReplyAdvance, b
  <2> QED
    BY <1>1, <1>4, <2>1
<1>12. CASE ReplyShellVerify(j, result)
  <2>1. joint' = [b EXCEPT !.awaitingConfirmation = TRUE] \/ joint' = Issue(b, "PUBLISH")
    BY <1>12 DEF ReplyShellVerify, b
  <2>2. Good([b EXCEPT !.awaitingConfirmation = TRUE]) /\ Good(Issue(b, "PUBLISH"))
    BY <1>1, <1>3, <1>4, <1>5
  <2> QED
    BY <2>1, <2>2, Zenon
<1>13. CASE ReplyResolve(j, result, current)
  <2> DEFINE back == [b EXCEPT !.restoreRemaining = j.touched, !.restoreFailed = FALSE]
  <2>1. joint' \in {Issue(b, "NATIVE_FINAL_VERIFY"), RestoreNext(back), [b EXCEPT !.state = "UNKNOWN"]}
    BY <1>13 DEF ReplyResolve, b
  <2>2. Good(Issue(b, "NATIVE_FINAL_VERIFY")) /\ Good(RestoreNext(back)) /\ Good([b EXCEPT !.state = "UNKNOWN"])
    BY <1>1, <1>2, <1>3, <1>4, <1>5
  <2> HIDE DEF back
  <2> QED
    BY <2>1, <2>2, Zenon
<1>14. CASE ReplyFinish(j, result)
  <2>1. joint' \in {[b EXCEPT !.state = "COMPLETE"], [b EXCEPT !.state = "ABORTED"]}
    BY <1>14 DEF ReplyFinish, b
  <2>2. Good([b EXCEPT !.state = "COMPLETE"]) /\ Good([b EXCEPT !.state = "ABORTED"])
    BY <1>2
  <2> QED
    BY <2>1, <2>2, Zenon
<1> QED
  BY <1>7, <1>8, <1>9, <1>10, <1>11, <1>12, <1>13, <1>14 DEF Reply

(* Whatever step is taken, and the epoch that is written down.              *)
LEMMA JointSteps ==
  ASSUME IInv, TwiceInv, RunsInv, Files, joint \in JointType, flying \subseteq Requests, [Next]_vars
  PROVE  /\ joint' \in JointType
         /\ joint'.request \in {joint.request, NoRequest} \cup flying
         /\ disk.epoch = joint.epoch => disk'.epoch = joint'.epoch
<1> DEFINE Good(k) == k \in JointType /\ k.request = joint.request /\ k.epoch = joint.epoch
<1>1. joint.request \in Requests \cup {NoRequest} /\ Good(joint)
  BY DEF JointType
<1>2. /\ joint.pending # NoCommand => joint.request \in Requests
      /\ joint.awaitingConfirmation => joint.request \in Requests
  BY <1>1 DEF RunsInv, ProgressInv, PendingInv, Opens, Grounded
<1>3. CASE NativeRecovered
  <2>1. PICK e \in Epochs : joint' = Fresh(e) /\ disk' = [disk EXCEPT !.epoch = e, !.pending = Nobody]
    BY <1>3 DEF NativeRecovered
  <2>2. Fresh(e) \in JointType /\ Fresh(e).request = NoRequest /\ Fresh(e).epoch = e
    BY TicketAssumption DEF Fresh, JointType, Steps, Dispatch, States
  <2>3. disk'.epoch = e
    BY <2>1 DEF Files
  <2> QED
    BY <2>1, <2>2, <2>3
<1>4. CASE \E r \in flying : Arrives(r)
  <2>1. PICK r \in flying : Arrives(r)
    BY <1>4
  <2>2. disk' = disk /\ (joint' = joint \/ Start(r))
    BY <2>1 DEF Arrives
  <2>3. CASE Start(r)
    <3> DEFINE b == [joint EXCEPT !.request = r,
                            !.requireConfirmation = FALSE, !.awaitingConfirmation = FALSE,
                            !.touched = 0, !.restoreRemaining = 0, !.prepared = FALSE,
                            !.publishAttempted = FALSE, !.restoreFailed = FALSE]
    <3>1. b \in JointType
      <4> DEFINE f == FALSE
                 z == 0
      <4>1. f \in BOOLEAN /\ z \in 0 .. 2 /\ r \in Requests \cup {NoRequest}
        OBVIOUS
      <4>2. b = [joint EXCEPT !.request = r, !.requireConfirmation = f, !.awaitingConfirmation = f,
                              !.touched = z, !.restoreRemaining = z, !.prepared = f,
                              !.publishAttempted = f, !.restoreFailed = f]
        OBVIOUS
      <4> HIDE DEF b, f, z
      <4> QED
        BY <4>1, <4>2 DEF JointType
    <3>4. b.request = r /\ b.epoch = joint.epoch /\ r \in Requests
      BY DEF JointType
    <3>2. joint' = Issue(b, "BASE")
      BY <2>3 DEF Start
    <3>3. "BASE" \in Steps
      BY DEF Steps, Dispatch
    <3> HIDE DEF b
    <3> QED
      BY <2>2, <3>1, <3>2, <3>3, <3>4, IssueType
  <2> QED
    BY <1>1, <2>2, <2>3
<1>5. ASSUME NEW keep \in BOOLEAN, Decision(keep) PROVE Good(joint') /\ disk' = disk
  <2> DEFINE b == [joint EXCEPT !.awaitingConfirmation = FALSE]
  <2>1. joint.awaitingConfirmation /\ disk' = disk /\ \E x \in {"PUBLISH", "RESOLVE"} : joint' = Issue(b, x)
    BY <1>5 DEF Decision, Decide, Decided
  <2>2. b \in JointType /\ b.request = joint.request /\ b.epoch = joint.epoch
    BY DEF JointType
  <2>3. {"PUBLISH", "RESOLVE"} \subseteq Steps
    BY DEF Steps, Dispatch
  <2> HIDE DEF b
  <2> QED
    BY <1>2, <2>1, <2>2, <2>3, IssueType
<1>6. CASE NativeReply
  <2>1. /\ disk' = disk /\ joint.pending # NoCommand
        /\ \E j \in {joint, RequireConfirmation(joint)} : \E x : Reply(j, joint.pending, x, Malformed)
    BY <1>6 DEF NativeReply
  <2>2. Good(RequireConfirmation(joint))
    BY <1>1 DEF RequireConfirmation, JointType
  <2> QED
    BY <1>1, <1>2, <2>1, <2>2, ReplyType
<1>7. CASE NativeTimeout
  <2>1. disk' = disk /\ joint' = [joint EXCEPT !.state = "UNKNOWN"]
    BY <1>7 DEF NativeTimeout, Timeout, TimedOut
  <2> QED
    BY <2>1 DEF JointType, States
<1>8. ASSUME NEW s \in Shells, AskRecover(s) PROVE Good(joint') /\ disk' = disk
  <2>1. disk' = disk /\ host[s].at = "poll" /\ joint.request = Request(s) /\ joint' = Issue(joint, "RESOLVE")
    BY <1>8 DEF AskRecover, Polls, Recover
  <2>2. /\ host[s].epoch \in Epochs /\ host[s].sequence \in Nat
        /\ Base(s) \in Generations /\ Candidate(host[s].ask) \in Generations
    BY <2>1, EditAssumption DEF RunsInv, HeldInv, KeptInv, Talking, Transacting, Base, Candidate
  <2>3. Request(s) \in Wide
    BY <2>2 DEF Request, Wide, Base
  <2>4. joint.request \in Requests
    BY <1>1, <2>1, <2>3, RequestAssumption DEF Wide
  <2>5. "RESOLVE" \in Steps
    BY DEF Steps, Dispatch
  <2> QED
    BY <2>1, <2>4, <2>5, IssueType
<1>9. ASSUME NEW s \in Shells, Receipt(s) PROVE Good(joint') /\ disk' = disk
  <2>1. disk' = disk /\ (joint' = joint \/ \E x, y : joint.pending # NoCommand /\ Reply(joint, joint.pending, x, y))
    <3>1. disk' = disk
      BY <1>9 DEF Receipt
    <3>2. \/ joint' = joint
          \/ joint.pending = host[s].receipt.command
             /\ Reply(joint, host[s].receipt.command, host[s].receipt.result, host[s].receipt.current)
      BY <1>9 DEF Receipt
    <3> QED
      BY <3>1, <3>2 DEF Reply
  <2> QED
    BY <1>1, <1>2, <2>1, ReplyType
<1>10. ASSUME NEW s \in Shells, Record(s) PROVE joint' = joint /\ disk'.epoch = disk.epoch
  <2>1. joint' = joint /\ (disk' = disk \/ \E e : disk' = [disk EXCEPT !.journal = e])
    BY <1>10, Zenon DEF Record, world
  <2> QED
    BY <2>1 DEF Files
<1>11. ASSUME NEW s \in Shells, Worked(s) PROVE joint' = joint /\ disk'.epoch = disk.epoch
  <2> DEFINE c == worker[s].command
  <2>1. joint' = joint /\ disk' \in {disk, Written(c), [disk EXCEPT !.completed = c.request.candidate]}
    BY <1>11, Zenon DEF Worked, world
  <2>2. Written(c).epoch = disk.epoch
    <3>1. c.operation \in {"CURRENT", "PREPARE", "PUBLISH", "ABANDON"}
      BY <1>11, WorkersCommand DEF Worked, Busy
    <3>2. ASSUME NEW x, NEW y,
                 \/ Written(c) = [disk EXCEPT !.completed = x, !.pending = y]
                 \/ Written(c) = [disk EXCEPT !.pending = y]
          PROVE  Written(c).epoch = disk.epoch
      BY <3>2 DEF Files
    <3>3. \/ Written(c) = disk
          \/ \E x, y : Written(c) = [disk EXCEPT !.completed = x, !.pending = y] \/ Written(c) = [disk EXCEPT !.pending = y]
      BY <3>1 DEF Written
    <3> QED
      BY <3>2, <3>3, Zenon
  <2>3. [disk EXCEPT !.completed = c.request.candidate].epoch = disk.epoch
    BY DEF Files
  <2> HIDE DEF c
  <2> QED
    BY <2>1, <2>2, <2>3
<1>12. ASSUME NEW s \in Shells,
              \/ Launch(s) \/ Close(s) \/ Kill(s) \/ Work(s)
              \/ Session(s) /\ ~(AskRecover(s) \/ Receipt(s) \/ Record(s))
       PROVE  joint' = joint /\ disk' = disk
  BY <1>12 DEF Launch, Close, Kill, Work, Session, Attach, Recovered, Lease, Bind, Boot, Lost, Dequeue, Look, Send, Sent,
               Abandons, Status, Finish, Store, Execute, Executed, End, Stop, world
<1>13. ASSUME NEW s \in Shells, NEW a \in Asks, NEW g \in Generations, Apply(s, a, g) PROVE joint' = joint /\ disk' = disk
  BY <1>13 DEF Apply, world
<1>14. CASE UNCHANGED vars
  BY <1>14 DEF vars
<1> QED
  BY <1>1, <1>3, <1>4, <1>5, <1>6, <1>7, <1>8, <1>9, <1>10, <1>11, <1>12, <1>13, <1>14 DEF Next

(* A step of a Shell, as far as its queue and its number go.                *)
HostStep(s) ==
  /\ host'[s].queued \in {host[s].queued, Nobody} \/ asked[host'[s].queued] = Nobody
  /\ host'[s].at \in {"look", "record"} =>
       \/ host[s].at \in {"look", "record"} /\ host'[s].ask = host[s].ask
       \/ host'[s].ask = host[s].queued
  /\ host'[s].at \in {"lease", "bind"} =>
       \/ host[s].at \in {"lease", "bind"} /\ host'[s].seen = host[s].seen
       \/ host'[s].seen = View
  /\ host'[s].at \in Counted =>
       \/ host[s].at \in Counted /\ host'[s].sequence = host[s].sequence
       \/ host[s].at = "bind" /\ host'[s].sequence = host[s].seen.sequence
       \/ /\ Record(s) /\ host'[s].at = "start" /\ host'[s].sequence = host[s].sequence + 1
          /\ host'[s].queued = host[s].queued
  /\ host[s].at \in Places => host'[s].at \in Places
  /\ host'[s].snapshot \in {host[s].snapshot, Nobody, disk.completed}

LEMMA HostSteps ==
  ASSUME IInv, RunsInv, [Next]_vars, NEW s \in Shells
  PROVE  HostStep(s)
<1> USE DEF world, past, Fault, Step, Ends, Started
<1>1. DOMAIN host = Shells /\ DOMAIN host[s] = DOMAIN Started
  BY DEF IInv, Shape
<1>2. CASE host'[s] = host[s]
  BY <1>2 DEF HostStep
<1>3. CASE Launch(s) \/ Kill(s) \/ End(s)
  BY <1>1, <1>3 DEF Launch, Kill, End, Down, HostStep, Counted, Between, Talking, Places
<1>4. CASE Close(s)
  BY <1>1, <1>4 DEF Close, HostStep
<1>5. CASE Attach(s) \/ Recovered(s) \/ Lease(s) \/ Stop(s)
  BY <1>1, <1>5 DEF Attach, Recovered, Lease, Stop, HostStep, Counted, Between, Talking, Places
<1>6. CASE Bind(s)
  <2>1. CASE Attached(s)
    <3> DEFINE h == host[s]
               known == IF h.last = Nobody /\ disk.journal # Nobody
                        THEN [h EXCEPT !.last = disk.journal.ask, !.answer = "unknown"] ELSE h
    <3>1. host[s].at = "bind"
          /\ host' = [host EXCEPT ![s] = [known EXCEPT !.at = "boot", !.sequence = h.seen.sequence, !.seen = Nobody,
                                                    !.part = Unprepared(disk.completed)]]
      BY <1>6, <2>1 DEF Bind
    <3>2. DOMAIN known = DOMAIN Started /\ known.queued = h.queued /\ known.snapshot = h.snapshot
      BY <1>1
    <3> HIDE DEF known
    <3>3. /\ host'[s].at = "boot" /\ host'[s].sequence = host[s].seen.sequence /\ host'[s].queued = host[s].queued
          /\ host'[s].snapshot = host[s].snapshot
      BY <1>1, <3>1, <3>2
    <3> QED
      BY <3>1, <3>3 DEF HostStep, Places
  <2>2. CASE ~Attached(s)
    BY <1>1, <1>6, <2>2 DEF Bind, HostStep, Counted, Between, Talking, Places
  <2> QED
    BY <2>1, <2>2
<1>7. CASE Boot(s)
  <2>1. host[s].part.confirmed = disk.completed
    BY <1>7 DEF Boot, RunsInv, HeldInv, Unprepared
  <2>2. \/ \E x : host' = [host EXCEPT ![s].at = "idle", ![s].snapshot = disk.completed, ![s].answer = x]
        \/ host' = [host EXCEPT ![s].at = "finally"]
    BY <1>7, <2>1 DEF Boot
  <2>3. host[s].at = "boot"
    BY <1>7 DEF Boot
  <2> QED
    BY <1>1, <2>2, <2>3 DEF HostStep, Counted, Between, Talking, Places
<1>8. CASE Dequeue(s) \/ Look(s)
  BY <1>1, <1>8 DEF Dequeue, Look, Answer, HostStep, Counted, Between, Talking, Places
<1>9. CASE Record(s)
  <2>1. /\ host[s].at = "record"
        /\ \/ host' = [host EXCEPT ![s].at = "start", ![s].sequence = @ + 1]
           \/ host' = [host EXCEPT ![s].at = "finally"]
    BY <1>9 DEF Record
  <2> QED
    BY <1>1, <1>9, <2>1 DEF HostStep, Counted, Between, Talking, Places
<1>10. CASE Lost(s) \/ Send(s) \/ Sent(s) \/ Abandons(s) \/ Status(s) \/ AskRecover(s)
  BY <1>1, <1>10 DEF Lost, Send, Sent, Abandons, Status, AskRecover, Polls, HostStep, Counted, Between, Talking, Places
<1>11. CASE Finish(s)
  BY <1>1, <1>11 DEF Finish, Answer, Polls, HostStep, Counted, Between, Talking, Places
<1>12. CASE Store(s)
  <2>1. host[s].at = "poll" /\ Submits(s, host[s].seen.command)
    BY <1>12 DEF Store, Polls
  <2> QED
    BY <1>1, <2>1 DEF Submits, HostStep, Counted, Between, Talking, Places
<1>13. CASE Execute(s) \/ Executed(s) \/ Receipt(s)
  <2>1. /\ host[s].at \in {"poll", "gtk", "receipt"}
        /\ \/ host' = [host EXCEPT ![s].at = "finally"]
           \/ \E z \in {"receipt", "gtk"} : \E x, y : host' = [host EXCEPT ![s].at = z, ![s].part = x, ![s].receipt = y]
           \/ host' = [host EXCEPT ![s].at = "poll", ![s].receipt = Nobody]
           \/ \E x : host' = [host EXCEPT ![s].at = "poll", ![s].receipt = Nobody, ![s].seen = x]
    <3>1. CASE Execute(s)
      <4>1. host[s].at = "poll"
        BY <3>1 DEF Execute, Polls
      <4>2. \/ host' = [host EXCEPT ![s].at = "finally"]
            \/ \E z \in {"receipt", "gtk"} : \E x, y : host' = [host EXCEPT ![s].at = z, ![s].part = x, ![s].receipt = y]
        BY <3>1, Zenon DEF Execute, Receives
      <4> QED
        BY <4>1, <4>2
    <3>2. CASE Executed(s)
      <4>1. host[s].at = "gtk"
        BY <3>2, Zenon DEF Executed
      <4>2. \E p, c, result : Receives(s, p, c, result)
        <5> USE DEF Executed
        <5> QED
          BY <3>2, Zenon
      <4>3. \E x, y : host' = [host EXCEPT ![s].at = "receipt", ![s].part = x, ![s].receipt = y]
        BY <4>2, Zenon DEF Receives
      <4> QED
        BY <4>1, <4>3
    <3>3. CASE Receipt(s)
      BY <3>3 DEF Receipt
    <3> QED
      BY <1>13, <3>1, <3>2, <3>3
  <2>2. ASSUME NEW z \in {"receipt", "gtk"}, NEW x, NEW y,
               host' = [host EXCEPT ![s].at = z, ![s].part = x, ![s].receipt = y]
        PROVE  HostStep(s)
    BY <1>1, <2>1, <2>2 DEF HostStep, Counted, Between, Talking, Places
  <2>3. CASE host' = [host EXCEPT ![s].at = "finally"]
    BY <1>1, <2>3 DEF HostStep, Counted, Between, Talking, Places
  <2>4. CASE host' = [host EXCEPT ![s].at = "poll", ![s].receipt = Nobody]
    BY <1>1, <2>1, <2>4 DEF HostStep, Counted, Between, Talking, Places
  <2>5. ASSUME NEW x, host' = [host EXCEPT ![s].at = "poll", ![s].receipt = Nobody, ![s].seen = x]
        PROVE  HostStep(s)
    BY <1>1, <2>1, <2>5 DEF HostStep, Counted, Between, Talking, Places
  <2> QED
    BY <2>1, <2>2, <2>3, <2>4, <2>5
<1>14. ASSUME NEW a \in Asks, NEW g \in Generations, Apply(s, a, g) PROVE HostStep(s)
  <2>1. asked[a] = Nobody /\ host' = [host EXCEPT ![s].last = a, ![s].answer = "unknown", ![s].queued = a]
    BY <1>14 DEF Apply
  <2> QED
    BY <1>1, <2>1 DEF HostStep, Counted
<1>15. ASSUME NEW t \in Shells \ {s},
              \/ Launch(t) \/ Close(t) \/ Kill(t) \/ Session(t) \/ \E a \in Asks, g \in Generations : Apply(t, a, g)
       PROVE  host'[s] = host[s]
  <2>1. CASE Execute(t) \/ Executed(t)
    <3>1. \E h : host' = [host EXCEPT ![t] = h]
      <4>1. CASE Execute(t)
        <5>1. \/ host' = [host EXCEPT ![t].at = "finally"]
              \/ \E z \in {"receipt", "gtk"} : \E x, y : host' = [host EXCEPT ![t].at = z, ![t].part = x, ![t].receipt = y]
          BY <4>1, Zenon DEF Execute, Receives
        <5> QED
          BY <5>1
      <4>2. CASE Executed(t)
        <5>1. \E p, c, result : Receives(t, p, c, result)
          <6> USE DEF Executed
          <6> QED
            BY <4>2, Zenon
        <5> QED
          BY <5>1 DEF Receives
      <4> QED
        BY <2>1, <4>1, <4>2
    <3> QED
      BY <1>1, <1>15, <3>1
  <2>2. CASE Store(t)
    BY <1>1, <1>15, <2>2 DEF Store, Submits
  <2>3. CASE ~(Execute(t) \/ Executed(t) \/ Store(t))
    BY <1>1, <1>15, <2>3 DEF Launch, Close, Kill, Session, Attach, Recovered, Lease, Bind, Boot, Lost, Dequeue, Look, Answer,
      Record, Send, Sent, Abandons, Status, AskRecover, Finish, Receipt, End, Stop, Apply
  <2> QED
    BY <2>1, <2>2, <2>3
<1>16. ASSUME \/ \E t \in Shells : Work(t) \/ Worked(t)
              \/ \E r \in flying : Arrives(r)
              \/ \E keep \in BOOLEAN : Decision(keep)
              \/ NativeRecovered \/ NativeReply \/ NativeTimeout \/ UNCHANGED vars
       PROVE  host'[s] = host[s]
  BY <1>16 DEF Work, Worked, Arrives, Decision, NativeRecovered, NativeReply, NativeTimeout, vars
<1> QED
  BY <1>2, <1>3, <1>4, <1>5, <1>6, <1>7, <1>8, <1>9, <1>10, <1>11, <1>12, <1>13, <1>14, <1>15, <1>16 DEF Next, Session

(* A request that is spent stays so: nobody asks for it again.              *)
LEMMA SpentGrows ==
  ASSUME IInv, RunsInv, [Next]_vars
  PROVE  /\ Spent \subseteq Spent'
         /\ IsFiniteSet(Spent) /\ IsFiniteSet(Spent')
         /\ Cardinality(Spent) \in Nat /\ Cardinality(Spent') \in Nat
         /\ Cardinality(Spent) <= Cardinality(Spent') /\ Cardinality(Spent') <= Cardinality(Asks)
<1>1. \A a \in Asks : asked[a] # Nobody => asked'[a] # Nobody
  <2>1. ASSUME NEW s \in Shells, NEW b \in Asks, NEW g \in Generations, Apply(s, b, g)
        PROVE  \A a \in Asks : asked[a] # Nobody => asked'[a] # Nobody
    BY <2>1 DEF Apply
  <2>2. asked' = asked \/ \E s \in Shells, b \in Asks, g \in Generations : Apply(s, b, g)
    <3>1. ASSUME NEW s \in Shells, Launch(s) \/ Close(s) \/ Kill(s) \/ Session(s) \/ Work(s) \/ Worked(s)
          PROVE  asked' = asked
      BY <3>1 DEF Launch, Close, Kill, Work, Worked, Session, Attach, Recovered, Lease, Bind, Boot, Lost, Dequeue, Look,
                  Record, Send, Sent, Abandons, Status, AskRecover, Finish, Store, Execute, Executed, Receipt, End, Stop
    <3>2. ASSUME \/ \E r \in flying : Arrives(r)
                 \/ \E keep \in BOOLEAN : Decision(keep)
                 \/ NativeRecovered \/ NativeReply \/ NativeTimeout \/ UNCHANGED vars
          PROVE  asked' = asked
      BY <3>2 DEF Arrives, Decision, NativeRecovered, NativeReply, NativeTimeout, vars
    <3> QED
      BY <3>1, <3>2 DEF Next
  <2> QED
    BY <2>1, <2>2
<1>2. Spent \subseteq Spent'
  <2> SUFFICES ASSUME NEW a \in Spent, NEW s \in Shells
               PROVE  /\ host'[s].queued # a
                      /\ host'[s].at \in {"look", "record"} => host'[s].ask # a
    BY <1>1 DEF Spent
  <2>1. HostStep(s)
    BY HostSteps
  <2>2. a # Nobody /\ asked[a] # Nobody
    BY NobodyAssumption DEF Spent
  <2> QED
    BY <2>1, <2>2 DEF HostStep, Spent
<1>3. Spent \subseteq Asks /\ Spent' \subseteq Asks
  BY DEF Spent
<1>4. IsFiniteSet(Asks)
  BY AskAssumption
<1> HIDE DEF Spent
<1>5. IsFiniteSet(Spent) /\ IsFiniteSet(Spent')
  BY <1>3, <1>4, FS_Subset
<1>6. Cardinality(Spent) \in Nat /\ Cardinality(Spent') \in Nat
  BY <1>5, FS_CardinalityType
<1>7. Cardinality(Spent) <= Cardinality(Spent')
  BY <1>2, <1>5, FS_Subset
<1>8. Cardinality(Spent') <= Cardinality(Asks)
  BY <1>3, <1>4, FS_Subset
<1> QED
  BY <1>2, <1>5, <1>6, <1>7, <1>8

(* The request a number is drawn for was not spent before.                  *)
LEMMA RecordSpends ==
  ASSUME IInv, RunsInv, TruthInv, [Next]_vars, NEW s \in Shells, Record(s), host'[s].at = "start"
  PROVE  Cardinality(Spent') >= Cardinality(Spent) + 1
<1> DEFINE a == host[s].ask
<1>1. /\ DOMAIN host = Shells /\ DOMAIN host[s] = DOMAIN Started
  BY DEF IInv, Shape
<1>2. /\ host[s].at = "record" /\ asked' = asked
      /\ host'[s].ask = a /\ host'[s].queued = host[s].queued
      /\ \A t \in Shells \ {s} : host'[t] = host[t]
  BY <1>1 DEF Record, Ends, Started
<1>3. /\ a \in Asks /\ asked[a] # Nobody /\ host[s].queued = Nobody /\ a # Nobody
      /\ \A t \in Shells \ {s} : host[t].last # a
  BY <1>2, NobodyAssumption DEF TruthInv, AskedInv, LastInv, Open, Unseen
<1> HIDE DEF a
<1>4. \A t \in Shells \ {s} : host[t].queued # a /\ (host[t].at \in {"look", "record"} => host[t].ask # a)
  BY <1>3 DEF TruthInv, QueuedInv, AskedInv, Open
<1>5. a \in Spent'
  BY <1>2, <1>3, <1>4 DEF Spent
<1>6. a \notin Spent
  BY <1>2 DEF Spent, a
<1>7. /\ Spent \subseteq Spent' /\ IsFiniteSet(Spent) /\ IsFiniteSet(Spent')
  BY SpentGrows
<1>8. Cardinality(Spent \cup {a}) = Cardinality(Spent) + 1 /\ IsFiniteSet(Spent \cup {a})
  BY <1>6, <1>7, FS_AddElement
<1>9. Cardinality(Spent \cup {a}) <= Cardinality(Spent')
  <2>1. Spent \cup {a} \subseteq Spent'
    BY <1>5, <1>7
  <2> QED
    BY <1>7, <2>1, FS_Subset
<1>10. Cardinality(Spent) \in Nat /\ Cardinality(Spent') \in Nat
  BY SpentGrows
<1> QED
  BY <1>8, <1>9, <1>10

LEMMA FlyingSteps ==
  ASSUME NumberInv, IInv, RunsInv, [Next]_vars
  PROVE  \A r \in flying' : r \in Requests /\ r.sequence \in Numbers
<1>1. ASSUME NEW s \in Shells, Send(s) PROVE Request(s) \in Requests /\ Request(s).sequence \in Numbers
  <2>1. host[s].at = "start"
    BY <1>1 DEF Send, Step
  <2>2. /\ host[s].epoch \in Epochs /\ host[s].sequence \in Numbers /\ host[s].sequence \in Nat \ {0}
        /\ Base(s) \in Generations /\ Candidate(host[s].ask) \in Generations
    <3>1. HeldInv(s) /\ asked \in [Asks -> Generations \cup {Nobody}] /\ host[s].sequence \in Numbers
      BY <2>1 DEF RunsInv, NumberInv, Counted, Between
    <3>2. /\ host[s].epoch \in Epochs /\ host[s].sequence \in Nat /\ host[s].part.sequence \in 0 .. host[s].sequence
          /\ host[s].part.sequence < host[s].sequence /\ host[s].ask \in Asks /\ Base(s) # Nobody
      BY <2>1, <3>1 DEF HeldInv, KeptInv, Between, Transacting
    <3> QED
      BY <3>1, <3>2, EditAssumption DEF Base, Candidate
  <2>3. host[s].sequence \in Sequences
    <3>1. /\ Cardinality(Spent) \in Nat /\ Cardinality(Asks) \in Nat
          /\ Cardinality(Spent) <= Cardinality(Asks)
      BY SpentGrows, AskAssumption, FS_CardinalityType
    <3>2. host[s].sequence \in 1 .. Cardinality(Asks)
      BY <2>2, <3>1 DEF Numbers
    <3> QED
      BY <3>2, AskAssumption
  <2> QED
    BY <2>2, <2>3 DEF Request, Requests, Base
<1>2. flying' \subseteq flying \/ \E s \in Shells : Send(s) /\ flying' = flying \cup {Request(s)}
  <2>1. ASSUME NEW s \in Shells, Launch(s) \/ Close(s) \/ Kill(s) \/ Session(s) \/ Work(s) \/ Worked(s)
        PROVE  flying' = flying \/ (Send(s) /\ flying' = flying \cup {Request(s)})
    BY <2>1 DEF Launch, Close, Kill, Work, Worked, Session, Attach, Recovered, Lease, Bind, Boot, Lost, Dequeue, Look,
                Record, Send, Sent, Abandons, Status, AskRecover, Finish, Store, Execute, Executed, Receipt, End, Stop
  <2>2. ASSUME \/ \E r \in flying : Arrives(r)
               \/ \E keep \in BOOLEAN : Decision(keep)
               \/ \E s \in Shells, b \in Asks, g \in Generations : Apply(s, b, g)
               \/ NativeRecovered \/ NativeReply \/ NativeTimeout \/ UNCHANGED vars
        PROVE  flying' \subseteq flying
    BY <2>2 DEF Arrives, Decision, Apply, NativeRecovered, NativeReply, NativeTimeout, vars
  <2> QED
    BY <2>1, <2>2 DEF Next
<1> QED
  BY <1>1, <1>2 DEF NumberInv

LEMMA NumberInductive ==
  ASSUME NumberInv, Files, IInv, TwiceInv, RunsInv, TruthInv, [Next]_vars
  PROVE  NumberInv'
<1>1. flying \subseteq Requests
  BY DEF NumberInv
<1>2. joint' \in JointType /\ joint'.request \in {joint.request, NoRequest} \cup flying
  BY <1>1, JointSteps DEF NumberInv
<1>3. Numbers \subseteq Numbers'
  BY SpentGrows DEF Numbers
<1>4. joint'.request # NoRequest => joint'.request.sequence \in Numbers'
  BY <1>2, <1>3 DEF NumberInv
<1>5. \A r \in flying' : r \in Requests /\ r.sequence \in Numbers'
  BY <1>3, FlyingSteps
<1>6. ASSUME NEW s \in Shells
      PROVE  /\ host'[s].at \in {"lease", "bind"} => host'[s].seen.sequence \in Numbers'
             /\ host'[s].at \in Counted => host'[s].sequence \in Numbers'
  <2>1. HostStep(s)
    BY HostSteps
  <2>2. View.sequence \in Numbers
    <3>1. 0 \in Numbers
      BY SpentGrows DEF Numbers
    <3> QED
      BY <3>1 DEF View, NumberInv
  <2>3. ASSUME host'[s].at \in {"lease", "bind"} PROVE host'[s].seen.sequence \in Numbers'
    BY <1>3, <2>1, <2>2, <2>3 DEF HostStep, NumberInv
  <2>4. ASSUME host'[s].at \in Counted PROVE host'[s].sequence \in Numbers'
    <3>1. CASE \/ host[s].at \in Counted /\ host'[s].sequence = host[s].sequence
               \/ host[s].at = "bind" /\ host'[s].sequence = host[s].seen.sequence
      BY <1>3, <3>1 DEF NumberInv
    <3>2. CASE Record(s) /\ host'[s].at = "start" /\ host'[s].sequence = host[s].sequence + 1
      <4>1. host[s].sequence \in Numbers
        BY <3>2 DEF Record, NumberInv, Counted, Between
      <4>2. Cardinality(Spent') >= Cardinality(Spent) + 1
        BY <3>2, RecordSpends
      <4>3. Cardinality(Spent) \in Nat /\ Cardinality(Spent') \in Nat
        BY SpentGrows
      <4> HIDE DEF Spent
      <4> QED
        BY <3>2, <4>1, <4>2, <4>3 DEF Numbers
    <3> QED
      BY <2>1, <2>4, <3>1, <3>2 DEF HostStep
  <2> QED
    BY <2>3, <2>4
<1> QED
  BY <1>2, <1>4, <1>5, <1>6 DEF NumberInv

(* What goes wrong is counted, and so are the Shells that are started.      *)
LEMMA BoundSteps ==
  ASSUME PlainInv, [Next]_vars
  PROVE  faults' \in 0 .. MaxFaults /\ launches' \in 0 .. MaxLaunches
<1>1. \/ UNCHANGED bounds
      \/ Fault
      \/ launches < MaxLaunches /\ launches' = launches + 1 /\ UNCHANGED faults
  <2>1. ASSUME NEW s \in Shells, Close(s) \/ Kill(s) \/ Session(s) \/ Work(s) PROVE UNCHANGED bounds \/ Fault
    BY <2>1, Zenon DEF Close, Kill, Work, Session, Attach, Recovered, Lease, Bind, Boot, Lost, Dequeue, Look,
                Record, Send, Sent, Abandons, Status, AskRecover, Finish, Store, Execute, Executed, Receipt, End, Stop
  <2>2. ASSUME NEW s \in Shells, Worked(s) PROVE UNCHANGED bounds \/ Fault
    BY <2>2 DEF Worked, bounds
  <2>3. ASSUME NEW s \in Shells, Launch(s)
        PROVE  launches < MaxLaunches /\ launches' = launches + 1 /\ UNCHANGED faults
    BY <2>3 DEF Launch
  <2>4. ASSUME \/ \E r \in flying : Arrives(r)
               \/ \E keep \in BOOLEAN : Decision(keep)
               \/ \E s \in Shells, b \in Asks, g \in Generations : Apply(s, b, g)
               \/ NativeRecovered \/ NativeReply \/ NativeTimeout \/ UNCHANGED vars
        PROVE  UNCHANGED bounds \/ Fault
    BY <2>4 DEF Arrives, Decision, Apply, NativeRecovered, NativeReply, NativeTimeout, vars, bounds
  <2> QED
    BY <2>1, <2>2, <2>3, <2>4 DEF Next
<1> QED
  BY <1>1, BoundAssumption DEF bounds, Fault, PlainInv

(* The lease is the compositor's while it recovers, and only then.          *)
LEMMA WorldSteps ==
  ASSUME IInv, PlainInv, [Next]_vars
  PROVE  /\ recovering' \in BOOLEAN /\ shown' \in BOOLEAN
         /\ lease' \in Shells \cup {Native, Nobody}
         /\ lease' = Native => recovering'
<1> USE OwnerAssumption DEF PlainInv
<1>1. ASSUME NEW s \in Shells, Attach(s) \/ Lease(s) \/ Kill(s) \/ End(s)
      PROVE  /\ recovering' \in BOOLEAN /\ lease' \in Shells \cup {Native, Nobody} /\ shown' = shown
             /\ lease' = Native => recovering'
  BY <1>1 DEF Attach, Lease, Kill, End, world
<1>2. CASE NativeRecovered
  BY <1>2 DEF NativeRecovered
<1>3. ASSUME NEW keep \in BOOLEAN, Decision(keep) PROVE shown' \in BOOLEAN /\ UNCHANGED <<recovering, lease>>
  <2>1. shown' = (keep /\ shown) \/ shown' = shown
    BY <1>3 DEF Decision
  <2>2. (keep /\ shown) \in BOOLEAN
    OBVIOUS
  <2> QED
    BY <1>3, <2>1, <2>2 DEF Decision
<1>4. CASE NativeReply
  <2>1. \/ shown' = ((shown /\ joint.pending.operation # "RESTORE") \/ joint.pending.operation = "APPLY")
        \/ shown' \in BOOLEAN \/ shown' = shown
    BY <1>4 DEF NativeReply
  <2>2. ((shown /\ joint.pending.operation # "RESTORE") \/ joint.pending.operation = "APPLY") \in BOOLEAN
    OBVIOUS
  <2>3. shown' \in BOOLEAN
    BY <2>1, <2>2
  <2> QED
    BY <1>4, <2>3 DEF NativeReply
<1>5. ASSUME NEW s \in Shells,
             \/ Launch(s) \/ Close(s) \/ Work(s) \/ Worked(s)
             \/ Session(s) /\ ~(Attach(s) \/ Lease(s) \/ End(s))
      PROVE  UNCHANGED <<recovering, shown, lease>>
  BY <1>5 DEF Launch, Close, Work, Worked, Session, Recovered, Bind, Boot, Lost, Dequeue, Look, world,
              Record, Send, Sent, Abandons, Status, AskRecover, Finish, Store, Execute, Executed, Receipt, Stop
<1>6. ASSUME \/ \E r \in flying : Arrives(r)
             \/ \E s \in Shells, b \in Asks, g \in Generations : Apply(s, b, g)
             \/ NativeTimeout \/ UNCHANGED vars
      PROVE  UNCHANGED <<recovering, shown, lease>>
  BY <1>6 DEF Arrives, Apply, NativeTimeout, vars, world
<1> QED
  BY <1>1, <1>2, <1>3, <1>4, <1>5, <1>6 DEF Next

(* What the workers write is a generation.                                  *)
LEMMA DiskSteps ==
  ASSUME NumberInv, Files, TwiceInv, RunsInv, PlainInv, [Next]_vars
  PROVE  disk'.completed \in Generations
<1>1. CASE disk' = disk
  BY <1>1 DEF PlainInv
<1>2. CASE NativeRecovered
  <2>1. PICK e : disk' = [disk EXCEPT !.epoch = e, !.pending = Nobody]
    BY <1>2 DEF NativeRecovered
  <2> QED
    BY <2>1 DEF PlainInv
<1>3. ASSUME NEW s \in Shells, Record(s) PROVE disk'.completed = disk.completed
  <2>1. disk' = disk \/ \E e : disk' = [disk EXCEPT !.journal = e]
    BY <1>3, Zenon DEF Record
  <2> QED
    BY <2>1 DEF Files
<1>4. ASSUME NEW s \in Shells, Worked(s) PROVE disk'.completed \in {disk.completed, worker[s].command.request.candidate}
  <2> DEFINE c == worker[s].command
  <2>1. disk' \in {disk, Written(c), [disk EXCEPT !.completed = c.request.candidate]}
    BY <1>4, Zenon DEF Worked
  <2>2. [disk EXCEPT !.completed = c.request.candidate].completed = c.request.candidate
    BY DEF Files
  <2>3. Written(c).completed \in {disk.completed, c.request.candidate}
    <3>1. c.operation \in {"CURRENT", "PREPARE", "PUBLISH", "ABANDON"}
      BY <1>4, WorkersCommand DEF Worked, Busy
    <3>2. ASSUME NEW y, Written(c) = [disk EXCEPT !.completed = c.request.candidate, !.pending = y]
          PROVE  Written(c).completed = c.request.candidate
      BY <3>2 DEF Files
    <3>3. ASSUME NEW y, Written(c) = [disk EXCEPT !.pending = y] PROVE Written(c).completed = disk.completed
      BY <3>3 DEF Files
    <3>4. \/ Written(c) = disk
          \/ \E y : \/ Written(c) = [disk EXCEPT !.completed = c.request.candidate, !.pending = y]
                   \/ Written(c) = [disk EXCEPT !.pending = y]
      BY <3>1 DEF Written
    <3> QED
      BY <3>2, <3>3, <3>4
  <2> QED
    BY <2>1, <2>2, <2>3
<1>5. ASSUME NEW s \in Shells, Worked(s) PROVE worker[s].command.request.candidate \in Generations
  <2>1. worker[s].command = joint.pending /\ worker[s].command # NoCommand
    BY <1>5 DEF Worked, Busy, RunsInv, HeldInv, TwiceInv, SessionInv, WorkInv
  <2>2. joint.pending \in Commands
    BY <2>1 DEF NumberInv, JointType
  <2> QED
    BY <2>1, <2>2 DEF Commands, Requests
<1>6. ASSUME NEW s \in Shells,
             \/ Launch(s) \/ Close(s) \/ Kill(s) \/ Work(s)
             \/ Session(s) /\ ~Record(s)
      PROVE  disk' = disk
  BY <1>6 DEF Launch, Close, Kill, Work, Session, Attach, Recovered, Lease, Bind, Boot, Lost, Dequeue, Look, Send, Sent,
              Abandons, Status, AskRecover, Receipt, Finish, Store, Execute, Executed, End, Stop
<1>7. ASSUME \/ \E r \in flying : Arrives(r)
             \/ \E keep \in BOOLEAN : Decision(keep)
             \/ \E s \in Shells, b \in Asks, g \in Generations : Apply(s, b, g)
             \/ NativeReply \/ NativeTimeout \/ UNCHANGED vars
      PROVE  disk' = disk
  BY <1>7 DEF Arrives, Decision, Apply, NativeReply, NativeTimeout, vars
<1> QED
  BY <1>1, <1>2, <1>3, <1>4, <1>5, <1>6, <1>7 DEF Next, PlainInv

(* What a Shell runs with is a generation, and so is what its participant   *)
(* puts in its place.                                                       *)
LEMMA LiveSteps ==
  ASSUME IInv, RunsInv, PlainInv, [Next]_vars
  PROVE  \A s \in Shells : live'[s] \in Generations \cup {Nobody}
<1>1. DOMAIN live = Shells
  BY DEF RunsInv
<1>2. CASE live' = live
  BY <1>2 DEF PlainInv
<1>3. ASSUME NEW s \in Shells, \E g \in Generations \cup {Nobody} : live' = [live EXCEPT ![s] = g]
      PROVE  \A t \in Shells : live'[t] \in Generations \cup {Nobody}
  BY <1>1, <1>3 DEF PlainInv
<1>4. ASSUME NEW s \in Shells, Kill(s) \/ End(s) \/ Boot(s)
      PROVE  live' = live \/ \E g \in Generations \cup {Nobody} : live' = [live EXCEPT ![s] = g]
  <2>1. host[s].at = "boot" => host[s].part.confirmed \in Generations
    BY DEF RunsInv, HeldInv, Unprepared, PlainInv
  <2> QED
    BY <1>4, <2>1 DEF Kill, End, Boot, PlainInv
<1>5. ASSUME NEW s \in Shells, Executed(s)
      PROVE  live' = live \/ \E g \in Generations \cup {Nobody} : live' = [live EXCEPT ![s] = g]
  <2>1. host[s].at = "gtk" /\ live' \in {live, [live EXCEPT ![s] = host[s].part.confirmed], [live EXCEPT ![s] = host[s].part.candidate]}
    BY <1>5 DEF Executed
  <2>2. /\ host[s].part.confirmed \in {Base(s), Goal(s)} /\ host[s].part.candidate \in {Nobody, Goal(s)}
        /\ host[s].ask \in Asks /\ Base(s) # Nobody
    BY <2>1 DEF RunsInv, HeldInv, WayInv, Talking, Transacting
  <2>3. Base(s) \in Generations /\ Goal(s) \in Generations
    BY <2>2, EditAssumption DEF RunsInv, Base, Goal, Candidate
  <2> QED
    BY <2>1, <2>2, <2>3
<1>6. ASSUME NEW s \in Shells,
             \/ Launch(s) \/ Close(s) \/ Work(s) \/ Worked(s)
             \/ Session(s) /\ ~(Boot(s) \/ Executed(s) \/ End(s))
      PROVE  live' = live
  BY <1>6 DEF Launch, Close, Work, Worked, Session, Attach, Recovered, Lease, Bind, Lost, Dequeue, Look, Send, Sent, Record,
              Abandons, Status, AskRecover, Receipt, Finish, Store, Execute, Stop
<1>7. ASSUME \/ \E r \in flying : Arrives(r)
             \/ \E keep \in BOOLEAN : Decision(keep)
             \/ \E s \in Shells, b \in Asks, g \in Generations : Apply(s, b, g)
             \/ NativeRecovered \/ NativeReply \/ NativeTimeout \/ UNCHANGED vars
      PROVE  live' = live
  BY <1>7 DEF Arrives, Decision, Apply, NativeRecovered, NativeReply, NativeTimeout, vars
<1> QED
  BY <1>2, <1>3, <1>4, <1>5, <1>6, <1>7 DEF Next

LEMMA ToldSteps ==
  ASSUME PlainInv, [Next]_vars
  PROVE  \A a \in Asks : told'[a] \subseteq Answers
<1>1. ASSUME NEW s \in Shells, Boot(s) \/ Look(s) \/ Finish(s)
      PROVE  told' = told \/ \E b, x : x \in Answers /\ Told(b, x)
  <2>1. {"ok", "conflict", "validation", "rolled_back"} \subseteq Answers
    BY DEF Answers
  <2>2. CASE Boot(s)
    BY <2>2 DEF Boot
  <2>3. CASE Look(s)
    BY <2>1, <2>3 DEF Look, Answer
  <2>4. CASE Finish(s)
    BY <2>1, <2>4 DEF Finish, Answer
  <2> QED
    BY <1>1, <2>2, <2>3, <2>4
<1>2. ASSUME NEW b, NEW x \in Answers, Told(b, x) PROVE \A a \in Asks : told'[a] \subseteq Answers
  BY <1>2 DEF Told, PlainInv
<1>3. ASSUME NEW s \in Shells,
             \/ Launch(s) \/ Close(s) \/ Kill(s) \/ Work(s) \/ Worked(s)
             \/ Session(s) /\ ~(Boot(s) \/ Look(s) \/ Finish(s))
      PROVE  told' = told
  BY <1>3 DEF Launch, Close, Kill, Work, Worked, Session, Attach, Recovered, Lease, Bind, Lost, Dequeue, Send, Sent, Record,
              Abandons, Status, AskRecover, Receipt, Store, Execute, Executed, End, Stop, past
<1>4. ASSUME \/ \E r \in flying : Arrives(r)
             \/ \E keep \in BOOLEAN : Decision(keep)
             \/ \E s \in Shells, b \in Asks, g \in Generations : Apply(s, b, g)
             \/ NativeRecovered \/ NativeReply \/ NativeTimeout \/ UNCHANGED vars
      PROVE  told' = told
  BY <1>4 DEF Arrives, Decision, Apply, NativeRecovered, NativeReply, NativeTimeout, vars, past
<1> QED
  BY <1>1, <1>2, <1>3, <1>4 DEF Next, PlainInv

LEMMA WorkerSteps ==
  ASSUME IInv, PlainInv, [Next]_vars
  PROVE  \A s \in Shells : worker'[s].status \in {"none", "idle", "queued", "running", "ok", "failed"}
<1> DEFINE Good(w) == w.status \in {"none", "idle", "queued", "running", "ok", "failed"}
<1>1. DOMAIN worker = Shells /\ \A s \in Shells : DOMAIN worker[s] = DOMAIN Idle /\ Good(worker[s])
  BY DEF IInv, Shape, PlainInv
<1>2. CASE worker' = worker
  BY <1>1, <1>2
<1>3. ASSUME NEW s \in Shells, Kill(s) \/ End(s) \/ Record(s) PROVE \A t \in Shells : Good(worker'[t])
  <2>1. Good(Idle) /\ Good([Idle EXCEPT !.status = "idle"])
    BY DEF Idle
  <2>2. \/ worker' = worker \/ worker' = [worker EXCEPT ![s] = Idle]
        \/ worker' = [worker EXCEPT ![s] = [Idle EXCEPT !.status = "idle"]]
        \/ worker' = [worker EXCEPT ![s] = worker[s]]
    BY <1>3 DEF Kill, End, Record
  <2> QED
    BY <1>1, <2>1, <2>2
<1>4. ASSUME NEW s \in Shells, Finish(s) PROVE \A t \in Shells : Good(worker'[t])
  <2>1. worker' = [worker EXCEPT ![s].closed = TRUE]
    BY <1>4 DEF Finish
  <2> QED
    BY <1>1, <2>1 DEF Idle
<1>5. ASSUME NEW s \in Shells, Work(s) PROVE \A t \in Shells : Good(worker'[t])
  <2>1. \E x \in {"failed", "running"} : worker' = [worker EXCEPT ![s].status = x, ![s].current = Malformed]
    BY <1>5 DEF Work
  <2> QED
    BY <1>1, <2>1 DEF Idle
<1>6. ASSUME NEW s \in Shells, Store(s) PROVE \A t \in Shells : Good(worker'[t])
  <2>1. worker' = worker \/ \E c : worker' = [worker EXCEPT ![s].status = "queued", ![s].command = c]
    BY <1>6 DEF Store, Submits
  <2>2. ASSUME NEW c, worker' = [worker EXCEPT ![s].status = "queued", ![s].command = c]
        PROVE  \A t \in Shells : Good(worker'[t])
    BY <1>1, <2>2 DEF Idle
  <2> QED
    BY <1>2, <2>1, <2>2
<1>7. ASSUME NEW s \in Shells, Worked(s) PROVE \A t \in Shells : Good(worker'[t])
  <2>1. \/ worker' = [worker EXCEPT ![s].status = "failed"]
        \/ \E x : worker' = [worker EXCEPT ![s].status = "ok", ![s].current = x]
    BY <1>7, Zenon DEF Worked
  <2>2. ASSUME NEW x, worker' = [worker EXCEPT ![s].status = "ok", ![s].current = x]
        PROVE  \A t \in Shells : Good(worker'[t])
    BY <1>1, <2>2 DEF Idle
  <2>3. CASE worker' = [worker EXCEPT ![s].status = "failed"]
    BY <1>1, <2>3 DEF Idle
  <2> QED
    BY <2>1, <2>2, <2>3
<1>8. ASSUME NEW s \in Shells,
             \/ Launch(s) \/ Close(s)
             \/ Session(s) /\ ~(Record(s) \/ Finish(s) \/ Store(s) \/ End(s))
      PROVE  worker' = worker
  BY <1>8 DEF Launch, Close, Session, Attach, Recovered, Lease, Bind, Boot, Lost, Dequeue, Look, Send, Sent,
              Abandons, Status, AskRecover, Receipt, Execute, Executed, Stop
<1>9. ASSUME \/ \E r \in flying : Arrives(r)
             \/ \E keep \in BOOLEAN : Decision(keep)
             \/ \E s \in Shells, b \in Asks, g \in Generations : Apply(s, b, g)
             \/ NativeRecovered \/ NativeReply \/ NativeTimeout \/ UNCHANGED vars
      PROVE  worker' = worker
  BY <1>9 DEF Arrives, Decision, Apply, NativeRecovered, NativeReply, NativeTimeout, vars
<1> QED
  BY <1>2, <1>3, <1>4, <1>5, <1>6, <1>7, <1>8, <1>9 DEF Next

LEMMA PlainInductive ==
  ASSUME NumberInv, Files, IInv, TwiceInv, RunsInv, PlainInv, [Next]_vars
  PROVE  PlainInv'
<1>1. /\ recovering' \in BOOLEAN /\ shown' \in BOOLEAN
      /\ lease' \in Shells \cup {Native, Nobody} /\ (lease' = Native => recovering')
  BY WorldSteps
<1>2. disk'.epoch = joint'.epoch
  BY JointSteps DEF NumberInv, PlainInv
<1>3. ASSUME NEW s \in Shells
      PROVE  host'[s].at \in Places /\ host'[s].snapshot \in Generations \cup {Nobody}
  BY HostSteps DEF HostStep, PlainInv
<1> QED
  BY <1>1, <1>2, <1>3, DiskSteps, LiveSteps, WorkerSteps, ToldSteps, BoundSteps DEF PlainInv

LEMMA NumberInitial == Init => NumberInv /\ PlainInv
<1> SUFFICES ASSUME Init PROVE NumberInv /\ PlainInv
  OBVIOUS
<1>1. PICK g \in Generations, e \in Epochs : joint = Fresh(e) /\ disk.completed = g /\ disk.epoch = e
  BY DEF Init
<1>2. joint \in JointType /\ joint.request = NoRequest /\ joint.epoch = e
  BY <1>1, TicketAssumption DEF Fresh, JointType, Steps, Dispatch, States
<1>3. ASSUME NEW s \in Shells
      PROVE  host[s] = Down /\ worker[s] = Idle /\ live[s] = Nobody
  BY DEF Init
<1>4. NumberInv
  BY <1>2, <1>3 DEF Init, NumberInv, Down, Started, Counted, Between, Talking
<1>5. PlainInv
  <2>1. ASSUME NEW s \in Shells
        PROVE  /\ host[s].at = "down" /\ host[s].snapshot = Nobody /\ live[s] = Nobody /\ worker[s].status = "none"
    BY <1>3 DEF Down, Started, Idle
  <2>2. /\ recovering = FALSE /\ shown = FALSE /\ lease = Nobody
        /\ \A a \in Asks : told[a] = {}
        /\ faults \in 0 .. MaxFaults /\ launches \in 0 .. MaxLaunches
    BY BoundAssumption DEF Init
  <2> QED
    BY <1>1, <1>2, <2>1, <2>2, OwnerAssumption DEF PlainInv, Places
<1> QED
  BY <1>4, <1>5

(* Every Shell, its worker and the coordinator keep to their types: the     *)
(* number of a transaction is never beyond those there are requests for,    *)
(* and the epoch on the disk is the compositor's.                           *)
THEOREM TypeCorrect == Spec => []TypeOK
<1>1. IInv /\ RunsInv /\ TruthInv /\ NumberInv /\ PlainInv => TypeOK
  BY DEF IInv, RunsInv, TruthInv, LastInv, NumberInv, PlainInv, TypeOK
<1>2. Files /\ IInv /\ TwiceInv /\ RunsInv /\ TruthInv /\ NumberInv /\ PlainInv /\ [Next]_vars => NumberInv' /\ PlainInv'
  BY NumberInductive, PlainInductive
<1> QED
  BY <1>1, <1>2, Initial, Inductive, TwiceInitial, TwiceInductive, RunsInitial, RunsInductive, TruthInitial,
     FilesInductive, TruthInductive, NumberInitial, PTL DEF Spec
=============================================================================
