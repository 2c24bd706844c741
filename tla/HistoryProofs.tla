---------------------------- MODULE HistoryProofs ----------------------------
(***************************************************************************)
(* The history of the desktop, for any windows, launches and requests, and *)
(* for any limit of its entries: a request is carried out once, a launch   *)
(* has one entry, an entry of a resize holds no command that ran into it,  *)
(* and a replay moves no window the frame does not show.                   *)
(***************************************************************************)
EXTENDS SpatialHistory, SequenceTheorems, TLAPS

Alone(e) == e.of # None => \A k \in Windows \ e.of : e.before.desk[k] = e.after.desk[k]

(* While a launch is open its entry is the last one, and the cursor behind  *)
(* it; no entry of a launch is one of a resize.                             *)
OpenInv(h) ==
  h.group # None =>
    h.entries # <<>> /\ h.cursor = Len(h.entries) /\ h.entries[Len(h.entries)].of = None

Sound(h) == OpenInv(h) /\ \A i \in DOMAIN h.entries : Alone(h.entries[i])

(* The desk differs from the one before the resize by what was changed      *)
(* without cutting it short.                                                *)
StartInv == start # None => \A k \in Windows \ changed : start.desk[k] = desk[k]

(* A request that was carried out is one of a desk that is past.            *)
RequestInv ==
  \A r \in Requests :
    /\ asked[r] # None => asked[r].expected <= revision
    /\ applied[r] # 0 => applied[r] = 1 /\ asked[r] # None /\ asked[r].expected < revision

(* A launch that has begun an entry is the one that is open, or over.       *)
LaunchInv ==
  \A g \in Groups : begun[g] # 0 => begun[g] = 1 /\ (g \in history.closed \/ g = history.group)

IInv ==
  /\ TypeOK
  /\ Sound(history)
  /\ StartInv
  /\ RequestInv
  /\ LaunchInv

-----------------------------------------------------------------------------
(* The operations of the history.                                           *)

(* trim() keeps the latest entry.                                           *)
LEMMA TrimFacts ==
  ASSUME NEW h \in [entries : Seq(Entries), cursor : Nat, group : Groups \cup {None}, closed : SUBSET Groups],
         h.cursor <= Len(h.entries), Sound(h)
  PROVE  /\ Trim(h) \in Histories
         /\ Sound(Trim(h))
         /\ Trim(h).group = h.group
         /\ Trim(h).closed = h.closed
<1> DEFINE n == Len(h.entries) - Limit
<1>1. Limit \in Nat /\ Limit # 0
  BY Limits
<1>2. h.entries \in Seq(Entries) /\ Len(h.entries) \in Nat /\ n \in Int
  BY <1>1
<1>3. CASE n <= 0
  BY <1>1, <1>2, <1>3 DEF Trim, Histories
<1>4. CASE n > 0
  <2> DEFINE kept == SubSeq(h.entries, n + 1, Len(h.entries))
  <2>1. /\ kept \in Seq(Entries)
        /\ Len(kept) = Limit
        /\ \A i \in 1 .. Limit : kept[i] = h.entries[n + i]
    <3>1. \A i \in n + 1 .. Len(h.entries) : h.entries[i] \in Entries
      BY <1>2, <1>4
    <3> QED
      BY <1>1, <1>2, <1>4, <3>1, SubSeqProperties
  <2> DEFINE c == IF h.cursor > n THEN h.cursor - n ELSE 0
  <2>2. Trim(h) = [h EXCEPT !.entries = kept, !.cursor = c]
    <3>1. ~(n <= 0)
      BY <1>2, <1>4
    <3> QED
      BY <3>1 DEF Trim
  <2>3. c \in Nat /\ c <= Limit /\ (h.cursor = Len(h.entries) => c = Limit)
    BY <1>1, <1>2, <1>4
  <2> HIDE DEF kept, c
  <2>4. Trim(h).entries = kept /\ Trim(h).cursor = c /\ Trim(h).group = h.group /\ Trim(h).closed = h.closed
    BY <2>2
  <2>5. Trim(h) \in Histories
    <3>1. Trim(h) \in [entries : Seq(Entries), cursor : Nat, group : Groups \cup {None}, closed : SUBSET Groups]
      BY <2>1, <2>2, <2>3
    <3> QED
      BY <1>1, <2>1, <2>3, <2>4, <3>1 DEF Histories
  <2>6. OpenInv(Trim(h))
    <3>1. SUFFICES ASSUME h.group # None
                   PROVE  kept # <<>> /\ c = Len(kept) /\ kept[Len(kept)].of = None
      BY <2>4 DEF OpenInv
    <3>2. h.cursor = Len(h.entries) /\ h.entries[Len(h.entries)].of = None
      BY <3>1 DEF Sound, OpenInv
    <3>3. kept[Limit] = h.entries[Len(h.entries)]
      <4>1. Limit \in 1 .. Limit /\ n + Limit = Len(h.entries)
        BY <1>1, <1>2
      <4> QED
        BY <2>1, <4>1
    <3> QED
      BY <1>1, <2>1, <2>3, <3>2, <3>3
  <2>7. \A i \in DOMAIN kept : Alone(kept[i])
    <3>1. SUFFICES ASSUME NEW i \in DOMAIN kept PROVE Alone(kept[i])
      OBVIOUS
    <3>2. i \in 1 .. Limit
      BY <2>1
    <3>3. n + i \in DOMAIN h.entries
      BY <1>1, <1>2, <1>4, <3>2
    <3> QED
      BY <2>1, <3>2, <3>3 DEF Sound
  <2> QED
    BY <2>4, <2>5, <2>6, <2>7 DEF Sound
<1> QED
  BY <1>2, <1>3, <1>4

LEMMA CloseFacts ==
  ASSUME NEW h \in Histories, Sound(h)
  PROVE  /\ CloseGroup(h) \in Histories
         /\ Sound(CloseGroup(h))
         /\ CloseGroup(h).entries = h.entries /\ CloseGroup(h).cursor = h.cursor
         /\ CloseGroup(h).group = None
         /\ h.closed \subseteq CloseGroup(h).closed
         /\ h.group # None => h.group \in CloseGroup(h).closed
BY DEF CloseGroup, Histories, Sound, OpenInv

LEMMA RecordFacts ==
  ASSUME NEW h \in Histories, Sound(h), NEW before \in Frames, NEW after \in Frames,
         NEW g \in Groups \cup {None}, NEW of \in (SUBSET Windows) \cup {None}, g # None => of = None,
         of # None => \A k \in Windows \ of : before.desk[k] = after.desk[k]
  PROVE  LET r == Record(h, before, after, g, of) IN
         /\ r \in Histories
         /\ Sound(r)
         /\ h.closed \subseteq r.closed
         /\ h.group # None => h.group \in r.closed \/ h.group = r.group
         /\ before.desk # after.desk /\ Eligible(h, g) /\ ~Extends(h, g) => r.group = g
<1> DEFINE r == Record(h, before, after, g, of)
<1>1. CASE before.desk = after.desk
  BY <1>1 DEF Record
<1>2. CASE before.desk # after.desk /\ Extends(h, g)
  <2>1. r = [h EXCEPT !.entries = [@ EXCEPT ![Len(h.entries)].after = after]]
    BY <1>2 DEF Record
  <2>2. h.group # None /\ h.entries # <<>> /\ of = None
    BY <1>2 DEF Extends, Eligible
  <2> DEFINE m == Len(h.entries)
             x == [h.entries EXCEPT ![m].after = after]
  <2>3. h.entries \in Seq(Entries) /\ m \in Nat /\ m # 0 /\ h.entries[m] \in Entries
    BY <2>2, EmptySeq DEF Histories
  <2>4. x \in Seq(Entries) /\ Len(x) = m /\ (\A i \in 1 .. m : i # m => x[i] = h.entries[i]) /\ x[m].of = h.entries[m].of
    <3>1. [h.entries[m] EXCEPT !.after = after] \in Entries /\ [h.entries[m] EXCEPT !.after = after].of = h.entries[m].of
      BY <2>3 DEF Entries
    <3>2. x = [h.entries EXCEPT ![m] = [h.entries[m] EXCEPT !.after = after]]
      OBVIOUS
    <3> QED
      BY <2>3, <3>1, <3>2, ExceptSeq
  <2> HIDE DEF x
  <2>5. r.entries = x /\ r.cursor = h.cursor /\ r.group = h.group /\ r.closed = h.closed
    BY <2>1 DEF Histories, x
  <2>6. r \in Histories
    <3>1. r \in [entries : Seq(Entries), cursor : Nat, group : Groups \cup {None}, closed : SUBSET Groups]
      BY <2>1, <2>4 DEF Histories, x
    <3> QED
      BY <2>4, <2>5, <3>1 DEF Histories
  <2>7. h.entries[m].of = None /\ h.cursor = m
    BY <2>2 DEF Sound, OpenInv
  <2>8. Sound(r)
    <3>1. OpenInv(r)
      BY <2>3, <2>4, <2>5, <2>7, EmptySeq DEF OpenInv
    <3>2. \A i \in 1 .. m : Alone(x[i])
      BY <2>3, <2>4, <2>7 DEF Sound, Alone
    <3> QED
      BY <2>3, <2>4, <2>5, <3>1, <3>2 DEF Sound
  <2> QED
    BY <1>2, <2>5, <2>6, <2>8
<1>3. CASE before.desk # after.desk /\ ~Extends(h, g)
  <2> DEFINE c == CloseGroup(h)
             e == [before |-> before, after |-> after, of |-> of]
             s == SubSeq(h.entries, 1, h.cursor)
             a == [c EXCEPT !.group = IF Eligible(h, g) THEN g ELSE None,
                            !.entries = Append(s, e), !.cursor = h.cursor + 1]
  <2>1. r = Trim(a)
    BY <1>3, CloseFacts DEF Record
  <2>2. e \in Entries /\ Alone(e)
    BY DEF Entries, Alone
  <2>3. h.entries \in Seq(Entries) /\ h.cursor \in Nat /\ h.cursor <= Len(h.entries)
    BY DEF Histories
  <2>4. s \in Seq(Entries) /\ Len(s) = h.cursor /\ \A i \in 1 .. h.cursor : s[i] = h.entries[i]
    <3>1. \A i \in 1 .. h.cursor : h.entries[i] \in Entries
      BY <2>3
    <3> QED
      BY <2>3, <3>1, SubSeqProperties
  <2>5. /\ Append(s, e) \in Seq(Entries)
        /\ Len(Append(s, e)) = h.cursor + 1
        /\ Append(s, e)[h.cursor + 1] = e
        /\ \A i \in 1 .. h.cursor : Append(s, e)[i] = h.entries[i]
    BY <2>2, <2>3, <2>4, AppendProperties
  <2>6. /\ a \in [entries : Seq(Entries), cursor : Nat, group : Groups \cup {None}, closed : SUBSET Groups]
        /\ a.entries = Append(s, e) /\ a.cursor = h.cursor + 1 /\ a.closed = c.closed
        /\ a.group = IF Eligible(h, g) THEN g ELSE None
    <3>1. c \in [entries : Seq(Entries), cursor : Nat, group : Groups \cup {None}, closed : SUBSET Groups]
      BY CloseFacts DEF Histories
    <3> DEFINE t == Append(s, e)
               u == IF Eligible(h, g) THEN g ELSE None
    <3>2. t \in Seq(Entries) /\ h.cursor + 1 \in Nat /\ u \in Groups \cup {None}
      BY <2>3, <2>5
    <3>3. a = [c EXCEPT !.group = u, !.entries = t, !.cursor = h.cursor + 1]
      OBVIOUS
    <3> HIDE DEF a, c, t, u
    <3>4. /\ a \in [entries : Seq(Entries), cursor : Nat, group : Groups \cup {None}, closed : SUBSET Groups]
          /\ a.entries = t /\ a.cursor = h.cursor + 1 /\ a.closed = c.closed /\ a.group = u
      BY <3>1, <3>2, <3>3
    <3> QED
      BY <3>4 DEF t, u
  <2>7. Sound(a)
    <3>1. a.group # None => of = None
      BY <2>6
    <3>2. OpenInv(a)
      <4>1. h.cursor + 1 # 0
        BY <2>3
      <4>2. Append(s, e) # <<>>
        BY <2>3, <2>5, <4>1, EmptySeq
      <4> QED
        BY <2>5, <2>6, <3>1, <4>2 DEF OpenInv
    <3>3. \A i \in 1 .. h.cursor + 1 : Alone(Append(s, e)[i])
      <4>1. \A i \in 1 .. h.cursor + 1 : i \in 1 .. h.cursor \/ i = h.cursor + 1
        BY <2>3
      <4>2. \A i \in 1 .. h.cursor : i \in DOMAIN h.entries
        BY <2>3
      <4> QED
        BY <2>2, <2>5, <4>1, <4>2 DEF Sound
    <3> QED
      BY <2>3, <2>5, <2>6, <3>2, <3>3 DEF Sound
  <2> HIDE DEF a, c
  <2>8. Trim(a) \in Histories /\ Sound(Trim(a)) /\ Trim(a).group = a.group /\ Trim(a).closed = a.closed
    <3>1. a.cursor <= Len(a.entries)
      BY <2>3, <2>5, <2>6
    <3> QED
      BY <2>6, <2>7, <3>1, TrimFacts
  <2> QED
    BY <2>1, <2>6, <2>8, CloseFacts DEF c
<1> QED
  BY <1>1, <1>2, <1>3

-----------------------------------------------------------------------------
(* A resize that is cut short, and the command that cuts it.                *)
LEMMA RestoresType ==
  ASSUME NEW d \in Desks, NEW l \in [Windows -> Nat], NEW frame \in Frames, NEW e \in Restores(d, l, frame)
  PROVE  e \in Desks
BY DEF Restores, Retained, Desks, Frames, Places

Cut(w) ==
  /\ w.desk \in Desks
  /\ w.revision \in Nat /\ w.revision >= revision
  /\ w.history \in Histories /\ Sound(w.history)
  /\ w.failed \in BOOLEAN
  /\ history.closed \subseteq w.history.closed
  /\ history.group # None => history.group \in w.history.closed \/ history.group = w.history.group

LEMMA CutFacts ==
  ASSUME IInv, NEW l \in [Windows -> Nat], NEW w \in Cuts(l)
  PROVE  Cut(w)
<1>1. desk \in Desks /\ revision \in Nat /\ history \in Histories /\ failed \in BOOLEAN /\ Sound(history)
  BY DEF IInv, TypeOK
<1>2. CASE w = World
  BY <1>1, <1>2 DEF World, Cut
<1>3. ASSUME start # None, NEW d \in Restores(desk, l, start), w = [World EXCEPT !.desk = d, !.revision = @ + 1]
      PROVE  Cut(w)
  <2>1. d \in Desks
    BY <1>1, <1>3, RestoresType DEF IInv, TypeOK
  <2>2. w.desk = d /\ w.revision = revision + 1 /\ w.history = history /\ w.failed = failed
    BY <1>3 DEF World
  <2> QED
    BY <1>1, <2>1, <2>2 DEF Cut
<1>4. ASSUME start # None, NEW f \in {failed, TRUE},
             w = [World EXCEPT !.history = Record(@, start, Frame(desk, l), None, changed), !.failed = f]
      PROVE  Cut(w)
  <2> DEFINE r == Record(history, start, Frame(desk, l), None, changed)
  <2>1. w.desk = desk /\ w.revision = revision /\ w.history = r /\ w.failed = f
    BY <1>4 DEF World
  <2>2. start \in Frames /\ changed \in SUBSET Windows /\ Frame(desk, l) \in Frames
    BY <1>1, <1>4 DEF IInv, TypeOK, Frame, Frames
  <2>3. \A k \in Windows \ changed : start.desk[k] = Frame(desk, l).desk[k]
    BY <1>4 DEF IInv, StartInv, Frame
  <2>4. /\ r \in Histories /\ Sound(r) /\ history.closed \subseteq r.closed
        /\ history.group # None => history.group \in r.closed \/ history.group = r.group
    BY <1>1, <2>2, <2>3, RecordFacts
  <2> HIDE DEF r
  <2>5. f \in BOOLEAN
    BY <1>1, <1>4
  <2>6. w.desk \in Desks /\ w.revision \in Nat /\ w.revision >= revision /\ w.history \in Histories /\ Sound(w.history)
    BY <1>1, <2>1, <2>4
  <2>7. w.failed \in BOOLEAN
    BY <2>1, <2>5
  <2> QED
    BY <2>1, <2>4, <2>6, <2>7 DEF Cut
<1> QED
  BY <1>2, <1>3, <1>4 DEF Cuts

LEMMA BecomesFacts ==
  ASSUME IInv, NEW l \in [Windows -> Nat], NEW w, Cut(w), NEW d \in Desks, NEW g \in Groups \cup {None},
         Becomes(w, d, l, g)
  PROVE  /\ desk' \in Desks
         /\ revision' \in Nat /\ revision' >= revision
         /\ history' \in Histories /\ Sound(history')
         /\ failed' \in BOOLEAN
         /\ begun' \in [Groups -> Nat]
         /\ LaunchInv'
<1>1. begun \in [Groups -> Nat] /\ history \in Histories /\ revision \in Nat
  BY DEF IInv, TypeOK
<1>2. CASE desk' = w.desk /\ revision' = w.revision /\ history' = w.history /\ UNCHANGED begun
  <2>1. LaunchInv'
    <3>1. SUFFICES ASSUME NEW x \in Groups, begun[x] # 0
                   PROVE  begun[x] = 1 /\ (x \in w.history.closed \/ x = w.history.group)
      BY <1>2 DEF LaunchInv
    <3> QED
      BY <3>1, NoneAssumption DEF IInv, LaunchInv, Cut
  <2> QED
    BY <1>1, <1>2, <2>1 DEF Becomes, Cut
<1>3. CASE /\ desk' = d /\ d # w.desk /\ revision' = w.revision + 1
           /\ history' = Record(w.history, Frame(w.desk, l), Frame(d, l), g, None)
           /\ begun' = [x \in Groups |-> IF x = g /\ Eligible(w.history, g) /\ ~Extends(w.history, g)
                                         THEN begun[x] + 1 ELSE begun[x]]
  <2> DEFINE r == Record(w.history, Frame(w.desk, l), Frame(d, l), g, None)
  <2>1. Frame(w.desk, l) \in Frames /\ Frame(d, l) \in Frames /\ Frame(w.desk, l).desk # Frame(d, l).desk
    BY <1>3 DEF Frame, Frames, Cut
  <2>2. /\ r \in Histories /\ Sound(r) /\ w.history.closed \subseteq r.closed
        /\ w.history.group # None => w.history.group \in r.closed \/ w.history.group = r.group
        /\ Eligible(w.history, g) /\ ~Extends(w.history, g) => r.group = g
    <3>1. None \in (SUBSET Windows) \cup {None}
      OBVIOUS
    <3> QED
      BY <2>1, <3>1, RecordFacts DEF Cut
  <2> HIDE DEF r
  <2>3. LaunchInv'
    <3>1. SUFFICES ASSUME NEW x \in Groups, begun'[x] # 0
                   PROVE  begun'[x] = 1 /\ (x \in r.closed \/ x = r.group)
      BY <1>3 DEF LaunchInv, r
    <3>2. begun[x] # 0 => begun[x] = 1 /\ (x \in w.history.closed \/ x = w.history.group)
      BY NoneAssumption DEF IInv, LaunchInv, Cut
    <3>3. CASE x = g /\ Eligible(w.history, g) /\ ~Extends(w.history, g)
      <4>1. x # w.history.group
        <5>1. SUFFICES ASSUME x = w.history.group PROVE FALSE
          OBVIOUS
        <5>2. w.history.group # None
          BY <3>1, <5>1, NoneAssumption
        <5> QED
          BY <3>3, <5>1, <5>2 DEF Extends, Cut, Sound, OpenInv
      <4>2. begun[x] = 0
        BY <3>2, <3>3, <4>1 DEF Eligible
      <4> QED
        BY <1>3, <2>2, <3>3, <4>2
    <3>4. CASE ~(x = g /\ Eligible(w.history, g) /\ ~Extends(w.history, g))
      <4>1. begun'[x] = begun[x]
        BY <1>3, <3>4
      <4> QED
        BY <2>2, <3>1, <3>2, <4>1, NoneAssumption
    <3> QED
      BY <3>3, <3>4
  <2> QED
    BY <1>1, <1>3, <2>2, <2>3 DEF Becomes, Cut, r
<1> QED
  BY <1>2, <1>3 DEF Becomes

-----------------------------------------------------------------------------
(* The inductive invariant.                                                 *)
LEMMA Initial == Init => IInv
<1> SUFFICES ASSUME Init PROVE IInv
  OBVIOUS
<1>1. history \in Histories /\ Sound(history)
  BY EmptySeq, Limits DEF Init, Histories, Sound, OpenInv
<1>2. desk \in Desks /\ life \in [Windows -> 0 .. lives]
  BY DEF Init, Desks
<1>3. TypeOK
  BY <1>1, <1>2 DEF Init, TypeOK
<1> QED
  BY <1>1, <1>3 DEF Init, IInv, StartInv, RequestInv, LaunchInv

(* What a window that opens, closes or moves has in common.                 *)
LEMMA CommandFacts ==
  ASSUME IInv, NEW l \in [Windows -> Nat], NEW w \in Cuts(l), NEW k \in Windows, NEW p \in Spots \cup {None},
         NEW g \in Groups \cup {None}, Becomes(w, [w.desk EXCEPT ![k] = p], l, g), Ended,
         UNCHANGED <<dragging, asked, receipts, applied, replays>>,
         lives' \in Nat, life' \in [Windows -> 0 .. lives']
  PROVE  IInv'
<1>1. Cut(w)
  BY CutFacts
<1>2. [w.desk EXCEPT ![k] = p] \in Desks
  BY <1>1 DEF Cut, Desks, Places
<1>3. /\ desk' \in Desks
      /\ revision' \in Nat /\ revision' >= revision
      /\ history' \in Histories /\ Sound(history')
      /\ failed' \in BOOLEAN
      /\ begun' \in [Groups -> Nat]
      /\ LaunchInv'
  BY <1>1, <1>2, BecomesFacts
<1>4. TypeOK'
  BY <1>3 DEF IInv, TypeOK, Ended
<1>5. StartInv'
  BY DEF StartInv, Ended
<1>6. RequestInv'
  <2>1. SUFFICES ASSUME NEW r \in Requests
                 PROVE  /\ asked[r] # None => asked[r].expected <= revision'
                        /\ applied[r] # 0 => applied[r] = 1 /\ asked[r] # None /\ asked[r].expected < revision'
    BY DEF RequestInv
  <2>2. asked[r] # None => asked[r].expected \in Nat
    BY DEF IInv, TypeOK
  <2>3. revision \in Nat /\ (asked[r] # None => asked[r].expected <= revision)
        /\ (applied[r] # 0 => applied[r] = 1 /\ asked[r] # None /\ asked[r].expected < revision)
    BY DEF IInv, TypeOK, RequestInv
  <2> QED
    BY <1>3, <2>2, <2>3
<1> QED
  BY <1>3, <1>4, <1>5, <1>6 DEF IInv

(* What a replay leaves, applied or not.                                    *)
LEMMA ReplayFacts ==
  ASSUME IInv, NEW redo \in BOOLEAN, NEW result \in {"applied", "none"}, Replay(redo, result)
  PROVE  /\ desk' \in Desks
         /\ revision' \in Nat /\ revision' >= revision
         /\ result = "applied" => revision' = revision + 1
         /\ history' \in Histories /\ Sound(history')
         /\ failed' \in BOOLEAN
         /\ replays' \in Nat
         /\ \A g \in Groups : g \in history.closed \/ g = history.group => g \in history'.closed \/ g = history'.group
         /\ start = None \/ desk' = desk
<1>1. /\ desk \in Desks /\ revision \in Nat /\ history \in Histories /\ failed \in BOOLEAN /\ Sound(history)
      /\ replays \in Nat /\ life \in [Windows -> Nat]
  BY DEF IInv, TypeOK
<1>2. CASE Refused /\ result = "none"
  BY <1>1, <1>2 DEF Refused
<1>3. CASE /\ result = "none" /\ history' = CloseGroup(history) /\ failed' \in BOOLEAN
           /\ UNCHANGED <<desk, revision, replays>>
  BY <1>1, <1>3, CloseFacts, NoneAssumption
<1>4. CASE /\ ~(failed \/ Busy \/ Index(redo) \notin DOMAIN history.entries)
           /\ result = "applied" /\ Replayed(redo)
  <2> DEFINE i == Index(redo)
             h == CloseGroup(history)
             now == Frame(desk, life)
             e == [h.entries[i] EXCEPT !.of = None]
             f == IF redo THEN [e EXCEPT !.before = now] ELSE [e EXCEPT !.after = now]
             c == IF redo THEN h.cursor + 1 ELSE h.cursor - 1
             x == [h.entries EXCEPT ![i] = f]
  <2>1. /\ h \in Histories /\ Sound(h) /\ h.entries = history.entries /\ h.cursor = history.cursor
        /\ h.group = None /\ history.closed \subseteq h.closed
        /\ history.group # None => history.group \in h.closed
    BY <1>1, CloseFacts
  <2>2. h.entries \in Seq(Entries) /\ i \in 1 .. Len(h.entries) /\ h.cursor \in Nat /\ h.cursor <= Len(h.entries)
    BY <1>4, <2>1 DEF Histories
  <2>3. h.entries[i] \in Entries
    BY <2>2
  <2>4. now \in Frames
    BY <1>1 DEF Frame, Frames
  <2>5. f \in Entries /\ f.of = None
    BY <2>3, <2>4 DEF Entries
  <2>6. history' = [h EXCEPT !.cursor = c, !.entries = x]
    BY <1>4 DEF Replayed
  <2>7. c \in Nat /\ c <= Len(h.entries)
    BY <2>1, <2>2 DEF Index
  <2>8. x \in Seq(Entries) /\ Len(x) = Len(h.entries) /\ \A j \in 1 .. Len(h.entries) : x[j] = IF j = i THEN f ELSE h.entries[j]
    BY <2>2, <2>5, ExceptSeq
  <2> HIDE DEF h, f, c, x, i, e
  <2>9. /\ history'.cursor = c /\ history'.entries = x /\ history'.group = h.group /\ history'.closed = h.closed
        /\ history' \in [entries : Seq(Entries), cursor : Nat, group : Groups \cup {None}, closed : SUBSET Groups]
    BY <2>1, <2>6, <2>7, <2>8 DEF Histories
  <2>10. history' \in Histories
    BY <2>7, <2>8, <2>9, <2>1 DEF Histories
  <2>11. Sound(history')
    <3>1. OpenInv(history')
      BY <2>1, <2>9 DEF OpenInv
    <3>2. \A j \in 1 .. Len(h.entries) : Alone(x[j])
      BY <2>1, <2>2, <2>5, <2>8 DEF Sound, Alone
    <3> QED
      BY <2>8, <2>9, <2>2, <3>1, <3>2 DEF Sound
  <2>12. desk' \in Desks
    <3>1. Target(redo) \in Frames
      BY <2>1, <2>3 DEF Target, Entries, i
    <3> QED
      BY <1>1, <1>4, <3>1, RestoresType DEF Replayed
  <2>13. revision' = revision + 1 /\ replays' = replays + 1 /\ failed' = failed
    BY <1>4 DEF Replayed
  <2>14. start = None
    BY <1>4 DEF Busy
  <2> QED
    BY <1>1, <2>1, <2>9, <2>10, <2>11, <2>12, <2>13, <2>14, NoneAssumption
<1> QED
  BY <1>2, <1>3, <1>4 DEF Replay

LEMMA Inductive == IInv /\ [Next]_vars => IInv'
<1> SUFFICES ASSUME IInv, [Next]_vars PROVE IInv'
  OBVIOUS
<1>0. /\ desk \in Desks /\ revision \in Nat /\ history \in Histories /\ failed \in BOOLEAN /\ Sound(history)
      /\ lives \in Nat /\ life \in [Windows -> 0 .. lives] /\ life \in [Windows -> Nat]
      /\ start \in Frames \cup {None} /\ changed \in SUBSET Windows
      /\ asked \in [Requests -> [redo : BOOLEAN, expected : Nat] \cup {None}]
  BY DEF IInv, TypeOK
<1>1. ASSUME NEW k \in Windows, NEW p \in Spots, NEW g \in Groups \cup {None}, Map(k, p, g) PROVE IInv'
  <2>1. lives' \in Nat /\ life' \in [Windows -> 0 .. lives'] /\ life' \in [Windows -> Nat]
    BY <1>0, <1>1 DEF Map
  <2>2. PICK w \in Cuts(life') : Becomes(w, [w.desk EXCEPT ![k] = p], life', g)
    BY <1>1 DEF Map
  <2> QED
    BY <1>1, <2>1, <2>2, CommandFacts DEF Map, Rest
<1>2. ASSUME NEW k \in Windows, Close(k) PROVE IInv'
  <2>1. lives' \in Nat /\ life' \in [Windows -> 0 .. lives'] /\ life' \in [Windows -> Nat]
    BY <1>0, <1>2 DEF Close
  <2>2. PICK w \in Cuts(life') : Becomes(w, [w.desk EXCEPT ![k] = None], life', None)
    BY <1>2 DEF Close
  <2> QED
    BY <1>2, <2>1, <2>2, CommandFacts DEF Close, Rest
<1>3. ASSUME NEW k \in Windows, NEW p \in Spots, Move(k, p) PROVE IInv'
  <2>1. lives' \in Nat /\ life' \in [Windows -> 0 .. lives']
    BY <1>0, <1>3 DEF Move
  <2>2. PICK w \in Cuts(life) : Becomes(w, [w.desk EXCEPT ![k] = p], life, None)
    BY <1>3 DEF Move
  <2> QED
    BY <1>0, <1>3, <2>1, <2>2, CommandFacts DEF Move, Rest
<1>4. CASE DragBegin
  <2>1. Frame(desk, life) \in Frames
    BY <1>0 DEF Frame, Frames
  <2>2. TypeOK'
    BY <1>4, <2>1 DEF DragBegin, Rest, IInv, TypeOK
  <2>3. StartInv'
    BY <1>4 DEF DragBegin, StartInv, Frame
  <2> QED
    BY <1>4, <2>2, <2>3 DEF DragBegin, Rest, IInv, RequestInv, LaunchInv
<1>5. ASSUME NEW k \in Windows, NEW p \in Spots, Resize(k, p) PROVE IInv'
  <2>1. desk' \in Desks /\ revision' = revision + 1 /\ changed' \in SUBSET Windows
    BY <1>0, <1>5 DEF Resize, Desks, Places
  <2>2. TypeOK'
    BY <1>0, <1>5, <2>1 DEF Resize, Rest, IInv, TypeOK
  <2>3. StartInv'
    BY <1>0, <1>5 DEF Resize, IInv, StartInv, Desks
  <2>4. RequestInv'
    <3>1. \A r \in Requests : asked[r] # None => asked[r].expected \in Nat
      BY <1>0
    <3> QED
      BY <1>0, <1>5, <2>1, <3>1 DEF Resize, Rest, IInv, RequestInv
  <2> QED
    BY <1>5, <2>2, <2>3, <2>4 DEF Resize, Rest, IInv, LaunchInv
<1>6. ASSUME NEW cancelled \in BOOLEAN, DragEnd(cancelled) PROVE IInv'
  <2>1. Cut([desk |-> desk', revision |-> revision', history |-> history', failed |-> failed'])
    <3>1. CASE cancelled
      <4>1. PICK w \in Cuts(life) : desk' = w.desk /\ revision' = w.revision /\ history' = w.history /\ failed' = w.failed
        BY <1>6, <3>1 DEF DragEnd
      <4>2. Cut(w)
        BY <1>0, CutFacts
      <4> QED
        BY <4>1, <4>2 DEF Cut
    <3>2. CASE ~cancelled /\ start = None
      BY <1>0, <1>6, <3>2 DEF DragEnd, Cut
    <3>3. CASE ~cancelled /\ start # None
      <4> DEFINE r == Record(history, start, Frame(desk, life), None, changed)
      <4>1. history' = r /\ UNCHANGED <<desk, revision, failed>>
        BY <1>6, <3>3 DEF DragEnd
      <4>2. start \in Frames /\ Frame(desk, life) \in Frames
        BY <1>0, <3>3 DEF Frame, Frames
      <4>3. \A k \in Windows \ changed : start.desk[k] = Frame(desk, life).desk[k]
        BY <3>3 DEF IInv, StartInv, Frame
      <4>4. /\ r \in Histories /\ Sound(r) /\ history.closed \subseteq r.closed
            /\ history.group # None => history.group \in r.closed \/ history.group = r.group
        BY <1>0, <4>2, <4>3, RecordFacts
      <4> HIDE DEF r
      <4> QED
        BY <1>0, <4>1, <4>4 DEF Cut
    <3> QED
      BY <3>1, <3>2, <3>3
  <2>2. /\ desk' \in Desks /\ revision' \in Nat /\ revision' >= revision /\ history' \in Histories /\ Sound(history')
        /\ failed' \in BOOLEAN /\ history.closed \subseteq history'.closed
        /\ history.group # None => history.group \in history'.closed \/ history.group = history'.group
    BY <2>1 DEF Cut
  <2>3. UNCHANGED <<life, lives, begun, asked, receipts, applied, replays>> /\ dragging' = FALSE /\ Ended
    BY <1>6 DEF DragEnd, Rest
  <2>4. TypeOK'
    BY <2>2, <2>3 DEF IInv, TypeOK, Ended
  <2>5. StartInv'
    BY <2>3 DEF StartInv, Ended
  <2>6. RequestInv'
    <3>1. \A r \in Requests : asked[r] # None => asked[r].expected \in Nat
      BY <1>0
    <3> QED
      BY <1>0, <2>2, <2>3, <3>1 DEF IInv, RequestInv
  <2>7. LaunchInv'
    BY <2>2, <2>3, NoneAssumption DEF IInv, LaunchInv
  <2> QED
    BY <2>2, <2>4, <2>5, <2>6, <2>7 DEF IInv
<1>7. ASSUME NEW redo \in BOOLEAN, Undo(redo) PROVE IInv'
  <2>1. PICK result \in {"applied", "none"} : Replay(redo, result)
    BY <1>7 DEF Undo
  <2>2. UNCHANGED <<life, lives, start, dragging, changed, asked, receipts, applied, begun>>
    BY <1>7 DEF Undo
  <2>3. TypeOK'
    BY <2>1, <2>2, ReplayFacts DEF IInv, TypeOK
  <2>4. StartInv'
    BY <2>1, <2>2, ReplayFacts DEF IInv, StartInv
  <2>5. RequestInv'
    <3>1. revision' \in Nat /\ revision' >= revision
      BY <2>1, ReplayFacts
    <3>2. \A r \in Requests : asked[r] # None => asked[r].expected \in Nat
      BY <1>0
    <3> QED
      BY <1>0, <2>2, <3>1, <3>2 DEF IInv, RequestInv
  <2>6. LaunchInv'
    BY <2>1, <2>2, ReplayFacts DEF IInv, LaunchInv
  <2> QED
    BY <2>1, <2>3, <2>4, <2>5, <2>6, ReplayFacts DEF IInv
<1>8. ASSUME NEW r \in Requests, NEW redo \in BOOLEAN, Ask(r, redo) PROVE IInv'
  <2>1. asked' = [asked EXCEPT ![r] = [redo |-> redo, expected |-> revision]]
    BY <1>8 DEF Ask
  <2>2. UNCHANGED <<desk, revision, life, lives, history, start, dragging, changed, receipts, failed, applied, begun, replays>>
    BY <1>8 DEF Ask
  <2>3. asked' \in [Requests -> [redo : BOOLEAN, expected : Nat] \cup {None}]
    BY <1>0, <2>1
  <2>4. TypeOK'
    BY <2>2, <2>3 DEF IInv, TypeOK
  <2>5. RequestInv'
    BY <1>0, <1>8, <2>1, <2>2 DEF IInv, RequestInv, Ask
  <2> QED
    BY <2>2, <2>4, <2>5 DEF IInv, StartInv, LaunchInv
<1>9. ASSUME NEW r \in Requests, Deliver(r) PROVE IInv'
  <2>1. PICK result \in {"applied", "none"} :
          /\ IF Current(r) THEN Replay(asked[r].redo, result) ELSE result = "none" /\ Refused
          /\ applied' = [applied EXCEPT ![r] = IF result = "applied" THEN @ + 1 ELSE @]
    BY <1>9 DEF Deliver
  <2>2. asked[r] # None /\ receipts' = receipts \cup {r} /\ UNCHANGED <<life, lives, start, dragging, changed, asked, begun>>
    BY <1>9 DEF Deliver
  <2>3. asked[r].redo \in BOOLEAN /\ asked[r].expected \in Nat
    BY <1>0, <2>2
  <2>4. /\ desk' \in Desks
        /\ revision' \in Nat /\ revision' >= revision
        /\ result = "applied" => asked[r].expected = revision /\ revision' = revision + 1
        /\ history' \in Histories /\ Sound(history')
        /\ failed' \in BOOLEAN
        /\ replays' \in Nat
        /\ \A g \in Groups : g \in history.closed \/ g = history.group => g \in history'.closed \/ g = history'.group
        /\ start = None \/ desk' = desk
    <3>1. CASE Current(r)
      BY <2>1, <2>3, <3>1, ReplayFacts DEF Current
    <3>2. CASE ~Current(r)
      BY <1>0, <2>1, <3>2 DEF Refused, IInv, TypeOK
    <3> QED
      BY <3>1, <3>2
  <2>5. applied \in [Requests -> Nat] /\ applied' \in [Requests -> Nat]
    BY <2>1 DEF IInv, TypeOK
  <2>6. TypeOK'
    BY <2>2, <2>4, <2>5 DEF IInv, TypeOK
  <2>7. StartInv'
    BY <2>2, <2>4 DEF IInv, StartInv
  <2>8. RequestInv'
    <3>1. SUFFICES ASSUME NEW x \in Requests
                   PROVE  /\ asked[x] # None => asked[x].expected <= revision'
                          /\ applied'[x] # 0 => applied'[x] = 1 /\ asked[x] # None /\ asked[x].expected < revision'
      BY <2>2 DEF RequestInv
    <3>2. /\ asked[x] # None => asked[x].expected \in Nat /\ asked[x].expected <= revision
          /\ applied[x] # 0 => applied[x] = 1 /\ asked[x] # None /\ asked[x].expected < revision
      BY <1>0 DEF IInv, RequestInv
    <3>3. CASE x = r /\ result = "applied"
      BY <1>0, <2>1, <2>2, <2>3, <2>4, <2>5, <3>2, <3>3
    <3>4. CASE ~(x = r /\ result = "applied")
      <4>1. applied'[x] = applied[x]
        BY <2>1, <2>5, <3>4
      <4> QED
        BY <1>0, <2>4, <3>2, <4>1
    <3> QED
      BY <3>3, <3>4
  <2>9. LaunchInv'
    BY <2>2, <2>4 DEF IInv, LaunchInv
  <2> QED
    BY <2>4, <2>6, <2>7, <2>8, <2>9 DEF IInv
<1>10. CASE Crowd
  BY <1>10 DEF Crowd, IInv, TypeOK, StartInv, RequestInv, LaunchInv
<1>11. ASSUME NEW k \in Windows, NEW p \in Spots, Edit(k, p) PROVE IInv'
  <2>1. desk' \in Desks /\ revision' = revision + 1 /\ changed' \in SUBSET Windows
    BY <1>0, <1>11 DEF Edit, Desks, Places
  <2>2. /\ history' \in Histories /\ Sound(history') /\ history.closed \subseteq history'.closed
        /\ history.group # None => history.group \in history'.closed \/ history.group = history'.group
    <3>1. CASE start = None
      <4>1. Frame(desk, life) \in Frames /\ Frame(desk', life) \in Frames
        BY <1>0, <2>1 DEF Frame, Frames
      <4>2. history' = Record(history, Frame(desk, life), Frame(desk', life), None, None)
        BY <1>11, <3>1 DEF Edit
      <4>3. None \in Groups \cup {None} /\ None \in (SUBSET Windows) \cup {None}
        OBVIOUS
      <4> QED
        BY <1>0, <4>1, <4>2, <4>3, RecordFacts
    <3>2. CASE start # None
      BY <1>0, <1>11, <3>2 DEF Edit
    <3> QED
      BY <3>1, <3>2
  <2>3. UNCHANGED <<life, lives, start, dragging, failed, begun, asked, receipts, applied, replays>>
    BY <1>11 DEF Edit, Rest
  <2>4. TypeOK'
    BY <1>0, <2>1, <2>2, <2>3 DEF IInv, TypeOK
  <2>5. StartInv'
    BY <1>0, <1>11, <2>3 DEF Edit, IInv, StartInv, Desks
  <2>6. RequestInv'
    <3>1. \A r \in Requests : asked[r] # None => asked[r].expected \in Nat
      BY <1>0
    <3> QED
      BY <1>0, <2>1, <2>3, <3>1 DEF IInv, RequestInv
  <2>7. LaunchInv'
    BY <2>2, <2>3, NoneAssumption DEF IInv, LaunchInv
  <2> QED
    BY <2>2, <2>4, <2>5, <2>6, <2>7 DEF IInv
<1>12. CASE UNCHANGED vars
  BY <1>12 DEF vars, IInv, TypeOK, StartInv, RequestInv, LaunchInv
<1> QED
  BY <1>1, <1>2, <1>3, <1>4, <1>5, <1>6, <1>7, <1>8, <1>9, <1>10, <1>11, <1>12 DEF Next

(* The invariant holds of every behaviour of the history.                   *)
THEOREM Invariance == Spec => []IInv
BY Initial, Inductive, PTL DEF Spec

(* The history keeps its types: its entries within the limit, its cursor    *)
(* within the entries.                                                      *)
THEOREM TypeCorrect == Spec => []TypeOK
<1>1. IInv => TypeOK
  BY DEF IInv
<1> QED
  BY <1>1, Invariance, PTL

(* A request of a client is carried out once, though it is sent again after *)
(* its receipt was pushed out.                                              *)
THEOREM RequestsOnce == Spec => []AtMostOnce
<1>1. IInv => AtMostOnce
  <2>1. SUFFICES ASSUME IInv, NEW r \in Requests PROVE applied[r] <= 1
    BY DEF AtMostOnce
  <2>2. applied[r] \in Nat /\ (applied[r] # 0 => applied[r] = 1)
    BY <2>1 DEF IInv, TypeOK, RequestInv
  <2> QED
    BY <2>2
<1> QED
  BY <1>1, Invariance, PTL

(* A launch of several windows has one entry.                               *)
THEOREM LaunchesOnce == Spec => []LaunchOnce
<1>1. IInv => LaunchOnce
  <2>1. SUFFICES ASSUME IInv, NEW g \in Groups PROVE begun[g] <= 1
    BY DEF LaunchOnce
  <2>2. begun[g] \in Nat /\ (begun[g] # 0 => begun[g] = 1)
    BY <2>1 DEF IInv, TypeOK, LaunchInv
  <2> QED
    BY <2>2
<1> QED
  BY <1>1, Invariance, PTL

(* An entry of a resize holds nothing but the windows that were resized, or *)
(* moved by the editor, before a command cut it short.                      *)
THEOREM ResizesAlone == Spec => []ResizeAlone
<1>1. IInv => ResizeAlone
  BY DEF IInv, Sound, Alone, ResizeAlone
<1> QED
  BY <1>1, Invariance, PTL

(* A replay moves no window that came after the frame it goes back to.      *)
LEMMA ReplayKeepsNewcomers ==
  ASSUME IInv, NEW redo \in BOOLEAN, NEW result \in {"applied", "none"}, Replay(redo, result), replays' # replays
  PROVE  LET frame == IF history'.cursor > history.cursor THEN history.entries[history'.cursor].after
                                                           ELSE history.entries[history.cursor].before IN
         \A k \in Windows : frame.life[k] # life[k] \/ frame.desk[k] = None => desk'[k] \in {desk[k], Aside}
<1>1. Replayed(redo)
  BY DEF Replay, Refused
<1>2. history \in Histories /\ Sound(history)
  BY DEF IInv, TypeOK
<1>3. history'.cursor = IF redo THEN history.cursor + 1 ELSE history.cursor - 1
  <2> DEFINE h == CloseGroup(history)
  <2>1. h \in Histories /\ h.cursor = history.cursor
    BY <1>2, CloseFacts
  <2> HIDE DEF h
  <2>2. h.cursor \in Nat
    BY <2>1 DEF Histories
  <2>3. \E x : history' = [h EXCEPT !.cursor = IF redo THEN @ + 1 ELSE @ - 1, !.entries = x]
    BY <1>1 DEF Replayed, h
  <2> QED
    BY <2>1, <2>3 DEF Histories
<1>4. history.cursor \in Nat
  BY <1>2 DEF Histories
<1>5. (IF history'.cursor > history.cursor THEN history.entries[history'.cursor].after
                                           ELSE history.entries[history.cursor].before) = Target(redo)
  BY <1>3, <1>4 DEF Target, Index
<1>6. desk' \in Restores(desk, life, Target(redo))
  BY <1>1 DEF Replayed
<1>7. \A k \in Windows : Target(redo).life[k] # life[k] \/ Target(redo).desk[k] = None => desk'[k] \in {desk[k], Aside}
  BY <1>6 DEF Restores, Retained
<1> QED
  BY <1>5, <1>7

(* Undo and redo move the windows of the frame alone; one that came later,  *)
(* on the address of one of them too, stays or steps aside.                 *)
THEOREM NewcomersUndisturbed == Spec => NewcomersStay
<1> DEFINE Stays ==
      replays' # replays =>
        LET frame == IF history'.cursor > history.cursor THEN history.entries[history'.cursor].after
                                                          ELSE history.entries[history.cursor].before IN
        \A k \in Windows :
          frame.life[k] # life[k] \/ frame.desk[k] = None => desk'[k] \in {desk[k], Aside}
<1>1. IInv /\ [Next]_vars => [Stays]_vars
  <2> SUFFICES ASSUME IInv, Next, replays' # replays PROVE Stays
    BY DEF vars
  <2>1. \/ \E redo \in BOOLEAN : Undo(redo)
        \/ \E r \in Requests : Deliver(r)
    BY DEF Next, Map, Close, Move, Edit, DragBegin, Resize, DragEnd, Ask, Crowd, Rest
  <2>2. ASSUME NEW redo \in BOOLEAN, Undo(redo) PROVE Stays
    BY <2>2, ReplayKeepsNewcomers DEF Undo
  <2>3. ASSUME NEW r \in Requests, Deliver(r) PROVE Stays
    <3>1. Current(r)
      BY <2>3 DEF Deliver, Refused
    <3>2. asked[r].redo \in BOOLEAN
      BY <2>3 DEF IInv, TypeOK, Deliver
    <3> QED
      BY <2>3, <3>1, <3>2, ReplayKeepsNewcomers DEF Deliver
  <2> QED
    BY <2>1, <2>2, <2>3
<1>2. Spec => [][Stays]_vars
  BY <1>1, Invariance, PTL DEF Spec
<1> QED
  BY <1>2 DEF NewcomersStay
=============================================================================
