--------------------------- MODULE SpatialHistory ---------------------------
(***************************************************************************)
(* Undo and redo of the desktop, and what runs into them: commands of      *)
(* windows that open, move and close, the pointer that resizes a window    *)
(* while they do, and requests of clients that are asked again because an  *)
(* answer got lost.  A desk is a place for each window; everything else a  *)
(* snapshot holds is left out.  A call of the compositor is one step, its  *)
(* native commit may fail in every one.                                    *)
(***************************************************************************)
EXTENDS Integers, Sequences, FiniteSets

CONSTANTS
  Windows,     \* addresses, that are used again
  Spots,
  Aside,       \* a place no restored view shows
  Groups,      \* launches of several windows at once
  Requests,    \* ids of undo and redo requests
  None,
  Limit,       \* entries that are kept
  MaxLives,    \* bound on the windows that open
  MaxRevision, \* bound on the changes of the desk
  MaxReplays   \* bound on undo and redo

Places == Spots \cup {Aside}

ASSUME Limits == Limit \in Nat \ {0}
ASSUME NoneAssumption == None \notin Groups /\ None \notin Places
ASSUME Bounds == MaxLives \in Nat /\ MaxRevision \in Nat /\ MaxReplays \in Nat

VARIABLES
  desk,      \* the model: where each window is
  revision,
  life,      \* m_lifetimes: which window an address stands for, 0 for none
  lives,     \* m_nextLifetime
  history,   \* the entries, the cursor and the launch groups
  start,     \* m_resizeStart: the frame before the resize
  dragging,  \* the drag controller has a target
  changed,   \* history: the windows changed during this resize, and not by a command
  asked,     \* what each request says
  receipts,  \* the requests among m_receipts
  failed,    \* m_historyRecoveryFailed
  applied,   \* history: how often each request was carried out
  begun,     \* history: how many entries each launch has begun
  replays    \* history: replays that were applied

vars == <<desk, revision, life, lives, history, start, dragging, changed, asked, receipts,
          failed, applied, begun, replays>>

Frame(d, l) == [desk |-> d, life |-> l]

Init ==
  /\ desk = [k \in Windows |-> None]
  /\ revision = 0
  /\ life = [k \in Windows |-> 0]
  /\ lives = 0
  /\ history = [entries |-> <<>>, cursor |-> 0, group |-> None, closed |-> {}]
  /\ start = None
  /\ dragging = FALSE
  /\ changed = {}
  /\ asked = [r \in Requests |-> None]
  /\ receipts = {}
  /\ failed = FALSE
  /\ applied = [r \in Requests |-> 0]
  /\ begun = [g \in Groups |-> 0]
  /\ replays = 0

-----------------------------------------------------------------------------
(* CLuminophoreSpatialHistory.                                              *)

(* trim(): the oldest entries go.                                           *)
Trim(h) ==
  LET n == Len(h.entries) - Limit IN
  IF n <= 0 THEN h
  ELSE [h EXCEPT !.entries = SubSeq(@, n + 1, Len(@)), !.cursor = IF @ > n THEN @ - n ELSE 0]

\* Fault: a launch that is over is forgotten.
CloseGroup_Forgets(h) == [h EXCEPT !.group = None]

CloseGroup(h) ==
  [h EXCEPT !.closed = IF h.group = None THEN @ ELSE @ \cup {h.group}, !.group = None]

Eligible(h, g) == g # None /\ g \notin h.closed
Extends(h, g) == Eligible(h, g) /\ g = h.group /\ h.cursor = Len(h.entries) /\ h.entries # <<>>

(* record(): an entry of its own, or the last one of its launch goes on.    *)
Record(h, before, after, g, of) ==
  IF before.desk = after.desk THEN h
  ELSE IF Extends(h, g)
  THEN [h EXCEPT !.entries[Len(h.entries)].after = after]
  ELSE Trim([CloseGroup(h) EXCEPT
              !.group = IF Eligible(h, g) THEN g ELSE None,
              !.entries = Append(SubSeq(@, 1, h.cursor), [before |-> before, after |-> after, of |-> of]),
              !.cursor = h.cursor + 1])

\* Fault: a window is taken for another that had its address.
Retained_Addresses(frame, l) == {k \in Windows : frame.life[k] # 0 /\ l[k] # 0 /\ frame.desk[k] # None}

(* The windows of the frame that are still there.                           *)
Retained(frame, l) == {k \in Windows : frame.life[k] # 0 /\ l[k] = frame.life[k] /\ frame.desk[k] # None}

(* restoreSpatial(): they go back, a later one may have to step aside.      *)
Restores(d, l, frame) ==
  LET back == Retained(frame, l)
      others == {k \in Windows \ back : d[k] # None} IN
  {[k \in Windows |-> IF k \in back THEN frame.desk[k] ELSE IF k \in aside THEN Aside ELSE d[k]] :
     aside \in SUBSET others}

-----------------------------------------------------------------------------
(* A resize and what ends it.                                               *)

World == [desk |-> desk, revision |-> revision, history |-> history, failed |-> failed]

(* resizeGesture(false, true): the resize is taken back, or is an entry of  *)
(* its own when that fails, that may have left it undone half way.  l are   *)
(* the windows of this moment.                                              *)
Cuts(l) ==
  IF start = None THEN {World}
  ELSE {[World EXCEPT !.desk = d, !.revision = @ + 1] : d \in Restores(desk, l, start)}
       \cup {[World EXCEPT !.history = Record(@, start, Frame(desk, l), None, changed), !.failed = f] :
               f \in {failed, TRUE}}

\* Fault: the frame before the resize stays.
Ended_Keeps == UNCHANGED <<start, changed>>

Ended ==
  /\ start' = None
  /\ changed' = {}

(* What a command leaves of the world: unchanged when its commit fails.     *)
Becomes(w, d, l, g) ==
  /\ revision < MaxRevision
  /\ failed' = w.failed
  /\ \/ /\ desk' = w.desk
        /\ revision' = w.revision
        /\ history' = w.history
        /\ UNCHANGED begun
     \/ /\ desk' = d
        /\ d # w.desk
        /\ revision' = w.revision + 1
        /\ history' = Record(w.history, Frame(w.desk, l), Frame(d, l), g, None)
        /\ begun' = [x \in Groups |-> IF x = g /\ Eligible(w.history, g) /\ ~Extends(w.history, g)
                                      THEN begun[x] + 1 ELSE begun[x]]

Rest == <<asked, receipts, applied, replays>>

(* submit() of a window that appears, alone or with its launch ...          *)
Map(k, p, g) ==
  /\ life[k] = 0
  /\ lives < MaxLives
  /\ lives' = lives + 1
  /\ life' = [life EXCEPT ![k] = lives + 1]
  /\ \E w \in Cuts(life') : Becomes(w, [w.desk EXCEPT ![k] = p], life', g)
  /\ Ended
  /\ UNCHANGED <<dragging, Rest>>

(* ... that closes ...                                                      *)
Close(k) ==
  /\ life[k] # 0
  /\ life' = [life EXCEPT ![k] = 0]
  /\ \E w \in Cuts(life') : Becomes(w, [w.desk EXCEPT ![k] = None], life', None)
  /\ Ended
  /\ UNCHANGED <<lives, dragging, Rest>>

(* ... that is moved, or put on the desk when an earlier commit failed.     *)
Move(k, p) ==
  /\ life[k] # 0
  /\ \E w \in Cuts(life) : Becomes(w, [w.desk EXCEPT ![k] = p], life, None)
  /\ Ended
  /\ UNCHANGED <<life, lives, dragging, Rest>>

(* edit(): a move by the spatial editor does not go through submit().  It   *)
(* cuts no resize short, and is recorded only when there is none.           *)
Edit(k, p) ==
  /\ desk[k] \notin {None, p}
  /\ revision < MaxRevision
  /\ desk' = [desk EXCEPT ![k] = p]
  /\ revision' = revision + 1
  /\ history' = IF start = None THEN Record(history, Frame(desk, life), Frame(desk', life), None, None)
                ELSE history
  /\ changed' = IF start = None THEN {} ELSE changed \cup {k}
  /\ UNCHANGED <<life, lives, start, dragging, failed, begun, Rest>>

(* The pointer.  Resizes are committed and not recorded; of a drag that was *)
(* cut short neither are those that follow.                                 *)
DragBegin ==
  /\ ~dragging
  /\ revision < MaxRevision
  /\ dragging' = TRUE
  /\ start' = Frame(desk, life)
  /\ changed' = {}
  /\ UNCHANGED <<desk, revision, life, lives, history, failed, begun, Rest>>

Resize(k, p) ==
  /\ dragging
  /\ desk[k] \notin {None, p}
  /\ revision < MaxRevision
  /\ desk' = [desk EXCEPT ![k] = p]
  /\ revision' = revision + 1
  /\ changed' = IF start = None THEN {} ELSE changed \cup {k}
  /\ UNCHANGED <<life, lives, history, start, dragging, failed, begun, Rest>>

DragEnd(cancelled) ==
  /\ dragging
  /\ dragging' = FALSE
  /\ IF cancelled
     THEN \E w \in Cuts(life) :
            /\ desk' = w.desk
            /\ revision' = w.revision
            /\ history' = w.history
            /\ failed' = w.failed
     ELSE /\ history' = IF start = None THEN history
                        ELSE Record(history, start, Frame(desk, life), None, changed)
          /\ UNCHANGED <<desk, revision, failed>>
  /\ Ended
  /\ UNCHANGED <<life, lives, begun, Rest>>

-----------------------------------------------------------------------------
(* historyReplay(), replayNative() and commitHistory().                     *)

Busy == start # None \/ dragging

Index(redo) == IF redo THEN history.cursor + 1 ELSE history.cursor
Target(redo) == LET e == history.entries[Index(redo)] IN IF redo THEN e.after ELSE e.before

Refused == UNCHANGED <<desk, revision, history, failed, replays>>

Replayed(redo) ==
  /\ replays < MaxReplays
  /\ replays' = replays + 1
  /\ revision' = revision + 1
  /\ desk' \in Restores(desk, life, Target(redo))
  /\ LET h == CloseGroup(history)
         e == [h.entries[Index(redo)] EXCEPT !.of = None]
         now == Frame(desk, life) IN
       history' = [h EXCEPT !.cursor = IF redo THEN @ + 1 ELSE @ - 1,
                            !.entries[Index(redo)] = IF redo THEN [e EXCEPT !.before = now]
                                                             ELSE [e EXCEPT !.after = now]]
  /\ UNCHANGED failed

(* The result is APPLIED or another; a commit that could not be taken back  *)
(* ends undo for good.                                                      *)
Replay(redo, result) ==
  IF failed \/ Busy \/ Index(redo) \notin DOMAIN history.entries
  THEN result = "none" /\ Refused
  ELSE \/ result = "applied" /\ Replayed(redo)
       \/ /\ result = "none"
          /\ history' = CloseGroup(history)
          /\ failed' \in BOOLEAN
          /\ UNCHANGED <<desk, revision, replays>>

(* The keyboard.                                                            *)
Undo(redo) ==
  /\ \E result \in {"applied", "none"} : Replay(redo, result)
  /\ UNCHANGED <<life, lives, start, dragging, changed, asked, receipts, applied, begun>>

(* A client reads the revision and asks for a replay of it.                 *)
Ask(r, redo) ==
  /\ asked[r] = None
  /\ asked' = [asked EXCEPT ![r] = [redo |-> redo, expected |-> revision]]
  /\ UNCHANGED <<desk, revision, life, lives, history, start, dragging, changed, receipts,
                 failed, applied, begun, replays>>

\* Fault: a request counts whatever has happened since.
Current_Always(r) == TRUE

Current(r) == asked[r].expected = revision

(* CLuminophoreHistoryRequests::run(): the request arrives, as often as it  *)
(* likes; while its receipt is kept it is answered from that.               *)
Deliver(r) ==
  /\ asked[r] # None
  /\ r \notin receipts
  /\ \E result \in {"applied", "none"} :
       /\ IF Current(r) THEN Replay(asked[r].redo, result) ELSE result = "none" /\ Refused
       /\ applied' = [applied EXCEPT ![r] = IF result = "applied" THEN @ + 1 ELSE @]
  /\ receipts' = receipts \cup {r}
  /\ UNCHANGED <<life, lives, start, dragging, changed, asked, begun>>

(* Requests of others, refused for their revision, push the receipts out.   *)
Crowd ==
  /\ receipts # {}
  /\ receipts' = {}
  /\ UNCHANGED <<desk, revision, life, lives, history, start, dragging, changed, asked,
                 failed, applied, begun, replays>>

Next ==
  \/ \E k \in Windows, p \in Spots, g \in Groups \cup {None} : Map(k, p, g)
  \/ \E k \in Windows : Close(k)
  \/ \E k \in Windows, p \in Spots : Move(k, p)
  \/ \E k \in Windows, p \in Spots : Edit(k, p)
  \/ DragBegin
  \/ \E k \in Windows, p \in Spots : Resize(k, p)
  \/ \E cancelled \in BOOLEAN : DragEnd(cancelled)
  \/ \E redo \in BOOLEAN : Undo(redo)
  \/ \E r \in Requests, redo \in BOOLEAN : Ask(r, redo)
  \/ \E r \in Requests : Deliver(r)
  \/ Crowd

Spec == Init /\ [][Next]_vars

-----------------------------------------------------------------------------
Desks == [Windows -> Places \cup {None}]
Frames == [desk : Desks, life : [Windows -> Nat]]
Entries == [before : Frames, after : Frames, of : (SUBSET Windows) \cup {None}]
Histories ==
  {h \in [entries : Seq(Entries), cursor : Nat, group : Groups \cup {None}, closed : SUBSET Groups] :
     Len(h.entries) <= Limit /\ h.cursor <= Len(h.entries)}

TypeOK ==
  /\ desk \in Desks
  /\ revision \in Nat
  /\ lives \in Nat
  /\ life \in [Windows -> 0 .. lives]
  /\ history \in Histories
  /\ start \in Frames \cup {None}
  /\ dragging \in BOOLEAN
  /\ changed \subseteq Windows
  /\ asked \in [Requests -> [redo : BOOLEAN, expected : Nat] \cup {None}]
  /\ receipts \subseteq Requests
  /\ failed \in BOOLEAN
  /\ applied \in [Requests -> Nat]
  /\ begun \in [Groups -> Nat]
  /\ replays \in Nat

(* However often a request is sent, it is carried out once, even when its   *)
(* receipt is long gone.                                                    *)
AtMostOnce == \A r \in Requests : applied[r] <= 1

(* The windows of a launch are undone together: it has one entry, and a     *)
(* late window never gets into it once something else happened.             *)
LaunchOnce == \A g \in Groups : begun[g] <= 1

(* An entry of a resize holds what the pointer resized and what the editor  *)
(* moved meanwhile, and nothing of a command: no window that opened, closed *)
(* or was moved by submit() while the pointer was down is undone with it.   *)
ResizeAlone ==
  \A i \in DOMAIN history.entries :
    LET e == history.entries[i] IN
    e.of # None => \A k \in Windows \ e.of : e.before.desk[k] = e.after.desk[k]

(* historyReplay() moves the windows the frame shows.  One that came later, *)
(* on the address of one of them too, stays where it is or steps aside.     *)
NewcomersStay ==
  [][replays' # replays =>
       LET frame == IF history'.cursor > history.cursor THEN history.entries[history'.cursor].after
                                                        ELSE history.entries[history.cursor].before IN
       \A k \in Windows :
         frame.life[k] # life[k] \/ frame.desk[k] = None => desk'[k] \in {desk[k], Aside}]_vars
=============================================================================
