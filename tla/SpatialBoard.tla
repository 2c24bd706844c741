---------------------------- MODULE SpatialBoard ----------------------------
(***************************************************************************)
(* The boards of the desktop: a plane of cells for every monitor connector *)
(* that was ever there, on which each window, tiled or floating, has a     *)
(* cell of its own.  The commands of the model are operators from a desk   *)
(* to a desk, or to Refused, that change nothing then.  Monitors come and  *)
(* go, their windows move over to the nearest one and return; an earlier   *)
(* desk can be restored.  The views that scroll over the boards are left   *)
(* out: where one would matter, any cell near the origin may be meant.     *)
(***************************************************************************)
EXTENDS Integers, FiniteSets

CONSTANTS
  Windows,    \* public addresses, numbers
  Boards,     \* one per connector, numbers in the order they were first seen
  Near,       \* cells a view or an earlier anchor may point at
  Aside,      \* cells a restored view does not show
  Flows,      \* the ways a view fills up: to the right when it is high, else down
  Edges,      \* the sides of a view a rule may name
  None,
  Refused,
  MaxCommands \* bound on the commands of a behaviour

ASSUME Numbers == IsFiniteSet(Windows) /\ Windows \subseteq Nat /\ Boards \subseteq Nat
ASSUME NearAssumption == Near # {} /\ Near \cup Aside \subseteq Int \X Int
ASSUME Sides == Flows \cup Edges \subseteq {<<1, 0>>, <<0, 1>>, <<-1, 0>>, <<0, -1>>}
ASSUME Bound == MaxCommands \in Nat

VARIABLES
  desk,      \* the model's placement
  outputs,   \* the monitors that are there
  window,    \* what became of each window: new, shown, hidden (minimised) or closed
  frame,     \* the desk an undo goes back to, with the windows of its time
  home,      \* history: where a window was when its monitor was last taken from it
  astray,    \* history: the desk was restored from a time of other monitors, or with their places
  commands

vars == <<desk, outputs, window, frame, home, astray, commands>>

Cells == Int \X Int
Places == [board : Boards, cell : Cells, float : BOOLEAN]
Homes == [board : Boards, cell : Cells]
Modes == {"normal", "wide", "desktop"}
DeskType ==
  [at : [Windows -> Places \cup {None}], focus : Windows \cup {None}, bound : SUBSET Boards,
   displaced : [Windows -> Homes \cup {None}],
   mode : Modes, back : Modes \ {"desktop"}, wide : Windows \cup {None}]

ASSUME Nothings == None \notin Windows \cup Places \cup Homes /\ Refused \notin DeskType

EmptyDesk ==
  [at |-> [k \in Windows |-> None], focus |-> None, bound |-> {},
   displaced |-> [k \in Windows |-> None], mode |-> "normal", back |-> "normal", wide |-> None]

Init ==
  /\ desk = EmptyDesk
  /\ outputs = {}
  /\ window = [k \in Windows |-> "new"]
  /\ frame = None
  /\ home = [k \in Windows |-> None]
  /\ astray = FALSE
  /\ commands = 0

-----------------------------------------------------------------------------
(* The combined table of tiled and floating windows.                        *)

Placed(d) == {k \in Windows : d.at[k] # None}
On(d, b) == {k \in Placed(d) : d.at[k].board = b}
Tiled(d, b) == {k \in On(d, b) : ~d.at[k].float}
Taken(d, b) == {d.at[k].cell : k \in On(d, b)}
At(d, b, c) == {k \in On(d, b) : d.at[k].cell = c}

(* occupancyState(): no command goes on from two windows on one cell.       *)
Distinct(d) ==
  \A k, l \in Placed(d) :
    d.at[k].board = d.at[l].board /\ d.at[k].cell = d.at[l].cell => k = l

Place(d, k) == [board |-> d.at[k].board, cell |-> d.at[k].cell]
Put(d, k, b, c, f) == [d EXCEPT !.at[k] = [board |-> b, cell |-> c, float |-> f]]
Unfocus(d, k) == [d EXCEPT !.focus = IF @ = k THEN None ELSE @]
Take(d, k) == Unfocus([d EXCEPT !.at[k] = None], k)

Step(c, dir) == <<c[1] + dir[1], c[2] + dir[2]>>
Along(c, dir, n) == <<c[1] + n * dir[1], c[2] + n * dir[2]>>
Right == <<1, 0>>

Abs(n) == IF n < 0 THEN -n ELSE n
Ring(c, o) == Abs(c[1] - o[1]) + Abs(c[2] - o[2])
Sooner(c, e, o) ==
  \/ Ring(c, o) < Ring(e, o)
  \/ Ring(c, o) = Ring(e, o) /\ (c[1] < e[1] \/ (c[1] = e[1] /\ c[2] <= e[2]))

(* freeCoordinate(): ring by ring around the origin.                        *)
FreeCell(taken, o) ==
  LET r == Cardinality(taken)
      free == {c \in ((o[1] - r) .. (o[1] + r)) \X ((o[2] - r) .. (o[2] + r)) :
                 Ring(c, o) <= r /\ c \notin taken}
  IN  CHOOSE c \in free : \A e \in free : Sooner(c, e, o)

\* Fault: nobody is pushed.
Insert_InPlace(d, k, b, anchor, dir, specified) ==
  Put(d, k, b, IF specified \/ On(d, b) # {} THEN Step(anchor, dir) ELSE anchor, FALSE)

(* insertWindow() and the chain it pushes: the windows that stand in a row  *)
(* from the new one's cell move on by one.                                  *)
Insert(d, k, b, anchor, dir, specified) ==
  LET cell == IF specified \/ On(d, b) # {} THEN Step(anchor, dir) ELSE anchor
      row == {n \in 0 .. Cardinality(Windows) : \A m \in 0 .. n : Along(cell, dir, m) \in Taken(d, b)}
      pushed == {l \in On(d, b) : \E n \in row : d.at[l].cell = Along(cell, dir, n)}
      moved == [d EXCEPT !.at = [l \in Windows |->
                  IF l \in pushed THEN [d.at[l] EXCEPT !.cell = Step(@, dir)] ELSE d.at[l]]]
  IN  Put(moved, k, b, cell, FALSE)

(* Where a new window may be anchored: at the focused one, else at a view's *)
(* origin or the anchor of the last.                                        *)
AnchorsOf(d, b) ==
  IF d.focus # None /\ d.focus \in On(d, b) THEN {d.at[d.focus].cell} ELSE Near

(* addFloating(): on the free cell nearest to the one it prefers.           *)
AddFloating(d, k, b, cell) ==
  LET without == IF d.at[k] # None THEN Take(d, k) ELSE d IN
  IF Distinct(d) THEN Put(without, k, b, FreeCell(Taken(without, b), cell), TRUE) ELSE Refused

Greatest(S) == CHOOSE k \in S : \A l \in S : l <= k

(* A floating window of d gives way to those that have their place in e.    *)
GiveWay(d, e, k) == Put(e, k, d.at[k].board, FreeCell(Taken(e, d.at[k].board), d.at[k].cell), TRUE)

(* occupancyState(true) and assignOccupancy(): the tiled windows keep their *)
(* cells, the floating ones follow in the order of their addresses.         *)
Repair(d) ==
  LET floats == {k \in Placed(d) : d.at[k].float}
      after[S \in SUBSET floats] ==
        IF S = {} THEN [d EXCEPT !.at = [k \in Windows |-> IF k \in floats THEN None ELSE d.at[k]]]
                  ELSE GiveWay(d, after[S \ {Greatest(S)}], Greatest(S))
  IN  after[floats]

\* Fault: a window that left its place keeps its wide presentation.
Settled_Wide(d) ==
  [d EXCEPT !.focus = IF d.focus # None /\ d.at[d.focus] = None THEN None ELSE d.focus]

(* What every command ends with: a focus that is placed, a wide window that *)
(* is tiled.                                                                *)
Settled(d) ==
  LET e == [d EXCEPT !.focus = IF d.focus # None /\ d.at[d.focus] = None THEN None ELSE d.focus]
      lost == e.wide # None /\ (IF e.at[e.wide] = None THEN TRUE ELSE e.at[e.wide].float)
  IN  IF lost
      THEN [e EXCEPT !.wide = None, !.back = "normal", !.mode = IF @ = "wide" THEN "normal" ELSE @]
      ELSE e

-----------------------------------------------------------------------------
(* Windows.                                                                 *)

(* SObserveWindowCommand of a window that is closed or minimised.           *)
Absent(d, k) == [Take(d, k) EXCEPT !.displaced[k] = None]

(* SMoveWindowToCommand: it changes places with whoever is there, and both  *)
(* are then where the user wants them.                                      *)
Move(d, k, b, c) ==
  LET other == At(d, b, c) \ {k}
      from == d.at[k]
      at == [l \in Windows |->
               CASE l = k -> [board |-> b, cell |-> c, float |-> from.float]
                 [] l \in other -> [board |-> from.board, cell |-> from.cell, float |-> d.at[l].float]
                 [] OTHER -> d.at[l]]
  IN  [d EXCEPT !.at = at,
                !.displaced = [l \in Windows |-> IF l \in other \cup {k} THEN None ELSE d.displaced[l]]]

(* SToggleDesktopCommand, SToggleWideCommand.                               *)
ToggleDesktop(d) ==
  IF d.mode = "desktop" THEN [d EXCEPT !.mode = d.back]
                        ELSE [d EXCEPT !.mode = "desktop", !.back = d.mode]

ToggleWide(d, k) ==
  IF d.wide = k /\ d.mode = "wide" THEN [d EXCEPT !.wide = None, !.mode = "normal"]
                                   ELSE [d EXCEPT !.wide = k, !.mode = "wide"]

(* SSpatialFocusCommand: a window that is revealed ends the desktop and the *)
(* wide presentation of another.                                            *)
Focus(d, k, reveal) ==
  LET hides == d.mode = "desktop" \/ (d.mode = "wide" /\ d.wide # k)
      shown == IF reveal /\ hides THEN [d EXCEPT !.mode = "normal", !.wide = None] ELSE d
  IN  [shown EXCEPT !.focus = k]

-----------------------------------------------------------------------------
(* SSpatialTopologyCommand.                                                 *)

(* A window whose board is back returns: a tiled one when no tiled one is   *)
(* on its cell, a floating one in any case.                                 *)
Return(d, k) ==
  LET lease == d.displaced[k]
      freed == [d EXCEPT !.displaced[k] = None]
  IN  CASE lease = None -> d
        [] lease # None /\ lease.board \notin d.bound -> d
        [] lease # None /\ lease.board \in d.bound /\ d.at[k] = None -> freed
        [] OTHER -> IF d.at[k].float
                    THEN Put(freed, k, lease.board, lease.cell, TRUE)
                    ELSE IF lease.cell \in {d.at[l].cell : l \in Tiled(d, lease.board)}
                         THEN d
                         ELSE Put(freed, k, lease.board, lease.cell, FALSE)

Returned(d) ==
  LET after[S \in SUBSET Windows] ==
        IF S = {} THEN d ELSE Return(after[S \ {Greatest(S)}], Greatest(S))
  IN  after[Windows]

\* Fault: the place a window leaves is overwritten when it moves on again.
Lease_Last(d, k) == [d EXCEPT !.displaced[k] = Place(d, k)]

(* displaced.try_emplace(): the first place is kept.                        *)
Lease(d, k) ==
  IF d.displaced[k] # None THEN d
  ELSE [d EXCEPT !.displaced[k] = Place(d, k)]

(* A tiled window is inserted as if nothing had the focus, which it keeps.  *)
Transfer(d, k, dest, anchor, dir) ==
  IF d = Refused \/ ~Distinct(d) THEN Refused
  ELSE LET leased == Lease(d, k) IN
       IF d.at[k].float
       THEN AddFloating(leased, k, dest, d.at[k].cell)
       ELSE Insert([leased EXCEPT !.at[k] = None], k, dest, anchor, dir, FALSE)

Leaving(d) == {k \in Placed(d) : d.at[k].board \notin d.bound}

(* Board by board: the tiled windows in the order of their cells, then the  *)
(* floating ones.                                                           *)
Before(p, k, q, l) ==
  CASE p.board # q.board -> p.board < q.board
    [] p.board = q.board /\ p.float # q.float -> q.float
    [] p.board = q.board /\ p.float /\ q.float -> k <= l
    [] OTHER -> p.cell[1] < q.cell[1] \/ (p.cell[1] = q.cell[1] /\ p.cell[2] <= q.cell[2])

LastOf(d, S) == CHOOSE k \in S : \A l \in S : Before(d.at[l], l, d.at[k], k)

\* Fault: only tiled windows are taken over to another board.
MovedOver_Tiled(d, dest, anchor, dir) ==
  LET after[S \in SUBSET {k \in Leaving(d) : ~d.at[k].float}] ==
        IF S = {} THEN d
        ELSE Transfer(after[S \ {LastOf(d, S)}], LastOf(d, S), dest[d.at[LastOf(d, S)].board], anchor, dir)
  IN  after[{k \in Leaving(d) : ~d.at[k].float}]

MovedOver(d, dest, anchor, dir) ==
  LET after[S \in SUBSET Leaving(d)] ==
        IF S = {} THEN d
        ELSE Transfer(after[S \ {LastOf(d, S)}], LastOf(d, S), dest[d.at[LastOf(d, S)].board], anchor, dir)
  IN  after[Leaving(d)]

(* The command as a whole.  dest is the nearest board of each that is gone, *)
(* anchor and dir what their views say.                                     *)
Followed(d, outs, dest, anchor, dir) ==
  LET returned == Returned([d EXCEPT !.bound = outs])
      over == IF outs = {} THEN returned ELSE MovedOver(returned, dest, anchor, dir)
      after == Settled(Repair(over))
  IN  IF over = Refused THEN Refused ELSE IF Distinct(after) THEN after ELSE Refused

-----------------------------------------------------------------------------
(* restoreSpatial(): a window that is there and was placed then goes back;  *)
(* one that came later keeps out of the restored view, on a free cell.      *)

Alive(k) == window[k] \in {"shown", "hidden"}
Excluded == {k \in Windows : Alive(k) /\ frame.window[k] = "hidden"}
Restorable == {k \in Placed(frame.desk) : Alive(k)} \ Excluded
Later(d) == Placed(d) \ (Restorable \cup Excluded)

\* Fault: a later window stays where it is.
Restored_InPlace(d, park) ==
  LET old == frame.desk
      at == [k \in Windows |->
               CASE k \in Restorable -> old.at[k]
                 [] k \in Later(d) -> d.at[k]
                 [] OTHER -> None]
      focus == IF old.focus \in Restorable THEN old.focus ELSE d.focus
  IN  [d EXCEPT !.at = at,
        !.displaced = [k \in Windows |-> IF k \in Restorable THEN old.displaced[k] ELSE None],
        !.focus = IF focus # None /\ at[focus] = None THEN None ELSE focus]

Restored(d, park) ==
  LET old == frame.desk
      at == [k \in Windows |->
               CASE k \in Restorable -> old.at[k]
                 [] k \in Later(d) -> [d.at[k] EXCEPT !.cell = park[k]]
                 [] OTHER -> None]
      focus == IF old.focus \in Restorable THEN old.focus ELSE d.focus
      wide == IF old.wide \in Restorable THEN old.wide ELSE None
  IN  Repair([d EXCEPT !.at = at,
        !.displaced = [k \in Windows |-> IF k \in Restorable THEN old.displaced[k] ELSE None],
        !.focus = IF focus # None /\ at[focus] = None THEN None ELSE focus,
        !.wide = wide,
        !.mode = IF wide = None /\ old.mode = "wide" THEN "normal" ELSE old.mode,
        !.back = IF wide = None THEN "normal" ELSE old.back])

(* Windows that are away can return: the boards they came from are gone,    *)
(* nobody is there, and each has a cell of its own.  A restored desk may    *)
(* say otherwise.                                                           *)
Returnable(d) ==
  \A k \in Windows : d.displaced[k] # None =>
    /\ d.displaced[k].board \notin d.bound \cup {d.at[l].board : l \in Placed(d)}
    /\ \A l \in Windows \ {k} : d.displaced[l] # d.displaced[k]

-----------------------------------------------------------------------------
Commit(d) ==
  /\ commands < MaxCommands
  /\ commands' = commands + 1
  /\ d # Refused
  /\ desk' = IF Distinct(d) THEN d ELSE desk

(* Bound: addresses grow in the order in which windows appear.              *)
Appears(k) ==
  /\ window[k] = "hidden" \/ (window[k] = "new" /\ \A l \in Windows : l < k => window[l] # "new")
  /\ window' = [window EXCEPT ![k] = "shown"]

(* A window appears, or is shown again: tiled beside its anchor, or beside  *)
(* the window that opened it, or at the edge a rule names ...               *)
OpenTiled(k, b) ==
  /\ Appears(k)
  /\ b \in desk.bound
  /\ \/ \E anchor \in AnchorsOf(desk, b), dir \in Flows :
          Commit(Settled(Insert(desk, k, b, anchor, dir, FALSE)))
     \/ \E l \in Tiled(desk, b) : Commit(Settled(Insert(desk, k, b, desk.at[l].cell, Right, FALSE)))
     \/ \E anchor \in Near, dir \in Edges : Commit(Settled(Insert(desk, k, b, anchor, dir, TRUE)))
  /\ UNCHANGED <<outputs, frame, home, astray>>

(* ... or floating.                                                         *)
OpenFloating(k, b, c) ==
  /\ Appears(k)
  /\ b \in desk.bound
  /\ Commit(Settled(AddFloating(desk, k, b, c)))
  /\ UNCHANGED <<outputs, frame, home, astray>>

(* It changes between the two and keeps its cell, or nearly.                *)
Reclassify(k) ==
  /\ k \in Placed(desk)
  /\ LET p == desk.at[k] IN
       Commit(Settled(IF p.float THEN Put(desk, k, p.board, p.cell, FALSE)
                                 ELSE AddFloating(desk, k, p.board, p.cell)))
  /\ UNCHANGED <<outputs, window, frame, home, astray>>

Leave(k, state) ==
  /\ window[k] = "shown"
  /\ Commit(Settled(Absent(desk, k)))
  /\ window' = [window EXCEPT ![k] = state]
  /\ home' = [home EXCEPT ![k] = None]
  /\ UNCHANGED <<outputs, frame, astray>>

MoveTo(k, b, c) ==
  /\ k \in Placed(desk)
  /\ b \in desk.bound
  /\ Commit(Settled(Move(desk, k, b, c)))
  /\ home' = [l \in Windows |-> IF l \in {k} \cup At(desk, b, c) THEN None ELSE home[l]]
  /\ UNCHANGED <<outputs, window, frame, astray>>

(* A tiled window is revealed, any window just takes the focus.             *)
FocusWindow(k, reveal) ==
  /\ k \in Placed(desk)
  /\ reveal => ~desk.at[k].float /\ desk.at[k].board \in desk.bound
  /\ Commit(Settled(Focus(desk, k, reveal)))
  /\ desk' # desk
  /\ UNCHANGED <<outputs, window, frame, home, astray>>

Present ==
  /\ \/ Commit(Settled(ToggleDesktop(desk)))
     \/ \E k \in Placed(desk) : ~desk.at[k].float /\ Commit(Settled(ToggleWide(desk, k)))
  /\ UNCHANGED <<outputs, window, frame, home, astray>>

(* The monitors change, and the model is told of it.  A command that is     *)
(* refused leaves a desk of monitors that are gone.                         *)
Connect(outs) ==
  /\ commands < MaxCommands
  /\ commands' = commands + 1
  /\ outs # outputs
  /\ outputs' = outs
  /\ home' = [k \in Windows |->
       CASE outs # {} /\ k \in Placed(desk) /\ home[k] = None /\ desk.at[k].board \notin outs -> Place(desk, k)
         [] outs # {} /\ k \in Placed(desk) /\ home[k] # None /\ home[k].board \in outs -> None
         [] OTHER -> home[k]]
  /\ \E dest \in [{desk.at[k].board : k \in Placed(desk)} -> IF outs = {} THEN {None} ELSE outs], anchor \in Near, dir \in Flows :
       LET d == Followed(desk, outs, dest, anchor, dir)
           settled == d # Refused /\ outs # {} /\ Returnable(d) /\ d.displaced = home'
       IN  /\ desk' = IF d = Refused THEN desk ELSE d
           /\ astray' = (astray /\ ~settled)
  /\ UNCHANGED <<window, frame>>

(* The history keeps a desk.  Bound: one.                                   *)
Keep ==
  /\ frame = None
  /\ frame' = [desk |-> desk, window |-> window, home |-> home]
  /\ UNCHANGED <<desk, outputs, window, home, astray, commands>>

Undo ==
  /\ frame # None
  /\ frame.desk.bound \subseteq desk.bound
  /\ commands < MaxCommands
  /\ commands' = commands + 1
  /\ \E park \in [Later(desk) -> Aside] :
       LET d == Restored(desk, park) IN
       /\ \A k \in Later(desk) : ~\E l \in Restorable \cup Later(desk) :
            /\ l # k
            /\ d.at[l].board = d.at[k].board
            /\ park[k] = IF l \in Restorable THEN frame.desk.at[l].cell ELSE park[l]
       /\ desk' = d
       /\ astray' = (astray \/ frame.desk.bound # desk.bound \/ ~Returnable(d))
       /\ home' = [k \in Windows |-> IF k \in Restorable THEN frame.home[k] ELSE None]
       /\ window' = [k \in Windows |-> CASE k \in Placed(d) -> "shown"
                                         [] k \in Excluded -> "hidden"
                                         [] OTHER -> window[k]]
  /\ UNCHANGED <<outputs, frame>>

Next ==
  \/ \E k \in Windows, b \in Boards : OpenTiled(k, b)
  \/ \E k \in Windows, b \in Boards, c \in Near : OpenFloating(k, b, c) \/ MoveTo(k, b, c)
  \/ \E k \in Windows : Reclassify(k) \/ Leave(k, "hidden") \/ Leave(k, "closed")
  \/ \E k \in Windows, reveal \in BOOLEAN : FocusWindow(k, reveal)
  \/ Present
  \/ \E outs \in SUBSET Boards : Connect(outs)
  \/ Keep
  \/ Undo

Spec == Init /\ [][Next]_vars

-----------------------------------------------------------------------------
(* A wide presentation, or a desktop that will return to one, has a tiled   *)
(* window to present.                                                       *)
WideHasItsWindow(d) ==
  d.mode = "wide" \/ (d.mode = "desktop" /\ d.back = "wide") =>
    d.wide # None /\ d.wide \in Placed(d) /\ ~d.at[d.wide].float

(* The desk is well-formed: of its types, and with what it presents on it.  *)
TypeOK ==
  /\ desk \in DeskType
  /\ WideHasItsWindow(desk)
  /\ outputs \subseteq Boards
  /\ window \in [Windows -> {"new", "shown", "hidden", "closed"}]
  /\ frame = None \/ (frame.desk \in DeskType /\ DOMAIN frame.window = Windows)
  /\ home \in [Windows -> Homes \cup {None}]
  /\ astray \in BOOLEAN
  /\ commands \in 0 .. MaxCommands

(* Two windows are never on one cell, whatever is moved over, returned or   *)
(* restored, and none that is shown is without a place.                     *)
OneWindowPerCell == Distinct(desk) /\ Placed(desk) = {k \in Windows : window[k] = "shown"}

(* The model follows the monitors, no topology command is refused; and as   *)
(* long as there is one, every window is on a board that has one.           *)
OnAMonitor ==
  ~astray => /\ desk.bound = outputs
             /\ outputs # {} => \A k \in Placed(desk) : desk.at[k].board \in outputs

(* A window that had to leave its board is there again when the monitor is, *)
(* on its very cell, however often it moved on and whatever came there;     *)
(* unless the same change makes other windows leave, that may push it.      *)
HomeAgain ==
  [][outputs' # outputs /\ ~astray /\ (\A k \in Placed(desk) : desk.at[k].board \in outputs') =>
     \A k \in {l \in Windows : home[l] # None} :
       home[k].board \in outputs' => k \in Placed(desk') /\ Place(desk', k) = home[k]]_vars
=============================================================================
