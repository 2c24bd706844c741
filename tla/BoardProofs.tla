---------------------------- MODULE BoardProofs ----------------------------
(***************************************************************************)
(* The boards of the desktop, for any finite set of windows, any boards,   *)
(* cells and directions, and any number of commands: each window has a     *)
(* cell of its own, is on a board that has a monitor, and returns to its   *)
(* cell.  The commands go from window to window; what they do for all of   *)
(* them is shown by induction over the subsets of a finite set.            *)
(***************************************************************************)
EXTENDS SpatialBoard, FiniteSetTheorems, WellFoundedInduction, TLAPS

-----------------------------------------------------------------------------
(* Finite sets.                                                             *)

(* The least-number principle, from the library's minimal elements.         *)
LEMMA Least ==
  ASSUME NEW T \in SUBSET Nat, T # {}
  PROVE  \E n \in T : \A m \in T : n <= m
<1>1. PICK x \in T : \A y \in T : ~(<<y, x>> \in OpToRel(<, Nat))
  BY NatLessThanWellFounded, WFMin
<1>2. \A y \in T : ~(y < x)
  BY <1>1 DEF OpToRel
<1> QED
  BY <1>2

(* A set with 0 and the successor of each of its numbers has them all.      *)
LEMMA Counting ==
  ASSUME NEW N \in SUBSET Nat, 0 \in N, \A n \in Nat : n \in N => n + 1 \in N
  PROVE  N = Nat
<1> SUFFICES ASSUME Nat \ N # {} PROVE FALSE
  OBVIOUS
<1>1. PICK n \in Nat \ N : \A m \in Nat \ N : n <= m
  BY Least
<1>2. n # 0 /\ n - 1 \in Nat /\ n - 1 \in N
  BY <1>1
<1> QED
  BY <1>1, <1>2

(* What holds of a set when it holds of each one smaller by an element      *)
(* holds of every finite set.                                               *)
LEMMA SubsetInduction ==
  ASSUME NEW F, IsFiniteSet(F), NEW Q, {} \in Q,
         \A S \in SUBSET F : S # {} /\ (\A k \in S : S \ {k} \in Q) => S \in Q
  PROVE  SUBSET F \subseteq Q
<1> DEFINE B == (SUBSET F) \ Q
           T == {Cardinality(S) : S \in B}
<1> SUFFICES ASSUME B # {} PROVE FALSE
  OBVIOUS
<1>1. \A S \in SUBSET F : IsFiniteSet(S) /\ Cardinality(S) \in Nat
  BY FS_Subset, FS_CardinalityType
<1>2. T \in SUBSET Nat /\ T # {}
  BY <1>1
<1>3. PICK n \in T : \A m \in T : n <= m
  <2> HIDE DEF T
  <2> QED
    BY <1>2, Least
<1>4. PICK S \in B : Cardinality(S) = n
  BY <1>3
<1>5. S # {}
  BY <1>4
<1>6. ASSUME NEW k \in S PROVE S \ {k} \in Q
  <2>1. Cardinality(S \ {k}) = n - 1 /\ S \ {k} \in SUBSET F
    BY <1>1, <1>4, <1>6, FS_RemoveElement
  <2>2. n \in Nat
    BY <1>1, <1>4
  <2> SUFFICES ASSUME S \ {k} \in B PROVE FALSE
    BY <2>1
  <2>3. n - 1 \in T
    BY <2>1
  <2> QED
    BY <1>3, <2>2, <2>3
<1> QED
  BY <1>4, <1>5, <1>6

(* A finite set has a last element in any order that compares all.          *)
LEMMA LastExists ==
  ASSUME NEW S, IsFiniteSet(S), S # {}, NEW R,
         \A x, y \in S : <<x, y>> \in R \/ <<y, x>> \in R,
         \A x, y, z \in S : <<x, y>> \in R /\ <<y, z>> \in R => <<x, z>> \in R
  PROVE  \E x \in S : \A y \in S : <<y, x>> \in R
<1> DEFINE Q == {T \in SUBSET S : T # {} => \E x \in T : \A y \in T : <<y, x>> \in R}
<1>1. {} \in Q
  OBVIOUS
<1>2. ASSUME NEW T \in SUBSET S, T # {}, \A k \in T : T \ {k} \in Q PROVE T \in Q
  <2>1. PICK k \in T : TRUE
    BY <1>2
  <2>2. T \ {k} \in Q
    BY <1>2
  <2>3. CASE T \ {k} = {}
    BY <2>1, <2>3
  <2>4. CASE T \ {k} # {}
    <3>1. PICK x \in T \ {k} : \A y \in T \ {k} : <<y, x>> \in R
      BY <2>2, <2>4
    <3>2. CASE <<k, x>> \in R
      BY <3>1, <3>2
    <3>3. CASE <<x, k>> \in R
      BY <2>1, <3>1, <3>3
    <3> QED
      BY <3>1, <3>2, <3>3
  <2> QED
    BY <2>3, <2>4
<1>3. S \in Q
  <2> HIDE DEF Q
  <2>1. SUBSET S \subseteq Q
    BY <1>1, <1>2, SubsetInduction
  <2> QED
    BY <2>1
<1> QED
  BY <1>3

(* What is computed element by element over a finite set is defined.        *)
Foldable(F, X, base, last, op) ==
  /\ IsFiniteSet(F)
  /\ base \in X
  /\ \A S \in SUBSET F : S # {} => last[S] \in S
  /\ \A e \in X, k \in F : op[<<e, k>>] \in X

HasFold(F, X, base, last, op) ==
  \E f \in [SUBSET F -> X] : \A S \in SUBSET F :
    f[S] = IF S = {} THEN base ELSE op[<<f[S \ {last[S]}], last[S]>>]

(* A recursive function over the subsets of a finite set is defined: each   *)
(* subset builds on the one without its last element.                       *)
LEMMA FoldExists ==
  ASSUME NEW F, NEW X, NEW base, NEW last, NEW op, Foldable(F, X, base, last, op)
  PROVE  HasFold(F, X, base, last, op)
<1> USE DEF Foldable, HasFold
<1> DEFINE E(f, S) == IF S = {} THEN base ELSE op[<<f[S \ {last[S]}], last[S]>>]
           N == {n \in Nat : \E f \in [SUBSET F -> X] : \A S \in SUBSET F : Cardinality(S) <= n => f[S] = E(f, S)}
<1>1. \A S \in SUBSET F : IsFiniteSet(S) /\ Cardinality(S) \in Nat /\ (Cardinality(S) = 0 <=> S = {})
  BY FS_Subset, FS_CardinalityType, FS_EmptySet
<1>2. \A S \in SUBSET F : S # {} => S \ {last[S]} \in SUBSET F /\ Cardinality(S \ {last[S]}) = Cardinality(S) - 1
  BY <1>1, FS_RemoveElement
<1>3. 0 \in N
  <2> DEFINE f == [S \in SUBSET F |-> base]
  <2>1. f \in [SUBSET F -> X] /\ \A S \in SUBSET F : Cardinality(S) <= 0 => f[S] = E(f, S)
    BY <1>1
  <2> HIDE DEF f
  <2> QED
    BY <2>1
<1>4. ASSUME NEW n \in Nat, n \in N PROVE n + 1 \in N
  <2>1. PICK f \in [SUBSET F -> X] : \A S \in SUBSET F : Cardinality(S) <= n => f[S] = E(f, S)
    BY <1>4
  <2> DEFINE g == [S \in SUBSET F |-> IF Cardinality(S) <= n THEN f[S] ELSE E(f, S)]
  <2>2. \A S \in SUBSET F : E(f, S) \in X
    BY <1>2
  <2>3. g \in [SUBSET F -> X]
    BY <2>2
  <2>4. ASSUME NEW S \in SUBSET F, Cardinality(S) <= n + 1 PROVE g[S] = E(g, S)
    <3>1. g[S] = E(f, S)
      BY <2>1
    <3>2. CASE S = {}
      BY <3>1, <3>2
    <3>3. CASE S # {}
      <4>1. S \ {last[S]} \in SUBSET F /\ Cardinality(S \ {last[S]}) <= n
        BY <1>1, <1>2, <2>4, <3>3
      <4>2. g[S \ {last[S]}] = f[S \ {last[S]}]
        BY <4>1
      <4> QED
        BY <3>1, <3>3, <4>2
    <3> QED
      BY <3>2, <3>3
  <2> HIDE DEF g
  <2>5. \E h \in [SUBSET F -> X] : \A S \in SUBSET F : Cardinality(S) <= n + 1 => h[S] = E(h, S)
    BY <2>3, <2>4
  <2>6. n + 1 \in Nat
    OBVIOUS
  <2> HIDE DEF E
  <2> QED
    BY <2>5, <2>6, Zenon
<1>5. Cardinality(F) \in N
  <2> HIDE DEF N
  <2>1. N \in SUBSET Nat
    BY DEF N
  <2>2. N = Nat
    BY <1>3, <1>4, <2>1, Counting
  <2> QED
    BY <1>1, <2>2
<1>6. \A S \in SUBSET F : Cardinality(S) <= Cardinality(F)
  BY FS_Subset
<1> QED
  BY <1>5, <1>6

(* The greatest address of a set is one of its addresses.                   *)
LEMMA GreatestFacts ==
  ASSUME NEW S \in SUBSET Windows, S # {}
  PROVE  Greatest(S) \in S
<1> DEFINE R == {p \in S \X S : p[1] <= p[2]}
<1>1. IsFiniteSet(S) /\ S \subseteq Nat
  BY Numbers, FS_Subset
<1>2. \A x, y \in S : <<x, y>> \in R <=> x <= y
  OBVIOUS
<1>3. \E x \in S : \A y \in S : <<y, x>> \in R
  <2> HIDE DEF R
  <2>0. \A x, y, z \in Nat : (x <= y \/ y <= x) /\ (x <= y /\ y <= z => x <= z)
    OBVIOUS
  <2>1. \A x, y \in S : <<x, y>> \in R \/ <<y, x>> \in R
    BY <1>1, <1>2, <2>0
  <2>2. \A x, y, z \in S : <<x, y>> \in R /\ <<y, z>> \in R => <<x, z>> \in R
    BY <1>1, <1>2, <2>0
  <2> QED
    BY <1>1, <2>1, <2>2, LastExists
<1> QED
  BY <1>2, <1>3 DEF Greatest

(* The window of a set that moves over last is one of its windows.          *)
LEMMA LastOfFacts ==
  ASSUME NEW d \in DeskType, NEW S \in SUBSET Placed(d), S # {}
  PROVE  LastOf(d, S) \in S
<1> DEFINE R == {p \in S \X S : Before(d.at[p[1]], p[1], d.at[p[2]], p[2])}
<1>1. IsFiniteSet(S) /\ S \subseteq Nat
  BY Numbers, FS_Subset DEF Placed
<1>2. \A x, y \in S : <<x, y>> \in R <=> Before(d.at[x], x, d.at[y], y)
  OBVIOUS
<1>3. \A k \in S : /\ d.at[k].board \in Nat /\ d.at[k].float \in BOOLEAN
                   /\ d.at[k].cell[1] \in Int /\ d.at[k].cell[2] \in Int
  BY Numbers DEF DeskType, Placed, Places, Cells
<1>4. ASSUME NEW x \in S, NEW y \in S PROVE Before(d.at[x], x, d.at[y], y) \/ Before(d.at[y], y, d.at[x], x)
  BY <1>1, <1>3 DEF Before
<1>5. ASSUME NEW x \in S, NEW y \in S, NEW z \in S,
             Before(d.at[x], x, d.at[y], y), Before(d.at[y], y, d.at[z], z)
      PROVE  Before(d.at[x], x, d.at[z], z)
  BY <1>1, <1>3, <1>5 DEF Before
<1>6. \E x \in S : \A y \in S : <<y, x>> \in R
  <2>1. \A x, y \in S : <<x, y>> \in R \/ <<y, x>> \in R
    BY <1>2, <1>4
  <2>2. \A x, y, z \in S : <<x, y>> \in R /\ <<y, z>> \in R => <<x, z>> \in R
    BY <1>2, <1>5
  <2> HIDE DEF R
  <2> QED
    BY <1>1, <2>1, <2>2, LastExists
<1> QED
  BY <1>2, <1>6 DEF LastOf

-----------------------------------------------------------------------------
(* Cells.                                                                   *)

(* There is a free cell around every origin, and the origin itself comes    *)
(* first.                                                                   *)
LEMMA FreeCellFacts ==
  ASSUME NEW taken, IsFiniteSet(taken), NEW o \in Cells
  PROVE  /\ FreeCell(taken, o) \in Cells \ taken
         /\ o \notin taken => FreeCell(taken, o) = o
<1> DEFINE r == Cardinality(taken)
           box == ((o[1] - r) .. (o[1] + r)) \X ((o[2] - r) .. (o[2] + r))
           free == {c \in box : Ring(c, o) <= r /\ c \notin taken}
           R == {p \in free \X free : Sooner(p[2], p[1], o)}
<1>1. r \in Nat /\ o[1] \in Int /\ o[2] \in Int /\ o = <<o[1], o[2]>>
  BY FS_CardinalityType DEF Cells
<1>2. IsFiniteSet(free) /\ free \subseteq Cells /\ free \cap taken = {}
  <2>0. o[1] - r \in Int /\ o[1] + r \in Int /\ o[2] - r \in Int /\ o[2] + r \in Int
    BY <1>1
  <2>1. IsFiniteSet(box)
    <3> HIDE DEF r
    <3>1. IsFiniteSet((o[1] - r) .. (o[1] + r)) /\ IsFiniteSet((o[2] - r) .. (o[2] + r))
      BY <2>0, FS_Interval
    <3> QED
      BY <3>1, FS_Product
  <2> QED
    BY <1>1, <2>1, FS_Subset DEF Cells
<1>3. free # {}
  <2> SUFFICES ASSUME free = {} PROVE FALSE
    OBVIOUS
  <2> DEFINE f == [i \in 0 .. r |-> <<o[1] + i, o[2]>>]
  <2>1. ASSUME NEW i \in 0 .. r PROVE f[i] \in taken
    <3>1. f[i] \in box /\ Ring(f[i], o) <= r
      BY <1>1 DEF Ring, Abs
    <3> QED
      BY <3>1
  <2>2. IsFiniteSet(0 .. r) /\ Cardinality(0 .. r) = r + 1
    <3> HIDE DEF r
    <3>1. 0 \in Int /\ r \in Int /\ ~(0 > r) /\ r - 0 + 1 = r + 1
      BY <1>1
    <3>2. IsFiniteSet(0 .. r) /\ Cardinality(0 .. r) = IF 0 > r THEN 0 ELSE r - 0 + 1
      BY <3>1, FS_Interval
    <3> QED
      BY <3>1, <3>2
  <2>3. f \in [0 .. r -> taken]
    BY <2>1
  <2>4. \E x, y \in 0 .. r : x # y /\ f[x] = f[y]
    <3> HIDE DEF f
    <3> QED
      BY <1>1, <2>2, <2>3, FS_PigeonHole
  <2> QED
    BY <1>1, <2>4
<1>4. \A c \in free : c[1] \in Int /\ c[2] \in Int /\ c = <<c[1], c[2]>>
  BY <1>1
<1>5. \A c, e \in free : <<c, e>> \in R <=> Sooner(e, c, o)
  OBVIOUS
<1>6. FreeCell(taken, o) = CHOOSE c \in free : \A e \in free : Sooner(c, e, o)
  BY Zenon DEF FreeCell
<1>7. \E c \in free : \A e \in free : Sooner(c, e, o)
  <2> HIDE DEF free, R
  <2>0. \A c \in free : Ring(c, o) \in Int
    BY <1>1, <1>4 DEF Ring, Abs
  <2>1. \A c, e \in free : Sooner(c, e, o) \/ Sooner(e, c, o)
    BY <1>4, <2>0 DEF Sooner
  <2>2. \A x, y, z \in free : Sooner(z, y, o) /\ Sooner(y, x, o) => Sooner(z, x, o)
    BY <1>4, <2>0 DEF Sooner
  <2>3. \E c \in free : \A e \in free : <<e, c>> \in R
    <3>1. \A c, e \in free : <<c, e>> \in R \/ <<e, c>> \in R
      BY <1>5, <2>1
    <3>2. \A x, y, z \in free : <<x, y>> \in R /\ <<y, z>> \in R => <<x, z>> \in R
      BY <1>5, <2>2
    <3> QED
      BY <1>2, <1>3, <3>1, <3>2, LastExists
  <2> QED
    BY <1>5, <2>3
<1>8. FreeCell(taken, o) \in free /\ \A e \in free : Sooner(FreeCell(taken, o), e, o)
  <2> HIDE DEF free
  <2> QED
    BY <1>6, <1>7
<1>9. ASSUME o \notin taken PROVE FreeCell(taken, o) = o
  <2>1. o \in free
    BY <1>1, <1>9 DEF Ring, Abs
  <2>2. Sooner(FreeCell(taken, o), o, o)
    BY <1>8, <2>1
  <2> HIDE DEF free
  <2> QED
    BY <1>1, <1>4, <1>8, <2>2 DEF Sooner, Ring, Abs
<1> QED
  BY <1>2, <1>8, <1>9

(* Cells in a direction.                                                    *)
Directions == {<<1, 0>>, <<0, 1>>, <<-1, 0>>, <<0, -1>>}

(* From cell to cell in a direction.                                        *)
LEMMA AlongNext ==
  \A c \in Cells, dir \in Directions, n \in Nat :
    Along(c, dir, n) \in Cells /\ Step(Along(c, dir, n), dir) = Along(c, dir, n + 1)
<1> TAKE c \in Cells, dir \in Directions, n \in Nat
<1>1. c[1] \in Int /\ c[2] \in Int /\ c = <<c[1], c[2]>>
  BY DEF Cells
<1> QED
  BY <1>1 DEF Step, Along, Cells, Directions

(* No cell comes twice in a row.                                            *)
LEMMA AlongOnce ==
  \A c \in Cells, dir \in Directions, m, n \in Nat : Along(c, dir, m) = Along(c, dir, n) => m = n
<1> TAKE c \in Cells, dir \in Directions, m, n \in Nat
<1>1. c[1] \in Int /\ c[2] \in Int /\ c = <<c[1], c[2]>>
  BY DEF Cells
<1> QED
  BY <1>1 DEF Along, Directions

(* A step comes to a cell from one cell only.                               *)
LEMMA StepFacts ==
  \A c \in Cells, dir \in Directions :
    /\ Step(c, dir) \in Cells
    /\ Along(c, dir, 0) = c
    /\ \A e \in Cells : Step(c, dir) = Step(e, dir) => c = e
<1> TAKE c \in Cells, dir \in Directions
<1>1. c[1] \in Int /\ c[2] \in Int /\ c = <<c[1], c[2]>>
  BY DEF Cells
<1> QED
  BY <1>1 DEF Step, Along, Cells, Directions

-----------------------------------------------------------------------------
(* Windows on a desk.                                                       *)

(* All but the places and the focus.                                        *)
Rest(d) == <<d.bound, d.displaced, d.mode, d.back, d.wide>>

(* A window is on its board still, tiled or floating as it was.             *)
Stays(d, e, k) ==
  /\ d.at[k] = None <=> e.at[k] = None
  /\ d.at[k] # None => e.at[k].board = d.at[k].board /\ e.at[k].float = d.at[k].float

(* A window is placed or it is not.                                         *)
LEMMA PlaceFacts ==
  ASSUME NEW d \in DeskType, NEW k \in Windows
  PROVE  /\ d.at[k] \in Places \cup {None}
         /\ k \in Placed(d) <=> d.at[k] # None
         /\ k \in Placed(d) => /\ d.at[k] \in Places
                               /\ d.at[k].board \in Boards /\ d.at[k].cell \in Cells /\ d.at[k].float \in BOOLEAN
                               /\ d.at[k] = [board |-> d.at[k].board, cell |-> d.at[k].cell, float |-> d.at[k].float]
BY DEF DeskType, Placed, Places

(* Finitely many cells are taken.                                           *)
LEMMA TakenFacts ==
  ASSUME NEW d \in DeskType, NEW b
  PROVE  IsFiniteSet(Taken(d, b)) /\ Taken(d, b) \subseteq Cells
<1> DEFINE f == [k \in On(d, b) |-> d.at[k].cell]
<1>1. IsFiniteSet(On(d, b))
  BY Numbers, FS_Subset DEF On, Placed
<1>2. f \in Surjection(On(d, b), Taken(d, b))
  BY DEF Surjection, Taken
<1>3. Taken(d, b) \subseteq Cells
  BY PlaceFacts DEF Taken, On, Placed
<1> HIDE DEF f
<1> QED
  BY <1>1, <1>2, <1>3, FS_Surjection

(* A window is put somewhere, the others stay.                              *)
LEMMA PutFacts ==
  ASSUME NEW d \in DeskType, NEW k \in Windows, NEW p \in Places
  PROVE  LET e == [d EXCEPT !.at[k] = p] IN
         /\ e \in DeskType
         /\ Rest(e) = Rest(d) /\ e.focus = d.focus
         /\ e.at[k] = p /\ e.at[k] # None
         /\ \A l \in Windows \ {k} : e.at[l] = d.at[l]
<1>1. p # None
  BY Nothings
<1>2. [d EXCEPT !.at[k] = p] \in DeskType
  BY DEF DeskType
<1>3. LET e == [d EXCEPT !.at[k] = p] IN
      /\ Rest(e) = Rest(d) /\ e.focus = d.focus
      /\ e.at[k] = p
      /\ \A l \in Windows \ {k} : e.at[l] = d.at[l]
  BY DEF DeskType, Rest
<1> QED
  BY <1>1, <1>2, <1>3

(* A window is taken from its place, the others stay.                       *)
LEMMA TakeFacts ==
  ASSUME NEW d \in DeskType, NEW k \in Windows
  PROVE  LET e == Take(d, k) IN
         /\ e \in DeskType
         /\ Rest(e) = Rest(d)
         /\ e.at[k] = None
         /\ \A l \in Windows \ {k} : e.at[l] = d.at[l]
BY DEF Take, Unfocus, DeskType, Rest

(* addFloating() is never refused on a desk of distinct places.             *)
LEMMA AddFloatingFacts ==
  ASSUME NEW d \in DeskType, Distinct(d), NEW k \in Windows, NEW b \in Boards, NEW c \in Cells
  PROVE  LET e == AddFloating(d, k, b, c) IN
         /\ e \in DeskType /\ Distinct(e)
         /\ Rest(e) = Rest(d)
         /\ e.at[k] # None /\ e.at[k].board = b /\ e.at[k].float
         /\ \A l \in Windows \ {k} : e.at[l] = d.at[l]
<1> DEFINE w == IF d.at[k] # None THEN Take(d, k) ELSE d
           cell == FreeCell(Taken(w, b), c)
           e == Put(w, k, b, cell, TRUE)
<1>1. AddFloating(d, k, b, c) = e
  BY DEF AddFloating
<1>2. w \in DeskType /\ Rest(w) = Rest(d) /\ w.at[k] = None /\ \A l \in Windows \ {k} : w.at[l] = d.at[l]
  BY TakeFacts
<1> HIDE DEF w
<1>3. cell \in Cells /\ cell \notin Taken(w, b)
  BY <1>2, TakenFacts, FreeCellFacts
<1> DEFINE p == [board |-> b, cell |-> cell, float |-> TRUE]
<1>a. e = [w EXCEPT !.at[k] = p] /\ p \in Places /\ p.board = b /\ p.cell = cell /\ p.float
  BY <1>3 DEF Put, Places
<1> HIDE DEF cell, e, p
<1>4. /\ e \in DeskType /\ Rest(e) = Rest(w)
      /\ e.at[k] = p /\ e.at[k] # None
      /\ \A l \in Windows \ {k} : e.at[l] = w.at[l]
  BY <1>2, <1>a, PutFacts
<1>5. \A l \in Placed(e) \ {k} : e.at[l] = d.at[l] /\ l \in Placed(d) /\ (e.at[l].board = b => e.at[l].cell # cell)
  BY <1>2, <1>3, <1>4 DEF Placed, Taken, On
<1>6. Distinct(e)
  BY <1>4, <1>5, <1>a DEF Distinct
<1> QED
  BY <1>1, <1>2, <1>4, <1>6, <1>a

(* insertWindow() takes the cell it wants; the windows in its way move on   *)
(* by one, and stay on their board.                                         *)
LEMMA InsertFacts ==
  ASSUME NEW d \in DeskType, Distinct(d), NEW k \in Windows, d.at[k] = None, NEW b \in Boards,
         NEW anchor \in Cells, NEW dir \in Directions, NEW specified \in BOOLEAN
  PROVE  LET e == Insert(d, k, b, anchor, dir, specified) IN
         /\ e \in DeskType /\ Distinct(e)
         /\ Rest(e) = Rest(d)
         /\ e.at[k] # None /\ e.at[k].board = b /\ ~e.at[k].float
         /\ \A l \in Windows \ {k} : Stays(d, e, l) /\ (l \notin On(d, b) => e.at[l] = d.at[l])
<1> DEFINE cell == IF specified \/ On(d, b) # {} THEN Step(anchor, dir) ELSE anchor
           N == Cardinality(Windows)
           row == {n \in 0 .. N : \A m \in 0 .. n : Along(cell, dir, m) \in Taken(d, b)}
           pushed == {l \in On(d, b) : \E n \in row : d.at[l].cell = Along(cell, dir, n)}
           next == [l \in Windows |-> IF l \in pushed THEN [d.at[l] EXCEPT !.cell = Step(@, dir)] ELSE d.at[l]]
           moved == [d EXCEPT !.at = next]
           e == Put(moved, k, b, cell, FALSE)
<1>1. Insert(d, k, b, anchor, dir, specified) = e
  BY Zenon DEF Insert
<1>2. cell \in Cells
  BY StepFacts
<1> HIDE DEF cell
<1>3. /\ Along(cell, dir, 0) = cell
      /\ \A n \in Nat : Along(cell, dir, n) \in Cells /\ Step(Along(cell, dir, n), dir) = Along(cell, dir, n + 1)
      /\ \A m, n \in Nat : Along(cell, dir, m) = Along(cell, dir, n) => m = n
  <2>1. Along(cell, dir, 0) = cell
    BY <1>2, StepFacts
  <2>2. \A n \in Nat : Along(cell, dir, n) \in Cells /\ Step(Along(cell, dir, n), dir) = Along(cell, dir, n + 1)
    BY <1>2, AlongNext, Zenon
  <2>3. \A m, n \in Nat : Along(cell, dir, m) = Along(cell, dir, n) => m = n
    BY <1>2, AlongOnce, Zenon
  <2> QED
    BY <2>1, <2>2, <2>3
<1>4. \A x \in Cells : Step(x, dir) \in Cells /\ \A y \in Cells : Step(x, dir) = Step(y, dir) => x = y
  BY StepFacts
<1>5. N \in Nat
  BY Numbers, FS_CardinalityType
<1>6. N \notin row
  <2> SUFFICES ASSUME \A m \in 0 .. N : Along(cell, dir, m) \in Taken(d, b) PROVE FALSE
    BY <1>5
  <2> DEFINE f == [m \in 0 .. N |-> CHOOSE l \in On(d, b) : d.at[l].cell = Along(cell, dir, m)]
  <2>1. ASSUME NEW m \in 0 .. N PROVE f[m] \in On(d, b) /\ d.at[f[m]].cell = Along(cell, dir, m)
    <3>1. \E l \in On(d, b) : d.at[l].cell = Along(cell, dir, m)
      BY DEF Taken
    <3> QED
      BY <3>1
  <2>2. f \in [0 .. N -> Windows]
    BY <2>1 DEF On, Placed
  <2> HIDE DEF f
  <2>3. IsFiniteSet(0 .. N) /\ Cardinality(0 .. N) = N + 1
    <3> HIDE DEF N
    <3>1. 0 \in Int /\ N \in Int /\ ~(0 > N) /\ N - 0 + 1 = N + 1
      BY <1>5
    <3>2. IsFiniteSet(0 .. N) /\ Cardinality(0 .. N) = IF 0 > N THEN 0 ELSE N - 0 + 1
      BY <3>1, FS_Interval
    <3> QED
      BY <3>1, <3>2
  <2>4. Cardinality(Windows) < Cardinality(0 .. N)
    BY <1>5, <2>3
  <2>5. PICK x, y \in 0 .. N : x # y /\ f[x] = f[y]
    BY <2>2, <2>3, <2>4, Numbers, FS_PigeonHole
  <2>6. x \in Nat /\ y \in Nat
    BY <1>5
  <2> QED
    BY <1>3, <2>1, <2>5, <2>6
<1>7. \A n \in row : n \in Nat /\ n + 1 \in 0 .. N
  BY <1>5, <1>6
<1>8. \A n \in row : Along(cell, dir, n + 1) \in Taken(d, b) => n + 1 \in row
  BY <1>5, <1>7
<1>9. cell \in Taken(d, b) => 0 \in row
  BY <1>3, <1>5
<1>10. ASSUME NEW l \in On(d, b)
       PROVE  l \in Windows /\ l # k /\ l \in Placed(d) /\ d.at[l].board = b /\ d.at[l].cell \in Taken(d, b)
  BY <1>10 DEF On, Placed, Taken
<1>11. ASSUME NEW l \in pushed
       PROVE  /\ l \in Placed(d) /\ d.at[l].board = b /\ l # k
              /\ next[l] = [board |-> b, cell |-> Step(d.at[l].cell, dir), float |-> d.at[l].float]
              /\ next[l] \in Places /\ next[l] # None
              /\ next[l].cell = Step(d.at[l].cell, dir) /\ next[l].board = b /\ next[l].float = d.at[l].float
  <2>1. d.at[l] = [board |-> b, cell |-> d.at[l].cell, float |-> d.at[l].float] /\ d.at[l].cell \in Cells
        /\ d.at[l].float \in BOOLEAN /\ l \in Windows
    BY <1>10, PlaceFacts
  <2>2. next[l] = [board |-> b, cell |-> Step(d.at[l].cell, dir), float |-> d.at[l].float]
    BY <2>1
  <2>3. next[l] \in Places
    BY <1>4, <2>1, <2>2 DEF Places
  <2> QED
    <3>1. next[l].cell = Step(d.at[l].cell, dir) /\ next[l].board = b /\ next[l].float = d.at[l].float
      BY <2>2
    <3> HIDE DEF next
    <3> QED
      BY <1>10, <2>2, <2>3, <3>1, Nothings
<1>12. ASSUME NEW l \in Windows \ pushed PROVE next[l] = d.at[l]
  OBVIOUS
<1>13. moved \in DeskType /\ Rest(moved) = Rest(d) /\ moved.at = next
  <2>1. next \in [Windows -> Places \cup {None}]
    BY <1>11, <1>12, PlaceFacts
  <2> HIDE DEF next
  <2> QED
    BY <2>1 DEF DeskType, Rest
<1> DEFINE p == [board |-> b, cell |-> cell, float |-> FALSE]
<1>a. e = [moved EXCEPT !.at[k] = p] /\ p \in Places /\ p.board = b /\ p.cell = cell /\ ~p.float
  BY <1>2 DEF Put, Places
<1>b. \A l \in pushed : next[l].cell = Step(d.at[l].cell, dir) /\ next[l] # None /\ next[l].board = b
                         /\ next[l].float = d.at[l].float /\ l # k /\ l \in Placed(d) /\ d.at[l].board = b
  <2> HIDE DEF next, pushed
  <2> QED
    BY <1>11
<1>c. \A l \in Windows \ pushed : next[l] = d.at[l]
  BY <1>12
<1> HIDE DEF moved, next, e, p
<1>14. /\ e \in DeskType /\ Rest(e) = Rest(d)
       /\ e.at[k] = p /\ e.at[k] # None
       /\ \A l \in Windows \ {k} : e.at[l] = next[l]
  BY <1>13, <1>a, PutFacts
<1>15. \A l \in pushed : \E n \in row : d.at[l].cell = Along(cell, dir, n) /\ next[l].cell = Along(cell, dir, n + 1)
  <2> TAKE l \in pushed
  <2>1. PICK n \in row : d.at[l].cell = Along(cell, dir, n)
    OBVIOUS
  <2>2. n \in Nat /\ Step(Along(cell, dir, n), dir) = Along(cell, dir, n + 1)
    BY <1>3, <1>7
  <2>3. next[l].cell = Step(d.at[l].cell, dir)
    BY <1>b
  <2> QED
    BY <2>1, <2>2, <2>3
<1>16. ASSUME NEW l \in pushed PROVE next[l].cell # cell
  <2>1. PICK n \in row : next[l].cell = Along(cell, dir, n + 1)
    BY <1>15
  <2>2. n + 1 # 0 /\ n + 1 \in Nat /\ 0 \in Nat
    BY <1>7
  <2> QED
    BY <1>3, <2>1, <2>2
<1>17. ASSUME NEW l \in On(d, b) \ pushed PROVE d.at[l].cell # cell
  BY <1>3, <1>9, <1>10
<1>18. ASSUME NEW l \in pushed, NEW j \in On(d, b) \ pushed PROVE next[l].cell # d.at[j].cell
  <2>1. PICK n \in row : next[l].cell = Along(cell, dir, n + 1)
    BY <1>15
  <2>2. ASSUME d.at[j].cell = Along(cell, dir, n + 1) PROVE FALSE
    <3>1. n + 1 \in row
      BY <1>8, <1>10, <2>2
    <3> QED
      BY <2>2, <3>1
  <2> QED
    BY <2>1, <2>2
<1>19. ASSUME NEW l \in pushed, NEW j \in pushed, next[l].cell = next[j].cell PROVE l = j
  <2>1. d.at[l].cell = d.at[j].cell
    <3>1. next[l].cell = Step(d.at[l].cell, dir) /\ next[j].cell = Step(d.at[j].cell, dir)
      BY <1>b
    <3>2. d.at[l].cell \in Cells /\ d.at[j].cell \in Cells
      BY <1>b, PlaceFacts DEF Placed
    <3> QED
      BY <1>4, <1>19, <3>1, <3>2
  <2> QED
    BY <1>b, <2>1 DEF Distinct
<1> HIDE DEF pushed, row
<1>20. \A l \in Windows \ {k} : Stays(d, e, l) /\ (l \notin On(d, b) => e.at[l] = d.at[l])
  <2> TAKE l \in Windows \ {k}
  <2>1. CASE l \in pushed
    <3>1. next[l] # None /\ next[l].board = b /\ next[l].float = d.at[l].float
      BY <1>b, <2>1
    <3>2. d.at[l] # None /\ d.at[l].board = b /\ l \in On(d, b)
      BY <1>b, <2>1 DEF Placed, On
    <3> QED
      BY <1>14, <3>1, <3>2 DEF Stays
  <2>2. CASE l \notin pushed
    BY <1>c, <1>14, <2>2 DEF Stays
  <2> QED
    BY <2>1, <2>2
<1>21. Distinct(e)
  <2> SUFFICES ASSUME NEW l \in Placed(e), NEW j \in Placed(e), e.at[l].board = e.at[j].board,
                      e.at[l].cell = e.at[j].cell, l # j
               PROVE  FALSE
    BY DEF Distinct
  <2>0. \A i \in Placed(e) \ {k} : i \in Placed(d) /\ e.at[i] = next[i] /\ e.at[i].board = d.at[i].board
                                   /\ i \in Windows
    BY <1>14, <1>20 DEF Placed, Stays
  <2>1. \A i \in Placed(e) \ {k} : e.at[i].board = b => i \in On(d, b)
    BY <2>0 DEF On
  <2>2. ASSUME NEW i \in Placed(e) \ {k}, e.at[i].board = b PROVE e.at[i].cell # cell
    BY <1>c, <1>16, <1>17, <2>0, <2>1, <2>2
  <2>3. CASE l = k \/ j = k
    BY <1>14, <1>a, <2>2, <2>3
  <2>4. CASE l # k /\ j # k /\ l \notin pushed /\ j \notin pushed
    BY <1>c, <2>0, <2>4 DEF Distinct
  <2>5. ASSUME NEW i \in pushed, NEW m \in Placed(e) \ {k}, e.at[m].board = b, e.at[m].cell = e.at[i].cell, i # m,
               i \in Placed(e) \ {k}
        PROVE  FALSE
    BY <1>c, <1>18, <1>19, <2>0, <2>1, <2>5
  <2>6. \A i \in pushed : i # k /\ d.at[i].board = b
    BY <1>b
  <2> QED
    BY <2>0, <2>3, <2>4, <2>5, <2>6
<1> QED
  BY <1>1, <1>14, <1>a, <1>20, <1>21

-----------------------------------------------------------------------------
(* The floating windows find a place between the tiled ones.                *)

TiledDistinct(d) ==
  \A k, l \in Placed(d) :
    ~d.at[k].float /\ ~d.at[l].float /\ d.at[k].board = d.at[l].board /\ d.at[k].cell = d.at[l].cell => k = l

Floats(d) == {k \in Placed(d) : d.at[k].float}

(* e is d with the floating windows of S where they are now, and without    *)
(* the other floating ones.                                                 *)
Repaired(d, S, e) ==
  /\ Rest(e) = Rest(d) /\ e.focus = d.focus
  /\ \A k \in Windows \ Floats(d) : e.at[k] = d.at[k]
  /\ \A k \in Floats(d) \ S : e.at[k] = None
  /\ \A k \in S : e.at[k] # None /\ e.at[k].board = d.at[k].board /\ e.at[k].float
  /\ TiledDistinct(d) => Distinct(e)
  /\ Distinct(d) => \A k \in S : e.at[k] = d.at[k]

(* One more floating window gives way.                                      *)
LEMMA GiveWayFacts ==
  ASSUME NEW d \in DeskType, NEW S \in SUBSET Floats(d), NEW k \in Floats(d), k \notin S,
         NEW e \in DeskType, Repaired(d, S, e)
  PROVE  GiveWay(d, e, k) \in DeskType /\ Repaired(d, S \cup {k}, GiveWay(d, e, k))
<1> DEFINE b == d.at[k].board
           cell == FreeCell(Taken(e, b), d.at[k].cell)
           p == [board |-> b, cell |-> cell, float |-> TRUE]
           g == GiveWay(d, e, k)
<1>1. k \in Windows /\ k \in Placed(d) /\ d.at[k].float /\ e.at[k] = None /\ b \in Boards /\ d.at[k].cell \in Cells
      /\ d.at[k] = [board |-> b, cell |-> d.at[k].cell, float |-> d.at[k].float] /\ d.at[k].float \in BOOLEAN
      /\ d.at[k] # None
  BY PlaceFacts DEF Repaired, Floats, Placed
<1>2. cell \in Cells /\ cell \notin Taken(e, b) /\ (d.at[k].cell \notin Taken(e, b) => cell = d.at[k].cell)
  BY <1>1, TakenFacts, FreeCellFacts
<1>3. g = [e EXCEPT !.at[k] = p] /\ p \in Places /\ p.board = b /\ p.cell = cell /\ p.float
  BY <1>1, <1>2 DEF GiveWay, Put, Places
<1>a. d.at[k].cell = cell => p = d.at[k]
  BY <1>1
<1> HIDE DEF b, cell, p, g
<1>4. /\ g \in DeskType /\ Rest(g) = Rest(e) /\ g.focus = e.focus
      /\ g.at[k] = p /\ g.at[k] # None
      /\ \A l \in Windows \ {k} : g.at[l] = e.at[l]
  BY <1>1, <1>3, PutFacts
<1>5. S \subseteq Windows /\ Floats(d) \subseteq Windows
  BY DEF Floats, Placed
<1>6. ASSUME TiledDistinct(d) PROVE Distinct(g)
  <2>1. \A l \in Placed(g) \ {k} : l \in Placed(e) /\ g.at[l] = e.at[l] /\ (g.at[l].board = b => g.at[l].cell # cell)
    BY <1>2, <1>4 DEF Placed, Taken, On
  <2>2. Distinct(e)
    BY <1>6 DEF Repaired
  <2> QED
    BY <1>3, <1>4, <2>1, <2>2 DEF Distinct
<1>7. ASSUME Distinct(d) PROVE \A l \in S \cup {k} : g.at[l] = d.at[l]
  <2>1. \A l \in S : e.at[l] = d.at[l]
    BY <1>7 DEF Repaired
  <2>2. \A l \in Placed(e) : l \in Placed(d) /\ e.at[l] = d.at[l] /\ l # k
    BY <2>1, <1>1 DEF Repaired, Placed, Floats
  <2>3. d.at[k].cell \notin Taken(e, b)
    BY <1>1, <1>7, <2>2 DEF Taken, On, Distinct, b
  <2> QED
    BY <1>2, <1>4, <1>5, <1>a, <2>1, <2>3
<1>8. Rest(g) = Rest(d) /\ g.focus = d.focus
  BY <1>4 DEF Repaired
<1>9. /\ \A l \in Windows \ Floats(d) : g.at[l] = d.at[l]
      /\ \A l \in Floats(d) \ (S \cup {k}) : g.at[l] = None
  BY <1>4, <1>5 DEF Repaired
<1>10. \A l \in S \cup {k} : g.at[l] # None /\ g.at[l].board = d.at[l].board /\ g.at[l].float
  BY <1>3, <1>4, <1>5 DEF Repaired, b
<1> QED
  BY <1>4, <1>6, <1>7, <1>8, <1>9, <1>10 DEF Repaired, g

(* After a repair all have cells of their own if the tiled ones had.        *)
LEMMA RepairFacts ==
  ASSUME NEW d \in DeskType
  PROVE  Repair(d) \in DeskType /\ Repaired(d, Floats(d), Repair(d))
<1> DEFINE F == Floats(d)
           base == [d EXCEPT !.at = [k \in Windows |-> IF k \in F THEN None ELSE d.at[k]]]
           Body(f, S) == IF S = {} THEN base ELSE GiveWay(d, f[S \ {Greatest(S)}], Greatest(S))
           fold == CHOOSE f : f = [S \in SUBSET F |-> Body(f, S)]
           last == [S \in SUBSET F |-> Greatest(S)]
           op == [q \in DeskType \X F |-> GiveWay(d, q[1], q[2])]
<1>1. Repair(d) = fold[F]
  BY Zenon DEF Repair, Floats
<1>2. IsFiniteSet(F) /\ F \subseteq Windows
  BY Numbers, FS_Subset DEF Floats, Placed
<1>3. base \in DeskType
  <2>1. [k \in Windows |-> IF k \in F THEN None ELSE d.at[k]] \in [Windows -> Places \cup {None}]
    BY PlaceFacts
  <2> QED
    BY <2>1 DEF DeskType
<1>4. \A S \in SUBSET F : S # {} => last[S] \in S /\ last[S] = Greatest(S)
  BY <1>2, GreatestFacts
<1>5. \A e \in DeskType, k \in F : op[<<e, k>>] \in DeskType /\ op[<<e, k>>] = GiveWay(d, e, k)
  <2> TAKE e \in DeskType, k \in F
  <2>1. k \in Windows /\ d.at[k].board \in Boards /\ d.at[k].cell \in Cells
    BY PlaceFacts DEF Floats, Placed
  <2>2. FreeCell(Taken(e, d.at[k].board), d.at[k].cell) \in Cells
    BY <2>1, TakenFacts, FreeCellFacts
  <2>3. GiveWay(d, e, k) \in DeskType
    BY <2>1, <2>2, PutFacts DEF GiveWay, Put, Places
  <2> QED
    BY <2>3
<1>6. \A S \in SUBSET F : S # {} => Greatest(S) \in S /\ Greatest(S) \in F /\ S \ {Greatest(S)} \in SUBSET F
  BY <1>4
<1> HIDE DEF F, base, last, op
<1>7. PICK h \in [SUBSET F -> DeskType] : \A S \in SUBSET F :
          h[S] = IF S = {} THEN base ELSE op[<<h[S \ {last[S]}], last[S]>>]
  <2>1. \A S \in SUBSET F : S # {} => last[S] \in S
    BY <1>4
  <2>2. \A e \in DeskType, k \in F : op[<<e, k>>] \in DeskType
    BY <1>5
  <2>3. Foldable(F, DeskType, base, last, op)
    BY <1>2, <1>3, <2>1, <2>2 DEF Foldable
  <2>4. HasFold(F, DeskType, base, last, op)
    BY <2>3, FoldExists
  <2> QED
    BY <2>4 DEF HasFold
<1>8. \A S \in SUBSET F : h[S] = Body(h, S)
  <2> TAKE S \in SUBSET F
  <2>1. CASE S = {}
    BY <1>7, <2>1
  <2>2. CASE S # {}
    <3>1. last[S] = Greatest(S) /\ Greatest(S) \in F /\ h[S \ {Greatest(S)}] \in DeskType
      BY <1>4, <1>6, <1>7, <2>2
    <3>2. h[S] = op[<<h[S \ {Greatest(S)}], Greatest(S)>>]
      BY <1>7, <2>2, <3>1
    <3> QED
      BY <1>5, <2>2, <3>1, <3>2
  <2> QED
    BY <2>1, <2>2
<1>9. h = [S \in SUBSET F |-> Body(h, S)]
  <2> HIDE DEF Body
  <2> QED
    BY <1>7, <1>8
<1>10. fold = [S \in SUBSET F |-> Body(fold, S)]
  <2> HIDE DEF Body
  <2> QED
    BY <1>9, Zenon
<1> HIDE DEF fold
<1>11. \A S \in SUBSET F : fold[S] = Body(fold, S)
  <2> HIDE DEF Body
  <2> QED
    BY <1>10
<1> DEFINE Q == {S \in SUBSET F : fold[S] \in DeskType /\ Repaired(d, S, fold[S])}
<1>12. {} \in Q
  <2>1. fold[{}] = base
    BY <1>11
  <2>2. /\ Rest(base) = Rest(d) /\ base.focus = d.focus
        /\ \A k \in Windows \ F : base.at[k] = d.at[k]
        /\ \A k \in F : base.at[k] = None
    BY <1>2 DEF Rest, base, DeskType
  <2>3. TiledDistinct(d) => Distinct(base)
    <3>1. \A k \in Placed(base) : k \in Placed(d) /\ base.at[k] = d.at[k] /\ ~d.at[k].float
      BY <2>2 DEF Placed, Floats, F
    <3> QED
      BY <3>1 DEF TiledDistinct, Distinct
  <2> QED
    BY <1>3, <2>1, <2>2, <2>3 DEF Repaired, F
<1>13. ASSUME NEW S \in SUBSET F, S # {}, \A k \in S : S \ {k} \in Q PROVE S \in Q
  <2> DEFINE k == Greatest(S)
             T == S \ {k}
  <2>1. k \in S /\ k \in F /\ T \in SUBSET F /\ T \in Q /\ k \notin T /\ T \cup {k} = S
    BY <1>6, <1>13
  <2>2. fold[S] = GiveWay(d, fold[T], k)
    BY <1>11, <1>13
  <2> HIDE DEF k, T
  <2>3. fold[T] \in DeskType /\ Repaired(d, T, fold[T])
    BY <2>1
  <2>4. GiveWay(d, fold[T], k) \in DeskType /\ Repaired(d, T \cup {k}, GiveWay(d, fold[T], k))
    BY <2>1, <2>3, GiveWayFacts DEF F
  <2> QED
    BY <2>1, <2>2, <2>4
<1>14. F \in Q
  <2> HIDE DEF Q
  <2>1. SUBSET F \subseteq Q
    BY <1>2, <1>12, <1>13, SubsetInduction
  <2> QED
    BY <2>1
<1> QED
  BY <1>1, <1>14 DEF F

-----------------------------------------------------------------------------
(* The windows return whose monitor is back.                                *)

Presents(d) == <<d.bound, d.mode, d.back, d.wide>>

Lessee(d, k) == d.displaced[k] # None /\ d.displaced[k].board \in d.bound

PlaceOf(h, f) == [board |-> h.board, cell |-> h.cell, float |-> f]

(* The place that is kept for a window.                                     *)
LEMMA LeaseFacts ==
  ASSUME NEW d \in DeskType, NEW k \in Windows, d.displaced[k] # None
  PROVE  /\ d.displaced[k] \in Homes
         /\ d.displaced[k].board \in Boards /\ d.displaced[k].cell \in Cells
         /\ d.displaced[k] = [board |-> d.displaced[k].board, cell |-> d.displaced[k].cell]
BY DEF DeskType, Homes

(* To keep a place, or to forget it, moves nobody.                          *)
LEMMA FreeLeaseFacts ==
  ASSUME NEW d \in DeskType, NEW k \in Windows, NEW h \in Homes \cup {None}
  PROVE  LET e == [d EXCEPT !.displaced[k] = h] IN
         /\ e \in DeskType
         /\ Presents(e) = Presents(d) /\ e.focus = d.focus /\ e.at = d.at
         /\ e.displaced[k] = h
         /\ \A l \in Windows \ {k} : e.displaced[l] = d.displaced[l]
BY DEF DeskType, Presents

(* A window returns to the place that is kept for it, or stays.             *)
LEMMA ReturnFacts ==
  ASSUME NEW d \in DeskType, NEW k \in Windows
  PROVE  LET e == Return(d, k)
             h == d.displaced[k]
             p == PlaceOf(h, d.at[k].float) IN
         /\ e \in DeskType
         /\ Presents(e) = Presents(d)
         /\ \A l \in Windows \ {k} : e.at[l] = d.at[l] /\ e.displaced[l] = d.displaced[l]
         /\ e.displaced[k] \in {d.displaced[k], None}
         /\ ~Lessee(d, k) => e = d
         /\ d.at[k] = None => e.at[k] = None
         /\ Lessee(d, k) /\ d.at[k] # None =>
              /\ p \in Places /\ p # None
              /\ e.at[k] = d.at[k] \/ e.at[k] = p
              /\ ~d.at[k].float /\ e.at[k] # d.at[k] => h.cell \notin {d.at[l].cell : l \in Tiled(d, h.board)}
              /\ d.at[k].float \/ h.cell \notin {d.at[l].cell : l \in Tiled(d, h.board)} =>
                   e.at[k] = p /\ e.displaced[k] = None
<1> DEFINE h == d.displaced[k]
           freed == [d EXCEPT !.displaced[k] = None]
           cells == {d.at[l].cell : l \in Tiled(d, h.board)}
           e == Return(d, k)
           p == PlaceOf(h, d.at[k].float)
           put == [freed EXCEPT !.at[k] = p]
<1>1. CASE ~Lessee(d, k)
  BY <1>1 DEF Return, Lessee
<1>2. ASSUME Lessee(d, k)
      PROVE  /\ h \in Homes /\ h.board \in Boards /\ h.cell \in Cells /\ h.board \in d.bound /\ h # None
             /\ freed \in DeskType /\ Presents(freed) = Presents(d) /\ freed.at = d.at
             /\ freed.displaced[k] = None
             /\ \A l \in Windows \ {k} : freed.displaced[l] = d.displaced[l]
  <2>1. d.displaced[k] # None /\ d.displaced[k].board \in d.bound
    BY <1>2 DEF Lessee
  <2>2. None \in Homes \cup {None}
    OBVIOUS
  <2>3. h \in Homes /\ h.board \in Boards /\ h.cell \in Cells
    BY <2>1, LeaseFacts
  <2>4. /\ freed \in DeskType /\ Presents(freed) = Presents(d) /\ freed.at = d.at
        /\ freed.displaced[k] = None
        /\ \A l \in Windows \ {k} : freed.displaced[l] = d.displaced[l]
    BY <2>2, FreeLeaseFacts
  <2> HIDE DEF h, freed
  <2> QED
    BY <2>1, <2>3, <2>4 DEF h
<1>3. CASE Lessee(d, k) /\ d.at[k] = None
  <2>1. e = freed
    BY <1>2, <1>3 DEF Return
  <2> HIDE DEF e, freed
  <2> QED
    BY <1>2, <1>3, <2>1 DEF e
<1>4. CASE Lessee(d, k) /\ d.at[k] # None
  <2>1. d.at[k].float \in BOOLEAN
    BY <1>4, PlaceFacts
  <2>2. p \in Places /\ p # None
    BY <1>2, <1>4, <2>1, Nothings DEF Places, PlaceOf
  <2>3. e = IF d.at[k].float THEN put ELSE IF h.cell \in cells THEN d ELSE put
    BY <1>2, <1>4, <2>1 DEF Return, Put, PlaceOf
  <2> HIDE DEF freed, cells, e, p, h
  <2>4. /\ put \in DeskType
        /\ Rest(put) = Rest(freed)
        /\ put.at[k] = p
        /\ \A l \in Windows \ {k} : put.at[l] = freed.at[l]
    BY <1>2, <1>4, <2>2, PutFacts
  <2> HIDE DEF put
  <2>5. Presents(put) = Presents(d) /\ put.displaced = freed.displaced
    BY <1>2, <1>4, <2>4 DEF Presents, Rest
  <2>6. /\ e \in DeskType
        /\ Presents(e) = Presents(d)
        /\ \A l \in Windows \ {k} : e.at[l] = d.at[l] /\ e.displaced[l] = d.displaced[l]
        /\ e.displaced[k] \in {d.displaced[k], None}
    BY <1>2, <1>4, <2>3, <2>4, <2>5
  <2>7. /\ e.at[k] = d.at[k] \/ e.at[k] = p
        /\ ~d.at[k].float /\ e.at[k] # d.at[k] => h.cell \notin cells
        /\ d.at[k].float \/ h.cell \notin cells => e.at[k] = p /\ e.displaced[k] = None
    BY <1>2, <1>4, <2>3, <2>4, <2>5
  <2> QED
    BY <1>4, <2>2, <2>6, <2>7 DEF h, cells, e, p
<1> QED
  BY <1>1, <1>3, <1>4

(* A desk on which every window that is away can come back: it is placed,   *)
(* and no other stands, or will, where it was.                              *)
Reserved(d) ==
  \A k \in Windows : d.displaced[k] # None =>
    /\ d.at[k] # None
    /\ \A l \in Placed(d) : d.at[l].board # d.displaced[k].board
    /\ \A l \in Windows \ {k} : d.displaced[l] # d.displaced[k]

(* e is d after the windows of S were let return.                           *)
Back(d, S, e) ==
  /\ Presents(e) = Presents(d)
  /\ \A k \in Windows \ S : e.at[k] = d.at[k] /\ e.displaced[k] = d.displaced[k]
  /\ \A k \in Windows : e.displaced[k] \in {d.displaced[k], None}
  /\ \A k \in Windows : d.at[k] = None => e.at[k] = None
  /\ \A k \in Windows : d.at[k] # None =>
       /\ e.at[k] # None /\ e.at[k].float = d.at[k].float
       /\ e.at[k] = d.at[k] \/ e.at[k].board \in d.bound
  /\ TiledDistinct(d) => TiledDistinct(e)
  /\ Reserved(d) => \A k \in S :
       IF Lessee(d, k) THEN e.at[k] = PlaceOf(d.displaced[k], d.at[k].float) /\ e.displaced[k] = None
                       ELSE e.at[k] = d.at[k] /\ e.displaced[k] = d.displaced[k]

(* One more window was let return.                                          *)
LEMMA BackStep ==
  ASSUME NEW d \in DeskType, NEW S \in SUBSET Windows, NEW k \in Windows, k \notin S,
         NEW e \in DeskType, Back(d, S, e)
  PROVE  Return(e, k) \in DeskType /\ Back(d, S \cup {k}, Return(e, k))
<1> DEFINE r == Return(e, k)
           h == e.displaced[k]
           p == PlaceOf(h, e.at[k].float)
           cells == {e.at[l].cell : l \in Tiled(e, h.board)}
<1>1. /\ r \in DeskType
      /\ Presents(r) = Presents(e)
      /\ \A l \in Windows \ {k} : r.at[l] = e.at[l] /\ r.displaced[l] = e.displaced[l]
      /\ r.displaced[k] \in {e.displaced[k], None}
      /\ ~Lessee(e, k) => r = e
      /\ e.at[k] = None => r.at[k] = None
      /\ Lessee(e, k) /\ e.at[k] # None =>
           /\ p \in Places /\ p # None
           /\ r.at[k] = e.at[k] \/ r.at[k] = p
           /\ ~e.at[k].float /\ r.at[k] # e.at[k] => h.cell \notin cells
           /\ e.at[k].float \/ h.cell \notin cells => r.at[k] = p /\ r.displaced[k] = None
  BY ReturnFacts
<1>2. e.at[k] = d.at[k] /\ e.displaced[k] = d.displaced[k] /\ e.bound = d.bound
  BY DEF Back, Presents
<1>3. p.board = h.board /\ p.cell = h.cell /\ p.float = d.at[k].float
  BY <1>2 DEF PlaceOf
<1>4. Lessee(e, k) <=> Lessee(d, k)
  BY <1>2 DEF Lessee
<1>5. Lessee(d, k) => h # None /\ h.board \in d.bound
  BY <1>2 DEF Lessee
<1>a. \A l \in Tiled(e, h.board) : e.at[l].cell \in cells
  OBVIOUS
<1>b. \A x \in cells : \E l \in Tiled(e, h.board) : e.at[l].cell = x
  OBVIOUS
<1> HIDE DEF r, h, p, cells
<1>6. Presents(r) = Presents(d) /\ \A l \in Windows \ (S \cup {k}) : r.at[l] = d.at[l] /\ r.displaced[l] = d.displaced[l]
  BY <1>1 DEF Back
<1>7. \A l \in Windows : r.displaced[l] \in {d.displaced[l], None}
  BY <1>1 DEF Back
<1>8. \A l \in Windows : d.at[l] = None => r.at[l] = None
  BY <1>1, <1>2 DEF Back
<1>9. ASSUME d.at[k] # None
      PROVE  /\ r.at[k] # None /\ r.at[k].float = d.at[k].float
             /\ r.at[k] = d.at[k] \/ r.at[k].board \in d.bound
  <2>1. CASE ~Lessee(d, k)
    BY <1>1, <1>2, <1>4, <1>9, <2>1
  <2>2. CASE Lessee(d, k)
    BY <1>1, <1>2, <1>3, <1>4, <1>5, <1>9, <2>2
  <2> QED
    BY <2>1, <2>2
<1>10. \A l \in Windows : d.at[l] # None =>
         /\ r.at[l] # None /\ r.at[l].float = d.at[l].float
         /\ r.at[l] = d.at[l] \/ r.at[l].board \in d.bound
  BY <1>1, <1>9 DEF Back
<1>11. ASSUME TiledDistinct(d) PROVE TiledDistinct(r)
  <2>1. TiledDistinct(e)
    BY <1>11 DEF Back
  <2>2. CASE r.at[k] = e.at[k]
    <3>1. Placed(r) = Placed(e) /\ \A l \in Placed(e) : r.at[l] = e.at[l]
      BY <1>1, <2>2 DEF Placed
    <3> QED
      BY <2>1, <3>1 DEF TiledDistinct
  <2>3. CASE r.at[k] # e.at[k]
    <3>1. Lessee(d, k) /\ r.at[k] = p /\ (~p.float => h.cell \notin cells) /\ e.at[k] # None
      BY <1>1, <1>2, <1>3, <1>4, <2>3
    <3>2. ASSUME ~p.float, NEW l \in Placed(r) \ {k}, ~r.at[l].float, r.at[l].board = p.board PROVE r.at[l].cell # p.cell
      <4>1. r.at[l] = e.at[l] /\ l \in Tiled(e, h.board)
        BY <1>1, <1>3, <3>2 DEF Tiled, On, Placed
      <4> QED
        BY <1>3, <1>a, <3>1, <3>2, <4>1
    <3>3. \A l \in Placed(r) \ {k} : l \in Placed(e) /\ r.at[l] = e.at[l]
      BY <1>1 DEF Placed
    <3> QED
      BY <2>1, <3>1, <3>2, <3>3 DEF TiledDistinct
  <2> QED
    BY <2>2, <2>3
<1>12. ASSUME Reserved(d), Lessee(d, k) PROVE r.at[k] = p /\ r.displaced[k] = None
  <2>1. d.at[k] # None
    BY <1>12 DEF Reserved, Lessee
  <2>2. ASSUME NEW l \in Tiled(e, h.board), e.at[l].cell = h.cell PROVE FALSE
    <3>1. l \in Windows /\ e.at[l] # None /\ e.at[l].board = h.board
      BY DEF Tiled, On, Placed
    <3>2. d.at[l] # None
      BY <3>1 DEF Back
    <3>3. e.at[l] # d.at[l]
      BY <1>2, <1>12, <3>1, <3>2 DEF Reserved, Lessee, Placed, h
    <3>4. l \in S /\ l # k
      BY <1>2, <3>1, <3>3 DEF Back
    <3>5. Lessee(d, l) /\ e.at[l] = PlaceOf(d.displaced[l], d.at[l].float)
      BY <1>12, <3>3, <3>4 DEF Back
    <3>6. d.displaced[l].board = d.displaced[k].board /\ d.displaced[l].cell = d.displaced[k].cell
      BY <1>2, <2>2, <3>1, <3>5 DEF PlaceOf, h
    <3>7. d.displaced[l] = d.displaced[k]
      BY <1>12, <3>1, <3>5, <3>6, LeaseFacts DEF Lessee
    <3> QED
      BY <1>12, <3>1, <3>4, <3>7 DEF Reserved, Lessee
  <2>3. h.cell \notin cells
    BY <1>b, <2>2
  <2> QED
    BY <1>1, <1>2, <1>4, <1>12, <2>1, <2>3
<1>13. ASSUME Reserved(d), NEW l \in S \cup {k}
       PROVE IF Lessee(d, l) THEN r.at[l] = PlaceOf(d.displaced[l], d.at[l].float) /\ r.displaced[l] = None
                             ELSE r.at[l] = d.at[l] /\ r.displaced[l] = d.displaced[l]
  <2>1. CASE l = k
    BY <1>1, <1>2, <1>4, <1>12, <1>13, <2>1 DEF p, h
  <2>2. CASE l # k
    BY <1>1, <1>13, <2>2 DEF Back
  <2> QED
    BY <2>1, <2>2
<1> QED
  BY <1>1, <1>6, <1>7, <1>8, <1>10, <1>11, <1>13 DEF Back, r

(* All were let return.                                                     *)
LEMMA ReturnedFacts ==
  ASSUME NEW d \in DeskType
  PROVE  Returned(d) \in DeskType /\ Back(d, Windows, Returned(d))
<1> DEFINE F == Windows
           Body(f, S) == IF S = {} THEN d ELSE Return(f[S \ {Greatest(S)}], Greatest(S))
           fold == CHOOSE f : f = [S \in SUBSET F |-> Body(f, S)]
           last == [S \in SUBSET F |-> Greatest(S)]
           op == [q \in DeskType \X F |-> Return(q[1], q[2])]
<1>1. Returned(d) = fold[F]
  BY Zenon DEF Returned
<1>2. IsFiniteSet(F)
  BY Numbers
<1>4. \A S \in SUBSET F : S # {} => last[S] \in S /\ last[S] = Greatest(S)
  BY GreatestFacts
<1>5. \A e \in DeskType, k \in F : op[<<e, k>>] \in DeskType /\ op[<<e, k>>] = Return(e, k)
  <2> TAKE e \in DeskType, k \in F
  <2>1. Return(e, k) \in DeskType
    BY ReturnFacts
  <2> QED
    BY <2>1
<1>6. \A S \in SUBSET F : S # {} => Greatest(S) \in S /\ Greatest(S) \in F /\ S \ {Greatest(S)} \in SUBSET F
  BY <1>4
<1>0. F = Windows
  OBVIOUS
<1> HIDE DEF F, last, op
<1>7. PICK h \in [SUBSET F -> DeskType] : \A S \in SUBSET F :
          h[S] = IF S = {} THEN d ELSE op[<<h[S \ {last[S]}], last[S]>>]
  <2>1. \A S \in SUBSET F : S # {} => last[S] \in S
    BY <1>4
  <2>2. \A e \in DeskType, k \in F : op[<<e, k>>] \in DeskType
    BY <1>5
  <2>3. Foldable(F, DeskType, d, last, op)
    BY <1>2, <2>1, <2>2 DEF Foldable
  <2>4. HasFold(F, DeskType, d, last, op)
    BY <2>3, FoldExists
  <2> QED
    BY <2>4 DEF HasFold
<1>8. \A S \in SUBSET F : h[S] = Body(h, S)
  <2> TAKE S \in SUBSET F
  <2>1. CASE S = {}
    BY <1>7, <2>1
  <2>2. CASE S # {}
    <3>1. last[S] = Greatest(S) /\ Greatest(S) \in F /\ h[S \ {Greatest(S)}] \in DeskType
      BY <1>4, <1>6, <1>7, <2>2
    <3>2. h[S] = op[<<h[S \ {Greatest(S)}], Greatest(S)>>]
      BY <1>7, <2>2, <3>1
    <3> QED
      BY <1>5, <2>2, <3>1, <3>2
  <2> QED
    BY <2>1, <2>2
<1>9. h = [S \in SUBSET F |-> Body(h, S)]
  <2> HIDE DEF Body
  <2> QED
    BY <1>7, <1>8
<1>10. fold = [S \in SUBSET F |-> Body(fold, S)]
  <2> HIDE DEF Body
  <2> QED
    BY <1>9, Zenon
<1> HIDE DEF fold
<1>11. \A S \in SUBSET F : fold[S] = Body(fold, S)
  <2> HIDE DEF Body
  <2> QED
    BY <1>10
<1> DEFINE Q == {S \in SUBSET F : fold[S] \in DeskType /\ Back(d, S, fold[S])}
<1>12. {} \in Q
  <2>1. fold[{}] = d
    BY <1>11
  <2>2. Back(d, {}, d)
    BY <1>0 DEF Back
  <2> QED
    BY <2>1, <2>2
<1>13. ASSUME NEW S \in SUBSET F, S # {}, \A k \in S : S \ {k} \in Q PROVE S \in Q
  <2> DEFINE k == Greatest(S)
             T == S \ {k}
  <2>1. k \in S /\ k \in F /\ T \in SUBSET F /\ T \in Q /\ k \notin T /\ T \cup {k} = S
    BY <1>6, <1>13
  <2>2. fold[S] = Return(fold[T], k)
    BY <1>11, <1>13
  <2> HIDE DEF k, T
  <2>3. fold[T] \in DeskType /\ Back(d, T, fold[T])
    BY <2>1
  <2>4. Return(fold[T], k) \in DeskType /\ Back(d, T \cup {k}, Return(fold[T], k))
    BY <1>0, <2>1, <2>3, BackStep
  <2> QED
    BY <2>1, <2>2, <2>4
<1>14. F \in Q
  <2> HIDE DEF Q
  <2>1. SUBSET F \subseteq Q
    BY <1>2, <1>12, <1>13, SubsetInduction
  <2> QED
    BY <2>1
<1> QED
  BY <1>0, <1>1, <1>14

-----------------------------------------------------------------------------
(* The windows of monitors that are gone move over.                         *)

(* Where a window is to return, once it moved on from d.                    *)
Leased(d, k) == IF d.displaced[k] # None THEN d.displaced[k] ELSE Place(d, k)

(* The first place is kept.                                                 *)
LEMMA LeaseKept ==
  ASSUME NEW d \in DeskType, NEW k \in Placed(d)
  PROVE  LET e == Lease(d, k) IN
         /\ e \in DeskType
         /\ Presents(e) = Presents(d) /\ e.focus = d.focus /\ e.at = d.at
         /\ e.displaced[k] = Leased(d, k)
         /\ \A l \in Windows \ {k} : e.displaced[l] = d.displaced[l]
<1>1. k \in Windows /\ Place(d, k) \in Homes
  <2>1. d.at[k].board \in Boards /\ d.at[k].cell \in Cells
    BY PlaceFacts DEF Placed
  <2> QED
    BY <2>1 DEF Placed, Place, Homes
<1>2. CASE d.displaced[k] # None
  BY <1>2 DEF Lease, Leased
<1>3. CASE d.displaced[k] = None
  <2>1. Lease(d, k) = [d EXCEPT !.displaced[k] = Place(d, k)] /\ Leased(d, k) = Place(d, k)
    BY <1>3 DEF Lease, Leased
  <2> QED
    BY <1>1, <2>1, FreeLeaseFacts
<1> QED
  BY <1>2, <1>3

(* One window moves over, and those it pushes stay on their board.          *)
LEMMA TransferFacts ==
  ASSUME NEW d \in DeskType, Distinct(d), NEW k \in Placed(d), NEW b \in Boards,
         NEW anchor \in Cells, NEW dir \in Directions
  PROVE  LET e == Transfer(d, k, b, anchor, dir) IN
         /\ e \in DeskType /\ Distinct(e) /\ e # Refused
         /\ Presents(e) = Presents(d)
         /\ e.at[k] # None /\ e.at[k].board = b /\ e.at[k].float = d.at[k].float
         /\ e.displaced[k] = Leased(d, k)
         /\ \A l \in Windows \ {k} : e.displaced[l] = d.displaced[l]
         /\ \A l \in Windows \ {k} : Stays(d, e, l) /\ (l \notin On(d, b) => e.at[l] = d.at[l])
<1> DEFINE leased == Lease(d, k)
           off == [leased EXCEPT !.at[k] = None]
           e == Transfer(d, k, b, anchor, dir)
<1>1. k \in Windows /\ d.at[k] # None /\ d.at[k].float \in BOOLEAN /\ d.at[k].cell \in Cells
  BY PlaceFacts DEF Placed
<1>2. d # Refused
  BY Nothings
<1>3. /\ leased \in DeskType
      /\ Presents(leased) = Presents(d) /\ leased.focus = d.focus /\ leased.at = d.at
      /\ leased.displaced[k] = Leased(d, k)
      /\ \A l \in Windows \ {k} : leased.displaced[l] = d.displaced[l]
  BY LeaseKept
<1>4. e = IF d.at[k].float THEN AddFloating(leased, k, b, d.at[k].cell) ELSE Insert(off, k, b, anchor, dir, FALSE)
  BY <1>2 DEF Transfer
<1> HIDE DEF leased
<1>5. Distinct(leased)
  BY <1>3 DEF Distinct, Placed
<1>6. /\ off \in DeskType /\ Rest(off) = Rest(leased) /\ off.at[k] = None
      /\ \A l \in Windows \ {k} : off.at[l] = d.at[l]
  BY <1>1, <1>3 DEF DeskType, Rest
<1> HIDE DEF off, e
<1>7. Distinct(off)
  <2>1. \A l \in Placed(off) : l \in Placed(d) /\ off.at[l] = d.at[l]
    BY <1>6 DEF Placed
  <2> QED
    BY <2>1 DEF Distinct
<1>8. CASE d.at[k].float
  <2>1. e = AddFloating(leased, k, b, d.at[k].cell)
    BY <1>4, <1>8
  <2>2. /\ e \in DeskType /\ Distinct(e)
        /\ Rest(e) = Rest(leased)
        /\ e.at[k] # None /\ e.at[k].board = b /\ e.at[k].float
        /\ \A l \in Windows \ {k} : e.at[l] = leased.at[l]
    BY <1>1, <1>3, <1>5, <2>1, AddFloatingFacts
  <2>3. Presents(e) = Presents(d) /\ e.displaced = leased.displaced
    BY <1>3, <2>2 DEF Rest, Presents
  <2>4. \A l \in Windows \ {k} : Stays(d, e, l) /\ e.at[l] = d.at[l]
    BY <1>3, <2>2 DEF Stays
  <2>5. e # Refused
    BY <2>2, Nothings
  <2>6. e.at[k].float = d.at[k].float
    BY <1>1, <1>8, <2>2, PlaceFacts
  <2> QED
    BY <1>3, <1>8, <2>2, <2>3, <2>4, <2>5, <2>6 DEF e
<1>9. CASE ~d.at[k].float
  <2>1. e = Insert(off, k, b, anchor, dir, FALSE)
    BY <1>4, <1>9
  <2>2. /\ e \in DeskType /\ Distinct(e)
        /\ Rest(e) = Rest(off)
        /\ e.at[k] # None /\ e.at[k].board = b /\ ~e.at[k].float
        /\ \A l \in Windows \ {k} : Stays(off, e, l) /\ (l \notin On(off, b) => e.at[l] = off.at[l])
    <3>1. PICK f \in BOOLEAN : f = FALSE
      OBVIOUS
    <3>2. e = Insert(off, k, b, anchor, dir, f)
      BY <2>1, <3>1, Zenon
    <3> QED
      BY <1>1, <1>6, <1>7, <3>2, InsertFacts
  <2>3. Presents(e) = Presents(d) /\ e.displaced = leased.displaced
    BY <1>3, <1>6, <2>2 DEF Rest, Presents
  <2>4. \A l \in Windows \ {k} : Stays(d, e, l) /\ (l \notin On(d, b) => e.at[l] = d.at[l])
    BY <1>6, <2>2 DEF Stays, On, Placed
  <2>5. e # Refused
    BY <2>2, Nothings
  <2>6. e.at[k].float = d.at[k].float
    BY <1>1, <1>9, <2>2, PlaceFacts
  <2> QED
    BY <1>3, <2>2, <2>3, <2>4, <2>5, <2>6 DEF e
<1> QED
  BY <1>1, <1>8, <1>9

(* e is d after the windows of S moved over.                                *)
Over(d, S, e) ==
  /\ Presents(e) = Presents(d)
  /\ TiledDistinct(d) => TiledDistinct(e)
  /\ Distinct(d) => Distinct(e)
  /\ \A k \in Windows : d.at[k] = None <=> e.at[k] = None
  /\ \A k \in Windows : d.at[k] # None => e.at[k].float = d.at[k].float
  /\ \A k \in S : e.at[k].board \in d.bound /\ e.displaced[k] = Leased(d, k)
  /\ \A k \in Windows \ S : e.displaced[k] = d.displaced[k] /\ (d.at[k] # None => e.at[k].board = d.at[k].board)
  /\ \A k \in Leaving(d) \ S : e.at[k] = d.at[k]
  /\ S = {} => e = d

(* If all have cells of their own, the tiled windows have.                  *)
LEMMA DistinctTiled ==
  ASSUME NEW d \in DeskType, Distinct(d) PROVE TiledDistinct(d)
BY DEF Distinct, TiledDistinct

(* One more window moved over.                                              *)
LEMMA OverStep ==
  ASSUME NEW d \in DeskType, NEW S \in SUBSET Leaving(d), NEW k \in Leaving(d), k \notin S,
         NEW b \in d.bound, NEW anchor \in Cells, NEW dir \in Directions,
         NEW e \in DeskType \cup {Refused}, e = Refused \/ Over(d, S, e), Distinct(d) => e # Refused
  PROVE  LET t == Transfer(e, k, b, anchor, dir) IN
         /\ t \in DeskType \cup {Refused}
         /\ t = Refused \/ Over(d, S \cup {k}, t)
         /\ Distinct(d) => t # Refused
<1> DEFINE t == Transfer(e, k, b, anchor, dir)
<1>1. CASE e = Refused
  <2>1. t = Refused
    BY <1>1 DEF Transfer
  <2> QED
    BY <1>1, <2>1
<1>2. CASE e # Refused /\ ~Distinct(e)
  <2>1. t = Refused
    BY <1>2 DEF Transfer
  <2> QED
    BY <1>2, <2>1 DEF Over
<1>3. CASE e # Refused /\ Distinct(e)
  <2>0. e \in DeskType /\ Over(d, S, e) /\ b \in Boards
    BY <1>3 DEF DeskType
  <2>1. k \in Windows /\ S \subseteq Windows /\ Leaving(d) \subseteq Windows /\ d.at[k] # None /\ d.at[k].board \notin d.bound
    BY DEF Leaving, Placed
  <2>2. e.at[k] = d.at[k] /\ e.displaced[k] = d.displaced[k] /\ k \in Placed(e)
    BY <2>0, <2>1 DEF Over, Placed
  <2>3. Leased(e, k) = Leased(d, k)
    BY <2>2 DEF Leased, Place
  <2>4. /\ t \in DeskType /\ Distinct(t) /\ t # Refused
        /\ Presents(t) = Presents(e)
        /\ t.at[k] # None /\ t.at[k].board = b /\ t.at[k].float = e.at[k].float
        /\ t.displaced[k] = Leased(e, k)
        /\ \A l \in Windows \ {k} : t.displaced[l] = e.displaced[l]
        /\ \A l \in Windows \ {k} : Stays(e, t, l) /\ (l \notin On(e, b) => t.at[l] = e.at[l])
    BY <1>3, <2>0, <2>2, TransferFacts
  <2> HIDE DEF t
  <2>5. Presents(t) = Presents(d) /\ TiledDistinct(t)
    BY <2>0, <2>4, DistinctTiled DEF Over
  <2>6. \A l \in Windows : d.at[l] = None <=> t.at[l] = None
    BY <2>0, <2>1, <2>2, <2>4 DEF Over, Stays
  <2>7. \A l \in Windows : d.at[l] # None => t.at[l].float = d.at[l].float
    BY <2>0, <2>2, <2>4 DEF Over, Stays
  <2>a. \A l \in S : e.at[l] # None /\ l # k /\ l \in Windows
    BY <2>0, <2>1 DEF Over, Leaving, Placed
  <2>8. \A l \in S \cup {k} : t.at[l].board \in d.bound /\ t.displaced[l] = Leased(d, l)
    BY <2>0, <2>1, <2>3, <2>4, <2>a DEF Over, Stays
  <2>9. \A l \in Windows \ (S \cup {k}) : t.displaced[l] = d.displaced[l] /\ (d.at[l] # None => t.at[l].board = d.at[l].board)
    BY <2>0, <2>4 DEF Over, Stays
  <2>10. \A l \in Leaving(d) \ (S \cup {k}) : t.at[l] = d.at[l]
    <3> TAKE l \in Leaving(d) \ (S \cup {k})
    <3>1. l \in Windows \ {k} /\ e.at[l] = d.at[l] /\ d.at[l].board \notin d.bound
      BY <2>0 DEF Over, Leaving, Placed
    <3>2. l \notin On(e, b)
      BY <3>1 DEF On
    <3> QED
      BY <2>4, <3>1, <3>2
  <2> QED
    BY <2>4, <2>5, <2>6, <2>7, <2>8, <2>9, <2>10 DEF Over, t
<1> QED
  BY <1>1, <1>2, <1>3

(* All moved over, and none is refused where all had cells of their own.    *)
LEMMA MovedOverFacts ==
  ASSUME NEW d \in DeskType, NEW dest, \A k \in Leaving(d) : dest[d.at[k].board] \in d.bound,
         NEW anchor \in Cells, NEW dir \in Directions
  PROVE  LET e == MovedOver(d, dest, anchor, dir) IN
         /\ e \in DeskType \cup {Refused}
         /\ e = Refused \/ Over(d, Leaving(d), e)
         /\ Distinct(d) => e # Refused
<1> DEFINE F == Leaving(d)
           X == {e \in DeskType : Placed(e) = Placed(d)} \cup {Refused}
           Body(f, S) == IF S = {} THEN d
                         ELSE Transfer(f[S \ {LastOf(d, S)}], LastOf(d, S), dest[d.at[LastOf(d, S)].board], anchor, dir)
           fold == CHOOSE f : f = [S \in SUBSET F |-> Body(f, S)]
           last == [S \in SUBSET F |-> LastOf(d, S)]
           op == [q \in X \X F |-> Transfer(q[1], q[2], dest[d.at[q[2]].board], anchor, dir)]
<1>1. MovedOver(d, dest, anchor, dir) = fold[F]
  BY Zenon DEF MovedOver
<1>2. IsFiniteSet(F) /\ F \subseteq Placed(d)
  BY Numbers, FS_Subset DEF Leaving, Placed
<1>3. d \in X
  OBVIOUS
<1>4. \A S \in SUBSET F : S # {} => last[S] \in S /\ last[S] = LastOf(d, S)
  BY <1>2, LastOfFacts
<1>5. \A e \in X, k \in F : op[<<e, k>>] \in X /\ op[<<e, k>>] = Transfer(e, k, dest[d.at[k].board], anchor, dir)
  <2> TAKE e \in X, k \in F
  <2> DEFINE t == Transfer(e, k, dest[d.at[k].board], anchor, dir)
  <2>1. CASE e = Refused \/ ~Distinct(e)
    <3>1. t = Refused
      BY <2>1 DEF Transfer
    <3> QED
      BY <3>1
  <2>2. CASE e \in DeskType /\ Distinct(e) /\ Placed(e) = Placed(d)
    <3>1. dest[d.at[k].board] \in Boards /\ k \in Placed(e) /\ k \in Windows
      BY <1>2, <2>2 DEF DeskType, Placed
    <3>2. /\ t \in DeskType /\ t.at[k] # None
          /\ \A l \in Windows \ {k} : Stays(e, t, l)
      BY <2>2, <3>1, TransferFacts
    <3> HIDE DEF t
    <3>3. Placed(t) = Placed(e)
      BY <3>1, <3>2 DEF Placed, Stays
    <3> QED
      BY <2>2, <3>2, <3>3 DEF t
  <2> QED
    BY <2>1, <2>2
<1>6. \A S \in SUBSET F : S # {} => LastOf(d, S) \in S /\ LastOf(d, S) \in F /\ S \ {LastOf(d, S)} \in SUBSET F
  BY <1>4
<1>a. \A e \in X : e \in DeskType \cup {Refused}
  OBVIOUS
<1>0. F = Leaving(d)
  OBVIOUS
<1> HIDE DEF F, X, last, op
<1>7. PICK h \in [SUBSET F -> X] : \A S \in SUBSET F :
          h[S] = IF S = {} THEN d ELSE op[<<h[S \ {last[S]}], last[S]>>]
  <2>1. \A S \in SUBSET F : S # {} => last[S] \in S
    BY <1>4
  <2>2. \A e \in X, k \in F : op[<<e, k>>] \in X
    BY <1>5
  <2>3. Foldable(F, X, d, last, op)
    BY <1>2, <1>3, <2>1, <2>2 DEF Foldable
  <2>4. HasFold(F, X, d, last, op)
    BY <2>3, FoldExists
  <2> QED
    BY <2>4 DEF HasFold
<1>8. \A S \in SUBSET F : h[S] = Body(h, S)
  <2> TAKE S \in SUBSET F
  <2>1. CASE S = {}
    BY <1>7, <2>1
  <2>2. CASE S # {}
    <3>1. last[S] = LastOf(d, S) /\ LastOf(d, S) \in F /\ h[S \ {LastOf(d, S)}] \in X
      BY <1>4, <1>6, <1>7, <2>2
    <3>2. h[S] = op[<<h[S \ {LastOf(d, S)}], LastOf(d, S)>>]
      BY <1>7, <2>2, <3>1
    <3> QED
      BY <1>5, <2>2, <3>1, <3>2
  <2> QED
    BY <2>1, <2>2
<1>9. h = [S \in SUBSET F |-> Body(h, S)]
  <2> HIDE DEF Body
  <2> QED
    BY <1>7, <1>8
<1>10. fold = [S \in SUBSET F |-> Body(fold, S)]
  <2> HIDE DEF Body
  <2> QED
    BY <1>9, Zenon
<1> HIDE DEF fold
<1>11. \A S \in SUBSET F : fold[S] = Body(fold, S)
  <2> HIDE DEF Body
  <2> QED
    BY <1>10
<1> DEFINE Good(S, e) ==
             /\ e \in DeskType \cup {Refused}
             /\ e = Refused \/ Over(d, S, e)
             /\ Distinct(d) => e # Refused
           Q == {S \in SUBSET F : Good(S, fold[S])}
<1>12. {} \in Q
  <2>1. fold[{}] = d
    BY <1>11
  <2>2. Over(d, {}, d)
    BY DEF Over
  <2>3. d # Refused
    BY Nothings
  <2> QED
    BY <2>1, <2>2, <2>3
<1>13. ASSUME NEW S \in SUBSET F, S # {}, \A k \in S : S \ {k} \in Q PROVE S \in Q
  <2> DEFINE k == LastOf(d, S)
             T == S \ {k}
  <2>1. k \in S /\ k \in F /\ T \in SUBSET F /\ T \in Q /\ k \notin T /\ T \cup {k} = S
    BY <1>6, <1>13
  <2>2. fold[S] = Transfer(fold[T], k, dest[d.at[k].board], anchor, dir)
    BY <1>11, <1>13
  <2> HIDE DEF k, T
  <2>3. Good(T, fold[T])
    BY <2>1
  <2>4. dest[d.at[k].board] \in d.bound
    BY <1>0, <2>1
  <2>5. Good(T \cup {k}, Transfer(fold[T], k, dest[d.at[k].board], anchor, dir))
    BY <1>0, <2>1, <2>3, <2>4, OverStep
  <2> HIDE DEF Good
  <2> QED
    BY <2>1, <2>2, <2>5
<1>14. F \in Q
  <2> HIDE DEF Q
  <2>1. SUBSET F \subseteq Q
    BY <1>2, <1>12, <1>13, SubsetInduction
  <2> QED
    BY <2>1
<1>15. Good(F, fold[F])
  BY <1>14
<1> HIDE DEF fold
<1> QED
  BY <1>0, <1>1, <1>15

-----------------------------------------------------------------------------
(* The command that tells the model of the monitors.                        *)

(* A window that is to return is on the desk.                               *)
Held(d) == \A k \in Windows : d.displaced[k] # None => d.at[k] # None

(* What may come before the last step of a command.                         *)
WideNamed(d) == d.mode = "wide" \/ (d.mode = "desktop" /\ d.back = "wide") => d.wide # None

(* The last step of a command moves nobody.                                 *)
LEMMA SettledFacts ==
  ASSUME NEW d \in DeskType, WideNamed(d)
  PROVE  LET e == Settled(d) IN
         /\ e \in DeskType /\ WideHasItsWindow(e)
         /\ e.at = d.at /\ e.displaced = d.displaced /\ e.bound = d.bound
<1> DEFINE e == [d EXCEPT !.focus = IF d.focus # None /\ d.at[d.focus] = None THEN None ELSE d.focus]
           lost == e.wide # None /\ (IF e.at[e.wide] = None THEN TRUE ELSE e.at[e.wide].float)
           f == [e EXCEPT !.wide = None, !.back = "normal", !.mode = IF @ = "wide" THEN "normal" ELSE @]
<1>1. Settled(d) = IF lost THEN f ELSE e
  BY DEF Settled
<1>2. /\ e \in DeskType /\ e.at = d.at /\ e.displaced = d.displaced /\ e.bound = d.bound
      /\ e.mode = d.mode /\ e.back = d.back /\ e.wide = d.wide
  BY DEF DeskType
<1> HIDE DEF e
<1>3. /\ f \in DeskType /\ f.at = e.at /\ f.displaced = e.displaced /\ f.bound = e.bound
      /\ f.wide = None /\ f.back = "normal" /\ f.mode # "wide"
  BY <1>2 DEF DeskType, Modes
<1> HIDE DEF f
<1>4. CASE lost
  BY <1>1, <1>2, <1>3, <1>4 DEF WideHasItsWindow
<1>5. CASE ~lost
  <2>1. e.wide # None => e.wide \in Windows /\ e.at[e.wide] # None /\ ~e.at[e.wide].float
    BY <1>2, <1>5 DEF DeskType
  <2>2. WideHasItsWindow(e)
    BY <1>2, <2>1 DEF WideHasItsWindow, WideNamed, Placed
  <2> QED
    BY <1>1, <1>2, <1>5, <2>2
<1> QED
  BY <1>4, <1>5

(* Where a window is to return after the monitors changed.                  *)
HomeAfter(d, outs, h, k) ==
  CASE outs # {} /\ k \in Placed(d) /\ h = None /\ d.at[k].board \notin outs -> Place(d, k)
    [] outs # {} /\ k \in Placed(d) /\ h # None /\ h.board \in outs -> None
    [] OTHER -> h

(* What the views may say of the nearest boards.                            *)
Nearest(d, outs) == [{d.at[k].board : k \in Placed(d)} -> IF outs = {} THEN {None} ELSE outs]

(* What is left when the windows of the monitors that are gone moved over.  *)
Removed(d, outs, dest, anchor, dir) ==
  LET r == Returned([d EXCEPT !.bound = outs]) IN
  IF outs = {} THEN r ELSE MovedOver(r, dest, anchor, dir)

(* The windows have returned and moved over: the floating ones may still be *)
(* on the cells of others, unless all could return.                         *)
LEMMA RemovedFacts ==
  ASSUME NEW d \in DeskType, Distinct(d), Held(d), NEW outs \in SUBSET Boards,
         NEW dest \in Nearest(d, outs),
         NEW anchor \in Cells, NEW dir \in Directions
  PROVE  LET o == Removed(d, outs, dest, anchor, dir) IN
         /\ o \in DeskType \cup {Refused}
         /\ o # Refused =>
              /\ TiledDistinct(o) /\ Held(o) /\ Placed(o) = Placed(d)
              /\ Presents(o) = <<outs, d.mode, d.back, d.wide>>
              /\ outs # {} => \A k \in Placed(o) : o.at[k].board \in outs
         /\ Returnable(d) =>
              /\ o # Refused /\ Distinct(o)
              /\ outs = {} => \A k \in Windows : o.at[k] = d.at[k]
              /\ \A k \in Windows : o.displaced[k] = HomeAfter(d, outs, d.displaced[k], k)
              /\ (\A k \in Placed(d) : d.at[k].board \in outs) =>
                    \A k \in Windows : d.displaced[k] # None /\ d.displaced[k].board \in outs => Place(o, k) = d.displaced[k]
<1> DEFINE d0 == [d EXCEPT !.bound = outs]
           r == Returned(d0)
           o == Removed(d, outs, dest, anchor, dir)
<1>o. o = IF outs = {} THEN r ELSE MovedOver(r, dest, anchor, dir)
  BY DEF Removed
<1> HIDE DEF o, r
<1>1. /\ d0 \in DeskType /\ d0.at = d.at /\ d0.displaced = d.displaced /\ d0.bound = outs
      /\ Presents(d0) = <<outs, d.mode, d.back, d.wide>>
  BY DEF DeskType, Presents
<1>2. r \in DeskType /\ Back(d0, Windows, r)
  BY <1>1, ReturnedFacts DEF r
<1> HIDE DEF d0
<1>3. Presents(r) = <<outs, d.mode, d.back, d.wide>> /\ r.bound = outs
  BY <1>1, <1>2 DEF Back, Presents
<1>4. /\ \A k \in Windows : r.displaced[k] \in {d.displaced[k], None} /\ (d.at[k] = None <=> r.at[k] = None)
      /\ \A k \in Windows : d.at[k] # None => r.at[k] = d.at[k] \/ r.at[k].board \in outs
  BY <1>1, <1>2 DEF Back
<1>5. TiledDistinct(r)
  <2>1. TiledDistinct(d0)
    BY <1>1, DistinctTiled DEF TiledDistinct, Placed
  <2> QED
    BY <1>2, <2>1 DEF Back
<1>6. Held(r) /\ Placed(r) = Placed(d)
  BY <1>4 DEF Held, Placed
<1>7. ASSUME outs # {} PROVE \A k \in Leaving(r) : dest[r.at[k].board] \in outs /\ r.at[k] = d.at[k] /\ k \in Placed(d) /\ k \in Windows
  <2> TAKE k \in Leaving(r)
  <2>1. k \in Windows /\ r.at[k] # None /\ r.at[k].board \notin outs
    BY <1>3 DEF Leaving, Placed
  <2>2. r.at[k] = d.at[k] /\ k \in Placed(d)
    BY <1>4, <2>1 DEF Placed
  <2>3. dest[r.at[k].board] \in outs
    BY <1>7, <2>2 DEF Nearest
  <2> QED
    BY <2>1, <2>2, <2>3
<1>8. ASSUME outs # {}
      PROVE  /\ o \in DeskType \cup {Refused}
             /\ o = Refused \/ Over(r, Leaving(r), o)
             /\ Distinct(r) => o # Refused
  BY <1>o, <1>2, <1>3, <1>7, <1>8, MovedOverFacts
<1>9. o \in DeskType \cup {Refused}
  BY <1>o, <1>2, <1>8
<1>10. ASSUME o # Refused
       PROVE  /\ TiledDistinct(o) /\ Held(o) /\ Placed(o) = Placed(d)
              /\ Presents(o) = <<outs, d.mode, d.back, d.wide>>
              /\ outs # {} => \A k \in Placed(o) : o.at[k].board \in outs
  <2>1. CASE outs = {}
    BY <1>o, <1>3, <1>5, <1>6, <2>1
  <2>2. CASE outs # {}
    <3>1. Over(r, Leaving(r), o)
      BY <1>8, <1>10, <2>2
    <3>2. TiledDistinct(o) /\ Presents(o) = <<outs, d.mode, d.back, d.wide>>
      BY <1>3, <1>5, <3>1 DEF Over
    <3>3. Placed(o) = Placed(r)
      BY <3>1 DEF Over, Placed
    <3>4. Held(o)
      <4> SUFFICES ASSUME NEW k \in Windows, o.displaced[k] # None, o.at[k] = None PROVE FALSE
        BY DEF Held
      <4>1. r.at[k] = None /\ k \notin Leaving(r)
        BY <3>1 DEF Over, Leaving, Placed
      <4>2. r.displaced[k] = o.displaced[k]
        BY <3>1, <4>1 DEF Over
      <4> QED
        BY <1>6, <4>1, <4>2 DEF Held
    <3>5. \A k \in Placed(o) : o.at[k].board \in outs
      <4> TAKE k \in Placed(o)
      <4>1. CASE k \in Leaving(r)
        BY <1>3, <3>1, <4>1 DEF Over
      <4>2. CASE k \notin Leaving(r)
        BY <1>3, <3>1, <3>3, <4>2 DEF Over, Leaving, Placed
      <4> QED
        BY <4>1, <4>2
    <3> QED
      BY <1>6, <3>2, <3>3, <3>4, <3>5
  <2> QED
    BY <2>1, <2>2
<1>11. ASSUME Returnable(d)
       PROVE  /\ o # Refused /\ Distinct(o)
              /\ outs = {} => \A k \in Windows : o.at[k] = d.at[k]
              /\ \A k \in Windows : o.displaced[k] = HomeAfter(d, outs, d.displaced[k], k)
              /\ (\A k \in Placed(d) : d.at[k].board \in outs) =>
                    \A k \in Windows : d.displaced[k] # None /\ d.displaced[k].board \in outs => Place(o, k) = d.displaced[k]
  <2> DEFINE back(k) == d.displaced[k] # None /\ d.displaced[k].board \in outs
  <2>1. \A k \in Windows : d.displaced[k] # None =>
          /\ d.at[k] # None
          /\ \A l \in Placed(d) : d.at[l].board # d.displaced[k].board
          /\ \A l \in Windows \ {k} : d.displaced[l] # d.displaced[k]
    BY <1>11 DEF Returnable, Held
  <2>2. Reserved(d0)
    BY <1>1, <2>1 DEF Reserved, Placed
  <2>3. \A k \in Windows :
          /\ back(k) => /\ r.at[k] = PlaceOf(d.displaced[k], d.at[k].float) /\ r.displaced[k] = None
                        /\ r.at[k].board = d.displaced[k].board /\ r.at[k].cell = d.displaced[k].cell
          /\ ~back(k) => r.at[k] = d.at[k] /\ r.displaced[k] = d.displaced[k]
    BY <1>1, <1>2, <2>2 DEF Back, Lessee, PlaceOf
  <2> HIDE DEF back
  <2>4. ASSUME NEW k \in Placed(d), NEW l \in Placed(d), back(k), l # k
        PROVE  ~(r.at[k].board = r.at[l].board /\ r.at[k].cell = r.at[l].cell)
    <3>1. k \in Windows /\ l \in Windows /\ d.displaced[k] # None
      BY <2>4 DEF Placed, back
    <3>2. CASE back(l)
      <4>1. d.displaced[l] # None /\ d.displaced[l] # d.displaced[k]
        BY <2>1, <2>4, <3>1, <3>2 DEF back
      <4>2. d.displaced[k] = [board |-> d.displaced[k].board, cell |-> d.displaced[k].cell]
            /\ d.displaced[l] = [board |-> d.displaced[l].board, cell |-> d.displaced[l].cell]
        BY <3>1, <4>1, LeaseFacts
      <4> QED
        BY <2>3, <2>4, <3>1, <3>2, <4>1, <4>2
    <3>3. CASE ~back(l)
      BY <2>1, <2>3, <2>4, <3>1, <3>3
    <3> QED
      BY <3>2, <3>3
  <2>5. Distinct(r)
    <3> SUFFICES ASSUME NEW k \in Placed(d), NEW l \in Placed(d), r.at[k].board = r.at[l].board, r.at[k].cell = r.at[l].cell, k # l
                 PROVE  FALSE
      BY <1>6 DEF Distinct
    <3>1. CASE back(k) \/ back(l)
      BY <2>4, <3>1
    <3>2. CASE ~back(k) /\ ~back(l)
      <4>1. r.at[k] = d.at[k] /\ r.at[l] = d.at[l]
        BY <2>3, <3>2 DEF Placed
      <4> QED
        BY <4>1 DEF Distinct
    <3> QED
      BY <3>1, <3>2
  <2>6. o # Refused /\ Distinct(o)
    <3>1. CASE outs = {}
      BY <1>o, <1>2, <2>5, <3>1, Nothings
    <3>2. CASE outs # {}
      BY <1>8, <2>5, <3>2 DEF Over
    <3> QED
      BY <3>1, <3>2
  <2>7. ASSUME NEW k \in Windows PROVE o.displaced[k] = HomeAfter(d, outs, d.displaced[k], k)
    <3>1. CASE outs = {}
      BY <1>o, <2>3, <3>1 DEF HomeAfter, back
    <3>2. CASE outs # {} /\ k \notin Placed(d)
      <4>1. d.displaced[k] = None /\ k \notin Leaving(r)
        BY <1>6, <2>1, <3>2 DEF Placed, Leaving
      <4>2. o.displaced[k] = None
        BY <1>4, <1>8, <2>6, <3>2, <4>1 DEF Over
      <4> QED
        BY <3>2, <4>1, <4>2 DEF HomeAfter
    <3>3. CASE outs # {} /\ k \in Placed(d)
      <4>0. Over(r, Leaving(r), o)
        BY <1>8, <2>6, <3>3
      <4>1. CASE back(k)
        <5>1. r.displaced[k] = None /\ r.at[k].board \in outs /\ d.displaced[k] # None /\ d.displaced[k].board \in outs
          BY <2>3, <4>1 DEF back
        <5>2. k \notin Leaving(r)
          BY <1>3, <5>1 DEF Leaving
        <5> QED
          BY <3>3, <4>0, <5>1, <5>2 DEF Over, HomeAfter
      <4>2. CASE ~back(k) /\ d.at[k].board \in outs
        <5>1. r.displaced[k] = d.displaced[k] /\ r.at[k] = d.at[k]
          BY <2>3, <4>2
        <5>2. k \notin Leaving(r)
          BY <1>3, <4>2, <5>1 DEF Leaving
        <5>3. o.displaced[k] = d.displaced[k]
          BY <4>0, <5>1, <5>2 DEF Over
        <5> QED
          BY <3>3, <4>2, <5>3 DEF HomeAfter, back
      <4>3. CASE ~back(k) /\ d.at[k].board \notin outs
        <5>1. r.displaced[k] = d.displaced[k] /\ r.at[k] = d.at[k]
          BY <2>3, <4>3
        <5>2. k \in Leaving(r)
          BY <1>3, <1>6, <3>3, <4>3, <5>1 DEF Leaving
        <5>3. o.displaced[k] = Leased(r, k) /\ Place(r, k) = Place(d, k)
          BY <4>0, <5>1, <5>2 DEF Over, Place
        <5> QED
          BY <3>3, <4>3, <5>1, <5>3 DEF HomeAfter, back, Leased
      <4> QED
        BY <4>1, <4>2, <4>3
    <3> QED
      BY <3>1, <3>2, <3>3
  <2>8. ASSUME \A k \in Placed(d) : d.at[k].board \in outs, NEW k \in Windows, d.displaced[k] # None, d.displaced[k].board \in outs
        PROVE  Place(o, k) = d.displaced[k]
    <3>1. outs # {}
      BY <2>8
    <3>2. Leaving(r) = {}
      BY <1>3, <1>4, <1>6, <2>8 DEF Leaving, Placed
    <3>3. o = r
      BY <1>8, <2>6, <3>1, <3>2 DEF Over
    <3>4. r.at[k].board = d.displaced[k].board /\ r.at[k].cell = d.displaced[k].cell
      BY <2>3, <2>8 DEF back
    <3>5. d.displaced[k] = [board |-> d.displaced[k].board, cell |-> d.displaced[k].cell]
      BY <2>8, LeaseFacts
    <3> QED
      BY <3>3, <3>4, <3>5 DEF Place
  <2>9. outs = {} => \A k \in Windows : o.at[k] = d.at[k]
    BY <1>o, <2>3 DEF back
  <2> QED
    BY <2>6, <2>7, <2>8, <2>9
<1> QED
  BY <1>9, <1>10, <1>11 DEF o

(* The command as a whole: it is not refused when all could return, and     *)
(* then they have.                                                          *)
LEMMA FollowedFacts ==
  ASSUME NEW d \in DeskType, Distinct(d), Held(d), WideHasItsWindow(d), NEW outs \in SUBSET Boards,
         NEW dest \in Nearest(d, outs),
         NEW anchor \in Cells, NEW dir \in Directions,
         NEW e, e = Followed(d, outs, dest, anchor, dir)
  PROVE  /\ e # Refused =>
              /\ e \in DeskType /\ Distinct(e) /\ Held(e) /\ WideHasItsWindow(e)
              /\ Placed(e) = Placed(d) /\ e.bound = outs
              /\ outs # {} => \A k \in Placed(e) : e.at[k].board \in outs
         /\ Returnable(d) =>
              /\ e # Refused
              /\ outs = {} => \A k \in Windows : e.at[k] = d.at[k]
              /\ \A k \in Windows : e.displaced[k] = HomeAfter(d, outs, d.displaced[k], k)
              /\ (\A k \in Placed(d) : d.at[k].board \in outs) =>
                    \A k \in Windows : d.displaced[k] # None /\ d.displaced[k].board \in outs => Place(e, k) = d.displaced[k]
<1> DEFINE o == Removed(d, outs, dest, anchor, dir)
           p == Repair(o)
           a == Settled(p)
<1>1. e = IF o = Refused THEN Refused ELSE IF Distinct(a) THEN a ELSE Refused
  BY Zenon DEF Followed, Removed
<1>2. /\ o \in DeskType \cup {Refused}
      /\ o # Refused =>
           /\ TiledDistinct(o) /\ Held(o) /\ Placed(o) = Placed(d)
           /\ Presents(o) = <<outs, d.mode, d.back, d.wide>>
           /\ outs # {} => \A k \in Placed(o) : o.at[k].board \in outs
      /\ Returnable(d) =>
           /\ o # Refused /\ Distinct(o)
           /\ outs = {} => \A k \in Windows : o.at[k] = d.at[k]
           /\ \A k \in Windows : o.displaced[k] = HomeAfter(d, outs, d.displaced[k], k)
           /\ (\A k \in Placed(d) : d.at[k].board \in outs) =>
                 \A k \in Windows : d.displaced[k] # None /\ d.displaced[k].board \in outs => Place(o, k) = d.displaced[k]
  BY RemovedFacts
<1> HIDE DEF o
<1>3. ASSUME o # Refused
      PROVE  /\ e = a /\ a \in DeskType /\ Distinct(a) /\ Held(a) /\ WideHasItsWindow(a)
             /\ Placed(a) = Placed(d) /\ a.bound = outs /\ a.displaced = o.displaced
             /\ outs # {} => \A k \in Placed(a) : a.at[k].board \in outs
             /\ Distinct(o) => \A k \in Windows : a.at[k] = o.at[k]
  <2>1. o \in DeskType /\ p \in DeskType /\ Repaired(o, Floats(o), p)
    BY <1>2, <1>3, RepairFacts
  <2> HIDE DEF p
  <2>2. p.bound = outs /\ p.displaced = o.displaced /\ p.mode = d.mode /\ p.back = d.back /\ p.wide = d.wide
    BY <1>2, <1>3, <2>1 DEF Repaired, Rest, Presents
  <2>3. WideNamed(p)
    BY <2>2 DEF WideNamed, WideHasItsWindow
  <2>4. /\ a \in DeskType /\ WideHasItsWindow(a)
        /\ a.at = p.at /\ a.displaced = p.displaced /\ a.bound = p.bound
    BY <2>1, <2>3, SettledFacts
  <2> HIDE DEF a
  <2>5. Floats(o) \subseteq Windows
    BY DEF Floats, Placed
  <2>6. \A k \in Windows : (o.at[k] = None <=> a.at[k] = None) /\ (o.at[k] # None => a.at[k].board = o.at[k].board)
    <3> TAKE k \in Windows
    <3>1. CASE k \in Floats(o)
      BY <2>1, <2>4, <3>1 DEF Repaired, Floats, Placed
    <3>2. CASE k \notin Floats(o)
      BY <2>1, <2>4, <3>2 DEF Repaired
    <3> QED
      BY <3>1, <3>2
  <2>7. Distinct(p)
    BY <1>2, <1>3, <2>1 DEF Repaired
  <2>8. Distinct(a)
    BY <2>4, <2>7 DEF Distinct, Placed
  <2>9. Held(a) /\ Placed(a) = Placed(d)
    BY <1>2, <1>3, <2>2, <2>4, <2>6 DEF Held, Placed
  <2>10. outs # {} => \A k \in Placed(a) : a.at[k].board \in outs
    BY <1>2, <1>3, <2>6, <2>9 DEF Placed
  <2>11. Distinct(o) => \A k \in Windows : a.at[k] = o.at[k]
    BY <2>1, <2>4 DEF Repaired
  <2> QED
    BY <1>1, <1>3, <2>2, <2>4, <2>8, <2>9, <2>10, <2>11
<1> HIDE DEF a
<1>4. CASE o = Refused
  BY <1>1, <1>2, <1>4
<1>5. CASE o # Refused
  <2>1. Distinct(o) => \A k \in Windows : Place(a, k) = Place(o, k)
    BY <1>3, <1>5 DEF Place
  <2>2. a # Refused
    BY <1>3, <1>5, Nothings
  <2> QED
    BY <1>2, <1>3, <1>5, <2>1, <2>2
<1> QED
  BY <1>4, <1>5

-----------------------------------------------------------------------------
(* What every other command may make of a desk.                             *)
Legal(d, e) ==
  /\ e \in DeskType /\ Distinct(e) /\ WideNamed(e) /\ Held(e)
  /\ e.bound = d.bound
  /\ \A k \in Placed(e) : e.at[k].board \in d.bound \cup {d.at[l].board : l \in Placed(d)}
  /\ \A k \in Windows : e.displaced[k] \in {d.displaced[k], None}

(* A window was put on a cell that is free.                                 *)
LEMMA PlacedLegal ==
  ASSUME NEW d \in DeskType, WideHasItsWindow(d), Held(d), NEW k \in Windows,
         NEW e \in DeskType, Distinct(e), Rest(e) = Rest(d), e.at[k] # None,
         e.at[k].board \in d.bound \cup {d.at[l].board : l \in Placed(d)},
         \A l \in Windows \ {k} : Stays(d, e, l)
  PROVE  /\ Legal(d, e)
         /\ Placed(e) = Placed(d) \cup {k}
         /\ e.displaced = d.displaced
<1>1. e.bound = d.bound /\ e.displaced = d.displaced /\ e.mode = d.mode /\ e.back = d.back /\ e.wide = d.wide
  BY DEF Rest
<1>2. Placed(e) = Placed(d) \cup {k}
  BY DEF Placed, Stays
<1>3. WideNamed(e)
  BY <1>1 DEF WideNamed, WideHasItsWindow
<1>4. Held(e)
  BY <1>1, <1>2 DEF Held, Placed
<1>5. \A l \in Placed(e) : e.at[l].board \in d.bound \cup {d.at[j].board : j \in Placed(d)}
  BY <1>2 DEF Stays, Placed
<1> QED
  BY <1>1, <1>2, <1>3, <1>4, <1>5 DEF Legal

(* A command that only turns what is presented.                             *)
LEMMA PresentedLegal ==
  ASSUME NEW d \in DeskType, Distinct(d), Held(d),
         NEW e \in DeskType, WideNamed(e), e.at = d.at, e.displaced = d.displaced, e.bound = d.bound
  PROVE  Legal(d, e) /\ Placed(e) = Placed(d)
BY DEF Legal, Distinct, Held, Placed

(* A window went away.                                                      *)
LEMMA AbsentLegal ==
  ASSUME NEW d \in DeskType, Distinct(d), WideHasItsWindow(d), Held(d), NEW k \in Windows,
         NEW e, e = Absent(d, k)
  PROVE  /\ Legal(d, e) /\ Placed(e) = Placed(d) \ {k}
         /\ e.displaced[k] = None
         /\ \A l \in Windows \ {k} : e.displaced[l] = d.displaced[l]
<1> DEFINE t == Take(d, k)
<1>1. t \in DeskType /\ Rest(t) = Rest(d) /\ t.at[k] = None /\ \A l \in Windows \ {k} : t.at[l] = d.at[l]
  BY TakeFacts
<1>2. e = [t EXCEPT !.displaced[k] = None]
  BY DEF Absent
<1> HIDE DEF t
<1>3. None \in Homes \cup {None}
  OBVIOUS
<1>4. /\ e \in DeskType
      /\ Presents(e) = Presents(t) /\ e.at = t.at
      /\ e.displaced[k] = None
      /\ \A l \in Windows \ {k} : e.displaced[l] = t.displaced[l]
  BY <1>1, <1>2, <1>3, FreeLeaseFacts
<1>5. /\ e.bound = d.bound /\ e.mode = d.mode /\ e.back = d.back /\ e.wide = d.wide
      /\ t.displaced = d.displaced
  BY <1>1, <1>4 DEF Rest, Presents
<1>6. Placed(e) = Placed(d) \ {k} /\ \A l \in Placed(e) : e.at[l] = d.at[l]
  BY <1>1, <1>4 DEF Placed
<1>7. Distinct(e)
  BY <1>6 DEF Distinct
<1>8. WideNamed(e) /\ Held(e)
  BY <1>1, <1>4, <1>5 DEF WideNamed, WideHasItsWindow, Held
<1> QED
  BY <1>4, <1>5, <1>6, <1>7, <1>8 DEF Legal

(* A window changed places with another.                                    *)
LEMMA MoveLegal ==
  ASSUME NEW d \in DeskType, Distinct(d), WideHasItsWindow(d), Held(d), NEW k \in Placed(d),
         NEW b \in d.bound, NEW c \in Cells, NEW e, e = Move(d, k, b, c)
  PROVE  /\ Legal(d, e) /\ Placed(e) = Placed(d)
         /\ \A l \in Windows : e.displaced[l] = IF l \in {k} \cup At(d, b, c) THEN None ELSE d.displaced[l]
<1> DEFINE other == At(d, b, c) \ {k}
           from == d.at[k]
           at == [l \in Windows |->
                    CASE l = k -> [board |-> b, cell |-> c, float |-> from.float]
                      [] l \in other -> [board |-> from.board, cell |-> from.cell, float |-> d.at[l].float]
                      [] OTHER -> d.at[l]]
           disp == [l \in Windows |-> IF l \in other \cup {k} THEN None ELSE d.displaced[l]]
<1>1. e = [d EXCEPT !.at = at, !.displaced = disp]
  BY Zenon DEF Move
<1>2. k \in Windows /\ from # None /\ from.board \in Boards /\ from.cell \in Cells /\ from.float \in BOOLEAN
      /\ b \in Boards /\ from = [board |-> from.board, cell |-> from.cell, float |-> from.float]
  BY PlaceFacts DEF Placed, DeskType
<1>3. at[k] = [board |-> b, cell |-> c, float |-> from.float]
  BY <1>2
<1>4. \A l \in other : /\ l \in Placed(d) /\ l \in Windows /\ l # k /\ d.at[l].board = b /\ d.at[l].cell = c
                       /\ d.at[l].float \in BOOLEAN
                       /\ d.at[l] = [board |-> d.at[l].board, cell |-> d.at[l].cell, float |-> d.at[l].float]
  BY PlaceFacts DEF At, On, Placed
<1>5. \A l \in other : at[l] = [board |-> from.board, cell |-> from.cell, float |-> d.at[l].float]
  <2> TAKE l \in other
  <2> QED
    BY <1>4
<1>6. \A l \in Windows \ {k} : l \notin other => at[l] = d.at[l]
  OBVIOUS
<1>7. /\ at[k] \in Places /\ at[k].board = b /\ at[k].cell = c
      /\ \A l \in other : at[l] \in Places /\ at[l].board = from.board /\ at[l].cell = from.cell
  <2> HIDE DEF at, from, other
  <2>1. at[k] \in Places /\ at[k].board = b /\ at[k].cell = c
    BY <1>2, <1>3 DEF Places
  <2>2. ASSUME NEW l \in other PROVE at[l] \in Places /\ at[l].board = from.board /\ at[l].cell = from.cell
    <3>1. \A x \in Boards, y \in Cells, f \in BOOLEAN : [board |-> x, cell |-> y, float |-> f] \in Places
      BY DEF Places
    <3>2. d.at[l].float \in BOOLEAN /\ at[l] = [board |-> from.board, cell |-> from.cell, float |-> d.at[l].float]
      BY <1>4, <1>5
    <3>3. at[l] \in Places
      BY <1>2, <3>1, <3>2
    <3> QED
      BY <3>2, <3>3
  <2> QED
    BY <2>1, <2>2
<1>8. at \in [Windows -> Places \cup {None}]
  <2>1. \A l \in Windows : at[l] \in Places \cup {None}
    <3> HIDE DEF at, other
    <3> QED
      BY <1>6, <1>7, PlaceFacts
  <2> QED
    BY <2>1
<1>9. disp \in [Windows -> Homes \cup {None}]
  BY DEF DeskType
<1>10. \A l \in Windows : disp[l] = IF l \in {k} \cup At(d, b, c) THEN None ELSE d.displaced[l]
  OBVIOUS
<1> HIDE DEF at, from, other, disp
<1>11. /\ e \in DeskType /\ e.at = at /\ e.displaced = disp
       /\ e.bound = d.bound /\ e.mode = d.mode /\ e.back = d.back /\ e.wide = d.wide
  BY <1>1, <1>8, <1>9 DEF DeskType
<1>12. Placed(e) = Placed(d)
  <2>0. \A p \in Places : p # None
    BY Nothings
  <2>1. \A l \in Windows : e.at[l] # None <=> d.at[l] # None
    <3> TAKE l \in Windows
    <3>1. CASE l = k
      BY <1>2, <1>7, <1>11, <2>0, <3>1 DEF from
    <3>2. CASE l \in other
      BY <1>4, <1>7, <1>11, <2>0, <3>2 DEF Placed
    <3>3. CASE l # k /\ l \notin other
      BY <1>6, <1>11, <3>3
    <3> QED
      BY <3>1, <3>2, <3>3
  <2> QED
    BY <2>1 DEF Placed
<1>13. \A l \in Placed(d) \ {k} : l \notin other => e.at[l] = d.at[l] /\ ~(d.at[l].board = b /\ d.at[l].cell = c)
  BY <1>6, <1>11 DEF other, At, On, Placed
<1>14. \A l, j \in other : l = j
  BY <1>4 DEF Distinct
<1>15. ASSUME NEW l \in Placed(d), NEW j \in Placed(d), l # j, l = k \/ (l \in other /\ j # k) \/ (l \notin other /\ j \notin other /\ j # k)
       PROVE  ~(e.at[l].board = e.at[j].board /\ e.at[l].cell = e.at[j].cell)
  <2>1. CASE l = k
    <3>1. CASE j \in other
      <4>1. ~(from.board = b /\ from.cell = c)
        BY <1>4, <3>1 DEF Distinct, from
      <4> QED
        BY <1>7, <1>11, <2>1, <3>1, <4>1
    <3>2. CASE j \notin other
      BY <1>7, <1>11, <1>13, <1>15, <2>1, <3>2
    <3> QED
      BY <3>1, <3>2
  <2>2. CASE l \in other /\ j # k
    <3>1. j \notin other
      BY <1>14, <1>15, <2>2
    <3>2. e.at[j] = d.at[j] /\ ~(d.at[j].board = from.board /\ d.at[j].cell = from.cell)
      BY <1>13, <2>2, <3>1 DEF Distinct, from
    <3> QED
      BY <1>7, <1>11, <2>2, <3>2
  <2>3. CASE l \notin other /\ j \notin other /\ j # k /\ l # k
    BY <1>13, <1>15, <2>3 DEF Distinct
  <2> QED
    BY <1>15, <2>1, <2>2, <2>3
<1>16. Distinct(e)
  BY <1>12, <1>15 DEF Distinct
<1>17. WideNamed(e) /\ Held(e)
  <2>1. \A l \in Windows : e.displaced[l] # None => l \in Placed(e)
    BY <1>10, <1>11, <1>12 DEF Held, Placed
  <2> QED
    BY <1>11, <2>1 DEF WideNamed, WideHasItsWindow, Held, Placed
<1>18. \A l \in Placed(e) : e.at[l].board \in d.bound \cup {d.at[j].board : j \in Placed(d)}
  <2>1. \A l \in Placed(d) : e.at[l].board = b \/ e.at[l].board = from.board \/ e.at[l].board = d.at[l].board
    BY <1>6, <1>7, <1>11 DEF Placed
  <2> QED
    BY <1>12, <2>1 DEF from
<1> QED
  BY <1>10, <1>11, <1>12, <1>16, <1>17, <1>18 DEF Legal

-----------------------------------------------------------------------------
(* The inductive invariant.                                                 *)

\* As long as there is a monitor, every window is on the board of one.
Boarded(d) == d.bound # {} => \A k \in Placed(d) : d.at[k].board \in d.bound

(* What the history keeps was a desk that followed its monitors: the frame  *)
(* is taken before the first undo, and only an undo can lead astray.        *)
Kept ==
  /\ frame.desk \in DeskType /\ Distinct(frame.desk) /\ WideHasItsWindow(frame.desk)
  /\ Boarded(frame.desk)
  /\ frame.home = frame.desk.displaced
  /\ DOMAIN frame.window = Windows

(* The places that are kept for windows that are away are sound, and those  *)
(* the history variable knows.                                              *)
OnCourse ==
  /\ desk.bound = outputs
  /\ Boarded(desk)
  /\ Returnable(desk)
  /\ home = desk.displaced

(* An undo to the time of other monitors may leave windows on boards that   *)
(* have none: from then on only their cells and types are vouched for.      *)
IInv ==
  /\ desk \in DeskType
  /\ Distinct(desk)
  /\ WideHasItsWindow(desk)
  /\ Held(desk)
  /\ Placed(desk) = {k \in Windows : window[k] = "shown"}
  /\ outputs \subseteq Boards
  /\ window \in [Windows -> {"new", "shown", "hidden", "closed"}]
  /\ home \in [Windows -> Homes \cup {None}]
  /\ astray \in BOOLEAN
  /\ commands \in 0 .. MaxCommands
  /\ frame # None => Kept
  /\ frame = None => ~astray
  /\ ~astray => OnCourse

(* The empty desk.                                                          *)
LEMMA InitIInv == Init => IInv
<1> SUFFICES ASSUME Init PROVE IInv
  OBVIOUS
<1>1. /\ desk = EmptyDesk /\ outputs = {} /\ window = [k \in Windows |-> "new"] /\ frame = None
      /\ home = [k \in Windows |-> None] /\ astray = FALSE /\ commands = 0
  BY DEF Init
<1>2. desk \in DeskType
  BY <1>1 DEF EmptyDesk, DeskType, Modes
<1>3. /\ Placed(desk) = {} /\ desk.bound = {} /\ desk.displaced = [k \in Windows |-> None]
      /\ desk.mode = "normal"
  BY <1>1 DEF EmptyDesk, Placed
<1>4. Distinct(desk) /\ WideHasItsWindow(desk) /\ Held(desk) /\ Boarded(desk) /\ Returnable(desk)
  BY <1>3 DEF Distinct, WideHasItsWindow, Held, Boarded, Returnable
<1>5. Placed(desk) = {k \in Windows : window[k] = "shown"}
  BY <1>1, <1>3
<1>6. OnCourse
  BY <1>1, <1>3, <1>4 DEF OnCourse
<1>7. commands \in 0 .. MaxCommands
  BY <1>1, Bound
<1>8. home \in [Windows -> Homes \cup {None}]
  BY <1>1
<1> QED
  BY <1>1, <1>2, <1>4, <1>5, <1>6, <1>7, <1>8 DEF IInv

(* Every command but that of the monitors and the undo.                     *)
LEMMA CommandKeeps ==
  ASSUME IInv, NEW x, Legal(desk, x), Commit(Settled(x)),
         UNCHANGED <<outputs, frame, astray>>,
         window' \in [Windows -> {"new", "shown", "hidden", "closed"}],
         Placed(x) = {k \in Windows : window'[k] = "shown"},
         home' \in [Windows -> Homes \cup {None}],
         home = desk.displaced => home' = x.displaced
  PROVE  IInv'
<1> DEFINE e == Settled(x)
<1>1. x \in DeskType /\ WideNamed(x)
  BY DEF Legal
<1>2. e \in DeskType /\ WideHasItsWindow(e) /\ e.at = x.at /\ e.displaced = x.displaced /\ e.bound = x.bound
  BY <1>1, SettledFacts
<1>3. Commit(e)
  OBVIOUS
<1> HIDE DEF e
<1>4. Distinct(e) /\ Held(e) /\ Placed(e) = Placed(x)
  BY <1>2 DEF Legal, Distinct, Held, Placed
<1>5. desk' = e /\ commands' \in 0 .. MaxCommands
  <2>1. desk' = e /\ commands < MaxCommands /\ commands' = commands + 1
    BY <1>3, <1>4 DEF Commit
  <2>2. commands \in 0 .. MaxCommands
    BY DEF IInv
  <2> QED
    BY <2>1, <2>2, Bound
<1>6. /\ e.bound = desk.bound
      /\ \A k \in Placed(e) : e.at[k].board \in desk.bound \cup {desk.at[l].board : l \in Placed(desk)}
      /\ \A k \in Windows : e.displaced[k] \in {desk.displaced[k], None}
  BY <1>2, <1>4 DEF Legal
<1>7. ASSUME ~astray PROVE OnCourse'
  <2>1. desk.bound = outputs /\ Boarded(desk) /\ Returnable(desk) /\ home = desk.displaced
    BY <1>7 DEF IInv, OnCourse
  <2>2. Boarded(e)
    BY <1>6, <2>1 DEF Boarded
  <2>3. Returnable(e)
    <3> SUFFICES ASSUME NEW k \in Windows, e.displaced[k] # None
                 PROVE  /\ e.displaced[k].board \notin e.bound \cup {e.at[l].board : l \in Placed(e)}
                        /\ \A l \in Windows \ {k} : e.displaced[l] # e.displaced[k]
      BY DEF Returnable
    <3>1. /\ e.displaced[k] = desk.displaced[k]
          /\ desk.displaced[k].board \notin desk.bound \cup {desk.at[l].board : l \in Placed(desk)}
          /\ \A l \in Windows \ {k} : desk.displaced[l] # desk.displaced[k]
      BY <1>6, <2>1 DEF Returnable
    <3>2. \A l \in Windows \ {k} : e.displaced[l] # e.displaced[k]
      BY <1>6, <3>1
    <3> QED
      BY <1>6, <3>1, <3>2
  <2>4. home' = e.displaced
    BY <1>2, <2>1
  <2> QED
    BY <1>5, <1>6, <2>1, <2>2, <2>3, <2>4 DEF OnCourse, Boarded, Returnable, Placed
<1>8. frame' = frame /\ astray' = astray /\ outputs' = outputs
  OBVIOUS
<1>9. frame # None => Kept'
  BY <1>8 DEF IInv, Kept
<1>10. /\ (desk \in DeskType)' /\ Distinct(desk)' /\ WideHasItsWindow(desk)' /\ Held(desk)'
       /\ (Placed(desk) = {k \in Windows : window[k] = "shown"})'
  BY <1>2, <1>4, <1>5 DEF DeskType, Distinct, WideHasItsWindow, Held, Placed
<1> QED
  BY <1>5, <1>7, <1>8, <1>9, <1>10 DEF IInv

-----------------------------------------------------------------------------
(* One lemma for each action.                                               *)

(* The constants are cells and directions.                                  *)
LEMMA CellsNear == Near \subseteq Cells /\ Aside \subseteq Cells /\ Flows \subseteq Directions
                   /\ Edges \subseteq Directions /\ Right \in Directions
BY NearAssumption, Sides DEF Cells, Directions, Right

(* A window appears.                                                        *)
LEMMA AppearsKeeps ==
  ASSUME IInv, NEW k \in Windows, Appears(k), NEW x,
         x \in DeskType, Distinct(x), Rest(x) = Rest(desk), x.at[k] # None, x.at[k].board \in desk.bound,
         \A l \in Windows \ {k} : Stays(desk, x, l),
         Commit(Settled(x)), UNCHANGED <<outputs, frame, home, astray>>
  PROVE  IInv'
<1>1. /\ Legal(desk, x)
      /\ Placed(x) = Placed(desk) \cup {k}
      /\ x.displaced = desk.displaced
  BY PlacedLegal DEF IInv
<1>2. window' \in [Windows -> {"new", "shown", "hidden", "closed"}]
      /\ \A l \in Windows : window'[l] = IF l = k THEN "shown" ELSE window[l]
  BY DEF IInv, Appears
<1>3. Placed(x) = {l \in Windows : window'[l] = "shown"}
  BY <1>1, <1>2 DEF IInv
<1>4. home' \in [Windows -> Homes \cup {None}] /\ (home = desk.displaced => home' = x.displaced)
  BY <1>1 DEF IInv
<1> QED
  BY <1>1, <1>2, <1>3, <1>4, CommandKeeps

(* A window that appears had no place.                                      *)
LEMMA AppearsAway ==
  ASSUME IInv, NEW k \in Windows, Appears(k)
  PROVE  desk.at[k] = None
<1>1. window[k] # "shown"
  BY DEF Appears
<1>2. k \notin Placed(desk)
  BY <1>1 DEF IInv
<1> QED
  BY <1>2 DEF Placed

(* A window appears, tiled.                                                 *)
LEMMA OpenTiledKeeps ==
  ASSUME IInv, NEW k \in Windows, NEW b \in Boards, OpenTiled(k, b)
  PROVE  IInv'
<1>1. Appears(k) /\ b \in desk.bound /\ UNCHANGED <<outputs, frame, home, astray>> /\ desk.at[k] = None
      /\ desk \in DeskType /\ Distinct(desk)
  BY AppearsAway DEF OpenTiled, IInv
<1>2. ASSUME NEW anchor \in Cells, NEW dir \in Directions, NEW f \in BOOLEAN,
             Commit(Settled(Insert(desk, k, b, anchor, dir, f)))
      PROVE  IInv'
  <2> DEFINE x == Insert(desk, k, b, anchor, dir, f)
  <2>1. /\ x \in DeskType /\ Distinct(x)
        /\ Rest(x) = Rest(desk)
        /\ x.at[k] # None /\ x.at[k].board = b
        /\ \A l \in Windows \ {k} : Stays(desk, x, l)
    BY <1>1, InsertFacts
  <2>2. Commit(Settled(x))
    BY <1>2
  <2> HIDE DEF x
  <2> QED
    BY <1>1, <2>1, <2>2, AppearsKeeps
<1>a. FALSE \in BOOLEAN /\ TRUE \in BOOLEAN
  OBVIOUS
<1>3. CASE \E anchor \in AnchorsOf(desk, b), dir \in Flows : Commit(Settled(Insert(desk, k, b, anchor, dir, FALSE)))
  <2>1. PICK anchor \in AnchorsOf(desk, b), dir \in Flows : Commit(Settled(Insert(desk, k, b, anchor, dir, FALSE)))
    BY <1>3
  <2>2. AnchorsOf(desk, b) \subseteq Cells
    BY <1>1, PlaceFacts, CellsNear DEF AnchorsOf, On, Placed
  <2> QED
    BY <1>2, <1>a, <2>1, <2>2, CellsNear
<1>4. CASE \E l \in Tiled(desk, b) : Commit(Settled(Insert(desk, k, b, desk.at[l].cell, Right, FALSE)))
  <2>1. PICK l \in Tiled(desk, b) : Commit(Settled(Insert(desk, k, b, desk.at[l].cell, Right, FALSE)))
    BY <1>4
  <2>2. desk.at[l].cell \in Cells
    BY <1>1, PlaceFacts DEF Tiled, On, Placed
  <2> QED
    BY <1>2, <1>a, <2>1, <2>2, CellsNear
<1>5. CASE \E anchor \in Near, dir \in Edges : Commit(Settled(Insert(desk, k, b, anchor, dir, TRUE)))
  <2>1. PICK anchor \in Near, dir \in Edges : Commit(Settled(Insert(desk, k, b, anchor, dir, TRUE)))
    BY <1>5
  <2> QED
    BY <1>2, <1>a, <2>1, CellsNear
<1> QED
  BY <1>3, <1>4, <1>5 DEF OpenTiled

(* A window appears, floating.                                              *)
LEMMA OpenFloatingKeeps ==
  ASSUME IInv, NEW k \in Windows, NEW b \in Boards, NEW c \in Near, OpenFloating(k, b, c)
  PROVE  IInv'
<1> DEFINE x == AddFloating(desk, k, b, c)
<1>1. Appears(k) /\ b \in desk.bound /\ UNCHANGED <<outputs, frame, home, astray>>
      /\ desk \in DeskType /\ Distinct(desk) /\ c \in Cells /\ Commit(Settled(x))
  BY CellsNear DEF OpenFloating, IInv
<1>2. /\ x \in DeskType /\ Distinct(x)
      /\ Rest(x) = Rest(desk)
      /\ x.at[k] # None /\ x.at[k].board = b
      /\ \A l \in Windows \ {k} : x.at[l] = desk.at[l]
  BY <1>1, AddFloatingFacts
<1> HIDE DEF x
<1>3. \A l \in Windows \ {k} : Stays(desk, x, l)
  BY <1>2 DEF Stays
<1> QED
  BY <1>1, <1>2, <1>3, AppearsKeeps

(* A command that places a window that is there, or only presents others.   *)
LEMMA SamePlaced ==
  ASSUME IInv, NEW x, Legal(desk, x), Placed(x) = Placed(desk), x.displaced = desk.displaced,
         Commit(Settled(x)), UNCHANGED <<outputs, window, frame, home, astray>>
  PROVE  IInv'
<1>1. /\ window' \in [Windows -> {"new", "shown", "hidden", "closed"}]
      /\ Placed(x) = {k \in Windows : window'[k] = "shown"}
      /\ home' \in [Windows -> Homes \cup {None}]
      /\ home = desk.displaced => home' = x.displaced
  BY DEF IInv
<1>2. UNCHANGED <<outputs, frame, astray>>
  OBVIOUS
<1> QED
  BY <1>1, <1>2, CommandKeeps

(* A window changes between tiled and floating.                             *)
LEMMA ReclassifyKeeps ==
  ASSUME IInv, NEW k \in Windows, Reclassify(k)
  PROVE  IInv'
<1> DEFINE p == desk.at[k]
           put == Put(desk, k, p.board, p.cell, FALSE)
           add == AddFloating(desk, k, p.board, p.cell)
           x == IF p.float THEN put ELSE add
<1>1. /\ k \in Placed(desk) /\ desk \in DeskType /\ Distinct(desk) /\ WideHasItsWindow(desk) /\ Held(desk)
      /\ Commit(Settled(x)) /\ UNCHANGED <<outputs, window, frame, home, astray>>
  BY DEF Reclassify, IInv
<1>2. p.board \in Boards /\ p.cell \in Cells
  BY <1>1, PlaceFacts
<1>3. /\ x \in DeskType /\ Distinct(x) /\ Rest(x) = Rest(desk)
      /\ x.at[k] # None /\ x.at[k].board = p.board
      /\ \A l \in Windows \ {k} : x.at[l] = desk.at[l]
  <2>1. CASE p.float
    <3> DEFINE q == [board |-> p.board, cell |-> p.cell, float |-> FALSE]
    <3>1. x = [desk EXCEPT !.at[k] = q] /\ q \in Places /\ q.board = p.board /\ q.cell = p.cell
      BY <1>2, <2>1 DEF Put, Places
    <3> HIDE DEF x, q
    <3>2. /\ x \in DeskType /\ Rest(x) = Rest(desk)
          /\ x.at[k] = q /\ x.at[k] # None
          /\ \A l \in Windows \ {k} : x.at[l] = desk.at[l]
      BY <1>1, <3>1, PutFacts
    <3>3. Distinct(x)
      <4>1. \A l \in Placed(x) : l \in Placed(desk) /\ x.at[l].board = desk.at[l].board /\ x.at[l].cell = desk.at[l].cell
        BY <1>1, <3>1, <3>2 DEF Placed
      <4> QED
        BY <1>1, <4>1 DEF Distinct
    <3> QED
      BY <3>1, <3>2, <3>3
  <2>2. CASE ~p.float
    <3>1. /\ add \in DeskType /\ Distinct(add) /\ Rest(add) = Rest(desk)
          /\ add.at[k] # None /\ add.at[k].board = p.board
          /\ \A l \in Windows \ {k} : add.at[l] = desk.at[l]
      BY <1>1, <1>2, AddFloatingFacts
    <3> QED
      BY <2>2, <3>1
  <2> QED
    BY <2>1, <2>2
<1> HIDE DEF x
<1>4. \A l \in Windows \ {k} : Stays(desk, x, l)
  BY <1>3 DEF Stays
<1>5. x.at[k].board \in desk.bound \cup {desk.at[l].board : l \in Placed(desk)}
  BY <1>1, <1>3
<1>6. Legal(desk, x) /\ Placed(x) = Placed(desk) \cup {k} /\ x.displaced = desk.displaced
  BY <1>1, <1>3, <1>4, <1>5, PlacedLegal
<1>7. Placed(x) = Placed(desk)
  BY <1>1, <1>6
<1> QED
  BY <1>1, <1>6, <1>7, SamePlaced

(* A window is closed or minimised.                                         *)
LEMMA LeaveKeeps ==
  ASSUME IInv, NEW k \in Windows, NEW state \in {"hidden", "closed"}, Leave(k, state)
  PROVE  IInv'
<1> DEFINE x == Absent(desk, k)
<1>1. /\ Commit(Settled(x)) /\ window' = [window EXCEPT ![k] = state] /\ home' = [home EXCEPT ![k] = None]
      /\ UNCHANGED <<outputs, frame, astray>>
      /\ desk \in DeskType /\ Distinct(desk) /\ WideHasItsWindow(desk) /\ Held(desk)
  BY DEF Leave, IInv
<1>2. /\ Legal(desk, x) /\ Placed(x) = Placed(desk) \ {k}
      /\ x.displaced[k] = None
      /\ \A l \in Windows \ {k} : x.displaced[l] = desk.displaced[l]
  BY <1>1, AbsentLegal
<1> HIDE DEF x
<1>3. /\ window' \in [Windows -> {"new", "shown", "hidden", "closed"}]
      /\ \A l \in Windows : window'[l] = IF l = k THEN state ELSE window[l]
      /\ home' \in [Windows -> Homes \cup {None}]
      /\ \A l \in Windows : home'[l] = IF l = k THEN None ELSE home[l]
  BY <1>1 DEF IInv
<1>4. Placed(x) = {l \in Windows : window'[l] = "shown"}
  BY <1>2, <1>3 DEF IInv
<1>5. ASSUME home = desk.displaced PROVE home' = x.displaced
  <2>1. x.displaced \in [Windows -> Homes \cup {None}]
    BY <1>2 DEF Legal, DeskType
  <2>2. \A l \in Windows : home'[l] = x.displaced[l]
    BY <1>2, <1>3, <1>5
  <2> QED
    BY <1>3, <2>1, <2>2
<1> QED
  BY <1>1, <1>2, <1>3, <1>4, <1>5, CommandKeeps

(* A window is moved.                                                       *)
LEMMA MoveToKeeps ==
  ASSUME IInv, NEW k \in Windows, NEW b \in Boards, NEW c \in Near, MoveTo(k, b, c)
  PROVE  IInv'
<1> DEFINE x == Move(desk, k, b, c)
<1>1. /\ Commit(Settled(x)) /\ k \in Placed(desk) /\ b \in desk.bound /\ c \in Cells
      /\ home' = [l \in Windows |-> IF l \in {k} \cup At(desk, b, c) THEN None ELSE home[l]]
      /\ UNCHANGED <<outputs, window, frame, astray>>
      /\ desk \in DeskType /\ Distinct(desk) /\ WideHasItsWindow(desk) /\ Held(desk)
  BY CellsNear DEF MoveTo, IInv
<1>2. /\ Legal(desk, x) /\ Placed(x) = Placed(desk)
      /\ \A l \in Windows : x.displaced[l] = IF l \in {k} \cup At(desk, b, c) THEN None ELSE desk.displaced[l]
  BY <1>1, MoveLegal
<1> HIDE DEF x
<1>3. /\ window' \in [Windows -> {"new", "shown", "hidden", "closed"}]
      /\ home' \in [Windows -> Homes \cup {None}]
      /\ Placed(x) = {l \in Windows : window'[l] = "shown"}
  BY <1>1, <1>2 DEF IInv
<1>4. ASSUME home = desk.displaced PROVE home' = x.displaced
  <2>1. x.displaced \in [Windows -> Homes \cup {None}]
    BY <1>2 DEF Legal, DeskType
  <2>2. \A l \in Windows : home'[l] = x.displaced[l]
    BY <1>1, <1>2, <1>4
  <2> QED
    BY <1>3, <2>1, <2>2
<1> QED
  BY <1>1, <1>2, <1>3, <1>4, CommandKeeps

(* A window takes the focus.                                                *)
LEMMA FocusKeeps ==
  ASSUME IInv, NEW k \in Windows, NEW reveal \in BOOLEAN, FocusWindow(k, reveal)
  PROVE  IInv'
<1> DEFINE x == Focus(desk, k, reveal)
<1>1. /\ Commit(Settled(x)) /\ UNCHANGED <<outputs, window, frame, home, astray>>
      /\ desk \in DeskType /\ Distinct(desk) /\ WideHasItsWindow(desk) /\ Held(desk)
  BY DEF FocusWindow, IInv
<1>2. /\ x \in DeskType /\ x.at = desk.at /\ x.displaced = desk.displaced /\ x.bound = desk.bound
      /\ x.mode = "normal" \/ (x.mode = desk.mode /\ x.back = desk.back /\ x.wide = desk.wide)
  BY <1>1 DEF Focus, DeskType, Modes
<1> HIDE DEF x
<1>3. WideNamed(x)
  BY <1>1, <1>2 DEF WideNamed, WideHasItsWindow
<1>4. Legal(desk, x) /\ Placed(x) = Placed(desk)
  BY <1>1, <1>2, <1>3, PresentedLegal
<1> QED
  BY <1>1, <1>2, <1>4, SamePlaced

(* The presentation is toggled.                                             *)
LEMMA PresentKeeps ==
  ASSUME IInv, Present
  PROVE  IInv'
<1>1. /\ UNCHANGED <<outputs, window, frame, home, astray>>
      /\ desk \in DeskType /\ Distinct(desk) /\ WideHasItsWindow(desk) /\ Held(desk)
  BY DEF Present, IInv
<1>2. ASSUME NEW x \in DeskType, WideNamed(x), x.at = desk.at, x.displaced = desk.displaced, x.bound = desk.bound,
             Commit(Settled(x))
      PROVE  IInv'
  <2>1. Legal(desk, x) /\ Placed(x) = Placed(desk)
    BY <1>1, <1>2, PresentedLegal
  <2> QED
    BY <1>1, <1>2, <2>1, SamePlaced
<1>3. CASE Commit(Settled(ToggleDesktop(desk)))
  <2> DEFINE x == ToggleDesktop(desk)
  <2>1. /\ x \in DeskType /\ x.at = desk.at /\ x.displaced = desk.displaced /\ x.bound = desk.bound /\ x.wide = desk.wide
        /\ IF desk.mode = "desktop" THEN x.mode = desk.back ELSE x.mode = "desktop" /\ x.back = desk.mode
    BY <1>1 DEF ToggleDesktop, DeskType, Modes
  <2>2. desk.back # "desktop"
    BY <1>1 DEF DeskType
  <2>3. Commit(Settled(x))
    BY <1>3
  <2> HIDE DEF x
  <2>4. WideNamed(x)
    BY <1>1, <2>1, <2>2 DEF WideNamed, WideHasItsWindow
  <2> QED
    BY <1>2, <2>1, <2>3, <2>4
<1>4. ASSUME NEW k \in Placed(desk), Commit(Settled(ToggleWide(desk, k))) PROVE IInv'
  <2> DEFINE x == ToggleWide(desk, k)
  <2>1. /\ x \in DeskType /\ x.at = desk.at /\ x.displaced = desk.displaced /\ x.bound = desk.bound
        /\ x.mode = "normal" \/ (x.mode = "wide" /\ x.wide = k)
    BY <1>1 DEF ToggleWide, DeskType, Modes, Placed
  <2>2. k # None
    BY Nothings DEF Placed
  <2>3. Commit(Settled(x))
    BY <1>4
  <2> HIDE DEF x
  <2>4. WideNamed(x)
    BY <2>1, <2>2 DEF WideNamed
  <2> QED
    BY <1>2, <2>1, <2>3, <2>4
<1> QED
  BY <1>3, <1>4 DEF Present

(* The places that are kept are sound after the monitors changed, when they *)
(* were before.                                                             *)
LEMMA HomesSound ==
  ASSUME NEW d \in DeskType, Distinct(d), Held(d), Returnable(d), NEW outs \in SUBSET Boards,
         NEW e \in DeskType, Placed(e) = Placed(d), e.bound = outs,
         outs # {} => \A k \in Placed(e) : e.at[k].board \in outs,
         outs = {} => \A k \in Placed(e) : e.at[k].board \in {d.at[l].board : l \in Placed(d)},
         \A k \in Windows : e.displaced[k] = HomeAfter(d, outs, d.displaced[k], k)
  PROVE  Returnable(e)
<1> SUFFICES ASSUME NEW k \in Windows, e.displaced[k] # None
             PROVE  /\ e.displaced[k].board \notin e.bound \cup {e.at[l].board : l \in Placed(e)}
                    /\ \A l \in Windows \ {k} : e.displaced[l] # e.displaced[k]
  BY DEF Returnable
<1> DEFINE old(j) == d.displaced[j] # None /\ e.displaced[j] = d.displaced[j]
           new(j) == outs # {} /\ j \in Placed(d) /\ d.at[j].board \notin outs /\ e.displaced[j] = Place(d, j) /\ d.displaced[j] = None
<1>1. \A j \in Windows : e.displaced[j] # None => old(j) \/ new(j)
  BY DEF HomeAfter
<1>2. \A j \in Windows : old(j) /\ j \in Placed(d) /\ outs # {} => d.displaced[j].board \notin outs
  <2> TAKE j \in Windows
  <2> HAVE old(j) /\ j \in Placed(d) /\ outs # {}
  <2>1. ASSUME d.displaced[j].board \in outs PROVE FALSE
    BY <2>1 DEF HomeAfter
  <2> QED
    BY <2>1
<1>3. \A j \in Windows : old(j) => j \in Placed(d)
  BY DEF Held, Placed
<1>4. \A j \in Windows : old(j) => /\ d.displaced[j].board \notin d.bound \cup {d.at[l].board : l \in Placed(d)}
                                   /\ \A l \in Windows \ {j} : d.displaced[l] # d.displaced[j]
  BY DEF Returnable
<1>5. \A j \in Windows : new(j) => /\ e.displaced[j].board = d.at[j].board /\ e.displaced[j].cell = d.at[j].cell
                                   /\ j \in Placed(d) /\ d.at[j].board \notin outs /\ outs # {}
  BY DEF Place
<1>a. \A j \in Windows : old(j) => e.displaced[j] = d.displaced[j] /\ d.displaced[j] # None
  OBVIOUS
<1> HIDE DEF old, new
<1>6. e.displaced[k].board \notin e.bound \cup {e.at[l].board : l \in Placed(e)}
  <2>1. CASE outs = {}
    <3>1. old(k)
      BY <1>1, <1>5, <2>1
    <3> QED
      BY <1>4, <1>a, <2>1, <3>1
  <2>2. CASE outs # {}
    <3>1. e.displaced[k].board \notin outs
      <4>1. CASE old(k)
        BY <1>2, <1>3, <1>a, <2>2, <4>1
      <4>2. CASE new(k)
        BY <1>5, <4>2
      <4> QED
        BY <1>1, <4>1, <4>2
    <3> QED
      BY <2>2, <3>1
  <2> QED
    BY <2>1, <2>2
<1>7. ASSUME NEW l \in Windows \ {k}, e.displaced[l] = e.displaced[k] PROVE FALSE
  <2>1. e.displaced[l] # None
    BY <1>7
  <2>2. CASE old(k) /\ old(l)
    BY <1>4, <1>7, <1>a, <2>2
  <2>3. CASE old(k) /\ new(l)
    BY <1>4, <1>5, <1>7, <1>a, <2>3
  <2>4. CASE new(k) /\ old(l)
    BY <1>4, <1>5, <1>7, <1>a, <2>4
  <2>5. CASE new(k) /\ new(l)
    BY <1>5, <1>7, <2>5 DEF Distinct
  <2> QED
    BY <1>1, <2>1, <2>2, <2>3, <2>4, <2>5
<1> QED
  BY <1>6, <1>7

(* Monitors come and go.                                                    *)
LEMMA ConnectKeeps ==
  ASSUME IInv, NEW outs \in SUBSET Boards, Connect(outs)
  PROVE  IInv'
<1>0. /\ desk \in DeskType /\ Distinct(desk) /\ WideHasItsWindow(desk) /\ Held(desk)
      /\ Placed(desk) = {k \in Windows : window[k] = "shown"}
      /\ window' = window /\ frame' = frame /\ outputs' = outs
      /\ commands' \in 0 .. MaxCommands
  <2>1. commands \in 0 .. MaxCommands /\ commands < MaxCommands /\ commands' = commands + 1
    BY DEF IInv, Connect
  <2>2. commands' \in 0 .. MaxCommands
    BY <2>1, Bound
  <2> QED
    BY <2>2 DEF IInv, Connect
<1>1. home' = [k \in Windows |-> HomeAfter(desk, outs, home[k], k)]
  BY DEF Connect, HomeAfter
<1>2. home' \in [Windows -> Homes \cup {None}]
  <2>1. \A k \in Placed(desk) : Place(desk, k) \in Homes
    BY <1>0, PlaceFacts DEF Place, Homes, Placed
  <2>2. \A k \in Windows : home[k] \in Homes \cup {None}
    BY DEF IInv
  <2>3. \A k \in Windows : HomeAfter(desk, outs, home[k], k) \in Homes \cup {None}
    BY <2>1, <2>2 DEF HomeAfter
  <2> QED
    BY <1>1, <2>3
<1>3. PICK dest \in Nearest(desk, outs), anchor \in Near, dir \in Flows :
        LET d == Followed(desk, outs, dest, anchor, dir)
            settled == d # Refused /\ outs # {} /\ Returnable(d) /\ d.displaced = home'
        IN  /\ desk' = IF d = Refused THEN desk ELSE d
            /\ astray' = (astray /\ ~settled)
  BY DEF Connect, Nearest
<1> DEFINE d == Followed(desk, outs, dest, anchor, dir)
           settled == d # Refused /\ outs # {} /\ Returnable(d) /\ d.displaced = home'
<1>4. desk' = (IF d = Refused THEN desk ELSE d) /\ astray' = (astray /\ ~settled)
  BY <1>3
<1>5. anchor \in Cells /\ dir \in Directions
  BY CellsNear
<1>6. /\ d # Refused =>
           /\ d \in DeskType /\ Distinct(d) /\ Held(d) /\ WideHasItsWindow(d)
           /\ Placed(d) = Placed(desk) /\ d.bound = outs
           /\ outs # {} => \A k \in Placed(d) : d.at[k].board \in outs
      /\ Returnable(desk) =>
           /\ d # Refused
           /\ outs = {} => \A k \in Windows : d.at[k] = desk.at[k]
           /\ \A k \in Windows : d.displaced[k] = HomeAfter(desk, outs, desk.displaced[k], k)
  BY <1>0, <1>5, FollowedFacts
<1> HIDE DEF d
<1>7. /\ (desk \in DeskType)' /\ Distinct(desk)' /\ WideHasItsWindow(desk)' /\ Held(desk)'
      /\ (Placed(desk) = {k \in Windows : window[k] = "shown"})'
  <2>1. CASE d = Refused
    <3>1. desk' = desk
      BY <1>4, <2>1
    <3> QED
      BY <1>0, <3>1 DEF DeskType, Distinct, WideHasItsWindow, Held, Placed
  <2>2. CASE d # Refused
    <3>1. desk' = d
      BY <1>4, <2>2
    <3> QED
      BY <1>0, <1>6, <2>2, <3>1 DEF DeskType, Distinct, WideHasItsWindow, Held, Placed
  <2> QED
    BY <2>1, <2>2
<1>8. ASSUME ~astray' PROVE OnCourse'
  <2>1. CASE astray
    <3>1. settled
      BY <1>4, <1>8, <2>1
    <3>2. desk' = d /\ d.bound = outs /\ Returnable(d) /\ home' = d.displaced /\ outs # {} /\ \A k \in Placed(d) : d.at[k].board \in outs
      BY <1>4, <1>6, <3>1
    <3> QED
      BY <1>0, <3>2 DEF OnCourse, Boarded, Returnable, Placed
  <2>2. CASE ~astray
    <3>1. Returnable(desk) /\ home = desk.displaced
      BY <2>2 DEF IInv, OnCourse
    <3>2. /\ desk' = d /\ d \in DeskType /\ d.bound = outs /\ Placed(d) = Placed(desk)
          /\ outs # {} => \A k \in Placed(d) : d.at[k].board \in outs
      BY <1>4, <1>6, <3>1
    <3>3. home' = d.displaced
      <4>1. d.displaced \in [Windows -> Homes \cup {None}]
        BY <3>2 DEF DeskType
      <4>2. \A k \in Windows : home'[k] = d.displaced[k]
        BY <1>1, <1>6, <3>1
      <4> QED
        BY <1>2, <4>1, <4>2
    <3>4. Returnable(d)
      <4>1. outs = {} => \A k \in Placed(d) : d.at[k].board \in {desk.at[l].board : l \in Placed(desk)}
        BY <1>6, <3>1, <3>2 DEF Placed
      <4>2. \A k \in Windows : d.displaced[k] = HomeAfter(desk, outs, desk.displaced[k], k)
        BY <1>6, <3>1
      <4> QED
        BY <1>0, <3>1, <3>2, <4>1, <4>2, HomesSound
    <3> QED
      BY <1>0, <3>2, <3>3, <3>4 DEF OnCourse, Boarded, Returnable, Placed
  <2> QED
    BY <2>1, <2>2
<1>9. frame' # None => Kept'
  BY <1>0 DEF IInv, Kept
<1>10. astray' \in BOOLEAN /\ (frame' = None => ~astray')
  BY <1>0, <1>4 DEF IInv
<1>11. window' \in [Windows -> {"new", "shown", "hidden", "closed"}] /\ outputs' \subseteq Boards
  BY <1>0 DEF IInv
<1> QED
  BY <1>0, <1>2, <1>7, <1>8, <1>9, <1>10, <1>11 DEF IInv

(* The history keeps a desk.                                                *)
LEMMA KeepKeeps ==
  ASSUME IInv, Keep
  PROVE  IInv'
<1>1. /\ frame = None /\ ~astray /\ frame' = [desk |-> desk, window |-> window, home |-> home]
      /\ UNCHANGED <<desk, outputs, window, home, astray, commands>>
  BY DEF Keep, IInv
<1>2. OnCourse /\ desk \in DeskType /\ Distinct(desk) /\ WideHasItsWindow(desk)
      /\ window \in [Windows -> {"new", "shown", "hidden", "closed"}]
  BY <1>1 DEF IInv
<1>3. frame'.desk = desk /\ frame'.home = home /\ frame'.window = window
  BY <1>1
<1>4. Kept'
  <2>1. DOMAIN window = Windows
    BY <1>2
  <2>2. home = desk.displaced /\ Boarded(desk)
    BY <1>2 DEF OnCourse
  <2> QED
    BY <1>2, <1>3, <2>1, <2>2 DEF Kept
<1>5. OnCourse'
  BY <1>1, <1>2 DEF OnCourse
<1> QED
  BY <1>1, <1>4, <1>5 DEF IInv

(* What an undo restores, before floating windows give way.                 *)
LEMMA RestoredFacts ==
  ASSUME IInv, frame # None, NEW park \in [Later(desk) -> Aside],
         NEW d, d = Restored(desk, park),
         \A k \in Later(desk) : ~\E l \in Restorable \cup Later(desk) :
            /\ l # k
            /\ d.at[l].board = d.at[k].board
            /\ park[k] = IF l \in Restorable THEN frame.desk.at[l].cell ELSE park[l]
  PROVE  /\ d \in DeskType /\ Distinct(d) /\ WideHasItsWindow(d)
         /\ d.bound = desk.bound
         /\ Placed(d) = Restorable \cup Later(desk)
         /\ \A k \in Windows : d.displaced[k] = IF k \in Restorable THEN frame.desk.displaced[k] ELSE None
         /\ \A k \in Restorable : d.at[k] = frame.desk.at[k]
         /\ \A k \in Later(desk) : d.at[k].board = desk.at[k].board
<1> DEFINE old == frame.desk
           R == Restorable
           L == Later(desk)
           at == [k \in Windows |->
                    CASE k \in Restorable -> old.at[k]
                      [] k \in Later(desk) -> [desk.at[k] EXCEPT !.cell = park[k]]
                      [] OTHER -> None]
           focus == IF old.focus \in Restorable THEN old.focus ELSE desk.focus
           seen == IF focus # None /\ at[focus] = None THEN None ELSE focus
           wide == IF old.wide \in Restorable THEN old.wide ELSE None
           disp == [k \in Windows |-> IF k \in Restorable THEN old.displaced[k] ELSE None]
           mode == IF wide = None /\ old.mode = "wide" THEN "normal" ELSE old.mode
           back == IF wide = None THEN "normal" ELSE old.back
           x == [desk EXCEPT !.at = at, !.displaced = disp, !.focus = seen, !.wide = wide, !.mode = mode, !.back = back]
<1>1. d = Repair(x)
  BY Zenon DEF Restored
<1>2. /\ old \in DeskType /\ Distinct(old) /\ WideHasItsWindow(old)
      /\ desk \in DeskType
  BY DEF IInv, Kept
<1>3. /\ R \subseteq Placed(old) /\ R \subseteq Windows
      /\ L \subseteq Placed(desk) /\ L \subseteq Windows
      /\ \A k \in L : k \notin R
      /\ None \notin R
  BY Nothings DEF Restorable, Later, Placed
<1>4. \A k \in R : at[k] = old.at[k] /\ at[k] \in Places /\ at[k] # None
  BY <1>2, <1>3, PlaceFacts
<1>5. \A k \in L : /\ at[k] \in Places /\ at[k] # None
                   /\ at[k].board = desk.at[k].board /\ at[k].cell = park[k]
  <2> TAKE k \in L
  <2>1. /\ desk.at[k] = [board |-> desk.at[k].board, cell |-> desk.at[k].cell, float |-> desk.at[k].float]
        /\ desk.at[k].board \in Boards /\ desk.at[k].float \in BOOLEAN /\ k \in Windows
    BY <1>2, <1>3, PlaceFacts
  <2>2. park[k] \in Cells
    BY CellsNear
  <2>3. at[k] = [board |-> desk.at[k].board, cell |-> park[k], float |-> desk.at[k].float]
    BY <1>3, <2>1
  <2> HIDE DEF at
  <2>4. at[k] \in Places
    BY <2>1, <2>2, <2>3 DEF Places
  <2> QED
    BY <2>3, <2>4, Nothings
<1>6. \A k \in Windows : k \notin R /\ k \notin L => at[k] = None
  OBVIOUS
<1>7. disp \in [Windows -> Homes \cup {None}]
  BY <1>2 DEF DeskType
<1>8. /\ old.focus \in Windows \cup {None} /\ desk.focus \in Windows \cup {None}
      /\ old.mode \in Modes /\ old.back \in Modes \ {"desktop"}
  BY <1>2 DEF DeskType
<1>9. seen \in Windows \cup {None} /\ wide \in Windows \cup {None} /\ mode \in Modes /\ back \in Modes \ {"desktop"}
  BY <1>3, <1>8 DEF Modes
<1>10. wide # None => wide = old.wide /\ wide \in R /\ mode = old.mode /\ back = old.back
  BY <1>3
<1>11. wide = None => mode # "wide" /\ back = "normal"
  OBVIOUS
<1>a. \A k \in Windows : disp[k] = IF k \in R THEN old.displaced[k] ELSE None
  OBVIOUS
<1>b. R = Restorable /\ L = Later(desk) /\ old = frame.desk
  OBVIOUS
<1>c. \A k \in Windows : at[k] \in Places \cup {None}
  <2> HIDE DEF at, R, L, old
  <2> QED
    BY <1>4, <1>5, <1>6
<1>d. at \in [Windows -> Places \cup {None}]
  BY <1>c
<1> HIDE DEF R, L, old, at, focus, seen, wide, disp, mode, back
<1>12. /\ x \in DeskType /\ x.at = at /\ x.displaced = disp /\ x.bound = desk.bound
       /\ x.mode = mode /\ x.back = back /\ x.wide = wide
  BY <1>2, <1>7, <1>9, <1>d DEF DeskType
<1> HIDE DEF x
<1>13. Placed(x) = R \cup L
  <2>1. \A k \in Windows : x.at[k] # None <=> k \in R \cup L
    BY <1>4, <1>5, <1>6, <1>12
  <2> QED
    BY <1>3, <2>1 DEF Placed
<1>14. d \in DeskType /\ Repaired(x, Floats(x), d)
  BY <1>1, <1>12, RepairFacts
<1>15. \A k \in Windows : (x.at[k] = None <=> d.at[k] = None) /\ (x.at[k] # None => d.at[k].board = x.at[k].board)
  <2>0. Floats(x) \subseteq Windows
    BY DEF Floats, Placed
  <2> TAKE k \in Windows
  <2>1. CASE k \in Floats(x)
    BY <1>14, <2>1 DEF Repaired, Floats, Placed
  <2>2. CASE k \notin Floats(x)
    BY <1>14, <2>2 DEF Repaired
  <2> QED
    BY <2>1, <2>2
<1>16. ASSUME NEW k \in L, NEW l \in R \cup L, l # k, x.at[l].board = x.at[k].board
       PROVE  x.at[l].cell # x.at[k].cell
  <2>1. d.at[l].board = d.at[k].board
    BY <1>3, <1>13, <1>15, <1>16 DEF Placed
  <2>2. park[k] # IF l \in R THEN old.at[l].cell ELSE park[l]
    BY <1>16, <1>b, <2>1
  <2>3. x.at[k].cell = park[k]
    BY <1>5, <1>12
  <2>4. x.at[l].cell = IF l \in R THEN old.at[l].cell ELSE park[l]
    BY <1>4, <1>5, <1>12
  <2> QED
    BY <2>2, <2>3, <2>4
<1>17. Distinct(x)
  <2>1. \A k, l \in R : x.at[k].board = x.at[l].board /\ x.at[k].cell = x.at[l].cell => k = l
    BY <1>2, <1>3, <1>4, <1>12 DEF Distinct
  <2> QED
    BY <1>13, <1>16, <2>1 DEF Distinct
<1>18. \A k \in Windows : d.at[k] = x.at[k]
  BY <1>14, <1>17 DEF Repaired
<1>19. /\ d.bound = desk.bound /\ d.displaced = disp /\ d.mode = mode /\ d.back = back /\ d.wide = wide
  BY <1>12, <1>14 DEF Repaired, Rest
<1>20. Distinct(d) /\ Placed(d) = R \cup L
  BY <1>13, <1>17, <1>18 DEF Distinct, Placed
<1>21. WideHasItsWindow(d)
  <2> SUFFICES ASSUME d.mode = "wide" \/ (d.mode = "desktop" /\ d.back = "wide")
               PROVE  d.wide # None /\ d.wide \in Placed(d) /\ ~d.at[d.wide].float
    BY DEF WideHasItsWindow
  <2>1. wide # None
    BY <1>11, <1>19
  <2>2. wide = old.wide /\ wide \in R /\ ~old.at[wide].float
    BY <1>2, <1>10, <1>19, <2>1 DEF WideHasItsWindow
  <2>3. d.at[wide] = old.at[wide]
    BY <1>3, <1>4, <1>12, <1>18, <2>2
  <2> QED
    BY <1>19, <1>20, <2>1, <2>2, <2>3
<1>22. /\ \A k \in R : d.at[k] = old.at[k]
       /\ \A k \in L : d.at[k].board = desk.at[k].board
  BY <1>3, <1>4, <1>5, <1>12, <1>18
<1> QED
  BY <1>14, <1>19, <1>20, <1>21, <1>22, <1>a, <1>b

(* An earlier desk is restored.                                             *)
LEMMA UndoKeeps ==
  ASSUME IInv, Undo
  PROVE  IInv'
<1>1. frame # None /\ UNCHANGED <<outputs, frame>> /\ commands < MaxCommands /\ commands' = commands + 1
  BY DEF Undo
<1>2. PICK park \in [Later(desk) -> Aside] :
       LET d == Restored(desk, park) IN
       /\ \A k \in Later(desk) : ~\E l \in Restorable \cup Later(desk) :
            /\ l # k
            /\ d.at[l].board = d.at[k].board
            /\ park[k] = IF l \in Restorable THEN frame.desk.at[l].cell ELSE park[l]
       /\ desk' = d
       /\ astray' = (astray \/ frame.desk.bound # desk.bound \/ ~Returnable(d))
       /\ home' = [k \in Windows |-> IF k \in Restorable THEN frame.home[k] ELSE None]
       /\ window' = [k \in Windows |-> CASE k \in Placed(d) -> "shown"
                                         [] k \in Excluded -> "hidden"
                                         [] OTHER -> window[k]]
  BY DEF Undo
<1> DEFINE d == Restored(desk, park)
<1>3. /\ \A k \in Later(desk) : ~\E l \in Restorable \cup Later(desk) :
            /\ l # k
            /\ d.at[l].board = d.at[k].board
            /\ park[k] = IF l \in Restorable THEN frame.desk.at[l].cell ELSE park[l]
      /\ desk' = d
      /\ astray' = (astray \/ frame.desk.bound # desk.bound \/ ~Returnable(d))
      /\ home' = [k \in Windows |-> IF k \in Restorable THEN frame.home[k] ELSE None]
      /\ window' = [k \in Windows |-> CASE k \in Placed(d) -> "shown"
                                        [] k \in Excluded -> "hidden"
                                        [] OTHER -> window[k]]
  BY <1>2
<1>4. d = Restored(desk, park)
  OBVIOUS
<1> HIDE DEF d
<1>5. /\ d \in DeskType /\ Distinct(d) /\ WideHasItsWindow(d)
      /\ d.bound = desk.bound
      /\ Placed(d) = Restorable \cup Later(desk)
      /\ \A k \in Windows : d.displaced[k] = IF k \in Restorable THEN frame.desk.displaced[k] ELSE None
      /\ \A k \in Restorable : d.at[k] = frame.desk.at[k]
      /\ \A k \in Later(desk) : d.at[k].board = desk.at[k].board
  BY <1>1, <1>3, <1>4, RestoredFacts
<1>6. Held(d)
  BY <1>5 DEF Held, Placed
<1>7. \A k \in Excluded : k \in Windows /\ k \notin Placed(d)
  BY <1>5 DEF Excluded, Restorable, Later
<1>8. \A k \in Windows :
        /\ k \in Placed(d) => window'[k] = "shown"
        /\ k \in Excluded => window'[k] = "hidden"
        /\ k \notin Placed(d) /\ k \notin Excluded => window'[k] = window[k]
  BY <1>3, <1>7
<1>9. window' \in [Windows -> {"new", "shown", "hidden", "closed"}]
  <2>1. \A k \in Windows : window[k] \in {"new", "shown", "hidden", "closed"}
    BY DEF IInv
  <2>2. \A k \in Windows : window'[k] \in {"new", "shown", "hidden", "closed"}
    BY <1>8, <2>1
  <2> QED
    BY <1>3, <2>2
<1>10. Placed(d) = {k \in Windows : window'[k] = "shown"}
  <2>1. ASSUME NEW k \in Windows, k \notin Placed(d), k \notin Excluded PROVE window[k] # "shown"
    <3>1. k \notin Placed(desk)
      BY <1>5, <2>1 DEF Later
    <3> QED
      BY <3>1 DEF IInv
  <2>2. \A k \in Placed(d) : k \in Windows
    BY DEF Placed
  <2> QED
    BY <1>8, <2>1, <2>2
<1>11. home' \in [Windows -> Homes \cup {None}] /\ home' = d.displaced
  <2>1. frame.home = frame.desk.displaced
    BY <1>1 DEF IInv, Kept
  <2>2. d.displaced \in [Windows -> Homes \cup {None}]
    BY <1>5 DEF DeskType
  <2>3. home' = [k \in Windows |-> d.displaced[k]]
    BY <1>3, <1>5, <2>1
  <2> QED
    BY <2>2, <2>3
<1>12. ASSUME ~astray' PROVE OnCourse'
  <2>1. ~astray /\ frame.desk.bound = desk.bound /\ Returnable(d)
    BY <1>3, <1>12
  <2>2. desk.bound = outputs /\ Boarded(desk) /\ Boarded(frame.desk)
    BY <1>1, <2>1 DEF IInv, OnCourse, Kept
  <2>3. Restorable \subseteq Placed(frame.desk) /\ Later(desk) \subseteq Placed(desk)
    BY DEF Restorable, Later
  <2>4. Boarded(d)
    BY <1>5, <2>1, <2>2, <2>3 DEF Boarded
  <2>5. desk' = d /\ outputs' = outputs /\ home' = d.displaced
    BY <1>1, <1>3, <1>11
  <2>6. Boarded(desk)' /\ Returnable(desk)'
    BY <2>1, <2>4, <2>5 DEF Boarded, Returnable, Placed
  <2> QED
    BY <1>5, <2>2, <2>5, <2>6 DEF OnCourse
<1>13. /\ (desk \in DeskType)' /\ Distinct(desk)' /\ WideHasItsWindow(desk)' /\ Held(desk)'
       /\ (Placed(desk) = {k \in Windows : window[k] = "shown"})'
  BY <1>3, <1>5, <1>6, <1>10 DEF DeskType, Distinct, WideHasItsWindow, Held, Placed
<1>14. commands' \in 0 .. MaxCommands
  <2>1. commands \in 0 .. MaxCommands
    BY DEF IInv
  <2> QED
    BY <1>1, <2>1, Bound
<1>15. Kept' /\ frame' # None /\ outputs' \subseteq Boards
  BY <1>1 DEF IInv, Kept
<1>16. astray' \in BOOLEAN
  BY <1>3 DEF IInv
<1> QED
  BY <1>9, <1>11, <1>12, <1>13, <1>14, <1>15, <1>16 DEF IInv

-----------------------------------------------------------------------------

(* Every step preserves the inductive invariant.                            *)
LEMMA NextIInv == IInv /\ [Next]_vars => IInv'
<1> SUFFICES ASSUME IInv, [Next]_vars PROVE IInv'
  OBVIOUS
<1>1. ASSUME NEW k \in Windows, NEW b \in Boards, OpenTiled(k, b) PROVE IInv'
  BY <1>1, OpenTiledKeeps
<1>2. ASSUME NEW k \in Windows, NEW b \in Boards, NEW c \in Near, OpenFloating(k, b, c) PROVE IInv'
  BY <1>2, OpenFloatingKeeps
<1>3. ASSUME NEW k \in Windows, NEW b \in Boards, NEW c \in Near, MoveTo(k, b, c) PROVE IInv'
  BY <1>3, MoveToKeeps
<1>4. ASSUME NEW k \in Windows, Reclassify(k) PROVE IInv'
  BY <1>4, ReclassifyKeeps
<1>5. ASSUME NEW k \in Windows, Leave(k, "hidden") \/ Leave(k, "closed") PROVE IInv'
  BY <1>5, LeaveKeeps
<1>6. ASSUME NEW k \in Windows, NEW reveal \in BOOLEAN, FocusWindow(k, reveal) PROVE IInv'
  BY <1>6, FocusKeeps
<1>7. CASE Present
  BY <1>7, PresentKeeps
<1>8. ASSUME NEW outs \in SUBSET Boards, Connect(outs) PROVE IInv'
  BY <1>8, ConnectKeeps
<1>9. CASE Keep
  BY <1>9, KeepKeeps
<1>10. CASE Undo
  BY <1>10, UndoKeeps
<1>11. CASE UNCHANGED vars
  BY <1>11 DEF vars, IInv, Kept, OnCourse, Boarded, Held, Returnable, Distinct, WideHasItsWindow, Placed
<1> QED
  BY <1>1, <1>2, <1>3, <1>4, <1>5, <1>6, <1>7, <1>8, <1>9, <1>10, <1>11 DEF Next

(* The model never leaves the desks the invariant describes.                *)
THEOREM Invariance == Spec => []IInv
BY InitIInv, NextIInv, PTL DEF Spec

(* The desk is of its type, and what it presents is on it: a wide window is *)
(* a tiled one that has a place (SpatialModel.cpp).                         *)
THEOREM TypeCorrect == Spec => []TypeOK
<1>1. IInv => TypeOK
  BY DEF IInv, TypeOK, Kept
<1> QED
  BY <1>1, Invariance, PTL

(* No two windows are ever on one cell, and every window that is shown has  *)
(* a place, whatever is inserted, moved over, returned or restored.         *)
THEOREM CellsDistinct == Spec => []OneWindowPerCell
<1>1. IInv => OneWindowPerCell
  BY DEF IInv, OneWindowPerCell
<1> QED
  BY <1>1, Invariance, PTL

(* The model follows the monitors: the topology command is never refused,   *)
(* and no window is left on a board whose monitor is gone.                  *)
THEOREM MonitorsFollowed == Spec => []OnAMonitor
<1>1. IInv => OnAMonitor
  BY DEF IInv, OnAMonitor, OnCourse, Boarded
<1> QED
  BY <1>1, Invariance, PTL

(* When the monitor of a window that had to leave is back, the window is on *)
(* the very cell it left, unless that change makes other windows leave.     *)
THEOREM WindowsReturn == Spec => HomeAgain
<1> DEFINE A == outputs' # outputs /\ ~astray /\ (\A k \in Placed(desk) : desk.at[k].board \in outputs') =>
                  \A k \in {l \in Windows : home[l] # None} :
                    home[k].board \in outputs' => k \in Placed(desk') /\ Place(desk', k) = home[k]
<1>1. ASSUME IInv, NEW outs \in SUBSET Boards, Connect(outs), ~astray,
             \A k \in Placed(desk) : desk.at[k].board \in outs,
             NEW k \in Windows, home[k] # None, home[k].board \in outs
      PROVE  k \in Placed(desk') /\ Place(desk', k) = home[k]
  <2>1. /\ desk \in DeskType /\ Distinct(desk) /\ WideHasItsWindow(desk) /\ Held(desk)
        /\ Returnable(desk) /\ home = desk.displaced
    BY <1>1 DEF IInv, OnCourse
  <2>2. PICK dest \in Nearest(desk, outs), anchor \in Near, dir \in Flows :
          desk' = IF Followed(desk, outs, dest, anchor, dir) = Refused THEN desk
                  ELSE Followed(desk, outs, dest, anchor, dir)
    BY <1>1 DEF Connect, Nearest
  <2> DEFINE d == Followed(desk, outs, dest, anchor, dir)
  <2>3. anchor \in Cells /\ dir \in Directions
    BY CellsNear
  <2>4. /\ d # Refused => Placed(d) = Placed(desk)
        /\ d # Refused
        /\ \A l \in Windows : desk.displaced[l] # None /\ desk.displaced[l].board \in outs => Place(d, l) = desk.displaced[l]
    BY <1>1, <2>1, <2>3, FollowedFacts
  <2>5. desk' = d
    BY <2>2, <2>4
  <2> HIDE DEF d
  <2>6. k \in Placed(desk)
    BY <1>1, <2>1 DEF Held, Placed
  <2> QED
    BY <1>1, <2>1, <2>4, <2>5, <2>6
<1>2. IInv /\ [Next]_vars => [A]_vars
  <2> SUFFICES ASSUME IInv, [Next]_vars, outputs' # outputs, ~astray, \A k \in Placed(desk) : desk.at[k].board \in outputs',
                      NEW k \in Windows, home[k] # None, home[k].board \in outputs'
               PROVE  k \in Placed(desk') /\ Place(desk', k) = home[k]
    OBVIOUS
  <2>1. \E outs \in SUBSET Boards : Connect(outs)
    BY DEF Next, vars, OpenTiled, OpenFloating, MoveTo, Reclassify, Leave, FocusWindow, Present, Keep, Undo
  <2>2. PICK outs \in SUBSET Boards : Connect(outs)
    BY <2>1
  <2>3. outputs' = outs
    BY <2>2 DEF Connect
  <2> QED
    BY <1>1, <2>2, <2>3
<1> QED
  BY <1>2, Invariance, PTL DEF Spec, HomeAgain
=============================================================================
