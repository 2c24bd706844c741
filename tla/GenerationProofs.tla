-------------------------- MODULE GenerationProofs --------------------------
(***************************************************************************)
(* The store of releases, for any number of releases, sessions, clients,   *)
(* writes of the record and losses of power: what runs is whole, what the  *)
(* record names survives, and only evidence of the record confirms it.     *)
(***************************************************************************)
EXTENDS GenerationStore, TLAPS

Recorded == {<<"rename", "generations", "replace", "root">>, <<"generations", "replace", "root">>,
             <<"replace", "root">>}

Waits(call) == holder.todo # <<>> /\ Head(holder.todo) = call

(* Root's operations and admissions exclude each other, and what is marked  *)
(* or taken down is not leased.                                             *)
LockInv ==
  /\ holder.todo = <<>> => holder = Free
  /\ holder # Free => Admitting = {}
  /\ removing => Admitting = {}
  /\ Waits("marker") => \A g \in Generations : ~Leased(g)
  /\ Waits("collect") /\ holder.generation # None => ~Leased(holder.generation)

(* Evidence that is of this boot is not of a later record than the one in   *)
(* force, and if a write came after it, of an earlier one.                  *)
EvidenceInv ==
  /\ holder.todo \in Recorded => holder.record.revision = state.revision + 1
  /\ evidence # None =>
       /\ evidence.boot <= boot
       /\ evidence.boot = boot => /\ evidence.revision <= state.revision
                                  /\ ~evidence.fresh => evidence.revision < state.revision

Kept(g) == treeAfter[g] = {"whole"}

(* A record is durable unless its sync is what comes next, a whole release  *)
(* likewise; and the record to be written names what is durable by then.    *)
DurableInv ==
  /\ ~Waits("root") => stateAfter = {state}
  /\ \A g \in Generations :
       tree[g] = "whole" => Kept(g) \/ (Waits("generations") /\ g = holder.generation)
  /\ \A r \in stateAfter : \A g \in Named(r) : Kept(g)
  /\ holder.todo \in Recorded =>
       \A g \in Named(holder.record) :
         Kept(g) \/ (g = holder.generation /\ (Waits("rename") \/ Waits("generations")))
  /\ holder.todo = <<"generations", "replace", "root">> => tree[holder.generation] = "whole"
  /\ holder.todo = <<"rename", "generations", "replace", "root">> => holder.generation \in Generations
  /\ Waits("collect") => holder.left \cap Named(state) = {} /\ holder.generation \notin Named(state)

IInv ==
  /\ TypeOK
  /\ LockInv
  /\ LeasedIsWhole
  /\ EvidenceInv
  /\ ~interrupted => DurableInv

-----------------------------------------------------------------------------
(* Where a plan begins, and what is left of it.                             *)
LEMMA PlanFacts ==
  ASSUME NEW p \in Plans, p # <<>>
  PROVE  /\ Tail(p) \in Plans
         /\ Len(p) = 1 <=> Tail(p) = <<>>
         /\ Head(p) = "rename" <=> p = <<"rename", "generations", "replace", "root">>
         /\ Head(p) = "generations" <=> p = <<"generations", "replace", "root">> \/ p = <<"generations">>
         /\ Head(p) = "replace" <=> p = <<"replace", "root">>
         /\ Head(p) = "root" <=> p = <<"root">>
         /\ Head(p) = "collect" <=> p = <<"collect", "generations">>
         /\ Head(p) = "marker" <=> p = <<"marker">>
         /\ p = <<"rename", "generations", "replace", "root">> => Tail(p) = <<"generations", "replace", "root">>
         /\ p = <<"generations", "replace", "root">> => Tail(p) = <<"replace", "root">>
         /\ p = <<"replace", "root">> => Tail(p) = <<"root">>
         /\ p = <<"collect", "generations">> => Tail(p) = <<"generations">>
         /\ p \in {<<"root">>, <<"generations">>, <<"marker">>} => Tail(p) = <<>>
         /\ Tail(p) \in Recorded => p \in Recorded
         /\ Tail(p) # <<>> <=> Head(p) \in {"rename", "replace", "collect"} \/ p = <<"generations", "replace", "root">>
<1>1. CASE p = <<"rename", "generations", "replace", "root">>
  <2>1. Head(p) = "rename" /\ Tail(p) = <<"generations", "replace", "root">> /\ Len(p) = 4
    BY <1>1
  <2> QED
    BY <1>1, <2>1 DEF Plans, Recorded
<1>2. CASE p = <<"generations", "replace", "root">>
  <2>1. Head(p) = "generations" /\ Tail(p) = <<"replace", "root">> /\ Len(p) = 3
    BY <1>2
  <2> QED
    BY <1>2, <2>1 DEF Plans, Recorded
<1>3. CASE p = <<"replace", "root">>
  <2>1. Head(p) = "replace" /\ Tail(p) = <<"root">> /\ Len(p) = 2
    BY <1>3
  <2> QED
    BY <1>3, <2>1 DEF Plans, Recorded
<1>4. CASE p = <<"root">>
  <2>1. Head(p) = "root" /\ Tail(p) = <<>> /\ Len(p) = 1
    BY <1>4
  <2> QED
    BY <1>4, <2>1 DEF Plans, Recorded
<1>5. CASE p = <<"collect", "generations">>
  <2>1. Head(p) = "collect" /\ Tail(p) = <<"generations">> /\ Len(p) = 2
    BY <1>5
  <2> QED
    BY <1>5, <2>1 DEF Plans, Recorded
<1>6. CASE p = <<"generations">>
  <2>1. Head(p) = "generations" /\ Tail(p) = <<>> /\ Len(p) = 1
    BY <1>6
  <2> QED
    BY <1>6, <2>1 DEF Plans, Recorded
<1>7. CASE p = <<"marker">>
  <2>1. Head(p) = "marker" /\ Tail(p) = <<>> /\ Len(p) = 1
    BY <1>7
  <2> QED
    BY <1>7, <2>1 DEF Plans, Recorded
<1> QED
  BY <1>1, <1>2, <1>3, <1>4, <1>5, <1>6, <1>7 DEF Plans, Recorded

(* A write of the record.                                                   *)
LEMMA WriteType ==
  ASSUME TypeOK, NEW todo \in Plans, NEW g \in Generations \cup {None}, NEW r \in Records,
         r.revision = state.revision, Write(todo, g, r)
  PROVE  /\ holder' = [todo |-> todo, generation |-> g, record |-> Revised(r), left |-> {}]
         /\ Revised(r) \in Records
         /\ Revised(r).revision = state.revision + 1
         /\ Named(Revised(r)) = Named(r)
<1>1. state.revision + 1 \in 0 .. MaxRevision
  BY Bounds DEF TypeOK, Write, Records
<1>2. Revised(r) = [r EXCEPT !.revision = state.revision + 1]
  BY DEF Revised
<1> HIDE DEF Revised
<1>3. Revised(r) \in Records /\ Revised(r).revision = state.revision + 1
  BY <1>1, <1>2 DEF Records
<1>4. Named(Revised(r)) = Named(r)
  BY <1>2 DEF Named, Roles, Records
<1> QED
  BY <1>3, <1>4 DEF Write, Take

HolderType == [todo : Plans, generation : Generations \cup {None}, record : Records, left : SUBSET Generations]

(* A write of the record has got the lock; what the record will name is     *)
(* there or about to be.                                                    *)
WriteBegun ==
  /\ Exclusive
  /\ UNCHANGED <<disk, removing, people, interrupted>>
  /\ holder' \in HolderType
  /\ holder'.todo \in Recorded
  /\ holder'.record.revision = state.revision + 1
  /\ \/ /\ holder'.todo = <<"replace", "root">>
        /\ \A g \in Named(holder'.record) : g \in Named(state) \/ tree[g] = "whole"
     \/ /\ holder'.todo = <<"rename", "generations", "replace", "root">>
        /\ holder'.generation \in Generations
        /\ \A g \in Named(holder'.record) : g \in Named(state) \/ g = holder'.generation

Begins ==
  \/ \E g \in Generations : Stage(g) \/ Select(g) \/ Confirm(g) \/ Revoke(g)
  \/ Rollback

LEMMA WriteBegins == ASSUME TypeOK, Begins PROVE WriteBegun
<1> state \in Records
  BY DEF TypeOK
<1> USE DEF HolderType
<1>1. ASSUME NEW g \in Generations, Stage(g) PROVE WriteBegun
  <2> DEFINE r == [state EXCEPT !.candidate = g]
  <2>1. r \in Records /\ r.revision = state.revision
    BY <1>1 DEF Records
  <2>2. Named(r) \subseteq Named(state) \cup {g}
    BY <1>1 DEF Named, Roles, Records
  <2> HIDE DEF r
  <2>3. Exclusive /\ UNCHANGED <<disk, removing, people, interrupted>> /\ tree[g] # "partial"
    BY <1>1 DEF Stage
  <2>4. CASE tree[g] = "absent"
    <3>1. Write(<<"rename", "generations", "replace", "root">>, g, r)
      BY <1>1, <2>4 DEF r, Stage
    <3> QED
      BY <2>1, <2>2, <2>3, <3>1, WriteType DEF WriteBegun, Recorded, Plans
  <2>5. CASE tree[g] # "absent"
    <3>1. Write(<<"replace", "root">>, g, r) /\ tree[g] = "whole"
      BY <1>1, <2>3, <2>5 DEF r, Stage, Recording, TypeOK
    <3> QED
      BY <2>1, <2>2, <2>3, <3>1, WriteType DEF WriteBegun, Recorded, Plans
  <2> QED
    BY <2>4, <2>5
<1>2. ASSUME NEW g \in Generations, Select(g) PROVE WriteBegun
  <2> DEFINE r == [state EXCEPT !.candidate = None, !.selected = g,
                          !.previous = IF state.selected = g THEN @ ELSE state.selected]
  <2>1. r \in Records /\ r.revision = state.revision
    BY <1>2 DEF Records
  <2>2. Named(r) \subseteq Named(state) \cup {g}
    BY <1>2 DEF Named, Roles, Records
  <2> HIDE DEF r
  <2>3. Write(Recording, None, r) /\ Exclusive /\ UNCHANGED <<disk, removing, people, interrupted>>
    BY <1>2 DEF r, Select
  <2>4. Recording \in Plans /\ Recording \in Recorded /\ Recording = <<"replace", "root">>
    BY DEF Recording, Recorded, Plans
  <2>5. /\ holder' = [todo |-> Recording, generation |-> None, record |-> Revised(r), left |-> {}]
        /\ Revised(r) \in Records /\ Revised(r).revision = state.revision + 1
        /\ Named(Revised(r)) = Named(r)
    BY <2>1, <2>3, <2>4, WriteType
  <2>6. tree[g] = "whole"
    BY <1>2 DEF Select, Eligible
  <2> QED
    BY <2>2, <2>3, <2>4, <2>5, <2>6 DEF WriteBegun, HolderType
<1>3. ASSUME NEW g \in Generations, Confirm(g) PROVE WriteBegun
  <2> DEFINE r == [state EXCEPT !.confirmed = g]
  <2>1. r \in Records /\ r.revision = state.revision
    BY <1>3 DEF Records, Confirm
  <2>2. Named(r) \subseteq Named(state) \cup {}
    BY <1>3 DEF Named, Roles, Records, Confirm
  <2> HIDE DEF r
  <2>3. Write(Recording, None, r) /\ Exclusive /\ UNCHANGED <<disk, removing, people, interrupted>>
    BY <1>3 DEF r, Confirm
  <2> QED
    BY <1>3, <2>1, <2>2, <2>3, WriteType DEF WriteBegun, Recording, Recorded, Plans, Confirm
<1>4. ASSUME NEW g \in Generations, Revoke(g) PROVE WriteBegun
  <2> DEFINE r == [state EXCEPT !.revoked = @ \cup {g}]
  <2>1. r \in Records /\ r.revision = state.revision
    BY <1>4 DEF Records
  <2>2. Named(r) \subseteq Named(state) \cup {}
    BY <1>4 DEF Named, Roles, Records
  <2> HIDE DEF r
  <2>3. Write(Recording, None, r) /\ Exclusive /\ UNCHANGED <<disk, removing, people, interrupted>>
    BY <1>4 DEF r, Revoke
  <2> QED
    BY <1>4, <2>1, <2>2, <2>3, WriteType DEF WriteBegun, Recording, Recorded, Plans, Revoke
<1>5. ASSUME Rollback PROVE WriteBegun
  <2> DEFINE r == [state EXCEPT !.selected = state.previous, !.previous = state.selected]
  <2>1. r \in Records /\ r.revision = state.revision
    BY <1>5 DEF Records
  <2>2. Named(r) \subseteq Named(state) \cup {}
    BY <1>5 DEF Named, Roles, Records
  <2> HIDE DEF r
  <2>3. Write(Recording, None, r) /\ Exclusive /\ UNCHANGED <<disk, removing, people, interrupted>>
    BY <1>5 DEF r, Rollback
  <2> QED
    BY <1>5, <2>1, <2>2, <2>3, WriteType DEF WriteBegun, Recording, Recorded, Plans, Rollback
<1> QED
  BY <1>1, <1>2, <1>3, <1>4, <1>5 DEF Begins

(* A call that is done is no longer to do.                                  *)
LEMMA DoneFacts ==
  ASSUME TypeOK, holder.todo # <<>>, Done
  PROVE  /\ holder' \in HolderType
         /\ holder'.todo = Tail(holder.todo)
         /\ Tail(holder.todo) # <<>> => holder' = [holder EXCEPT !.todo = Tail(holder.todo)]
         /\ Tail(holder.todo) = <<>> => holder' = Free
<1>1. Tail(holder.todo) \in Plans /\ (Len(holder.todo) = 1 <=> Tail(holder.todo) = <<>>)
  BY PlanFacts DEF TypeOK
<1>2. Free \in HolderType /\ Free.todo = <<>>
  BY Bounds DEF Free, HolderType, Records, Fresh, Plans
<1> QED
  BY <1>1, <1>2 DEF Done, TypeOK, HolderType

(* The operations keep the store well-typed.                                *)
LEMMA TypeStep == TypeOK /\ [Next]_vars => TypeOK'
<1> SUFFICES ASSUME TypeOK, [Next]_vars PROVE TypeOK'
  OBVIOUS
<1>0. Free \in HolderType /\ holder \in HolderType /\ Fresh \in Records
  BY Bounds DEF Free, HolderType, Records, Fresh, Plans, TypeOK
<1>1. CASE Begins
  BY <1>1, WriteBegins DEF WriteBegun, HolderType, disk, people, TypeOK
<1>2. CASE Collect
  <2>1. holder' \in HolderType
    BY <1>0, <1>2 DEF Collect, Take, HolderType, Plans
  <2> QED
    BY <1>2, <2>1 DEF Collect, HolderType, disk, people, TypeOK
<1>3. CASE PrepareRemoval
  <2>1. holder' \in HolderType
    BY <1>0, <1>3 DEF PrepareRemoval, Take, HolderType, Plans
  <2> QED
    BY <1>3, <2>1 DEF PrepareRemoval, HolderType, disk, people, TypeOK
<1>4. CASE RemovalOver
  BY <1>4 DEF RemovalOver, disk, people, TypeOK
<1>5. CASE Rename
  <2>1. holder' \in HolderType
    BY <1>5, DoneFacts DEF Rename, Next1
  <2>2. /\ tree' \in [Generations -> {"absent", "partial", "whole"}]
        /\ treeAfter' \in [Generations -> SUBSET {"absent", "partial", "whole"}]
        /\ \A g \in Generations : tree'[g] \in treeAfter'[g]
    BY <1>5 DEF Rename, TypeOK
  <2> QED
    BY <1>5, <2>1, <2>2 DEF Rename, HolderType, people, TypeOK
<1>6. CASE SyncGenerations
  <2>1. holder' \in HolderType
    BY <1>6, DoneFacts DEF SyncGenerations, Next1
  <2>2. /\ treeAfter' \in [Generations -> SUBSET {"absent", "partial", "whole"}]
        /\ \A g \in Generations : tree'[g] \in treeAfter'[g]
    BY <1>6 DEF SyncGenerations, TypeOK
  <2> QED
    BY <1>6, <2>1, <2>2 DEF SyncGenerations, HolderType, people, TypeOK
<1>7. CASE Replace
  <2>1. holder' \in HolderType /\ holder.record \in Records
    BY <1>7, DoneFacts DEF Replace, Next1, TypeOK
  <2>2. evidence' \in [generation : Generations, revision : 0 .. MaxRevision, boot : 0 .. MaxBoot,
                       fresh : BOOLEAN] \cup {None}
    BY <1>7 DEF Replace, Outdated, TypeOK
  <2> QED
    BY <1>7, <2>1, <2>2 DEF Replace, HolderType, TypeOK
<1>8. CASE SyncRoot
  <2>1. holder' \in HolderType
    BY <1>8, DoneFacts DEF SyncRoot, Next1
  <2> QED
    BY <1>8, <2>1 DEF SyncRoot, HolderType, people, TypeOK
<1>9. CASE Mark
  <2>1. holder' \in HolderType
    BY <1>9, DoneFacts DEF Mark, Next1
  <2> QED
    BY <1>9, <2>1 DEF Mark, HolderType, disk, people, TypeOK
<1>10. ASSUME NEW g \in Generations, RemoveSome(g) PROVE TypeOK'
  <2>1. holder' \in HolderType
    BY <1>0, <1>10 DEF RemoveSome, HolderType
  <2>2. /\ tree' \in [Generations -> {"absent", "partial", "whole"}]
        /\ treeAfter' \in [Generations -> SUBSET {"absent", "partial", "whole"}]
        /\ \A h \in Generations : tree'[h] \in treeAfter'[h]
    BY <1>10 DEF RemoveSome, TypeOK
  <2> QED
    BY <1>10, <2>1, <2>2 DEF RemoveSome, HolderType, people, TypeOK
<1>11. CASE RemoveRest
  <2>1. holder' \in HolderType
    BY <1>0, <1>11 DEF RemoveRest, HolderType
  <2>2. /\ tree' \in [Generations -> {"absent", "partial", "whole"}]
        /\ treeAfter' \in [Generations -> SUBSET {"absent", "partial", "whole"}]
        /\ \A h \in Generations : tree'[h] \in treeAfter'[h]
    BY <1>11 DEF RemoveRest, TypeOK
  <2> QED
    BY <1>11, <2>1, <2>2 DEF RemoveRest, HolderType, people, TypeOK
<1>12. CASE Collected
  <2>1. holder' \in HolderType
    BY <1>12, DoneFacts DEF Collected, Next1
  <2> QED
    BY <1>12, <2>1 DEF Collected, HolderType, disk, people, TypeOK
<1>13. CASE Kill
  BY <1>0, <1>13 DEF Kill, HolderType, disk, people, TypeOK
<1>14. ASSUME NEW s \in Sessions, NEW g \in Generations, Start(s, g) PROVE TypeOK'
  BY <1>14, Names DEF Start, disk, TypeOK
<1>15. ASSUME NEW s \in Sessions, Close(s, "closing") \/ Close(s, "orphan") PROVE TypeOK'
  <2>1. PICK at \in {"closing", "orphan"} : Close(s, at)
    BY <1>15
  <2>2. sess' \in [Sessions -> [at : {"out", "in", "closing", "orphan"}, generation : Generations \cup {None}]]
    BY <2>1 DEF Close, TypeOK
  <2>3. \A x \in Sessions : sess'[x].at = "out" <=> sess'[x].generation = None
    <3>1. sess'[s] = [sess[s] EXCEPT !.at = at] /\ \A x \in Sessions \ {s} : sess'[x] = sess[x]
      BY <2>1 DEF Close, TypeOK
    <3>2. sess'[s].at = at /\ sess'[s].generation = sess[s].generation /\ sess[s].at = "in"
      BY <2>1, <3>1 DEF Close, TypeOK
    <3> QED
      BY <3>1, <3>2 DEF TypeOK
  <2> QED
    BY <2>1, <2>2, <2>3 DEF Close, disk, TypeOK
<1>16. ASSUME NEW s \in Sessions, Gone(s) PROVE TypeOK'
  <2>1. /\ sess' \in [Sessions -> [at : {"out", "in", "closing", "orphan"}, generation : Generations \cup {None}]]
        /\ \A x \in Sessions : sess'[x].at = "out" <=> sess'[x].generation = None
    BY <1>16 DEF Gone, Away, TypeOK
  <2>2. client' \in [Clients -> [at : {"idle", "asking", "admitted", "alone", "busy", "using"},
                                generation : Generations \cup {None}, owner : Sessions \cup {None}]]
    BY <1>16 DEF Gone, Idle, TypeOK
  <2> QED
    BY <1>16, <2>1, <2>2 DEF Gone, disk, TypeOK
<1>17. ASSUME NEW s \in Sessions, Examine(s) PROVE TypeOK'
  <2>1. sess[s].generation \in Generations /\ state.revision \in 0 .. MaxRevision /\ boot \in 0 .. MaxBoot
    BY <1>17, Names DEF Examine, TypeOK, Records
  <2> QED
    BY <1>17, <2>1 DEF Examine, disk, TypeOK
<1>18. ASSUME NEW c \in Clients, NEW s \in Sessions, Ask(c, s) PROVE TypeOK'
  BY <1>18 DEF Ask, disk, TypeOK
<1>19. ASSUME NEW c \in Clients, Admit(c) \/ Probe(c) \/ Share(c) \/ Leave(c) PROVE TypeOK'
  <2>1. client' \in [Clients -> [at : {"idle", "asking", "admitted", "alone", "busy", "using"},
                                generation : Generations \cup {None}, owner : Sessions \cup {None}]]
    BY <1>19 DEF Admit, Probe, Share, Leave, Idle, TypeOK
  <2> QED
    BY <1>19, <2>1 DEF Admit, Probe, Share, Leave, disk, TypeOK
<1>20. CASE PowerLoss
  <2>1. boot' \in 0 .. MaxBoot
    BY <1>20, Bounds DEF PowerLoss, TypeOK
  <2>2. evidence' \in [generation : Generations, revision : 0 .. MaxRevision, boot : 0 .. MaxBoot,
                       fresh : BOOLEAN] \cup {None}
    BY <1>20 DEF PowerLoss, Outdated, TypeOK
  <2>3. /\ tree' \in [Generations -> {"absent", "partial", "whole"}]
        /\ treeAfter' \in [Generations -> SUBSET {"absent", "partial", "whole"}]
        /\ \A g \in Generations : tree'[g] \in treeAfter'[g]
        /\ state' \in stateAfter' /\ stateAfter' \subseteq Records
    BY <1>20 DEF PowerLoss, TypeOK
  <2>4. /\ sess' \in [Sessions -> [at : {"out", "in", "closing", "orphan"}, generation : Generations \cup {None}]]
        /\ \A s \in Sessions : sess'[s].at = "out" <=> sess'[s].generation = None
        /\ client' \in [Clients -> [at : {"idle", "asking", "admitted", "alone", "busy", "using"},
                                    generation : Generations \cup {None}, owner : Sessions \cup {None}]]
    BY <1>20 DEF PowerLoss, Away, Idle
  <2> QED
    BY <1>0, <1>20, <2>1, <2>2, <2>3, <2>4 DEF PowerLoss, HolderType, TypeOK
<1>21. CASE UNCHANGED vars
  BY <1>21 DEF vars, TypeOK
<1> QED
  BY <1>1, <1>2, <1>3, <1>4, <1>5, <1>6, <1>7, <1>8, <1>9, <1>10, <1>11, <1>12, <1>13, <1>14, <1>15, <1>16,
     <1>17, <1>18, <1>19, <1>20, <1>21 DEF Next, Begins

(* What comes after a call.                                                 *)
LEMMA DoneWaits ==
  ASSUME TypeOK, holder.todo # <<>>, Done
  PROVE  /\ holder'.todo = <<>> => holder' = Free
         /\ ~Waits("marker")' /\ ~Waits("collect")' /\ ~Waits("rename")'
         /\ holder'.todo = Tail(holder.todo)
         /\ Waits("generations")' <=> Waits("rename") \/ Waits("collect")
         /\ Waits("root")' <=> Waits("replace")
<1>1. holder'.todo = Tail(holder.todo) /\ (Tail(holder.todo) = <<>> => holder' = Free)
  BY DoneFacts
<1>2. \A p \in Plans : p # <<>> /\ Tail(p) # <<>> =>
        Head(Tail(p)) = CASE Head(p) = "rename" -> "generations" [] Head(p) = "generations" -> "replace"
                          [] Head(p) = "replace" -> "root" [] OTHER -> "generations"
  BY PlanFacts DEF Plans
<1>3. \A p \in Plans : p # <<>> => (Tail(p) # <<>> <=> Head(p) \in {"rename", "replace", "collect"}
                                                        \/ p = <<"generations", "replace", "root">>)
  BY PlanFacts
<1>4. holder.todo \in Plans
  BY DEF TypeOK
<1> QED
  BY <1>1, <1>2, <1>3, <1>4, PlanFacts DEF Waits

(* A process that has its lock to itself stays alone with it.               *)
LEMMA DoneLocks ==
  ASSUME TypeOK, LockInv, holder.todo # <<>>, Done, UNCHANGED <<sess, client>>
  PROVE  /\ holder # Free /\ Admitting = {}
         /\ Admitting' = {} /\ \A g \in Generations : Leased(g)' <=> Leased(g)
         /\ holder'.todo = <<>> => holder' = Free
         /\ ~Waits("marker")' /\ ~Waits("collect")'
<1>1. holder # Free
  BY DEF Free
<1> QED
  BY <1>1, DoneWaits DEF LockInv, Admitting, Leased

(* Sessions, clients and root keep out of each other's way.                 *)
LEMMA LockStep ==
  ASSUME TypeOK, LockInv, LeasedIsWhole, [Next]_vars
  PROVE  LockInv' /\ LeasedIsWhole'
<1>1. CASE Begins
  <2>1. WriteBegun
    BY <1>1, WriteBegins
  <2>2. holder'.todo \in Recorded /\ ~Waits("marker")' /\ ~Waits("collect")' /\ holder'.todo # <<>>
    BY <2>1 DEF WriteBegun, Recorded, Waits
  <2> QED
    BY <2>1, <2>2 DEF WriteBegun, Exclusive, LockInv, LeasedIsWhole, Admitting, Leased, disk, people
<1>2. CASE Collect
  BY <1>2 DEF Collect, Take, Exclusive, LockInv, LeasedIsWhole, Admitting, Leased, Waits, disk, people
<1>3. CASE PrepareRemoval
  BY <1>3 DEF PrepareRemoval, Take, Exclusive, LockInv, LeasedIsWhole, Admitting, Leased, Waits, disk, people
<1>4. CASE RemovalOver
  BY <1>4 DEF RemovalOver, LockInv, LeasedIsWhole, Admitting, Leased, Waits, disk, people
<1>5. CASE Rename \/ SyncGenerations \/ Replace \/ SyncRoot \/ Collected
  <2>1. holder.todo # <<>> /\ Done /\ UNCHANGED <<sess, client, removing>>
    BY <1>5 DEF Rename, SyncGenerations, Replace, SyncRoot, Collected, Next1, disk, people
  <2>2. \A g \in Generations : tree[g] = "whole" => tree'[g] = "whole"
    BY <1>5 DEF Rename, SyncGenerations, Replace, SyncRoot, Collected, disk, TypeOK
  <2>3. \A s \in Sessions : sess[s].at \in {"in", "orphan"} => sess[s].generation \in Generations
    BY DEF TypeOK
  <2> QED
    BY <2>1, <2>2, <2>3, DoneLocks DEF LockInv, LeasedIsWhole
<1>6. CASE Mark
  <2>1. holder.todo # <<>> /\ Done /\ Waits("marker") /\ UNCHANGED <<sess, client, tree>>
    BY <1>6 DEF Mark, Next1, Waits, disk, people
  <2> QED
    BY <2>1, DoneLocks DEF LockInv, LeasedIsWhole
<1>7. ASSUME NEW g \in Generations, RemoveSome(g) PROVE LockInv' /\ LeasedIsWhole'
  <2>1. /\ UNCHANGED <<sess, client, removing>> /\ holder # Free /\ holder.todo # <<>>
        /\ holder'.todo = holder.todo
        /\ holder'.generation # None => holder'.generation = g /\ ~Leased(g)
    BY <1>7 DEF RemoveSome, Next1, Spared, people, Free, TypeOK
  <2>2. \A s \in Sessions : sess[s].at \in {"in", "orphan"} => tree'[sess[s].generation] = tree[sess[s].generation]
    BY <1>7 DEF RemoveSome, Spared, Leased, TypeOK
  <2> QED
    BY <2>1, <2>2 DEF LockInv, LeasedIsWhole, Admitting, Leased, Waits, Free
<1>8. CASE RemoveRest
  <2>1. /\ UNCHANGED <<sess, client, removing>> /\ holder # Free /\ holder.todo # <<>>
        /\ holder'.todo = holder.todo /\ holder'.generation = None
        /\ ~Leased(holder.generation)
    BY <1>8 DEF RemoveRest, Next1, people, Free, TypeOK, LockInv, Waits
  <2>2. \A s \in Sessions : sess[s].at \in {"in", "orphan"} => tree'[sess[s].generation] = tree[sess[s].generation]
    BY <1>8, <2>1 DEF RemoveRest, Leased, TypeOK
  <2> QED
    BY <2>1, <2>2 DEF LockInv, LeasedIsWhole, Admitting, Leased, Waits, Free
<1>9. CASE Kill
  BY <1>9 DEF Kill, LockInv, LeasedIsWhole, Admitting, Leased, Waits, Free, disk, people
<1>10. ASSUME NEW s \in Sessions, NEW g \in Generations, Start(s, g) PROVE LockInv' /\ LeasedIsWhole'
  <2>1. ~removing /\ tree[g] = "whole" /\ holder = Free
    BY <1>10 DEF Start, Eligible
  <2> QED
    BY <1>10, <2>1 DEF Start, LockInv, LeasedIsWhole, Admitting, Waits, Free, disk, TypeOK
<1>11. ASSUME NEW s \in Sessions, Close(s, "closing") \/ Close(s, "orphan") PROVE LockInv' /\ LeasedIsWhole'
  <2>1. PICK at \in {"closing", "orphan"} : Close(s, at)
    BY <1>11
  <2>2. /\ sess'[s].generation = sess[s].generation /\ sess[s].at = "in"
        /\ \A x \in Sessions \ {s} : sess'[x] = sess[x]
    BY <2>1 DEF Close, TypeOK
  <2>3. \A g : Leased(g)' => Leased(g)
    BY <2>1, <2>2 DEF Close, Leased
  <2>4. \A x \in Sessions : sess'[x].at \in {"in", "orphan"} => sess[x].at \in {"in", "orphan"} /\ sess'[x].generation = sess[x].generation
    BY <2>2
  <2> QED
    BY <2>1, <2>3, <2>4 DEF Close, LockInv, LeasedIsWhole, Admitting, Waits, disk
<1>12. ASSUME NEW s \in Sessions, Gone(s) PROVE LockInv' /\ LeasedIsWhole'
  <2>1. \A c \in Clients : client'[c] \in {client[c], Idle}
    BY <1>12 DEF Gone, TypeOK
  <2>2. \A x \in Sessions : sess'[x] \in {sess[x], Away}
    BY <1>12 DEF Gone, TypeOK
  <2>3. /\ \A g : Leased(g)' => Leased(g)
        /\ Admitting' \subseteq Admitting
    BY <2>1, <2>2 DEF Leased, Admitting, Idle, Away
  <2> QED
    BY <1>12, <2>2, <2>3 DEF Gone, Away, LockInv, LeasedIsWhole, Waits, disk
<1>13. ASSUME NEW s \in Sessions, Examine(s) PROVE LockInv' /\ LeasedIsWhole'
  BY <1>13 DEF Examine, LockInv, LeasedIsWhole, Admitting, Leased, Waits, disk
<1>14. ASSUME NEW c \in Clients, NEW s \in Sessions, Ask(c, s) PROVE LockInv' /\ LeasedIsWhole'
  <2>1. client'[c].at = "asking" /\ client[c] = Idle /\ \A x \in Clients \ {c} : client'[x] = client[x]
    BY <1>14 DEF Ask, TypeOK
  <2>2. /\ \A g : Leased(g)' => Leased(g)
        /\ Admitting' \subseteq Admitting
    BY <1>14, <2>1 DEF Ask, Leased, Admitting
  <2> QED
    BY <1>14, <2>2 DEF Ask, LockInv, LeasedIsWhole, Waits, disk
<1>15. ASSUME NEW c \in Clients, Admit(c) PROVE LockInv' /\ LeasedIsWhole'
  <2>1. client'[c].at = "admitted" /\ \A x \in Clients \ {c} : client'[x] = client[x]
    BY <1>15 DEF Admit, TypeOK
  <2>2. ~removing /\ holder = Free /\ UNCHANGED <<disk, holder, removing, sess>>
    BY <1>15 DEF Admit, Admissible
  <2> QED
    BY <2>1, <2>2 DEF LockInv, LeasedIsWhole, Waits, disk, Free
<1>16. ASSUME NEW c \in Clients, Probe(c) \/ Share(c) PROVE LockInv' /\ LeasedIsWhole'
  <2>1. c \in Admitting /\ UNCHANGED <<disk, holder, removing, sess>>
    BY <1>16 DEF Probe, Share, Admitting
  <2>2. holder = Free /\ ~removing
    BY <2>1 DEF LockInv
  <2> QED
    BY <2>1, <2>2 DEF LockInv, LeasedIsWhole, Waits, disk, Free
<1>17. ASSUME NEW c \in Clients, Leave(c) PROVE LockInv' /\ LeasedIsWhole'
  <2>1. client'[c] = Idle /\ \A x \in Clients \ {c} : client'[x] = client[x]
    BY <1>17 DEF Leave, TypeOK
  <2>2. /\ \A g : Leased(g)' => Leased(g)
        /\ Admitting' \subseteq Admitting
    BY <1>17, <2>1 DEF Leave, Leased, Admitting, Idle
  <2> QED
    BY <1>17, <2>2 DEF Leave, LockInv, LeasedIsWhole, Waits, disk
<1>18. CASE PowerLoss
  BY <1>18 DEF PowerLoss, Away, Idle, Free, LockInv, LeasedIsWhole, Admitting, Leased, Waits
<1>19. CASE UNCHANGED vars
  BY <1>19 DEF vars, LockInv, LeasedIsWhole, Admitting, Leased, Waits
<1> QED
  BY <1>1, <1>2, <1>3, <1>4, <1>5, <1>6, <1>7, <1>8, <1>9, <1>10, <1>11, <1>12, <1>13, <1>14, <1>15, <1>16,
     <1>17, <1>18, <1>19 DEF Next, Begins

(* Evidence goes out of date with every write and every lost one.           *)
LEMMA EvidenceStep ==
  ASSUME TypeOK, EvidenceInv, [Next]_vars
  PROVE  EvidenceInv'
<1>0. /\ state.revision \in Nat /\ boot \in Nat
      /\ evidence # None => evidence.revision \in Nat /\ evidence.boot \in Nat
  BY Bounds, Names DEF TypeOK, Records
<1>1. CASE Begins
  <2>1. WriteBegun
    BY <1>1, WriteBegins
  <2> QED
    BY <2>1 DEF WriteBegun, EvidenceInv, disk, people
<1>2. CASE Collect \/ PrepareRemoval \/ RemovalOver
  BY <1>2 DEF Collect, PrepareRemoval, RemovalOver, Take, Recorded, EvidenceInv, disk, people
<1>3. CASE Rename \/ SyncGenerations \/ SyncRoot \/ Mark \/ Collected
  <2>1. holder.todo # <<>> /\ Done /\ UNCHANGED <<evidence, boot, state>>
    BY <1>3 DEF Rename, SyncGenerations, SyncRoot, Mark, Collected, Next1, disk, people
  <2>2. holder'.todo \in Recorded => holder.todo \in Recorded /\ holder'.record = holder.record
    <3>1. holder'.todo = Tail(holder.todo) /\ holder.todo \in Plans
      BY <2>1, DoneFacts DEF TypeOK
    <3>2. Tail(holder.todo) \in Recorded => holder.todo \in Recorded /\ Tail(holder.todo) # <<>>
      BY <2>1, <3>1, PlanFacts DEF Recorded
    <3> QED
      BY <2>1, <3>1, <3>2, DoneFacts DEF TypeOK
  <2> QED
    BY <2>1, <2>2 DEF EvidenceInv
<1>4. CASE Replace
  <2>1. holder.todo = <<"replace", "root">> /\ holder'.todo = <<"root">>
    BY <1>4, DoneFacts, PlanFacts DEF Replace, Next1, TypeOK
  <2>2. holder.todo \in Recorded /\ holder'.todo \notin Recorded
    BY <2>1 DEF Recorded
  <2>3. state'.revision = state.revision + 1 /\ boot' = boot
    BY <1>4, <2>2 DEF Replace, EvidenceInv
  <2>4. evidence # None => evidence'.revision = evidence.revision /\ evidence'.boot = evidence.boot
    BY <1>4 DEF Replace, Outdated, TypeOK
  <2>5. evidence = None => evidence' = None
    BY <1>4 DEF Replace, Outdated
  <2> QED
    BY <1>0, <2>2, <2>3, <2>4, <2>5 DEF EvidenceInv
<1>5. CASE RemoveRest \/ \E g \in Generations : RemoveSome(g)
  <2>1. UNCHANGED <<state, evidence, boot>>
    BY <1>5 DEF RemoveRest, RemoveSome, people
  <2>2. holder'.todo = holder.todo /\ holder'.record = holder.record
    BY <1>5 DEF RemoveRest, RemoveSome, TypeOK
  <2> QED
    BY <2>1, <2>2 DEF EvidenceInv
<1>6. CASE Kill
  BY <1>6 DEF Kill, Free, Recorded, EvidenceInv, disk, people
<1>7. CASE \E s \in Sessions : Close(s, "closing") \/ Close(s, "orphan") \/ Gone(s) \/ \E g \in Generations : Start(s, g)
  BY <1>7 DEF Close, Gone, Start, EvidenceInv, disk
<1>8. ASSUME NEW s \in Sessions, Examine(s) PROVE EvidenceInv'
  BY <1>0, <1>8 DEF Examine, EvidenceInv, disk
<1>9. CASE \E c \in Clients : Admit(c) \/ Probe(c) \/ Share(c) \/ Leave(c) \/ \E s \in Sessions : Ask(c, s)
  BY <1>9 DEF Admit, Probe, Share, Leave, Ask, EvidenceInv, disk
<1>10. CASE PowerLoss
  <2>1. boot' = boot + 1 /\ holder'.todo \notin Recorded
    BY <1>10 DEF PowerLoss, Free, Recorded
  <2>2. evidence # None => evidence'.boot = evidence.boot
    BY <1>10 DEF PowerLoss, Outdated, TypeOK
  <2>3. evidence = None => evidence' = None
    BY <1>10 DEF PowerLoss, Outdated
  <2> QED
    BY <1>0, <2>1, <2>2, <2>3 DEF EvidenceInv
<1>11. CASE UNCHANGED vars
  BY <1>11 DEF vars, EvidenceInv
<1> QED
  BY <1>1, <1>2, <1>3, <1>4, <1>5, <1>6, <1>7, <1>8, <1>9, <1>10, <1>11 DEF Next, Begins

(* Between a rename and its sync nobody but a death takes the lock away.    *)
LEMMA DurableStep ==
  ASSUME TypeOK, LockInv, ~interrupted => DurableInv, [Next]_vars, ~interrupted'
  PROVE  DurableInv'
<1>0. ~interrupted /\ DurableInv
  <2>1. CASE Begins
    BY <2>1, WriteBegins DEF WriteBegun
  <2>2. CASE Collect \/ PrepareRemoval \/ RemovalOver \/ Mark \/ Collected
    BY <2>2 DEF Collect, PrepareRemoval, RemovalOver, Mark, Collected
  <2>3. CASE Rename \/ SyncGenerations \/ Replace \/ SyncRoot \/ RemoveRest \/ \E g \in Generations : RemoveSome(g)
    BY <2>3 DEF Rename, SyncGenerations, Replace, SyncRoot, RemoveRest, RemoveSome
  <2>4. CASE Kill \/ PowerLoss \/ UNCHANGED vars
    BY <2>4 DEF Kill, PowerLoss, vars
  <2>5. CASE \E s \in Sessions : \/ Close(s, "closing") \/ Close(s, "orphan") \/ Gone(s) \/ Examine(s)
                                  \/ \E g \in Generations : Start(s, g)
    BY <2>5 DEF Close, Gone, Examine, Start
  <2>6. CASE \E c \in Clients : Admit(c) \/ Probe(c) \/ Share(c) \/ Leave(c) \/ \E s \in Sessions : Ask(c, s)
    BY <2>6 DEF Admit, Probe, Share, Leave, Ask
  <2> QED
    BY <2>1, <2>2, <2>3, <2>4, <2>5, <2>6 DEF Next, Begins
<1>1. CASE Begins
  <2>1. WriteBegun
    BY <1>1, WriteBegins
  <2>2. holder = Free /\ ~Waits("root") /\ ~Waits("generations")
    BY <2>1 DEF WriteBegun, Exclusive, Free, Waits
  <2>3. ~Waits("root")' /\ ~Waits("generations")' /\ ~Waits("collect")'
    BY <2>1 DEF WriteBegun, Waits
  <2>4. stateAfter = {state} /\ \A g \in Generations : tree[g] = "whole" => Kept(g)
    BY <1>0, <2>2 DEF DurableInv
  <2>5. \A g \in Named(state) : Kept(g)
    BY <1>0 DEF DurableInv, TypeOK
  <2>6. Named(holder'.record) \subseteq Generations
    BY <2>1 DEF WriteBegun, HolderType, Named, Roles, Records
  <2>7. holder'.todo = <<"rename", "generations", "replace", "root">> => Waits("rename")'
    BY DEF Waits
  <2>8. holder'.todo # <<"generations", "replace", "root">>
    BY <2>1 DEF WriteBegun
  <2>9. UNCHANGED <<tree, treeAfter, state, stateAfter>>
    BY <2>1 DEF WriteBegun, disk
  <2> QED
    BY <1>0, <2>1, <2>3, <2>4, <2>5, <2>6, <2>7, <2>8, <2>9 DEF WriteBegun, DurableInv, Kept
<1>2. CASE Collect
  <2>1. holder = Free /\ ~Waits("root") /\ ~Waits("generations") /\ holder'.todo = <<"collect", "generations">>
    BY <1>2 DEF Collect, Exclusive, Take, Free, Waits
  <2>2. ~Waits("root")' /\ ~Waits("generations")' /\ Waits("collect")' /\ holder'.todo \notin Recorded
    BY <2>1 DEF Waits, Recorded
  <2>3. holder'.left \cap Named(state) = {} /\ holder'.generation \notin Named(state)
    BY <1>2 DEF Collect, Take, Protected, Named
  <2> QED
    BY <1>0, <1>2, <2>1, <2>2, <2>3 DEF Collect, disk, DurableInv, Kept, Recorded
<1>3. CASE PrepareRemoval
  <2>1. holder = Free /\ ~Waits("root") /\ ~Waits("generations") /\ holder'.todo = <<"marker">>
    BY <1>3 DEF PrepareRemoval, Exclusive, Take, Free, Waits
  <2>2. ~Waits("root")' /\ ~Waits("generations")' /\ ~Waits("collect")' /\ holder'.todo \notin Recorded
    BY <2>1 DEF Waits, Recorded
  <2> QED
    BY <1>0, <1>3, <2>1, <2>2 DEF PrepareRemoval, disk, DurableInv, Kept, Recorded
<1>4. CASE Rename
  <2>1. holder.todo = <<"rename", "generations", "replace", "root">> /\ holder'.todo = <<"generations", "replace", "root">>
        /\ holder' = [holder EXCEPT !.todo = Tail(holder.todo)]
    BY <1>4, DoneFacts, PlanFacts DEF Rename, Next1, TypeOK
  <2>2. Waits("rename") /\ ~Waits("root") /\ ~Waits("generations")
        /\ Waits("generations")' /\ ~Waits("root")' /\ ~Waits("collect")' /\ holder.todo \in Recorded
    BY <2>1 DEF Waits, Recorded
  <2>3. PICK g \in Generations : g = holder.generation /\ holder'.generation = g /\ holder'.record = holder.record
    BY <1>0, <2>1 DEF DurableInv, TypeOK
  <2>4. \A h \in Generations \ {g} : tree'[h] = tree[h] /\ treeAfter'[h] = treeAfter[h]
    BY <1>4, <2>3 DEF Rename, TypeOK
  <2>5. tree'[g] = "whole" /\ (Kept(g) => Kept(g)')
    BY <1>4, <2>3 DEF Rename, TypeOK, Kept
  <2>6. \A r \in stateAfter : Named(r) \subseteq Generations
    BY DEF TypeOK, Named, Roles, Records
  <2>7. Named(holder.record) \subseteq Generations
    BY DEF TypeOK, Named, Roles, Records
  <2>8. UNCHANGED <<state, stateAfter>>
    BY <1>4 DEF Rename
  <2>9. \A h \in Generations : Kept(h) => Kept(h)'
    BY <2>4, <2>5 DEF Kept
  <2>10. stateAfter' = {state'} /\ \A r \in stateAfter' : \A h \in Named(r) : Kept(h)'
    BY <1>0, <2>2, <2>6, <2>8, <2>9 DEF DurableInv
  <2>11. \A h \in Generations : tree'[h] = "whole" => Kept(h)' \/ h = g
    BY <1>0, <2>2, <2>4, <2>9 DEF DurableInv
  <2>12. \A h \in Named(holder'.record) : Kept(h)' \/ h = g
    BY <1>0, <2>2, <2>3, <2>7, <2>9 DEF DurableInv
  <2>13. holder'.todo # <<"rename", "generations", "replace", "root">>
    BY <2>1
  <2> QED
    BY <2>2, <2>3, <2>5, <2>10, <2>11, <2>12, <2>13 DEF DurableInv
<1>5. CASE SyncGenerations
  <2>1. Waits("generations") /\ holder.todo # <<>> /\ Done
    BY <1>5 DEF SyncGenerations, Next1, Waits
  <2>2. ~Waits("root") /\ ~Waits("root")' /\ ~Waits("collect")' /\ ~Waits("generations")' /\ ~Waits("rename")'
    BY <2>1, DoneWaits DEF Waits
  <2>3. holder'.todo \in Recorded => holder.todo = <<"generations", "replace", "root">> /\ holder'.record = holder.record
                                     /\ holder'.todo = <<"replace", "root">>
    <3>1. holder'.todo = Tail(holder.todo) /\ holder.todo \in Plans
      BY <2>1, DoneFacts DEF TypeOK
    <3>2. holder.todo = <<"generations", "replace", "root">> \/ holder.todo = <<"generations">>
      BY <2>1, <3>1, PlanFacts DEF Waits
    <3>3. CASE holder.todo = <<"generations", "replace", "root">>
      <4>1. Tail(holder.todo) = <<"replace", "root">>
        BY <2>1, <3>1, <3>3, PlanFacts
      <4>2. holder' = [holder EXCEPT !.todo = Tail(holder.todo)] /\ holder \in HolderType
        BY <2>1, <4>1, DoneFacts DEF TypeOK, HolderType
      <4> QED
        BY <3>1, <3>3, <4>1, <4>2 DEF HolderType
    <3>4. CASE holder.todo = <<"generations">>
      BY <3>1, <3>4 DEF Recorded
    <3> QED
      BY <3>2, <3>3, <3>4
  <2>4. \A g \in Generations : /\ tree[g] = "whole" => Kept(g)'
                               /\ Kept(g) => Kept(g)'
    BY <1>5 DEF SyncGenerations, TypeOK, Kept
  <2>5. \A r \in stateAfter : Named(r) \subseteq Generations
    BY DEF TypeOK, Named, Roles, Records
  <2>6. Named(holder.record) \subseteq Generations
    BY DEF TypeOK, Named, Roles, Records
  <2>7. UNCHANGED <<tree, state, stateAfter>>
    BY <1>5 DEF SyncGenerations
  <2>8. holder'.todo # <<"generations", "replace", "root">> /\ holder'.todo # <<"rename", "generations", "replace", "root">>
    BY <2>3 DEF Recorded
  <2> QED
    BY <1>0, <2>1, <2>2, <2>3, <2>4, <2>5, <2>6, <2>7, <2>8 DEF DurableInv, Recorded, Waits
<1>6. CASE Replace
  <2>1. holder.todo = <<"replace", "root">> /\ holder'.todo = <<"root">>
    BY <1>6, DoneFacts, PlanFacts DEF Replace, Next1, TypeOK
  <2>2. ~Waits("rename") /\ ~Waits("generations") /\ ~Waits("root") /\ Waits("root")' /\ ~Waits("collect")'
        /\ holder.todo \in Recorded /\ holder'.todo \notin Recorded
    BY <2>1 DEF Waits, Recorded
  <2>3. UNCHANGED <<tree, treeAfter>> /\ stateAfter' = stateAfter \cup {holder.record}
    BY <1>6 DEF Replace
  <2> QED
    BY <1>0, <2>1, <2>2, <2>3 DEF DurableInv, Kept, Recorded
<1>7. CASE SyncRoot
  <2>1. holder.todo = <<"root">> /\ holder'.todo = <<>>
    BY <1>7, DoneFacts, PlanFacts DEF SyncRoot, Next1, TypeOK
  <2>2. ~Waits("generations") /\ ~Waits("root")' /\ ~Waits("collect")' /\ holder'.todo \notin Recorded
    BY <2>1 DEF Waits, Recorded
  <2>3. UNCHANGED <<tree, treeAfter, state>> /\ stateAfter' = {state} /\ state \in stateAfter
    BY <1>7 DEF SyncRoot, TypeOK
  <2> QED
    BY <1>0, <2>1, <2>2, <2>3 DEF DurableInv, Kept, Recorded
<1>8. CASE Mark
  <2>1. holder.todo = <<"marker">> /\ holder'.todo = <<>>
    BY <1>8, DoneFacts, PlanFacts DEF Mark, Next1, TypeOK
  <2>2. ~Waits("generations") /\ ~Waits("root") /\ ~Waits("root")' /\ ~Waits("collect")' /\ holder'.todo \notin Recorded
    BY <2>1 DEF Waits, Recorded
  <2> QED
    BY <1>0, <1>8, <2>1, <2>2 DEF Mark, disk, DurableInv, Kept, Recorded
<1>9. ASSUME NEW g \in Generations, RemoveSome(g) PROVE DurableInv'
  <2>1. /\ holder.todo = <<"collect", "generations">> /\ holder'.todo = holder.todo
        /\ holder'.left \subseteq holder.left /\ holder'.generation \in {None, g}
        /\ g \in holder.left /\ UNCHANGED <<state, stateAfter>>
    BY <1>9, PlanFacts DEF RemoveSome, Next1, TypeOK
  <2>2. Waits("collect") /\ ~Waits("generations") /\ ~Waits("root") /\ ~Waits("root")' /\ ~Waits("generations")'
        /\ holder'.todo \notin Recorded
    BY <2>1 DEF Waits, Recorded
  <2>3. \A h \in Generations \ {g} : tree'[h] = tree[h] /\ treeAfter'[h] = treeAfter[h]
    BY <1>9 DEF RemoveSome, TypeOK
  <2>4. tree'[g] = "whole" => tree[g] = "whole" /\ treeAfter'[g] = treeAfter[g]
    BY <1>9 DEF RemoveSome, TypeOK
  <2>5. g \notin Named(state) /\ None \notin Named(state) /\ Named(state) \subseteq Generations /\ stateAfter = {state}
    BY <1>0, <2>1, <2>2 DEF DurableInv, TypeOK, Named, Roles, Records
  <2> QED
    BY <1>0, <2>1, <2>2, <2>3, <2>4, <2>5 DEF DurableInv, Kept, Recorded
<1>10. CASE RemoveRest
  <2> DEFINE g == holder.generation
  <2>1. /\ holder.todo = <<"collect", "generations">> /\ holder'.todo = holder.todo
        /\ holder'.left \subseteq holder.left /\ holder'.generation = None
        /\ UNCHANGED <<state, stateAfter>>
    BY <1>10, PlanFacts DEF RemoveRest, Next1, TypeOK
  <2>2. Waits("collect") /\ ~Waits("generations") /\ ~Waits("root") /\ ~Waits("root")' /\ ~Waits("generations")'
        /\ holder'.todo \notin Recorded
    BY <2>1 DEF Waits, Recorded
  <2>3. \A h \in Generations \ {g} : tree'[h] = tree[h] /\ treeAfter'[h] = treeAfter[h]
    BY <1>10 DEF RemoveRest, TypeOK
  <2>4. g \in Generations /\ tree'[g] = "absent"
    BY <1>10 DEF RemoveRest, TypeOK
  <2>5. g \notin Named(state) /\ None \notin Named(state) /\ Named(state) \subseteq Generations /\ stateAfter = {state}
    BY <1>0, <2>1, <2>2 DEF DurableInv, TypeOK, Named, Roles, Records
  <2> HIDE DEF g
  <2> QED
    BY <1>0, <2>1, <2>2, <2>3, <2>4, <2>5 DEF DurableInv, Kept, Recorded
<1>11. CASE Collected
  <2>1. holder.todo = <<"collect", "generations">> /\ holder'.todo = <<"generations">>
    BY <1>11, DoneFacts, PlanFacts DEF Collected, Next1, TypeOK
  <2>2. ~Waits("generations") /\ ~Waits("root") /\ ~Waits("root")' /\ ~Waits("collect")' /\ holder'.todo \notin Recorded
    BY <2>1 DEF Waits, Recorded
  <2> QED
    BY <1>0, <1>11, <2>1, <2>2 DEF Collected, disk, DurableInv, Kept, Recorded
<1>12. CASE Kill
  <2>1. ~Waits("generations") /\ ~Waits("root") /\ holder' = Free
    BY <1>12 DEF Kill, Waits
  <2>2. ~Waits("generations")' /\ ~Waits("root")' /\ ~Waits("collect")' /\ holder'.todo \notin Recorded
    BY <2>1 DEF Waits, Free, Recorded
  <2> QED
    BY <1>0, <1>12, <2>1, <2>2 DEF Kill, disk, DurableInv, Kept, Recorded
<1>13. CASE UNCHANGED <<disk, holder>>
  BY <1>0, <1>13 DEF disk, DurableInv, Kept, Waits
<1>14. CASE PowerLoss
  <2>1. holder' = Free /\ state' \in stateAfter /\ stateAfter' = {state'}
    BY <1>14 DEF PowerLoss
  <2>2. ~Waits("generations")' /\ ~Waits("root")' /\ ~Waits("collect")' /\ holder'.todo \notin Recorded
    BY <2>1 DEF Waits, Free, Recorded
  <2>3. \A g \in Generations : /\ tree'[g] \in treeAfter[g] /\ treeAfter'[g] = {tree'[g]}
                               /\ Kept(g) => Kept(g)'
    BY <1>14 DEF PowerLoss, Kept
  <2>4. Named(state') \subseteq Generations
    BY <2>1 DEF TypeOK, Named, Roles, Records
  <2> QED
    BY <1>0, <2>1, <2>2, <2>3, <2>4 DEF DurableInv, Kept, Recorded
<1>15. CASE RemovalOver \/ UNCHANGED vars
  BY <1>13, <1>15 DEF RemovalOver, vars, disk
<1>16. CASE \E s \in Sessions : \/ Close(s, "closing") \/ Close(s, "orphan") \/ Gone(s) \/ Examine(s)
                                \/ \E g \in Generations : Start(s, g)
  BY <1>13, <1>16 DEF Close, Gone, Examine, Start
<1>17. CASE \E c \in Clients : Admit(c) \/ Probe(c) \/ Share(c) \/ Leave(c) \/ \E s \in Sessions : Ask(c, s)
  BY <1>13, <1>17 DEF Admit, Probe, Share, Leave, Ask
<1> QED
  BY <1>1, <1>2, <1>3, <1>4, <1>5, <1>6, <1>7, <1>8, <1>9, <1>10, <1>11, <1>12, <1>14, <1>15, <1>16, <1>17
  DEF Next, Begins

-----------------------------------------------------------------------------
(* The store starts empty.                                                  *)
LEMMA InitEstablishes == Init => IInv
<1> SUFFICES ASSUME Init PROVE IInv
  OBVIOUS
<1>1. /\ Free \in HolderType /\ Free.todo = <<>> /\ Free.todo \notin Recorded
      /\ Fresh \in Records /\ Named(Fresh) = {}
  BY Bounds DEF Free, HolderType, Records, Fresh, Plans, Recorded, Named, Roles
<1>2. TypeOK
  <2>1. /\ sess \in [Sessions -> [at : {"out", "in", "closing", "orphan"}, generation : Generations \cup {None}]]
        /\ \A s \in Sessions : sess[s].at = "out" <=> sess[s].generation = None
        /\ client \in [Clients -> [at : {"idle", "asking", "admitted", "alone", "busy", "using"},
                                   generation : Generations \cup {None}, owner : Sessions \cup {None}]]
    BY DEF Init, Away, Idle
  <2>2. boot \in 0 .. MaxBoot /\ evidence = None /\ holder \in HolderType
    BY <1>1, Bounds DEF Init
  <2> QED
    BY <1>1, <2>1, <2>2 DEF Init, TypeOK, HolderType
<1>3. LockInv /\ LeasedIsWhole /\ EvidenceInv
  BY <1>1 DEF Init, LockInv, LeasedIsWhole, EvidenceInv, Waits, Away
<1>4. DurableInv
  BY <1>1 DEF Init, DurableInv, Waits, Recorded, Kept
<1> QED
  BY <1>2, <1>3, <1>4 DEF IInv

(* In every reachable state the store is well-typed, its lock is respected, *)
(* evidence is dated and, unless a process died between a rename and its    *)
(* sync, what is named is durable.                                          *)
THEOREM Invariance == Spec => []IInv
<1>1. IInv /\ [Next]_vars => IInv'
  BY TypeStep, LockStep, EvidenceStep, DurableStep DEF IInv
<1> QED
  BY InitEstablishes, <1>1, PTL DEF Spec

(* The store keeps its types.                                               *)
THEOREM TypeCorrect == Spec => []TypeOK
<1>1. IInv => TypeOK
  BY DEF IInv
<1> QED
  BY Invariance, <1>1, PTL

(* What a session or its child runs from is whole, and nothing runs from a  *)
(* package that is being removed.                                           *)
THEOREM RunsFromWhole == Spec => []LeasedIsWhole
<1>1. IInv => LeasedIsWhole
  BY DEF IInv
<1> QED
  BY Invariance, <1>1, PTL

(* A loss of power leaves every release the record names.                   *)
THEOREM RecordSurvives == Spec => []NamedSurvives
<1>1. IInv => NamedSurvives
  BY DEF IInv, DurableInv, NamedSurvives, Kept
<1> QED
  BY Invariance, <1>1, PTL

(* Only evidence of the record in force confirms a release.                 *)
THEOREM ConfirmsOnEvidence == Spec => ConfirmIsCurrent
<1>1. IInv /\ [Next]_vars => [\A g \in Generations : Confirm(g) => evidence.fresh]_vars
  <2> SUFFICES ASSUME IInv, NEW g \in Generations, Confirm(g) PROVE evidence.fresh
    OBVIOUS
  <2>1. evidence # None /\ evidence.boot = boot /\ evidence.revision = state.revision
    BY DEF Confirm, Healthy
  <2>2. evidence.fresh \in BOOLEAN /\ state.revision \in Nat
    BY <2>1, Bounds DEF IInv, TypeOK, Records
  <2> QED
    BY <2>1, <2>2 DEF IInv, EvidenceInv
<1> QED
  BY Invariance, <1>1, PTL DEF Spec, ConfirmIsCurrent
=============================================================================
