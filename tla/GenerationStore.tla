-------------------------- MODULE GenerationStore --------------------------
(***************************************************************************)
(* The store of installed releases: generations on disk, the record of     *)
(* which of them are candidate, selected, previous and confirmed, and the  *)
(* leases that keep a running desktop's release from being collected.      *)
(* Root's operations take the store lock alone, sessions and the clients   *)
(* of a session share it while they are admitted.  Every file system call  *)
(* of an operation is a step; between any two the process may die or the   *)
(* power may go, and what was not synced is then there or not.             *)
(***************************************************************************)
EXTENDS Naturals, Sequences

CONSTANTS
  Generations,
  Sessions,      \* processes that run a release under a lease
  Clients,       \* public control clients of those
  None,
  MaxRevision,   \* bound on the writes of the record
  MaxBoot        \* bound on the losses of power

ASSUME Bounds == MaxRevision \in Nat /\ MaxBoot \in Nat
ASSUME Names == None \notin Generations \cup Sessions

VARIABLES
  tree,        \* how much of each generation's directory is there
  treeAfter,   \* what may be there after a loss of power
  state,       \* state.json as every process reads it
  stateAfter,  \* what may be read after a loss of power
  holder,      \* who holds the store lock alone, and the calls still to make
  removing,    \* removing.json names a package transaction that is alive
  sess,        \* each session and the release it runs
  client,      \* each client, its session's record and its locks
  evidence,    \* a health report; history: is it of the record as it stands
  boot,        \* the boot id
  interrupted  \* history: a process died between a rename and its sync

vars == <<tree, treeAfter, state, stateAfter, holder, removing,
          sess, client, evidence, boot, interrupted>>

disk == <<tree, treeAfter, state, stateAfter>>
people == <<sess, client, evidence, boot>>

Roles == {"candidate", "selected", "previous", "confirmed"}
Records == [revision : 0 .. MaxRevision, candidate : Generations \cup {None},
            selected : Generations \cup {None}, previous : Generations \cup {None},
            confirmed : Generations \cup {None}, revoked : SUBSET Generations]

Named(record) == {record[r] : r \in Roles} \ {None}

Fresh == [revision |-> 0, candidate |-> None, selected |-> None, previous |-> None,
          confirmed |-> None, revoked |-> {}]
Free == [todo |-> <<>>, generation |-> None, record |-> Fresh, left |-> {}]
Away == [at |-> "out", generation |-> None]
Idle == [at |-> "idle", generation |-> None, owner |-> None]

Init ==
  /\ tree = [g \in Generations |-> "absent"]
  /\ treeAfter = [g \in Generations |-> {"absent"}]
  /\ state = Fresh
  /\ stateAfter = {Fresh}
  /\ holder = Free
  /\ removing = FALSE
  /\ sess = [s \in Sessions |-> Away]
  /\ client = [c \in Clients |-> Idle]
  /\ evidence = None
  /\ boot = 0
  /\ interrupted = FALSE

-----------------------------------------------------------------------------
(* Locks.  flock is held by open files: a child keeps its session's lease.  *)
Admitting == {c \in Clients : client[c].at \in {"admitted", "alone", "busy"}}
Leased(g) == \/ \E s \in Sessions : sess[s].generation = g /\ sess[s].at \in {"in", "orphan"}
             \/ \E c \in Clients : client[c].generation = g /\ client[c].at = "using"
Probed(g) == \E c \in Clients : client[c].generation = g /\ client[c].at = "alone"
OwnerAlive(s) == s # None /\ sess[s].at \in {"in", "closing"}

Exclusive == holder = Free /\ Admitting = {}

Take(todo, generation, record, left) ==
  holder' = [todo |-> todo, generation |-> generation, record |-> record, left |-> left]

(* _write(): every write of the record gives it a new revision.             *)
Revised(record) == [record EXCEPT !.revision = @ + 1]

Write(todo, generation, record) ==
  /\ state.revision < MaxRevision
  /\ Take(todo, generation, Revised(record), {})

Recording == <<"replace", "root">>

-----------------------------------------------------------------------------
(* Root's operations.                                                       *)

\* Fault: the record is written before the new entry is durable.
Stage_Unsynced(g) ==
  /\ Exclusive
  /\ tree[g] # "partial"
  /\ Write(IF tree[g] = "absent" THEN <<"rename", "replace", "root">> ELSE Recording, g, [state EXCEPT !.candidate = g])
  /\ UNCHANGED <<disk, removing, people, interrupted>>

(* stage(): a generation that is there already is only verified.            *)
Stage(g) ==
  /\ Exclusive
  /\ tree[g] # "partial"
  /\ Write(IF tree[g] = "absent" THEN <<"rename", "generations", "replace", "root">> ELSE Recording,
           g, [state EXCEPT !.candidate = g])
  /\ UNCHANGED <<disk, removing, people, interrupted>>

\* Fault: the marker of a removal is not looked at.
Eligible_InRemoval(g) == g \notin state.revoked /\ tree[g] = "whole"

(* The three that follow, and revoke(), name the revision their caller read *)
(* and are refused under the lock when it is another by then (_cas): what   *)
(* was decided on one record is never done to a later one.                  *)

(* _eligible(), of the release and of the package.                          *)
Eligible(g) == g \notin state.revoked /\ ~removing /\ tree[g] = "whole"

Select(g) ==
  /\ Exclusive
  /\ Eligible(g)
  /\ Write(Recording, None, [state EXCEPT !.candidate = None, !.selected = g,
                                  !.previous = IF state.selected = g THEN @ ELSE state.selected])
  /\ UNCHANGED <<disk, removing, people, interrupted>>

Rollback ==
  /\ Exclusive
  /\ state.previous # None
  /\ Eligible(state.previous)
  /\ Write(Recording, None, [state EXCEPT !.selected = state.previous, !.previous = state.selected])
  /\ UNCHANGED <<disk, removing, people, interrupted>>

\* Fault: evidence of any boot will do.
Healthy_AnyBoot(g) ==
  evidence # None /\ evidence.generation = g /\ evidence.revision = state.revision

(* health(): the evidence is of this generation, this selection, this boot. *)
Healthy(g) ==
  /\ evidence # None
  /\ evidence.generation = g
  /\ evidence.revision = state.revision
  /\ evidence.boot = boot

Confirm(g) ==
  /\ Exclusive
  /\ state.selected = g
  /\ g \notin state.revoked
  /\ tree[g] = "whole"
  /\ Healthy(g)
  /\ Write(Recording, None, [state EXCEPT !.confirmed = g])
  /\ UNCHANGED <<disk, removing, people, interrupted>>

Revoke(g) ==
  /\ Exclusive
  /\ Write(Recording, None, [state EXCEPT !.revoked = @ \cup {g}])
  /\ UNCHANGED <<disk, removing, people, interrupted>>

Protected(record) == Named(record)

(* gc(): every unnamed generation, one after the other.                     *)
Collect ==
  /\ Exclusive
  /\ Take(<<"collect", "generations">>, None, Fresh,
          {g \in Generations : tree[g] # "absent"} \ Protected(state))
  /\ UNCHANGED <<disk, removing, people, interrupted>>

(* prepare_removal(): refused while any lease is held.                      *)
PrepareRemoval ==
  /\ Exclusive
  /\ \A g \in Generations : ~Leased(g)
  /\ Take(<<"marker">>, None, Fresh, {})
  /\ UNCHANGED <<disk, removing, people, interrupted>>

(* The package transaction ends, and with it what its marker says.          *)
RemovalOver ==
  /\ removing
  /\ removing' = FALSE
  /\ UNCHANGED <<disk, holder, people, interrupted>>

-----------------------------------------------------------------------------
(* The holder's next call; after the last one the lock is released.         *)
Done == holder' = IF Len(holder.todo) = 1 THEN Free ELSE [holder EXCEPT !.todo = Tail(@)]
Outdated == IF evidence = None THEN None ELSE [evidence EXCEPT !.fresh = FALSE]
Next1(call) == holder.todo # <<>> /\ Head(holder.todo) = call

(* The verified copy gets its name.                                         *)
Rename ==
  LET g == holder.generation IN
  /\ Next1("rename")
  /\ tree' = [tree EXCEPT ![g] = "whole"]
  /\ treeAfter' = [treeAfter EXCEPT ![g] = @ \cup {"whole"}]
  /\ Done
  /\ UNCHANGED <<state, stateAfter, removing, people, interrupted>>

(* fsync of generations/: the entries, and not what is below them.          *)
SyncGenerations ==
  /\ Next1("generations")
  /\ treeAfter' = [g \in Generations |-> IF tree[g] = "partial" THEN treeAfter[g] ELSE {tree[g]}]
  /\ Done
  /\ UNCHANGED <<tree, state, stateAfter, removing, people, interrupted>>

(* atomic_json(): the rename ...                                            *)
Replace ==
  /\ Next1("replace")
  /\ state' = holder.record
  /\ stateAfter' = stateAfter \cup {holder.record}
  /\ evidence' = Outdated
  /\ Done
  /\ UNCHANGED <<tree, treeAfter, removing, sess, client, boot, interrupted>>

(* ... and the sync of its directory.                                       *)
SyncRoot ==
  /\ Next1("root")
  /\ stateAfter' = {state}
  /\ Done
  /\ UNCHANGED <<tree, treeAfter, state, removing, people, interrupted>>

Mark ==
  /\ Next1("marker")
  /\ removing' = TRUE
  /\ Done
  /\ UNCHANGED <<disk, people, interrupted>>

\* Fault: a lease does not keep its generation from being removed.
Spared_Never(g) == FALSE

Spared(g) == Leased(g)

(* A leased generation is passed over; another is taken down file by file.  *)
RemoveSome(g) ==
  /\ Next1("collect")
  /\ g \in holder.left
  /\ holder.generation = None
  /\ IF Spared(g)
     THEN holder' = [holder EXCEPT !.left = @ \ {g}] /\ UNCHANGED <<tree, treeAfter>>
     ELSE /\ holder' = [holder EXCEPT !.generation = g]
          /\ tree' = [tree EXCEPT ![g] = "partial"]
          /\ treeAfter' = [treeAfter EXCEPT ![g] = @ \cup {"partial"}]
  /\ UNCHANGED <<state, stateAfter, removing, people, interrupted>>

RemoveRest ==
  LET g == holder.generation IN
  /\ Next1("collect")
  /\ g # None
  /\ tree' = [tree EXCEPT ![g] = "absent"]
  /\ treeAfter' = [treeAfter EXCEPT ![g] = @ \cup {"absent"}]
  /\ holder' = [holder EXCEPT !.generation = None, !.left = @ \ {g}]
  /\ UNCHANGED <<state, stateAfter, removing, people, interrupted>>

Collected ==
  /\ Next1("collect")
  /\ holder.left = {}
  /\ Done
  /\ UNCHANGED <<disk, removing, people, interrupted>>

(* A call fails or its process is killed: the lock goes, nothing is undone. *)
(* Bound: that none dies once one has died between a rename and its sync.   *)
Kill ==
  /\ holder.todo # <<>> /\ ~interrupted
  /\ holder' = Free
  /\ interrupted' = (interrupted \/ Head(holder.todo) \in {"generations", "root"})
  /\ UNCHANGED <<disk, removing, people>>

-----------------------------------------------------------------------------
(* Sessions.                                                                *)

(* session(): of the selected release or of one that was asked for.         *)
Start(s, g) ==
  /\ sess[s] = Away
  /\ holder = Free
  /\ Eligible(g)
  /\ ~Probed(g)
  /\ sess' = [sess EXCEPT ![s] = [at |-> "in", generation |-> g]]
  /\ UNCHANGED <<disk, holder, removing, client, evidence, boot, interrupted>>

(* The lease is closed before its process ends; a supervisor that is killed *)
(* leaves it to its child.                                                  *)
Close(s, at) ==
  /\ sess[s].at = "in"
  /\ sess' = [sess EXCEPT ![s].at = at]
  /\ UNCHANGED <<disk, holder, removing, client, evidence, boot, interrupted>>

(* The process, or the last child that had its lease, is gone.  No process  *)
(* ever has its token again: the clients that still look for it are refused.*)
Gone(s) ==
  /\ sess[s].at \in {"closing", "orphan"}
  /\ sess' = [sess EXCEPT ![s] = Away]
  /\ client' = [c \in Clients |-> IF client[c].owner = s THEN Idle ELSE client[c]]
  /\ UNCHANGED <<disk, holder, removing, evidence, boot, interrupted>>

(* A report on the desktop that runs, made against the record of the time;  *)
(* one is made at most.                                                     *)
Examine(s) ==
  /\ sess[s].at = "in"
  /\ state.selected = sess[s].generation
  /\ evidence = None
  /\ evidence' = [generation |-> sess[s].generation, revision |-> state.revision, boot |-> boot, fresh |-> TRUE]
  /\ UNCHANGED <<disk, holder, removing, sess, client, boot, interrupted>>

-----------------------------------------------------------------------------
(* interactive_session(): a client goes by the record of its session.       *)

(* ... read while the session ran, used later ...                           *)
Ask(c, s) ==
  /\ client[c] = Idle
  /\ sess[s].at = "in"
  /\ client' = [client EXCEPT ![c] = [at |-> "asking", generation |-> sess[s].generation, owner |-> s]]
  /\ UNCHANGED <<disk, holder, removing, sess, evidence, boot, interrupted>>

(* Only release.json is read: a directory that is half removed may have it. *)
Admissible(g) == g \notin state.revoked /\ ~removing /\ tree[g] # "absent"

(* ... the shared store lock is held from here to the end of the admission. *)
Admit(c) ==
  /\ client[c].at = "asking"
  /\ holder = Free
  /\ OwnerAlive(client[c].owner)
  /\ Admissible(client[c].generation)
  /\ client' = [client EXCEPT ![c].at = "admitted"]
  /\ UNCHANGED <<disk, holder, removing, sess, evidence, boot, interrupted>>

(* The lease is tried alone: that it cannot be had shows a session has it.  *)
Probe(c) ==
  /\ client[c].at = "admitted"
  /\ LET g == client[c].generation IN
       client' = [client EXCEPT ![c].at = IF Leased(g) \/ Probed(g) THEN "busy" ELSE "alone"]
  /\ UNCHANGED <<disk, holder, removing, sess, evidence, boot, interrupted>>

(* The lease is taken, after whoever probes it, and the owner looked at     *)
(* again.                                                                   *)
Share(c) ==
  /\ client[c].at = "busy"
  /\ ~Probed(client[c].generation)
  /\ OwnerAlive(client[c].owner)
  /\ client' = [client EXCEPT ![c].at = "using", ![c].owner = None]
  /\ UNCHANGED <<disk, holder, removing, sess, evidence, boot, interrupted>>

(* Refused, or done: its locks go with its files.                           *)
Leave(c) ==
  /\ client[c] # Idle
  /\ client' = [client EXCEPT ![c] = Idle]
  /\ UNCHANGED <<disk, holder, removing, sess, evidence, boot, interrupted>>

-----------------------------------------------------------------------------
PowerLoss ==
  /\ boot < MaxBoot
  /\ boot' = boot + 1
  /\ tree' \in {t \in [Generations -> {"absent", "partial", "whole"}] :
                  \A g \in Generations : t[g] \in treeAfter[g]}
  /\ treeAfter' = [g \in Generations |-> {tree'[g]}]
  /\ state' \in stateAfter
  /\ stateAfter' = {state'}
  /\ holder' = Free
  /\ removing' = FALSE
  /\ sess' = [s \in Sessions |-> Away]
  /\ client' = [c \in Clients |-> Idle]
  /\ evidence' = IF state' = state THEN evidence ELSE Outdated
  /\ UNCHANGED interrupted

Next ==
  \/ \E g \in Generations : Stage(g) \/ Select(g) \/ Confirm(g) \/ Revoke(g) \/ RemoveSome(g)
  \/ Rollback \/ Collect \/ PrepareRemoval \/ RemovalOver
  \/ Rename \/ SyncGenerations \/ Replace \/ SyncRoot \/ Mark
  \/ RemoveRest \/ Collected \/ Kill
  \/ \E s \in Sessions, g \in Generations : Start(s, g)
  \/ \E s \in Sessions : Close(s, "closing") \/ Close(s, "orphan") \/ Gone(s) \/ Examine(s)
  \/ \E c \in Clients, s \in Sessions : Ask(c, s)
  \/ \E c \in Clients : Admit(c) \/ Probe(c) \/ Share(c) \/ Leave(c)
  \/ PowerLoss

Spec == Init /\ [][Next]_vars

-----------------------------------------------------------------------------
(* What the holder of the lock may have still to do.                        *)
Plans == {<<>>, <<"rename", "generations", "replace", "root">>, <<"generations", "replace", "root">>,
          <<"replace", "root">>, <<"root">>, <<"collect", "generations">>, <<"generations">>, <<"marker">>}

TypeOK ==
  /\ tree \in [Generations -> {"absent", "partial", "whole"}]
  /\ treeAfter \in [Generations -> SUBSET {"absent", "partial", "whole"}]
  /\ \A g \in Generations : tree[g] \in treeAfter[g]
  /\ state \in stateAfter /\ stateAfter \subseteq Records
  /\ holder \in [todo : Plans, generation : Generations \cup {None},
                 record : Records, left : SUBSET Generations]
  /\ removing \in BOOLEAN
  /\ sess \in [Sessions -> [at : {"out", "in", "closing", "orphan"}, generation : Generations \cup {None}]]
  /\ \A s \in Sessions : sess[s].at = "out" <=> sess[s].generation = None
  /\ client \in [Clients -> [at : {"idle", "asking", "admitted", "alone", "busy", "using"},
                             generation : Generations \cup {None}, owner : Sessions \cup {None}]]
  /\ evidence \in [generation : Generations, revision : 0 .. MaxRevision, boot : 0 .. MaxBoot,
                  fresh : BOOLEAN] \cup {None}
  /\ boot \in 0 .. MaxBoot
  /\ interrupted \in BOOLEAN

(* A release is whole for as long as a session, or a child it left behind,  *)
(* runs from it, whatever is staged, collected or killed meanwhile; and     *)
(* nothing runs from any while the package is being removed.                *)
LeasedIsWhole ==
  /\ \A s \in Sessions : sess[s].at \in {"in", "orphan"} => tree[sess[s].generation] = "whole"
  /\ removing => \A g \in Generations : ~Leased(g)

(* Unless a process died between a rename and its sync, every generation    *)
(* the record names is there after a loss of power, whichever record that   *)
(* leaves.                                                                  *)
NamedSurvives ==
  ~interrupted => \A r \in stateAfter : \A g \in Named(r) : treeAfter[g] = {"whole"}

(* A release is confirmed by evidence made under the very record that is    *)
(* confirmed, also when a lost write has made its revision come again.      *)
ConfirmIsCurrent ==
  [][\A g \in Generations : Confirm(g) => evidence.fresh]_vars
=============================================================================
