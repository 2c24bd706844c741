--------------------------- MODULE SettingsStore ---------------------------
(***************************************************************************)
(* The settings directory on disk, the Python store through which the      *)
(* checkpoint workers of the Shell write it, and the native code that      *)
(* bootstraps it and hands it to a new coordinator epoch.  All writers     *)
(* take write.lock; each of their file system calls is a step, between any *)
(* two of which the call may fail, the process may die or the power may go.*)
(* A renamed or removed entry survives a loss of power for certain only    *)
(* once its directory has been synced.                                     *)
(***************************************************************************)
EXTENDS Naturals, Sequences

CONSTANTS
  Generations,
  Epochs,       \* epochs handed out by recover(); random, hence never twice
  Nothing       \* a file that does not exist, an epoch nobody has

VARIABLES
  disk,         \* the entries of the settings directory, as every process sees them
  survives,     \* for each of them, what may be there after a loss of power
  stored,       \* the generations found in generations/
  durable,      \* those of them that survive a loss of power
  holder,       \* who holds write.lock and the calls it has still to make
  waiting,      \* what the store bound to each epoch waits for the lock to do
  asked,        \* the request each Shell has recorded
  stage,        \* how far that request is: idle, asked, tried or prepared
  used,         \* history: the epochs handed out
  coordinator,  \* the epoch the compositor runs under
  confirmed     \* the generation the running compositor takes for completed

vars == <<disk, survives, stored, durable, holder, waiting, asked, stage, used, coordinator, confirmed>>

ASSUME NothingAssumption == Nothing \notin Generations \cup Epochs \cup [base : Generations, generation : Generations]

Requests == {r \in [base : Generations, generation : Generations] : r.base # r.generation}
Operations == {"prepare", "publish", "abandon"}
Entries == {"completed", "pending", "epoch", "journal"}

DiskType ==
  [completed : Generations \cup {Nothing}, pending : Requests \cup {Nothing},
   epoch : Epochs \cup {Nothing}, journal : Requests \cup {Nothing}]

SurvivesType ==
  [completed : SUBSET (Generations \cup {Nothing}), pending : SUBSET (Requests \cup {Nothing}),
   epoch : SUBSET (Epochs \cup {Nothing}), journal : SUBSET (Requests \cup {Nothing})]

Free == [by |-> Nothing, operation |-> "none", request |-> Nothing, todo |-> <<>>]

Init ==
  /\ disk = [f \in Entries |-> Nothing]
  /\ survives = [f \in Entries |-> {Nothing}]
  /\ stored = {}
  /\ durable = {}
  /\ holder = Free
  /\ waiting = [e \in Epochs |-> "gone"]
  /\ asked = [e \in Epochs |-> Nothing]
  /\ stage = [e \in Epochs |-> "idle"]
  /\ used = {}
  /\ coordinator = Nothing
  /\ confirmed = Nothing

-----------------------------------------------------------------------------
Synced == [f \in Entries |-> {disk[f]}]

Take(by, operation, r, todo) ==
  /\ holder = Free
  /\ holder' = [by |-> by, operation |-> operation, request |-> r, todo |-> todo]

(* current(): a completed pointer is only good with its generation.         *)
Current == IF disk.completed \in stored THEN disk.completed ELSE Nothing

-----------------------------------------------------------------------------
(* SettingsStore, bound to the epoch of its Shell.                          *)

(* The order the host and the coordinator keep: a request is recorded when  *)
(* the last one is over, prepared once, published when that has succeeded   *)
(* and no abandonment was tried.                                            *)
Due(e, operation) ==
  CASE operation = "record"  -> stage[e] \in {"tried", "prepared"} => disk.completed = asked[e].generation
    [] operation = "prepare" -> stage[e] = "asked"
    [] operation = "publish" -> stage[e] = "prepared"
    [] operation = "abandon" -> stage[e] \in {"tried", "prepared"}

(* _locked(), up to the lock: the settings directory is synced.  The worker *)
(* runs one operation at a time.                                            *)
Enter(e, operation) ==
  /\ waiting[e] = "none"
  /\ holder.by # e
  /\ Due(e, operation)
  /\ waiting' = [waiting EXCEPT ![e] = operation]
  /\ stage' = IF operation \in {"prepare", "abandon"} THEN [stage EXCEPT ![e] = "tried"] ELSE stage
  /\ survives' = Synced
  /\ UNCHANGED <<disk, stored, durable, holder, asked, used, coordinator, confirmed>>

\* Fault: the epoch is compared when the store is bound, not under the lock.
Fenced_AnyEpoch(e, operation) ==
  /\ waiting[e] = operation
  /\ waiting' = [waiting EXCEPT ![e] = "none"]

(* _locked(), from the lock on: a store of another epoch than the one on    *)
(* disk is refused.                                                         *)
Fenced(e, operation) ==
  /\ waiting[e] = operation
  /\ disk.epoch = e
  /\ waiting' = [waiting EXCEPT ![e] = "none"]

(* Refused under the lock, or the end of the Shell.  A session whose        *)
(* request could not be recorded ends: the next one attaches anew.          *)
Leave(e) ==
  /\ waiting[e] # "gone"
  /\ \E w \in {"none", "gone"} :
       /\ waiting[e] = "record" => w = "gone"
       /\ waiting' = [waiting EXCEPT ![e] = w]
  /\ UNCHANGED <<disk, survives, stored, durable, holder, asked, stage, used, coordinator, confirmed>>

\* Fault: the request is written down whatever it was made against.
Record_AnyBase(e, r) ==
  /\ Fenced(e, "record")
  /\ Take(e, "record", r, <<"journal", "root">>)
  /\ UNCHANGED <<disk, survives, stored, durable, asked, stage, used, coordinator, confirmed>>

(* record_request(): the host writes the request down before it starts it,  *)
(* and after it has closed the checkpoint worker of the last one.           *)
Record(e, r) ==
  /\ Fenced(e, "record")
  /\ Current = r.base
  /\ Take(e, "record", r, <<"journal", "root">>)
  /\ UNCHANGED <<disk, survives, stored, durable, asked, stage, used, coordinator, confirmed>>

(* prepare(): a generation that is there already is only read.              *)
Preparation(g) ==
  IF g \in stored THEN <<"pending", "root">> ELSE <<"generation", "generations", "pending", "root">>

Prepare(e) ==
  LET r == asked[e] IN
  /\ Fenced(e, "prepare")
  /\ Current = r.base
  /\ disk.pending \in {Nothing, r}
  /\ Take(e, "prepare", r, Preparation(r.generation))
  /\ UNCHANGED <<disk, survives, stored, durable, asked, stage, used, coordinator, confirmed>>

\* Fault: the pointer is renamed and its directory left to the next sync.
Publication_Unsynced(r) ==
  IF Current = r.generation
  THEN IF disk.pending = r THEN <<"clear", "root">> ELSE <<>>
  ELSE IF disk.pending = r THEN <<"completed", "clear">> ELSE <<"completed">>

(* publish(): a repeated one finds its generation completed.                *)
Publication(r) ==
  IF Current = r.generation
  THEN IF disk.pending = r THEN <<"clear", "root">> ELSE <<>>
  ELSE <<"completed", "root", "clear", "root">>

Publish(e) ==
  LET r == asked[e] IN
  /\ Fenced(e, "publish")
  /\ r.generation \in stored
  /\ \/ Current = r.generation
     \/ Current = r.base /\ disk.pending = r
  /\ Take(e, "publish", r, Publication(r))
  /\ UNCHANGED <<disk, survives, stored, durable, asked, stage, used, coordinator, confirmed>>

Abandon(e) ==
  LET r == asked[e] IN
  /\ Fenced(e, "abandon")
  /\ Current = r.base
  /\ disk.pending \in {Nothing, r}
  /\ Take(e, "abandon", r, IF disk.pending = r THEN <<"clear", "root">> ELSE <<>>)
  /\ UNCHANGED <<disk, survives, stored, durable, asked, stage, used, coordinator, confirmed>>

-----------------------------------------------------------------------------
(* CSettingsGenerations.                                                    *)

(* bootstrap(), as the compositor starts: an existing pointer is only read. *)
Bootstrap(g) ==
  /\ confirmed = Nothing
  /\ \/ /\ Current = g
        /\ Take(Nothing, "bootstrap", Nothing, <<>>)
     \/ /\ disk.completed = Nothing
        /\ Take(Nothing, "bootstrap", [base |-> Nothing, generation |-> g],
                IF g \in stored THEN <<"generations", "completed", "root">>
                               ELSE <<"generation", "generations", "completed", "root">>)
  /\ UNCHANGED <<disk, survives, stored, durable, waiting, asked, stage, used, coordinator, confirmed>>

(* recover(): the lock is held from before the pointer is read until the    *)
(* new epoch and the absence of a pending request are durable.              *)
Recover(e) ==
  /\ confirmed # Nothing
  /\ e \notin used
  /\ Current # Nothing
  /\ Take(e, "recover", Nothing, <<"epoch", "root", "clear", "root">>)
  /\ used' = used \cup {e}
  /\ coordinator' = Nothing
  /\ UNCHANGED <<disk, survives, stored, durable, waiting, asked, stage, confirmed>>

-----------------------------------------------------------------------------
(* The holder's next call.                                                  *)
Written(step) ==
  CASE step = "completed" -> [disk EXCEPT !.completed = holder.request.generation]
    [] step = "pending"   -> [disk EXCEPT !.pending = holder.request]
    [] step = "journal"   -> [disk EXCEPT !.journal = holder.request]
    [] step = "clear"     -> [disk EXCEPT !.pending = Nothing]
    [] step = "epoch"     -> [disk EXCEPT !.epoch = holder.by]
    [] OTHER              -> disk

Call ==
  /\ holder.todo # <<>>
  /\ LET step == Head(holder.todo) IN
       /\ disk' = Written(step)
       /\ survives' = IF step = "root" THEN Synced ELSE [f \in Entries |-> survives[f] \cup {disk'[f]}]
       /\ stored' = IF step = "generation" THEN stored \cup {holder.request.generation} ELSE stored
       /\ durable' = IF step = "generations" THEN stored ELSE durable
       /\ confirmed' = IF step = "completed" /\ coordinator = holder.by /\ coordinator # Nothing
                       THEN holder.request.generation
                       ELSE confirmed
  /\ holder' = [holder EXCEPT !.todo = Tail(@)]
  /\ UNCHANGED <<waiting, asked, stage, used, coordinator>>

(* The call returns: a recorded request may be started; the compositor runs *)
(* on what it read, under the epoch it recovered, and tells it the Shell.   *)
Return ==
  /\ holder # Free
  /\ holder.todo = <<>>
  /\ holder' = Free
  /\ asked' = IF holder.operation = "record" THEN [asked EXCEPT ![holder.by] = holder.request] ELSE asked
  /\ stage' = CASE holder.operation = "record"  -> [stage EXCEPT ![holder.by] = "asked"]
                [] holder.operation = "prepare" -> [stage EXCEPT ![holder.by] = "prepared"]
                [] holder.operation = "abandon" -> [stage EXCEPT ![holder.by] = "idle"]
                [] OTHER                        -> stage
  /\ IF holder.operation = "recover"
     THEN coordinator' = holder.by /\ waiting' = [waiting EXCEPT ![holder.by] = "none"]
     ELSE UNCHANGED <<coordinator, waiting>>
  /\ confirmed' = IF holder.operation \in {"bootstrap", "recover"} THEN disk.completed ELSE confirmed
  /\ UNCHANGED <<disk, survives, stored, durable, used>>

(* A call fails or its process dies: nothing is undone.                     *)
Fail ==
  /\ holder.todo # <<>>
  /\ holder' = Free
  /\ waiting' = IF holder.operation = "record" THEN [waiting EXCEPT ![holder.by] = "gone"] ELSE waiting
  /\ UNCHANGED <<disk, survives, stored, durable, asked, stage, used, coordinator, confirmed>>

(* The compositor ends; the Shell it served may outlive it.                 *)
CompositorExit ==
  /\ confirmed # Nothing
  /\ confirmed' = Nothing
  /\ coordinator' = Nothing
  /\ holder' = IF holder.operation \in {"bootstrap", "recover"} THEN Free ELSE holder
  /\ UNCHANGED <<disk, survives, stored, durable, waiting, asked, stage, used>>

PowerLoss ==
  /\ disk' \in [completed : survives.completed, pending : survives.pending,
               epoch : survives.epoch, journal : survives.journal]
  /\ survives' = [f \in Entries |-> {disk'[f]}]
  /\ stored' \in {durable \cup s : s \in SUBSET (stored \ durable)}
  /\ durable' = stored'
  /\ holder' = Free
  /\ waiting' = [e \in Epochs |-> "gone"]
  /\ asked' = [e \in Epochs |-> Nothing]
  /\ stage' = [e \in Epochs |-> "idle"]
  /\ coordinator' = Nothing
  /\ confirmed' = Nothing
  /\ UNCHANGED used

Next ==
  \/ \E e \in Epochs, operation \in Operations \cup {"record"} : Enter(e, operation)
  \/ \E e \in Epochs : Leave(e) \/ Prepare(e) \/ Publish(e) \/ Abandon(e) \/ Recover(e)
  \/ \E e \in Epochs, r \in Requests : Record(e, r)
  \/ \E g \in Generations : Bootstrap(g)
  \/ Call
  \/ Return
  \/ Fail
  \/ CompositorExit
  \/ PowerLoss

Spec == Init /\ [][Next]_vars

-----------------------------------------------------------------------------
(* What the holder of the lock may have still to do.                        *)
Plan ==
  [none      |-> {<<>>},
   record    |-> {<<"journal", "root">>, <<"root">>, <<>>},
   prepare   |-> {<<"generation", "generations", "pending", "root">>, <<"generations", "pending", "root">>,
                  <<"pending", "root">>, <<"root">>, <<>>},
   publish   |-> {<<"completed", "root", "clear", "root">>, <<"root", "clear", "root">>,
                  <<"clear", "root">>, <<"root">>, <<>>},
   abandon   |-> {<<"clear", "root">>, <<"root">>, <<>>},
   bootstrap |-> {<<"generation", "generations", "completed", "root">>, <<"generations", "completed", "root">>,
                  <<"completed", "root">>, <<"root">>, <<>>},
   recover   |-> {<<"epoch", "root", "clear", "root">>, <<"root", "clear", "root">>,
                  <<"clear", "root">>, <<"root">>, <<>>}]

TypeOK ==
  /\ disk \in DiskType
  /\ survives \in SurvivesType
  /\ \A f \in Entries : disk[f] \in survives[f]
  /\ durable \subseteq stored /\ stored \subseteq Generations
  /\ holder \in [by : Epochs \cup {Nothing}, operation : DOMAIN Plan,
                 request : [base : Generations \cup {Nothing}, generation : Generations] \cup {Nothing},
                 todo : UNION {Plan[o] : o \in DOMAIN Plan}]
  /\ holder.todo \in Plan[holder.operation]
  /\ waiting \in [Epochs -> Operations \cup {"record", "none", "gone"}]
  /\ asked \in [Epochs -> Requests \cup {Nothing}]
  /\ stage \in [Epochs -> {"idle", "asked", "tried", "prepared"}]
  /\ used \subseteq Epochs
  /\ coordinator \in used \cup {Nothing}
  /\ confirmed \in Generations \cup {Nothing}

(* While the compositor runs under an epoch, the pointer is the generation  *)
(* it took for completed or one published in that very epoch, whatever the  *)
(* stores of earlier epochs still had to write; and the epoch that fences   *)
(* them off survives a loss of power.                                       *)
HandedOver ==
  coordinator # Nothing => disk.completed = confirmed /\ survives.epoch = {coordinator}

(* A publication that returns is durable, also a repeated one that finds    *)
(* the pointer moved by an attempt that failed.                             *)
ReturnedIsDurable ==
  holder.operation = "publish" /\ holder.todo = <<>> =>
    survives.completed = {holder.request.generation}

(* The Shell tells its user what became of the last recorded request by     *)
(* comparing it with the pointer: completed, or rolled back.  There is no   *)
(* third answer, whatever was lost.                                         *)
JournalExplains ==
  disk.journal # Nothing => disk.completed \in {disk.journal.base, disk.journal.generation}

(* "Persist creation before a pointer can reference any generation"         *)
(* (_locked): every pointer that may survive a loss of power has its        *)
(* generation.  prepare() does not sync a directory an earlier attempt      *)
(* renamed but could not sync.                                              *)
PointerSurvives == survives.completed \subseteq durable \cup {Nothing}
=============================================================================
