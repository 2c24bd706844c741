----------------------------- MODULE StoreProofs -----------------------------
(***************************************************************************)
(* The settings directory for any number of generations and epochs: what a *)
(* publication returned is durable, what the compositor took for completed *)
(* stays so, and the journal explains the pointer - whatever call fails,   *)
(* process dies or power goes.                                             *)
(***************************************************************************)
EXTENDS SettingsStore, TLAPS

ShellOperations == Operations \cup {"record"}
Recording(e) == holder.operation = "record" /\ holder.by = e

(* Who holds the lock, and what it knows.                                   *)
HolderInv ==
  /\ holder.operation \in ShellOperations =>
       /\ holder.by = disk.epoch /\ holder.by \in used
       /\ waiting[holder.by] \in {"none", "gone"}
       /\ holder.request \in Requests
       /\ Nothing \notin survives.completed
       /\ coordinator # Nothing => coordinator = holder.by
       /\ holder.operation # "record" => holder.request = asked[holder.by]
  /\ holder.operation = "record" =>
       /\ survives.completed = {holder.request.base}
       /\ holder.todo = <<"root">> => disk.journal = holder.request
       /\ holder.todo = <<>> => survives.journal = {holder.request}
  /\ holder.operation = "publish" =>
       /\ survives.journal = {holder.request}
       /\ holder.todo # <<"completed", "root", "clear", "root">> => disk.completed = holder.request.generation
       /\ holder.todo = <<>> => survives.completed = {holder.request.generation}
  /\ holder.operation = "recover" =>
       /\ coordinator = Nothing /\ confirmed # Nothing /\ disk.completed # Nothing
       /\ holder.by \in used /\ waiting[holder.by] = "gone" /\ asked[holder.by] = Nothing
       /\ holder.todo # <<"epoch", "root", "clear", "root">> => disk.epoch = holder.by
       /\ holder.todo \in {<<"clear", "root">>, <<"root">>, <<>>} => survives.epoch = {holder.by}
       /\ holder.todo = <<>> => survives.completed = {disk.completed}
  /\ holder.operation = "bootstrap" =>
       /\ coordinator = Nothing /\ confirmed = Nothing /\ holder.by = Nothing
       /\ holder.todo \notin {<<>>, <<"root">>} =>
            disk.completed = Nothing /\ holder.request.generation \in Generations
       /\ holder.todo # <<>> => holder.request.generation \in Generations

(* What the Shells that may still write know.                               *)
ShellInv ==
  \A e \in Epochs :
    /\ e \notin used => waiting[e] = "gone" /\ asked[e] = Nothing
    /\ waiting[e] # "gone" => Nothing \notin survives.completed
    /\ waiting[e] \in ShellOperations /\ disk.epoch = e => survives.completed = {disk.completed}
    /\ stage[e] # "idle" \/ waiting[e] \in Operations => asked[e] \in Requests
    /\ disk.epoch = e /\ waiting[e] # "gone" /\ asked[e] # Nothing /\ ~Recording(e) => survives.journal = {asked[e]}

(* Every journal and every pointer the power may leave go together.         *)
JournalInv ==
  \A j \in survives.journal \ {Nothing} : survives.completed \subseteq {j.base, j.generation}

IInv ==
  /\ TypeOK
  /\ HolderInv
  /\ ShellInv
  /\ JournalInv
  /\ HandedOver
  /\ coordinator # Nothing => confirmed # Nothing

-----------------------------------------------------------------------------
(* The calls of each plan.                                                  *)
LEMMA Calls ==
  /\ Head(<<"journal", "root">>) = "journal" /\ Tail(<<"journal", "root">>) = <<"root">>
  /\ Head(<<"root">>) = "root" /\ Tail(<<"root">>) = <<>>
  /\ Head(<<"generation", "generations", "pending", "root">>) = "generation"
  /\ Tail(<<"generation", "generations", "pending", "root">>) = <<"generations", "pending", "root">>
  /\ Head(<<"generations", "pending", "root">>) = "generations"
  /\ Tail(<<"generations", "pending", "root">>) = <<"pending", "root">>
  /\ Head(<<"pending", "root">>) = "pending" /\ Tail(<<"pending", "root">>) = <<"root">>
  /\ Head(<<"completed", "root", "clear", "root">>) = "completed"
  /\ Tail(<<"completed", "root", "clear", "root">>) = <<"root", "clear", "root">>
  /\ Head(<<"root", "clear", "root">>) = "root" /\ Tail(<<"root", "clear", "root">>) = <<"clear", "root">>
  /\ Head(<<"clear", "root">>) = "clear" /\ Tail(<<"clear", "root">>) = <<"root">>
  /\ Head(<<"generation", "generations", "completed", "root">>) = "generation"
  /\ Tail(<<"generation", "generations", "completed", "root">>) = <<"generations", "completed", "root">>
  /\ Head(<<"generations", "completed", "root">>) = "generations"
  /\ Tail(<<"generations", "completed", "root">>) = <<"completed", "root">>
  /\ Head(<<"completed", "root">>) = "completed" /\ Tail(<<"completed", "root">>) = <<"root">>
  /\ Head(<<"epoch", "root", "clear", "root">>) = "epoch"
  /\ Tail(<<"epoch", "root", "clear", "root">>) = <<"root", "clear", "root">>
OBVIOUS

LEMMA PlanOf ==
  /\ Plan["record"] =
       {<<"journal", "root">>, <<"root">>, <<>>}
  /\ Plan["prepare"] =
       {<<"generation", "generations", "pending", "root">>, <<"generations", "pending", "root">>, <<"pending", "root">>, <<"root">>, <<>>}
  /\ Plan["publish"] =
       {<<"completed", "root", "clear", "root">>, <<"root", "clear", "root">>, <<"clear", "root">>, <<"root">>, <<>>}
  /\ Plan["abandon"] =
       {<<"clear", "root">>, <<"root">>, <<>>}
  /\ Plan["bootstrap"] =
       {<<"generation", "generations", "completed", "root">>, <<"generations", "completed", "root">>, <<"completed", "root">>, <<"root">>, <<>>}
  /\ Plan["recover"] =
       {<<"epoch", "root", "clear", "root">>, <<"root", "clear", "root">>, <<"clear", "root">>, <<"root">>, <<>>}
BY DEF Plan

LEMMA NothingFacts ==
  /\ Nothing \notin Generations
  /\ Nothing \notin Epochs
  /\ Nothing \notin Requests
  /\ \A r \in Requests : r.base \in Generations /\ r.generation \in Generations
BY NothingAssumption DEF Requests

(* A sync leaves nothing open.                                              *)
LEMMA SyncedFacts ==
  ASSUME disk \in DiskType
  PROVE  /\ Synced \in SurvivesType
         /\ \A f \in Entries : disk[f] \in Synced[f]
         /\ Synced.completed = {disk.completed} /\ Synced.pending = {disk.pending}
         /\ Synced.epoch = {disk.epoch} /\ Synced.journal = {disk.journal}
BY DEF Synced, SurvivesType, DiskType, Entries

LEMMA InSurvives ==
  ASSUME TypeOK
  PROVE  /\ disk.completed \in survives.completed /\ disk.pending \in survives.pending
         /\ disk.epoch \in survives.epoch /\ disk.journal \in survives.journal
         /\ survives.completed \subseteq Generations \cup {Nothing}
         /\ survives.journal \subseteq Requests \cup {Nothing}
         /\ survives.epoch \subseteq Epochs \cup {Nothing}
         /\ disk.completed \in Generations \cup {Nothing}
         /\ disk.epoch \in Epochs \cup {Nothing}
BY DEF TypeOK, SurvivesType, DiskType, Entries

(* What a call of the holder does.                                          *)
LEMMA CallFacts ==
  ASSUME IInv, Call, NEW step, step = Head(holder.todo)
  PROVE  /\ holder' = [holder EXCEPT !.todo = Tail(holder.todo)]
         /\ disk'.completed = IF step = "completed" THEN holder.request.generation ELSE disk.completed
         /\ disk'.pending = IF step = "pending" THEN holder.request
                            ELSE IF step = "clear" THEN Nothing ELSE disk.pending
         /\ disk'.epoch = IF step = "epoch" THEN holder.by ELSE disk.epoch
         /\ disk'.journal = IF step = "journal" THEN holder.request ELSE disk.journal
         /\ disk' = [completed |-> disk'.completed, pending |-> disk'.pending,
                     epoch |-> disk'.epoch, journal |-> disk'.journal]
         /\ step = "root" => survives' = Synced
         /\ step # "root" => survives' = [f \in Entries |-> survives[f] \cup {disk'[f]}]
<1>1. disk' = Written(step) /\ disk \in DiskType
  BY DEF Call, IInv, TypeOK
<1>2. /\ disk'.completed = IF step = "completed" THEN holder.request.generation ELSE disk.completed
      /\ disk'.pending = IF step = "pending" THEN holder.request
                         ELSE IF step = "clear" THEN Nothing ELSE disk.pending
      /\ disk'.epoch = IF step = "epoch" THEN holder.by ELSE disk.epoch
      /\ disk'.journal = IF step = "journal" THEN holder.request ELSE disk.journal
  BY <1>1 DEF Written, DiskType
<1>3. disk' = [completed |-> disk'.completed, pending |-> disk'.pending,
               epoch |-> disk'.epoch, journal |-> disk'.journal]
  BY <1>1 DEF Written, DiskType
<1> QED
  BY <1>1, <1>2, <1>3 DEF Call

(* Every file the holder writes is of its type.                             *)
LEMMA HolderFacts ==
  ASSUME IInv, holder.todo # <<>>
  PROVE  /\ holder.operation \in ShellOperations \cup {"bootstrap", "recover"}
         /\ Head(holder.todo) = "completed" =>
              holder.operation \in {"publish", "bootstrap"} /\ holder.request.generation \in Generations
         /\ Head(holder.todo) = "generation" =>
              holder.operation \in {"prepare", "bootstrap"} /\ holder.request.generation \in Generations
         /\ Head(holder.todo) = "pending" => holder.operation = "prepare" /\ holder.request \in Requests
         /\ Head(holder.todo) = "journal" => holder.operation = "record" /\ holder.request \in Requests
         /\ Head(holder.todo) = "epoch" => holder.operation = "recover" /\ holder.by \in Epochs
         /\ Tail(holder.todo) \in Plan[holder.operation]
<1>1. holder.operation \in DOMAIN Plan /\ holder.todo \in Plan[holder.operation]
  BY DEF IInv, TypeOK
<1>2. holder.operation \in {"record", "prepare", "publish", "abandon", "bootstrap", "recover"}
  BY <1>1 DEF Plan
<1>3. CASE holder.operation = "record"
  <2>1. holder.todo \in {<<"journal", "root">>, <<"root">>}
    BY <1>1, <1>3, PlanOf
  <2>2. Head(holder.todo) \in {"journal", "root"} /\ Tail(holder.todo) \in Plan["record"]
    BY <2>1, Calls, PlanOf
  <2>3. holder.request \in Requests
    BY <1>3 DEF IInv, HolderInv, ShellOperations
  <2> QED
    BY <1>3, <2>2, <2>3 DEF ShellOperations, Operations
<1>4. CASE holder.operation = "prepare"
  <2>1. holder.todo \in {<<"generation", "generations", "pending", "root">>,
                         <<"generations", "pending", "root">>, <<"pending", "root">>, <<"root">>}
    BY <1>1, <1>4, PlanOf
  <2>2. Head(holder.todo) \in {"generation", "generations", "pending", "root"} /\ Tail(holder.todo) \in Plan["prepare"]
    BY <2>1, Calls, PlanOf
  <2>3. holder.request \in Requests
    BY <1>4 DEF IInv, HolderInv, ShellOperations, Operations
  <2>4. holder.request.generation \in Generations
    BY <2>3, NothingFacts
  <2> QED
    BY <1>4, <2>2, <2>3, <2>4 DEF ShellOperations, Operations
<1>5. CASE holder.operation = "publish"
  <2>1. holder.todo \in {<<"completed", "root", "clear", "root">>, <<"root", "clear", "root">>, <<"clear", "root">>, <<"root">>}
    BY <1>1, <1>5, PlanOf
  <2>2. Head(holder.todo) \in {"completed", "root", "clear"} /\ Tail(holder.todo) \in Plan["publish"]
    BY <2>1, Calls, PlanOf
  <2>3. holder.request.generation \in Generations
    BY <1>5, NothingFacts DEF IInv, HolderInv, ShellOperations, Operations
  <2> QED
    BY <1>5, <2>2, <2>3 DEF ShellOperations, Operations
<1>6. CASE holder.operation = "abandon"
  <2>1. holder.todo \in {<<"clear", "root">>, <<"root">>}
    BY <1>1, <1>6, PlanOf
  <2>2. Head(holder.todo) \in {"clear", "root"} /\ Tail(holder.todo) \in Plan["abandon"]
    BY <2>1, Calls, PlanOf
  <2> QED
    BY <1>6, <2>2 DEF ShellOperations, Operations
<1>7. CASE holder.operation = "bootstrap"
  <2>1. holder.todo \in {<<"generation", "generations", "completed", "root">>,
                         <<"generations", "completed", "root">>, <<"completed", "root">>, <<"root">>}
    BY <1>1, <1>7, PlanOf
  <2>2. Head(holder.todo) \in {"generation", "generations", "completed", "root"} /\ Tail(holder.todo) \in Plan["bootstrap"]
    BY <2>1, Calls, PlanOf
  <2>3. holder.request.generation \in Generations
    BY <1>7 DEF IInv, HolderInv
  <2> QED
    BY <1>7, <2>2, <2>3 DEF ShellOperations, Operations
<1>8. CASE holder.operation = "recover"
  <2>1. holder.todo \in {<<"epoch", "root", "clear", "root">>, <<"root", "clear", "root">>, <<"clear", "root">>, <<"root">>}
    BY <1>1, <1>8, PlanOf
  <2>2. Head(holder.todo) \in {"epoch", "root", "clear"} /\ Tail(holder.todo) \in Plan["recover"]
    BY <2>1, Calls, PlanOf
  <2>3. holder.by \in Epochs
    BY <1>8 DEF IInv, HolderInv, TypeOK
  <2> QED
    BY <1>8, <2>2, <2>3 DEF ShellOperations, Operations
<1> QED
  BY <1>2, <1>3, <1>4, <1>5, <1>6, <1>7, <1>8

-----------------------------------------------------------------------------
(* A store begins an operation under the lock.                              *)
Begin(e, operation, r) ==
  /\ waiting[e] = operation /\ disk.epoch = e /\ holder = Free
  /\ waiting' = [waiting EXCEPT ![e] = "none"]
  /\ holder' = [by |-> e, operation |-> operation, request |-> r, todo |-> holder'.todo]
  /\ holder'.todo \in Plan[operation]
  /\ UNCHANGED <<disk, survives, stored, durable, asked, stage, used, coordinator, confirmed>>

LEMMA Begins ==
  ASSUME IInv, NEW e \in Epochs
  PROVE  /\ waiting[e] \in Operations => asked[e] \in Requests
         /\ \A r \in Requests : Record(e, r) => /\ Begin(e, "record", r)
                                                /\ survives.completed = {r.base}
                                                /\ holder'.todo = <<"journal", "root">>
         /\ Prepare(e) => Begin(e, "prepare", asked[e])
         /\ Publish(e) => /\ Begin(e, "publish", asked[e])
                          /\ survives.journal = {asked[e]}
                          /\ \/ holder'.todo = <<"completed", "root", "clear", "root">>
                             \/ /\ disk.completed = asked[e].generation
                                /\ survives.completed = {asked[e].generation}
         /\ Abandon(e) => Begin(e, "abandon", asked[e])
<1>1. waiting[e] \in Operations => asked[e] \in Requests
  BY DEF IInv, ShellInv
<1>2. waiting[e] \in ShellOperations /\ disk.epoch = e => survives.completed = {disk.completed}
  BY DEF IInv, ShellInv
<1>3. ASSUME NEW r \in Requests, Record(e, r)
      PROVE  /\ Begin(e, "record", r)
             /\ survives.completed = {r.base}
             /\ holder'.todo = <<"journal", "root">>
  <2>1. disk.completed = r.base
    BY <1>3, NothingFacts DEF Record, Current
  <2>2. survives.completed = {disk.completed}
    BY <1>2, <1>3 DEF Record, Fenced, ShellOperations
  <2>3. holder' = [by |-> e, operation |-> "record", request |-> r, todo |-> <<"journal", "root">>]
    BY <1>3 DEF Record, Take
  <2> QED
    BY <1>3, <2>1, <2>2, <2>3, PlanOf DEF Record, Fenced, Take, Begin
<1>4. ASSUME Prepare(e) PROVE Begin(e, "prepare", asked[e])
  <2>1. Preparation(asked[e].generation) \in Plan["prepare"]
    BY PlanOf DEF Preparation
  <2> QED
    BY <1>4, <2>1 DEF Prepare, Fenced, Take, Begin
<1>5. ASSUME Publish(e)
      PROVE  /\ Begin(e, "publish", asked[e])
             /\ survives.journal = {asked[e]}
             /\ \/ holder'.todo = <<"completed", "root", "clear", "root">>
                \/ /\ disk.completed = asked[e].generation
                   /\ survives.completed = {asked[e].generation}
  <2>1. asked[e] \in Requests /\ survives.completed = {disk.completed}
    BY <1>1, <1>2, <1>5 DEF Publish, Fenced, ShellOperations, Operations
  <2>2. survives.journal = {asked[e]}
    BY <1>5, <2>1, NothingFacts DEF Publish, Fenced, Take, IInv, ShellInv, Recording, Free
  <2>3. Publication(asked[e]) \in Plan["publish"]
    BY PlanOf DEF Publication
  <2>4. holder' = [by |-> e, operation |-> "publish", request |-> asked[e], todo |-> Publication(asked[e])]
    BY <1>5 DEF Publish, Take
  <2>5. \/ Publication(asked[e]) = <<"completed", "root", "clear", "root">>
        \/ disk.completed = asked[e].generation
    BY <2>1, NothingFacts DEF Publication, Current
  <2> QED
    BY <1>5, <2>1, <2>2, <2>3, <2>4, <2>5 DEF Publish, Fenced, Take, Begin
<1>6. ASSUME Abandon(e) PROVE Begin(e, "abandon", asked[e])
  <2>1. (IF disk.pending = asked[e] THEN <<"clear", "root">> ELSE <<>>) \in Plan["abandon"]
    BY PlanOf
  <2> QED
    BY <1>6, <2>1 DEF Abandon, Fenced, Take, Begin
<1> QED
  BY <1>1, <1>3, <1>4, <1>5, <1>6

(* What the native code begins.                                             *)
NativeBegin(by, operation, r) ==
  /\ holder = Free
  /\ holder' = [by |-> by, operation |-> operation, request |-> r, todo |-> holder'.todo]
  /\ holder'.todo \in Plan[operation]
  /\ UNCHANGED <<disk, survives, stored, durable, waiting, asked, stage, confirmed>>

LEMMA NativeBegins ==
  ASSUME TypeOK
  PROVE  /\ \A g \in Generations : Bootstrap(g) =>
              \E r \in [base : {Nothing}, generation : Generations] \cup {Nothing} :
                /\ NativeBegin(Nothing, "bootstrap", r)
                /\ \/ holder'.todo = <<>>
                   \/ disk.completed = Nothing /\ r.generation \in Generations
         /\ \A e \in Epochs : Recover(e) =>
              NativeBegin(e, "recover", Nothing) /\ holder'.todo = <<"epoch", "root", "clear", "root">>
<1>1. ASSUME NEW g \in Generations, Bootstrap(g)
      PROVE  \E r \in [base : {Nothing}, generation : Generations] \cup {Nothing} :
                /\ NativeBegin(Nothing, "bootstrap", r)
                /\ \/ holder'.todo = <<>>
                   \/ disk.completed = Nothing /\ r.generation \in Generations
  <2>1. CASE Take(Nothing, "bootstrap", Nothing, <<>>)
    BY <1>1, <2>1, PlanOf DEF Bootstrap, Take, NativeBegin
  <2> DEFINE r == [base |-> Nothing, generation |-> g]
             todo == IF g \in stored THEN <<"generations", "completed", "root">>
                                     ELSE <<"generation", "generations", "completed", "root">>
  <2>2. CASE disk.completed = Nothing /\ Take(Nothing, "bootstrap", r, todo)
    <3>1. r \in [base : {Nothing}, generation : Generations] /\ r.generation = g
      OBVIOUS
    <3>2. todo \in Plan["bootstrap"]
      BY PlanOf
    <3> HIDE DEF r, todo
    <3> QED
      BY <1>1, <2>2, <3>1, <3>2 DEF Bootstrap, Take, NativeBegin
  <2> QED
    BY <1>1, <2>1, <2>2 DEF Bootstrap
<1>2. ASSUME NEW e \in Epochs, Recover(e)
      PROVE  NativeBegin(e, "recover", Nothing) /\ holder'.todo = <<"epoch", "root", "clear", "root">>
  BY <1>2, PlanOf DEF Recover, Take, NativeBegin
<1> QED
  BY <1>1, <1>2

HolderType ==
  [by : Epochs \cup {Nothing}, operation : DOMAIN Plan,
   request : [base : Generations \cup {Nothing}, generation : Generations] \cup {Nothing},
   todo : UNION {Plan[o] : o \in DOMAIN Plan}]

LEMMA DomPlan == DOMAIN Plan = {"none", "record", "prepare", "publish", "abandon", "bootstrap", "recover"}
BY DEF Plan

(* A holder with a plan of its operation is well-typed.                     *)
LEMMA Held ==
  ASSUME NEW by \in Epochs \cup {Nothing}, NEW operation \in DOMAIN Plan, NEW todo \in Plan[operation],
         NEW r \in [base : Generations \cup {Nothing}, generation : Generations] \cup {Nothing}
  PROVE  [by |-> by, operation |-> operation, request |-> r, todo |-> todo] \in HolderType
BY DEF HolderType

LEMMA FreeHeld == Free \in HolderType /\ Free.todo \in Plan[Free.operation]
<1>1. "none" \in DOMAIN Plan /\ <<>> \in Plan["none"]
  BY DEF Plan
<1> QED
  BY <1>1 DEF Free, HolderType

-----------------------------------------------------------------------------
(* Every step keeps the types.                                              *)
LEMMA TypeStep == IInv /\ [Next]_vars => TypeOK'
<1> SUFFICES ASSUME IInv, [Next]_vars PROVE TypeOK'
  OBVIOUS
<1>0. /\ TypeOK /\ holder \in HolderType /\ disk \in DiskType /\ survives \in SurvivesType
      /\ \A f \in Entries : disk[f] \in survives[f]
  BY DEF IInv, TypeOK, HolderType
<1>1. ASSUME NEW e \in Epochs, NEW operation \in Operations \cup {"record"}, Enter(e, operation) PROVE TypeOK'
  <2>1. stage' \in [Epochs -> {"idle", "asked", "tried", "prepared"}]
    BY <1>0, <1>1 DEF Enter, TypeOK
  <2> QED
    BY <1>0, <1>1, <2>1, SyncedFacts DEF Enter, TypeOK
<1>2. ASSUME NEW e \in Epochs, Leave(e) PROVE TypeOK'
  BY <1>0, <1>2 DEF Leave, TypeOK
<1>3. ASSUME NEW e \in Epochs, NEW operation \in ShellOperations, NEW r \in Requests, Begin(e, operation, r)
      PROVE  TypeOK'
  <2>1. operation \in DOMAIN Plan
    BY DomPlan DEF ShellOperations, Operations
  <2>2. r \in [base : Generations \cup {Nothing}, generation : Generations]
    BY DEF Requests
  <2>3. holder' \in HolderType /\ holder'.operation = operation
    BY <1>3, <2>1, <2>2, Held DEF Begin
  <2> QED
    BY <1>0, <1>3, <2>3 DEF Begin, TypeOK, HolderType
<1>4. ASSUME NEW e \in Epochs, Prepare(e) \/ Publish(e) \/ Abandon(e) PROVE TypeOK'
  <2>1. asked[e] \in Requests
    BY <1>4, Begins DEF Prepare, Publish, Abandon, Fenced, Operations
  <2> QED
    BY <1>3, <1>4, <2>1, Begins DEF ShellOperations, Operations
<1>5. ASSUME NEW e \in Epochs, NEW r \in Requests, Record(e, r) PROVE TypeOK'
  BY <1>3, <1>5, Begins DEF ShellOperations
<1>6. ASSUME NEW by \in Epochs \cup {Nothing}, NEW operation \in {"bootstrap", "recover"},
             NEW r \in [base : {Nothing}, generation : Generations] \cup {Nothing}, NativeBegin(by, operation, r),
             used' \subseteq Epochs, coordinator' \in used' \cup {Nothing}
      PROVE  TypeOK'
  <2>1. operation \in DOMAIN Plan
    BY DomPlan
  <2>2. r \in [base : Generations \cup {Nothing}, generation : Generations] \cup {Nothing}
    OBVIOUS
  <2>3. holder' \in HolderType /\ holder'.operation = operation
    BY <1>6, <2>1, <2>2, Held DEF NativeBegin
  <2> QED
    BY <1>0, <1>6, <2>3 DEF NativeBegin, TypeOK, HolderType
<1>7. ASSUME NEW g \in Generations, Bootstrap(g) PROVE TypeOK'
  <2>1. used' \subseteq Epochs /\ coordinator' \in used' \cup {Nothing}
    BY <1>0, <1>7 DEF Bootstrap, TypeOK
  <2>2. PICK r \in [base : {Nothing}, generation : Generations] \cup {Nothing} : NativeBegin(Nothing, "bootstrap", r)
    BY <1>0, <1>7, NativeBegins
  <2> QED
    BY <1>6, <2>1, <2>2
<1>8. ASSUME NEW e \in Epochs, Recover(e) PROVE TypeOK'
  <2>1. used' \subseteq Epochs /\ coordinator' \in used' \cup {Nothing}
    BY <1>0, <1>8 DEF Recover, TypeOK
  <2> QED
    BY <1>0, <1>6, <1>8, <2>1, NativeBegins
<1>9. CASE Call
  <2> DEFINE step == Head(holder.todo)
  <2>1. holder' \in HolderType /\ holder'.operation = holder.operation /\ holder'.todo \in Plan[holder'.operation]
    <3>1. /\ holder' = [holder EXCEPT !.todo = Tail(holder.todo)] /\ holder.todo # <<>>
          /\ Tail(holder.todo) \in Plan[holder.operation]
      BY <1>9, CallFacts, HolderFacts DEF Call
    <3>2. holder.operation \in DOMAIN Plan
      BY <1>0 DEF HolderType
    <3>3. Tail(holder.todo) \in UNION {Plan[o] : o \in DOMAIN Plan}
      BY <3>1, <3>2
    <3> QED
      BY <1>0, <3>1, <3>3 DEF HolderType
  <2>2. disk' \in DiskType
    <3>1. /\ step = "completed" => holder.request.generation \in Generations
          /\ step = "pending" => holder.request \in Requests
          /\ step = "journal" => holder.request \in Requests
          /\ step = "epoch" => holder.by \in Epochs
      BY <1>9, HolderFacts DEF Call
    <3>3. /\ disk.completed \in Generations \cup {Nothing} /\ disk.pending \in Requests \cup {Nothing}
          /\ disk.epoch \in Epochs \cup {Nothing} /\ disk.journal \in Requests \cup {Nothing}
      BY <1>0 DEF DiskType, TypeOK
    <3> HIDE DEF step
    <3>4. /\ disk'.completed = IF step = "completed" THEN holder.request.generation ELSE disk.completed
          /\ disk'.pending = disk.pending \/ disk'.pending = Nothing \/ (step = "pending" /\ disk'.pending = holder.request)
          /\ disk'.epoch = IF step = "epoch" THEN holder.by ELSE disk.epoch
          /\ disk'.journal = IF step = "journal" THEN holder.request ELSE disk.journal
      BY <1>9, CallFacts DEF step
    <3>2. /\ disk'.completed \in Generations \cup {Nothing} /\ disk'.pending \in Requests \cup {Nothing}
          /\ disk'.epoch \in Epochs \cup {Nothing} /\ disk'.journal \in Requests \cup {Nothing}
      BY <3>1, <3>3, <3>4
    <3> QED
      BY <1>9, <3>2, CallFacts DEF DiskType
  <2>3. survives' \in SurvivesType /\ \A f \in Entries : disk'[f] \in survives'[f]
    <3>1. CASE step = "root"
      <4>1. disk'.completed = disk.completed /\ disk'.pending = disk.pending
            /\ disk'.epoch = disk.epoch /\ disk'.journal = disk.journal /\ survives' = Synced
        BY <1>9, <3>1, CallFacts
      <4>2. \A f \in Entries : disk'[f] = disk[f]
        BY <4>1 DEF Entries
      <4> QED
        BY <1>0, <4>1, <4>2, SyncedFacts
    <3>2. CASE step # "root"
      <4>1. survives' = [f \in Entries |-> survives[f] \cup {disk'[f]}]
        BY <1>9, <3>2, CallFacts
      <4> QED
        BY <1>0, <2>2, <4>1 DEF SurvivesType, DiskType, Entries
    <3> QED
      BY <3>1, <3>2
  <2>4. durable' \subseteq stored' /\ stored' \subseteq Generations
    <3>1. step = "generation" => holder.request.generation \in Generations
      BY <1>9, HolderFacts DEF Call
    <3> QED
      BY <1>0, <1>9, <3>1 DEF Call, TypeOK
  <2>5. confirmed' \in Generations \cup {Nothing}
    <3>1. step = "completed" => holder.request.generation \in Generations
      BY <1>9, HolderFacts DEF Call
    <3> QED
      BY <1>0, <1>9, <3>1 DEF Call, TypeOK
  <2> QED
    BY <1>0, <1>9, <2>1, <2>2, <2>3, <2>4, <2>5 DEF Call, TypeOK, HolderType
<1>10. CASE Return
  <2>1. holder.operation \in {"record", "prepare", "abandon"} => holder.by \in Epochs
    BY <1>0, NothingFacts DEF IInv, HolderInv, TypeOK, ShellOperations, Operations
  <2>2. holder.operation = "record" => holder.request \in Requests
    BY DEF IInv, HolderInv, ShellOperations
  <2>3. asked' \in [Epochs -> Requests \cup {Nothing}]
    BY <1>0, <1>10, <2>1, <2>2 DEF Return, TypeOK
  <2>4. stage' \in [Epochs -> {"idle", "asked", "tried", "prepared"}]
    BY <1>0, <1>10, <2>1 DEF Return, TypeOK
  <2>5. coordinator' \in used' \cup {Nothing} /\ waiting' \in [Epochs -> Operations \cup {"record", "none", "gone"}]
    BY <1>0, <1>10 DEF Return, TypeOK, IInv, HolderInv
  <2>6. confirmed' \in Generations \cup {Nothing}
    BY <1>0, <1>10 DEF Return, TypeOK, DiskType
  <2> QED
    BY <1>0, <1>10, <2>3, <2>4, <2>5, <2>6, FreeHeld DEF Return, TypeOK, HolderType
<1>11. CASE Fail
  <2>1. waiting' \in [Epochs -> Operations \cup {"record", "none", "gone"}]
    BY <1>0, <1>11 DEF Fail, TypeOK
  <2> QED
    BY <1>0, <1>11, <2>1, FreeHeld DEF Fail, TypeOK, HolderType
<1>12. CASE CompositorExit
  <2>1. holder' \in HolderType /\ holder'.todo \in Plan[holder'.operation]
    BY <1>0, <1>12, FreeHeld DEF CompositorExit, TypeOK
  <2> QED
    BY <1>0, <1>12, <2>1 DEF CompositorExit, TypeOK, HolderType
<1>13. CASE PowerLoss
  <2>1. disk' \in DiskType
    BY <1>0, <1>13 DEF PowerLoss, DiskType, SurvivesType
  <2>2. survives' \in SurvivesType /\ \A f \in Entries : disk'[f] \in survives'[f]
    BY <1>13, <2>1 DEF PowerLoss, DiskType, SurvivesType, Entries
  <2>3. stored' \subseteq Generations
    BY <1>0, <1>13 DEF PowerLoss, TypeOK
  <2>4. /\ waiting' = [e \in Epochs |-> "gone"] /\ asked' = [e \in Epochs |-> Nothing]
        /\ stage' = [e \in Epochs |-> "idle"] /\ used' = used /\ holder' = Free
        /\ coordinator' = Nothing /\ confirmed' = Nothing /\ durable' = stored'
    BY <1>13 DEF PowerLoss
  <2> QED
    BY <1>0, <2>1, <2>2, <2>3, <2>4, FreeHeld DEF TypeOK, HolderType
<1>14. CASE UNCHANGED vars
  BY <1>0, <1>14 DEF vars, TypeOK
<1> QED
  BY <1>1, <1>2, <1>4, <1>5, <1>7, <1>8, <1>9, <1>10, <1>11, <1>12, <1>13, <1>14 DEF Next

-----------------------------------------------------------------------------
(* What the knowledge of the holder and of the Shells rests on.             *)
Knowledge ==
  /\ HolderInv
  /\ ShellInv
  /\ JournalInv
  /\ HandedOver
  /\ coordinator # Nothing => confirmed # Nothing

LEMMA EnterKeeps ==
  ASSUME IInv, NEW e \in Epochs, NEW operation \in ShellOperations, Enter(e, operation)
  PROVE  Knowledge'
<1>1. /\ survives'.completed = {disk.completed} /\ survives'.pending = {disk.pending}
      /\ survives'.epoch = {disk.epoch} /\ survives'.journal = {disk.journal}
  BY SyncedFacts DEF IInv, TypeOK, Enter
<1>2. waiting' = [waiting EXCEPT ![e] = operation] /\ waiting[e] = "none" /\ holder.by # e
  BY DEF Enter
<1>3. \A x \in Epochs : x # e => waiting'[x] = waiting[x] /\ stage'[x] = stage[x]
  BY DEF Enter, IInv, TypeOK
<1>4. waiting'[e] = operation
  BY <1>2 DEF IInv, TypeOK
<1>5. operation \in Operations => asked[e] \in Requests
  BY DEF Enter, Due, IInv, ShellInv, Operations
<1>6. stage'[e] # "idle" => stage[e] # "idle" \/ operation \in Operations
  BY DEF Enter, Operations
<1>7. UNCHANGED <<disk, stored, durable, holder, asked, used, coordinator, confirmed>>
  BY DEF Enter
<1>8. HolderInv'
  BY <1>1, <1>2, <1>3, <1>7, InSurvives, NothingFacts DEF IInv, HolderInv, TypeOK, ShellOperations, Operations
<1>9. ShellInv'
  BY <1>1, <1>2, <1>3, <1>4, <1>5, <1>6, <1>7, InSurvives DEF IInv, ShellInv, Recording
<1>10. JournalInv'
  BY <1>1, <1>7, InSurvives DEF IInv, JournalInv
<1> QED
  BY <1>1, <1>7, <1>8, <1>9, <1>10, InSurvives DEF IInv, HandedOver, Knowledge

LEMMA LeaveKeeps ==
  ASSUME IInv, NEW e \in Epochs, Leave(e)
  PROVE  Knowledge'
<1>1. /\ waiting[e] # "gone" /\ waiting'[e] \in {"none", "gone"}
      /\ \A x \in Epochs : x # e => waiting'[x] = waiting[x]
      /\ UNCHANGED <<disk, survives, stored, durable, holder, asked, stage, used, coordinator, confirmed>>
  BY DEF Leave, IInv, TypeOK
<1>2. HolderInv'
  BY <1>1, NothingFacts DEF IInv, HolderInv, TypeOK, ShellOperations, Operations
<1>3. ShellInv'
  BY <1>1 DEF IInv, ShellInv, Recording, ShellOperations, Operations
<1> QED
  BY <1>1, <1>2, <1>3 DEF IInv, JournalInv, HandedOver, Knowledge

LEMMA BeginKeeps ==
  ASSUME IInv, NEW e \in Epochs, NEW operation \in ShellOperations, NEW r \in Requests, Begin(e, operation, r),
         operation # "record" => r = asked[e],
         operation = "record" => survives.completed = {r.base} /\ holder'.todo = <<"journal", "root">>,
         operation = "publish" =>
           /\ survives.journal = {r}
           /\ \/ holder'.todo = <<"completed", "root", "clear", "root">>
              \/ disk.completed = r.generation /\ survives.completed = {r.generation}
  PROVE  Knowledge'
<1>1. /\ waiting[e] = operation /\ disk.epoch = e /\ waiting'[e] = "none"
      /\ \A x \in Epochs : x # e => waiting'[x] = waiting[x]
      /\ UNCHANGED <<disk, survives, stored, durable, asked, stage, used, coordinator, confirmed>>
      /\ holder'.by = e /\ holder'.operation = operation /\ holder'.request = r /\ holder.operation = "none"
  BY DEF Begin, IInv, TypeOK, Free
<1>2. waiting[e] # "gone"
  BY <1>1 DEF ShellOperations, Operations
<1>3. e \in used /\ Nothing \notin survives.completed
  BY <1>2 DEF IInv, ShellInv
<1>4. coordinator # Nothing => coordinator = e
  BY <1>1, InSurvives DEF IInv, HandedOver
<1>5. HolderInv'
  BY <1>1, <1>3, <1>4 DEF HolderInv, ShellOperations, Operations
<1>6. ShellInv'
  BY <1>1, <1>2 DEF IInv, ShellInv, Recording, ShellOperations, Operations
<1> QED
  BY <1>1, <1>5, <1>6 DEF IInv, JournalInv, HandedOver, Knowledge

LEMMA StoreKeeps ==
  ASSUME IInv, NEW e \in Epochs, Prepare(e) \/ Publish(e) \/ Abandon(e) \/ \E r \in Requests : Record(e, r)
  PROVE  Knowledge'
<1>1. CASE Prepare(e) \/ Publish(e) \/ Abandon(e)
  <2>1. asked[e] \in Requests
    BY <1>1, Begins DEF Prepare, Publish, Abandon, Fenced, Operations
  <2>2. CASE Prepare(e)
    BY <2>1, <2>2, Begins, BeginKeeps DEF ShellOperations, Operations
  <2>3. CASE Publish(e)
    BY <2>1, <2>3, Begins, BeginKeeps DEF ShellOperations, Operations
  <2>4. CASE Abandon(e)
    BY <2>1, <2>4, Begins, BeginKeeps DEF ShellOperations, Operations
  <2> QED
    BY <1>1, <2>2, <2>3, <2>4
<1>2. ASSUME NEW r \in Requests, Record(e, r) PROVE Knowledge'
  BY <1>2, Begins, BeginKeeps DEF ShellOperations
<1> QED
  BY <1>1, <1>2

LEMMA NativeKeeps ==
  ASSUME IInv, (\E g \in Generations : Bootstrap(g)) \/ (\E e \in Epochs : Recover(e))
  PROVE  Knowledge'
<1>0. TypeOK
  BY DEF IInv
<1>1. ASSUME NEW g \in Generations, Bootstrap(g) PROVE Knowledge'
  <2>1. PICK r \in [base : {Nothing}, generation : Generations] \cup {Nothing} :
               /\ NativeBegin(Nothing, "bootstrap", r)
               /\ \/ holder'.todo = <<>>
                  \/ disk.completed = Nothing /\ r.generation \in Generations
    BY <1>0, <1>1, NativeBegins
  <2>2. /\ holder'.by = Nothing /\ holder'.operation = "bootstrap" /\ holder'.request = r
        /\ UNCHANGED <<disk, survives, stored, durable, waiting, asked, stage, confirmed>>
        /\ holder.operation = "none"
    BY <2>1 DEF NativeBegin, Free
  <2>3. used' = used /\ coordinator' = coordinator /\ confirmed = Nothing /\ coordinator = Nothing
    BY <1>1 DEF Bootstrap, IInv
  <2>4. HolderInv'
    BY <2>1, <2>2, <2>3 DEF HolderInv, ShellOperations, Operations
  <2>5. ShellInv'
    BY <2>2, <2>3 DEF IInv, ShellInv, Recording
  <2> QED
    BY <2>2, <2>3, <2>4, <2>5 DEF IInv, JournalInv, HandedOver, Knowledge
<1>2. ASSUME NEW e \in Epochs, Recover(e) PROVE Knowledge'
  <2>1. /\ holder'.by = e /\ holder'.operation = "recover" /\ holder.operation = "none"
        /\ holder'.todo = <<"epoch", "root", "clear", "root">>
        /\ UNCHANGED <<disk, survives, stored, durable, waiting, asked, stage, confirmed>>
    BY <1>0, <1>2, NativeBegins DEF NativeBegin, Free
  <2>2. e \notin used /\ used' = used \cup {e} /\ coordinator' = Nothing /\ confirmed # Nothing
    BY <1>2 DEF Recover
  <2>3. disk.completed # Nothing
    BY <1>2 DEF Recover, Current
  <2>4. waiting[e] = "gone" /\ asked[e] = Nothing
    BY <2>2 DEF IInv, ShellInv
  <2>5. HolderInv'
    BY <2>1, <2>2, <2>3, <2>4 DEF HolderInv, ShellOperations, Operations
  <2>6. ShellInv'
    BY <2>1, <2>2 DEF IInv, ShellInv, Recording
  <2> QED
    BY <2>1, <2>2, <2>5, <2>6 DEF IInv, JournalInv, HandedOver, Knowledge
<1> QED
  BY <1>1, <1>2

LEMMA ReturnKeeps ==
  ASSUME IInv, Return
  PROVE  Knowledge'
<1> DEFINE by == holder.by
<1>1. /\ holder.todo = <<>> /\ holder' = Free /\ holder'.operation = "none" /\ UNCHANGED <<disk, survives, used>>
      /\ TypeOK
  BY DEF Return, Free, IInv
<1>2. HolderInv'
  BY <1>1 DEF HolderInv, ShellOperations, Operations
<1>3. CASE holder.operation = "record"
  <2>1. by \in Epochs /\ by = disk.epoch /\ by \in used /\ holder.request \in Requests /\ survives.journal = {holder.request}
    BY <1>1, <1>3 DEF IInv, HolderInv, ShellOperations, TypeOK
  <2>2. /\ asked'[by] = holder.request /\ UNCHANGED <<waiting, coordinator, confirmed>>
        /\ \A x \in Epochs : x # by => asked'[x] = asked[x] /\ stage'[x] = stage[x]
    BY <1>1, <1>3, <2>1 DEF Return, TypeOK
  <2>3. ShellInv'
    BY <1>1, <1>3, <2>1, <2>2 DEF IInv, ShellInv, Recording
  <2> QED
    BY <1>1, <1>2, <2>2, <2>3 DEF IInv, JournalInv, HandedOver, Knowledge
<1>4. CASE holder.operation \in Operations
  <2>1. by \in Epochs /\ by = disk.epoch /\ asked[by] \in Requests
    BY <1>1, <1>4 DEF IInv, HolderInv, ShellOperations, Operations, TypeOK
  <2>2. /\ UNCHANGED <<asked, waiting, coordinator, confirmed>>
        /\ \A x \in Epochs : x # by => stage'[x] = stage[x]
    BY <1>1, <1>4, <2>1 DEF Return, TypeOK, Operations
  <2>3. ShellInv'
    BY <1>1, <1>4, <2>1, <2>2 DEF IInv, ShellInv, Recording, Operations
  <2> QED
    BY <1>1, <1>2, <2>2, <2>3 DEF IInv, JournalInv, HandedOver, Knowledge
<1>5. CASE holder.operation = "recover"
  <2>1. /\ by \in used /\ by \in Epochs /\ disk.completed # Nothing /\ asked[by] = Nothing
        /\ survives.epoch = {by} /\ survives.completed = {disk.completed}
    BY <1>1, <1>5 DEF IInv, HolderInv, TypeOK
  <2>2. /\ UNCHANGED <<asked, stage>> /\ coordinator' = by /\ confirmed' = disk.completed
        /\ waiting'[by] = "none" /\ \A x \in Epochs : x # by => waiting'[x] = waiting[x]
    BY <1>1, <1>5, <2>1 DEF Return, TypeOK
  <2>3. ShellInv'
    BY <1>1, <1>5, <2>1, <2>2 DEF IInv, ShellInv, Recording, ShellOperations, Operations
  <2> QED
    BY <1>1, <1>2, <2>1, <2>2, <2>3 DEF IInv, JournalInv, HandedOver, Knowledge
<1>6. CASE holder.operation \in {"none", "bootstrap"}
  <2>1. /\ UNCHANGED <<asked, stage, waiting, coordinator>>
        /\ confirmed' = confirmed \/ coordinator = Nothing
    BY <1>6 DEF Return, IInv, HolderInv
  <2>2. ShellInv'
    BY <1>1, <1>6, <2>1 DEF IInv, ShellInv, Recording
  <2> QED
    BY <1>1, <1>2, <2>1, <2>2 DEF IInv, JournalInv, HandedOver, Knowledge
<1> QED
  BY <1>1, <1>3, <1>4, <1>5, <1>6, DomPlan DEF TypeOK, Operations

LEMMA EndKeeps ==
  ASSUME IInv, Fail \/ CompositorExit \/ PowerLoss
  PROVE  Knowledge'
<1>1. CASE Fail
  <2>1. /\ holder'.operation = "none" /\ UNCHANGED <<disk, survives, asked, stage, used, coordinator, confirmed>>
        /\ \A x \in Epochs : \/ waiting'[x] = waiting[x] /\ ~Recording(x)
                             \/ waiting'[x] = "gone"
    BY <1>1 DEF Fail, Free, IInv, TypeOK, Recording
  <2>2. HolderInv'
    BY <2>1 DEF HolderInv, ShellOperations, Operations
  <2>3. ShellInv'
    BY <2>1 DEF IInv, ShellInv, Recording, ShellOperations, Operations
  <2> QED
    BY <2>1, <2>2, <2>3 DEF IInv, JournalInv, HandedOver, Knowledge
<1>2. CASE CompositorExit
  <2>1. /\ UNCHANGED <<disk, survives, asked, stage, used, waiting>> /\ coordinator' = Nothing
        /\ \/ holder' = holder /\ holder.operation \notin {"bootstrap", "recover"}
           \/ holder'.operation = "none" /\ holder.operation \in {"bootstrap", "recover"}
    BY <1>2 DEF CompositorExit, Free
  <2>2. HolderInv'
    BY <2>1 DEF IInv, HolderInv, ShellOperations, Operations
  <2>3. ShellInv'
    BY <2>1 DEF IInv, ShellInv, Recording
  <2> QED
    BY <2>1, <2>2, <2>3 DEF IInv, JournalInv, HandedOver, Knowledge
<1>3. CASE PowerLoss
  <2>1. /\ holder'.operation = "none" /\ coordinator' = Nothing
        /\ waiting' = [e \in Epochs |-> "gone"] /\ asked' = [e \in Epochs |-> Nothing]
        /\ stage' = [e \in Epochs |-> "idle"]
    BY <1>3 DEF PowerLoss, Free
  <2>2. /\ disk'.completed \in survives.completed /\ disk'.journal \in survives.journal
        /\ survives'.completed = {disk'.completed} /\ survives'.journal = {disk'.journal}
    BY <1>3 DEF PowerLoss, Entries
  <2>3. HolderInv'
    BY <2>1 DEF HolderInv, ShellOperations, Operations
  <2>4. ShellInv'
    BY <2>1 DEF ShellInv, ShellOperations, Operations
  <2>5. JournalInv'
    BY <2>2 DEF IInv, JournalInv
  <2> QED
    BY <2>1, <2>3, <2>4, <2>5 DEF HandedOver, Knowledge
<1> QED
  BY <1>1, <1>2, <1>3

-----------------------------------------------------------------------------
(* A sync of the directory, or a call that moves neither the pointer, the   *)
(* journal nor the epoch.                                                   *)
LEMMA QuietKeeps ==
  ASSUME IInv, Call, Head(holder.todo) \notin {"completed", "journal", "epoch"}, HolderInv'
  PROVE  Knowledge'
<1>1. /\ disk'.completed = disk.completed /\ disk'.journal = disk.journal /\ disk'.epoch = disk.epoch
      /\ UNCHANGED <<waiting, asked, stage, used, coordinator, confirmed>>
      /\ holder'.by = holder.by /\ holder'.operation = holder.operation
  BY CallFacts DEF Call, IInv, TypeOK
<1>2. /\ survives'.completed = survives.completed \/ survives'.completed = {disk.completed}
      /\ survives'.epoch = survives.epoch \/ survives'.epoch = {disk.epoch}
      /\ survives'.journal = survives.journal \/ survives'.journal = {disk.journal}
  <2>1. CASE Head(holder.todo) = "root"
    BY <2>1, CallFacts, SyncedFacts DEF IInv, TypeOK
  <2>2. CASE Head(holder.todo) # "root"
    <3>1. survives' = [f \in Entries |-> survives[f] \cup {disk'[f]}]
      BY <2>2, CallFacts
    <3>2. /\ survives'.completed = survives.completed \cup {disk'.completed}
          /\ survives'.epoch = survives.epoch \cup {disk'.epoch}
          /\ survives'.journal = survives.journal \cup {disk'.journal}
      BY <3>1 DEF Entries
    <3> QED
      BY <1>1, <3>2, InSurvives DEF IInv
  <2> QED
    BY <2>1, <2>2
<1>3. ShellInv'
  BY <1>1, <1>2, InSurvives DEF IInv, ShellInv, Recording
<1>4. JournalInv'
  BY <1>1, <1>2, InSurvives DEF IInv, JournalInv
<1> QED
  BY <1>1, <1>2, <1>3, <1>4, InSurvives DEF IInv, HandedOver, Knowledge

LEMMA CallKeeps ==
  ASSUME IInv, Call
  PROVE  Knowledge'
<1> DEFINE step == Head(holder.todo)
<1>0. /\ TypeOK /\ holder.todo # <<>> /\ UNCHANGED <<waiting, asked, stage, used, coordinator>>
      /\ holder'.by = holder.by /\ holder'.operation = holder.operation /\ holder'.request = holder.request
      /\ holder'.todo = Tail(holder.todo)
  BY CallFacts DEF Call, IInv, TypeOK
<1>1. step # "root" => /\ survives'.completed = survives.completed \cup {disk'.completed}
                       /\ survives'.epoch = survives.epoch \cup {disk'.epoch}
                       /\ survives'.journal = survives.journal \cup {disk'.journal}
  BY CallFacts DEF Entries
<1>2. step = "root" => /\ survives'.completed = {disk.completed} /\ survives'.epoch = {disk.epoch}
                       /\ survives'.journal = {disk.journal}
  BY <1>0, CallFacts, SyncedFacts DEF TypeOK
<1>3. /\ disk'.completed = IF step = "completed" THEN holder.request.generation ELSE disk.completed
      /\ disk'.epoch = IF step = "epoch" THEN holder.by ELSE disk.epoch
      /\ disk'.journal = IF step = "journal" THEN holder.request ELSE disk.journal
      /\ step # "completed" => confirmed' = confirmed
  BY CallFacts DEF Call
<1>4. /\ disk.completed \in survives.completed /\ disk.epoch \in survives.epoch /\ disk.journal \in survives.journal
  BY <1>0, InSurvives
<1> HIDE DEF step
<1>5. CASE holder.operation = "record"
  <2>1. /\ holder.by = disk.epoch /\ holder.request \in Requests /\ survives.completed = {holder.request.base}
        /\ Nothing \notin survives.completed
    BY <1>5 DEF IInv, HolderInv, ShellOperations
  <2>2. \/ holder.todo = <<"journal", "root">> /\ step = "journal" /\ holder'.todo = <<"root">>
        \/ holder.todo = <<"root">> /\ step = "root" /\ holder'.todo = <<>>
    <3>3. Plan["record"] = {<<"journal", "root">>, <<"root">>, <<>>}
      BY PlanOf
    <3>1. holder.todo = <<"journal", "root">> \/ holder.todo = <<"root">>
      BY <1>0, <1>5, <3>3 DEF TypeOK
    <3>2. step = Head(holder.todo) /\ holder'.todo = Tail(holder.todo)
      BY <1>0 DEF step
    <3> QED
      BY <3>1, <3>2, Calls
  <2>10. step \in {"journal", "root"}
    BY <2>2
  <2>6. /\ disk'.epoch = disk.epoch /\ disk'.completed = disk.completed /\ confirmed' = confirmed
        /\ survives'.completed = survives.completed
    <3>1. disk'.epoch = disk.epoch /\ disk'.completed = disk.completed /\ confirmed' = confirmed
      BY <1>3, <2>10
    <3>2. disk.completed = holder.request.base
      BY <1>4, <2>1
    <3> QED
      BY <1>1, <1>2, <2>1, <2>10, <3>1, <3>2
  <2>7. /\ holder'.operation = "record" /\ holder'.by = holder.by /\ holder'.request = holder.request
        /\ UNCHANGED <<used, waiting, coordinator, asked>>
    BY <1>0, <1>5
  <2>8. /\ holder'.todo = <<"root">> => disk'.journal = holder.request
        /\ holder'.todo = <<>> => survives'.journal = {holder.request}
    <3>1. CASE step = "journal"
      <4>1. holder'.todo = <<"root">> /\ <<"root">> # <<>>
        BY <2>2, <3>1
      <4> QED
        BY <1>3, <3>1, <4>1
    <3>2. CASE step = "root"
      <4>1. disk.journal = holder.request
        BY <1>5, <2>2, <3>2 DEF IInv, HolderInv
      <4> QED
        BY <1>2, <2>2, <3>2, <4>1
    <3> QED
      BY <2>10, <3>1, <3>2
  <2>9. /\ holder.by \in used /\ waiting[holder.by] \in {"none", "gone"}
        /\ coordinator # Nothing => coordinator = holder.by
    BY <1>5 DEF IInv, HolderInv, ShellOperations
  <2>3. HolderInv'
    BY <2>1, <2>6, <2>7, <2>8, <2>9 DEF HolderInv
  <2>4. CASE step = "journal"
    <3>1. ShellInv'
      BY <1>0, <1>1, <1>3, <1>4, <1>5, <2>1, <2>4 DEF IInv, ShellInv, Recording
    <3>2. JournalInv'
      BY <1>1, <1>3, <1>4, <2>1, <2>4 DEF IInv, JournalInv
    <3>3. HandedOver'
      BY <1>0, <1>1, <1>3, <1>4, <2>4 DEF IInv, HandedOver
    <3> QED
      BY <1>0, <1>3, <2>3, <2>4, <3>1, <3>2, <3>3 DEF IInv, Knowledge
  <2>5. CASE step = "root"
    BY <2>3, <2>5, QuietKeeps DEF step
  <2> QED
    BY <2>2, <2>4, <2>5
<1>6. CASE holder.operation \in {"prepare", "abandon"}
  <2>1. step \notin {"completed", "journal", "epoch"}
    BY <1>0, <1>6, HolderFacts DEF step
  <2>2. HolderInv'
    BY <1>0, <1>1, <1>2, <1>3, <1>4, <1>6, <2>1 DEF IInv, HolderInv, ShellOperations, Operations
  <2> QED
    BY <2>1, <2>2, QuietKeeps DEF step
<1>7. CASE holder.operation = "publish"
  <2>1. /\ holder.by = disk.epoch /\ holder.by \in Epochs /\ holder.request \in Requests
        /\ Nothing \notin survives.completed /\ waiting[holder.by] \in {"none", "gone"}
        /\ survives.journal = {holder.request}
        /\ coordinator # Nothing => coordinator = holder.by
    BY <1>0, <1>7 DEF IInv, HolderInv, TypeOK, ShellOperations, Operations
  <2>2. \/ holder.todo = <<"completed", "root", "clear", "root">> /\ step = "completed"
           /\ holder'.todo = <<"root", "clear", "root">>
        \/ holder.todo = <<"root", "clear", "root">> /\ step = "root" /\ holder'.todo = <<"clear", "root">>
        \/ holder.todo = <<"clear", "root">> /\ step = "clear" /\ holder'.todo = <<"root">>
        \/ holder.todo = <<"root">> /\ step = "root" /\ holder'.todo = <<>>
    <3>1. holder.todo \in {<<"completed", "root", "clear", "root">>, <<"root", "clear", "root">>, <<"clear", "root">>, <<"root">>}
      BY <1>0, <1>7, PlanOf DEF TypeOK
    <3> QED
      BY <1>0, <3>1, Calls DEF step
  <2>3. holder.request.generation # Nothing
    BY <2>1, NothingFacts
  <2>4. HolderInv'
    BY <1>0, <1>1, <1>2, <1>3, <1>4, <1>7, <2>1, <2>2, <2>3 DEF IInv, HolderInv, ShellOperations, Operations
  <2>5. CASE step = "completed"
    <3>1. survives.completed \subseteq {holder.request.base, holder.request.generation}
      BY <2>1, NothingFacts DEF IInv, JournalInv
    <3>2. survives'.journal = {holder.request}
      BY <1>1, <1>3, <1>4, <2>1, <2>5
    <3>3. ShellInv'
      BY <1>0, <1>1, <1>3, <1>7, <2>1, <2>3, <2>5, <3>2 DEF IInv, ShellInv, Recording, ShellOperations, Operations
    <3>4. JournalInv'
      BY <1>1, <1>3, <2>1, <2>5, <3>1, <3>2 DEF JournalInv
    <3>5. coordinator # Nothing => confirmed' = holder.request.generation
      BY <2>1, <2>5 DEF Call, step
    <3>6. HandedOver' /\ (coordinator' # Nothing => confirmed' # Nothing)
      BY <1>0, <1>1, <1>3, <1>4, <2>3, <2>5, <3>5 DEF IInv, HandedOver
    <3> QED
      BY <2>4, <3>3, <3>4, <3>6 DEF Knowledge
  <2>6. CASE step # "completed"
    BY <2>2, <2>4, <2>6, QuietKeeps DEF step
  <2> QED
    BY <2>5, <2>6
<1>8. CASE holder.operation = "bootstrap"
  <2>1. coordinator = Nothing /\ confirmed = Nothing /\ holder.by = Nothing /\ holder.request.generation \in Generations
    BY <1>0, <1>8 DEF IInv, HolderInv
  <2>2. \/ holder.todo = <<"generation", "generations", "completed", "root">> /\ step = "generation"
           /\ holder'.todo = <<"generations", "completed", "root">>
        \/ holder.todo = <<"generations", "completed", "root">> /\ step = "generations"
           /\ holder'.todo = <<"completed", "root">>
        \/ holder.todo = <<"completed", "root">> /\ step = "completed" /\ holder'.todo = <<"root">>
        \/ holder.todo = <<"root">> /\ step = "root" /\ holder'.todo = <<>>
    <3>1. holder.todo \in {<<"generation", "generations", "completed", "root">>, <<"generations", "completed", "root">>,
                         <<"completed", "root">>, <<"root">>}
      BY <1>0, <1>8, PlanOf DEF TypeOK
    <3> QED
      BY <1>0, <3>1, Calls DEF step
  <2>3. confirmed' = Nothing
    BY <2>1 DEF Call
  <2>4. HolderInv'
    BY <1>0, <1>3, <1>8, <2>1, <2>2, <2>3 DEF IInv, HolderInv, ShellOperations, Operations
  <2>5. CASE step = "completed"
    <3>1. disk.completed = Nothing
      BY <1>8, <2>2, <2>5 DEF IInv, HolderInv
    <3>2. survives.journal \subseteq {Nothing}
      BY <1>0, <1>4, <3>1, InSurvives, NothingFacts DEF IInv, JournalInv
    <3>3. \A e \in Epochs : waiting[e] = "gone"
      BY <1>4, <3>1 DEF IInv, ShellInv
    <3>4. ShellInv'
      BY <1>0, <3>3 DEF IInv, ShellInv, ShellOperations, Operations
    <3> QED
      BY <1>0, <1>1, <1>3, <1>4, <2>1, <2>3, <2>4, <2>5, <3>2, <3>4 DEF JournalInv, HandedOver, Knowledge
  <2>6. CASE step # "completed"
    BY <2>2, <2>4, <2>6, QuietKeeps DEF step
  <2> QED
    BY <2>5, <2>6
<1>9. CASE holder.operation = "recover"
  <2>1. /\ coordinator = Nothing /\ confirmed # Nothing /\ disk.completed # Nothing
        /\ holder.by \in used /\ waiting[holder.by] = "gone" /\ asked[holder.by] = Nothing
    BY <1>9 DEF IInv, HolderInv
  <2>2. \/ holder.todo = <<"epoch", "root", "clear", "root">> /\ step = "epoch"
           /\ holder'.todo = <<"root", "clear", "root">>
        \/ holder.todo = <<"root", "clear", "root">> /\ step = "root" /\ holder'.todo = <<"clear", "root">>
        \/ holder.todo = <<"clear", "root">> /\ step = "clear" /\ holder'.todo = <<"root">>
        \/ holder.todo = <<"root">> /\ step = "root" /\ holder'.todo = <<>>
    <3>1. holder.todo \in {<<"epoch", "root", "clear", "root">>, <<"root", "clear", "root">>, <<"clear", "root">>, <<"root">>}
      BY <1>0, <1>9, PlanOf DEF TypeOK
    <3> QED
      BY <1>0, <3>1, Calls DEF step
  <2>3. HolderInv'
    <3>1. /\ disk'.completed = disk.completed /\ confirmed' = confirmed /\ coordinator' = Nothing
          /\ used' = used /\ waiting' = waiting /\ asked' = asked
      BY <1>0, <1>3, <2>1, <2>2
    <3>2. disk'.epoch = holder.by
      BY <1>3, <1>9, <2>2 DEF IInv, HolderInv
    <3>3. holder'.todo \in {<<"clear", "root">>, <<"root">>, <<>>} => survives'.epoch = {holder.by}
      <4>1. CASE holder.todo = <<"root", "clear", "root">>
        BY <1>2, <1>3, <2>2, <3>2, <4>1
      <4>2. CASE holder.todo = <<"clear", "root">>
        BY <1>1, <1>9, <2>2, <3>2, <4>2 DEF IInv, HolderInv
      <4>3. CASE holder.todo = <<"root">>
        BY <1>2, <1>3, <2>2, <3>2, <4>3
      <4> QED
        BY <2>2, <4>1, <4>2, <4>3
    <3>4. holder'.todo = <<>> => survives'.completed = {disk'.completed}
      BY <1>2, <2>2, <3>1
    <3> QED
      BY <1>0, <1>9, <2>1, <3>1, <3>2, <3>3, <3>4 DEF HolderInv, ShellOperations, Operations
  <2>4. CASE step = "epoch"
    <3>1. ShellInv'
      BY <1>0, <1>1, <1>3, <1>4, <2>1, <2>4 DEF IInv, ShellInv, ShellOperations, Operations
    <3>2. JournalInv'
      BY <1>1, <1>3, <1>4, <2>4 DEF IInv, JournalInv
    <3> QED
      BY <1>0, <2>1, <2>3, <3>1, <3>2 DEF HandedOver, Knowledge
  <2>5. CASE step # "epoch"
    BY <2>2, <2>3, <2>5, QuietKeeps DEF step
  <2> QED
    BY <2>4, <2>5
<1> QED
  BY <1>0, <1>5, <1>6, <1>7, <1>8, <1>9, HolderFacts DEF ShellOperations, Operations

-----------------------------------------------------------------------------
(* The directory starts empty.                                              *)
LEMMA InitEstablishes == Init => IInv
<1> SUFFICES ASSUME Init PROVE IInv
  OBVIOUS
<1>1. disk \in DiskType /\ survives \in SurvivesType /\ \A f \in Entries : disk[f] \in survives[f]
  BY DEF Init, DiskType, SurvivesType, Entries
<1>2. survives.completed = {Nothing} /\ survives.journal = {Nothing} /\ holder.operation = "none"
  BY DEF Init, Entries, Free
<1>3. TypeOK
  BY <1>1, FreeHeld DEF Init, TypeOK, HolderType
<1>4. HolderInv /\ ShellInv /\ JournalInv /\ HandedOver
  BY <1>2 DEF Init, HolderInv, ShellInv, JournalInv, HandedOver, ShellOperations, Operations
<1> QED
  BY <1>3, <1>4 DEF Init, IInv

LEMMA KnowledgeStep == IInv /\ [Next]_vars => Knowledge'
<1> SUFFICES ASSUME IInv, [Next]_vars PROVE Knowledge'
  OBVIOUS
<1>1. CASE UNCHANGED vars
  BY <1>1 DEF vars, IInv, Knowledge, HolderInv, ShellInv, Recording, JournalInv, HandedOver
<1>2. CASE Next
  BY <1>2, EnterKeeps, LeaveKeeps, StoreKeeps, NativeKeeps, CallKeeps, ReturnKeeps, EndKeeps
  DEF Next, ShellOperations
<1> QED
  BY <1>1, <1>2

(* In every reachable state the holder of the lock, the Shells that may     *)
(* still write and the journal agree with the directory.                    *)
THEOREM Invariance == Spec => []IInv
<1>1. IInv /\ [Next]_vars => IInv'
  BY TypeStep, KnowledgeStep DEF IInv, Knowledge
<1> QED
  BY InitEstablishes, <1>1, PTL DEF Spec

(* The store keeps its types.                                               *)
THEOREM TypeCorrect == Spec => []TypeOK
<1>1. IInv => TypeOK
  BY DEF IInv
<1> QED
  BY Invariance, <1>1, PTL

(* No store of an earlier epoch moves the pointer under a new coordinator.  *)
THEOREM HandsOver == Spec => []HandedOver
<1>1. IInv => HandedOver
  BY DEF IInv
<1> QED
  BY Invariance, <1>1, PTL

(* A publication that has returned survives a loss of power.                *)
THEOREM PublicationsDurable == Spec => []ReturnedIsDurable
<1>1. IInv => ReturnedIsDurable
  BY DEF IInv, HolderInv, ReturnedIsDurable
<1> QED
  BY Invariance, <1>1, PTL

(* The pointer is the base or the generation of the last recorded request.  *)
THEOREM JournalsExplain == Spec => []JournalExplains
<1>1. IInv => JournalExplains
  <2> SUFFICES ASSUME IInv PROVE JournalExplains
    OBVIOUS
  <2> QED
    BY InSurvives DEF IInv, JournalInv, JournalExplains
<1> QED
  BY Invariance, <1>1, PTL
=============================================================================
