---------------------------- MODULE GreeterProofs ----------------------------
(***************************************************************************)
(* The trial of a login configuration, for any number of failed calls,     *)
(* killed processes and losses of power: a candidate nobody confirmed is   *)
(* guarded, its fallback outlives it, and a confirmed one stays.           *)
(***************************************************************************)
EXTENDS GreeterTrial, TLAPS

(* The call its holder makes next.                                          *)
Coming == Head(holder.todo)

(* start() switches once the fallback is durable and the timer runs.        *)
StartInv ==
  holder.by = "start" =>
    /\ ~confirmed
    /\ Coming \in {"keep", "syncPending", "enable", "check", "switch"} => configAfter = {"original"}
    /\ Coming # "keep" => pending
    /\ Coming \in {"enable", "check", "switch"} => pendingAfter = {TRUE}
    /\ Coming \in {"check", "switch"} => enabled
    /\ ~reused /\ Coming \in {"keep", "syncPending", "enable"} => timer = "inactive"
    /\ ~reused /\ Coming \in {"check", "switch"} => Guarded

(* restore() gives the fallback up once the configuration is durable.       *)
RestoreInv ==
  holder.by \in {"restore", "service"} =>
    /\ Coming \in {"return", "syncConfig", "restart", "drop"} => pending
    /\ Coming # "return" => config = "original"
    /\ Coming \in {"restart", "drop", "syncPending", "disable"} => configAfter = {"original"}

ConfirmInv == holder.by = "confirm" => confirmed /\ config = "candidate"

(* A trial that starts cannot find a candidate that a loss of power brings  *)
(* back.                                                                    *)
ReturnInv == config = "original" /\ "candidate" \in configAfter => pending

IInv ==
  /\ TypeOK
  /\ StartInv
  /\ RestoreInv
  /\ ConfirmInv
  /\ ReturnInv
  /\ FallbackIsKept
  /\ UnconfirmedIsGuarded

-----------------------------------------------------------------------------
(* The calls of the three operations, in their order.                       *)
LEMMA StartFacts ==
  ASSUME NEW todo \in LeftOfStart
  PROVE  /\ todo # <<>> /\ Head(todo) \in {"keep", "syncPending", "enable", "check", "switch", "syncConfig", "restart"}
         /\ Len(todo) = 1 <=> Head(todo) = "restart"
         /\ Head(todo) # "restart" => Tail(todo) \in LeftOfStart
         /\ Head(todo) = "keep" => Head(Tail(todo)) = "syncPending"
         /\ Head(todo) = "syncPending" => Head(Tail(todo)) = "enable"
         /\ Head(todo) = "enable" => Head(Tail(todo)) = "check"
         /\ Head(todo) = "check" => Head(Tail(todo)) = "switch"
         /\ Head(todo) = "switch" => Head(Tail(todo)) = "syncConfig"
         /\ Head(todo) = "syncConfig" => Head(Tail(todo)) = "restart"
<1>1. CASE todo = <<"keep", "syncPending", "enable", "check", "switch", "syncConfig", "restart">>
  <2>1. Head(todo) = "keep" /\ Len(todo) = 7 /\ Tail(todo) = <<"syncPending", "enable", "check", "switch", "syncConfig", "restart">> /\ Head(Tail(todo)) = "syncPending"
    BY <1>1
  <2>2. Tail(todo) \in LeftOfStart
    BY <2>1 DEF LeftOfStart
  <2> QED
    BY <1>1, <2>1, <2>2
<1>2. CASE todo = <<"syncPending", "enable", "check", "switch", "syncConfig", "restart">>
  <2>1. Head(todo) = "syncPending" /\ Len(todo) = 6 /\ Tail(todo) = <<"enable", "check", "switch", "syncConfig", "restart">> /\ Head(Tail(todo)) = "enable"
    BY <1>2
  <2>2. Tail(todo) \in LeftOfStart
    BY <2>1 DEF LeftOfStart
  <2> QED
    BY <1>2, <2>1, <2>2
<1>3. CASE todo = <<"enable", "check", "switch", "syncConfig", "restart">>
  <2>1. Head(todo) = "enable" /\ Len(todo) = 5 /\ Tail(todo) = <<"check", "switch", "syncConfig", "restart">> /\ Head(Tail(todo)) = "check"
    BY <1>3
  <2>2. Tail(todo) \in LeftOfStart
    BY <2>1 DEF LeftOfStart
  <2> QED
    BY <1>3, <2>1, <2>2
<1>4. CASE todo = <<"check", "switch", "syncConfig", "restart">>
  <2>1. Head(todo) = "check" /\ Len(todo) = 4 /\ Tail(todo) = <<"switch", "syncConfig", "restart">> /\ Head(Tail(todo)) = "switch"
    BY <1>4
  <2>2. Tail(todo) \in LeftOfStart
    BY <2>1 DEF LeftOfStart
  <2> QED
    BY <1>4, <2>1, <2>2
<1>5. CASE todo = <<"switch", "syncConfig", "restart">>
  <2>1. Head(todo) = "switch" /\ Len(todo) = 3 /\ Tail(todo) = <<"syncConfig", "restart">> /\ Head(Tail(todo)) = "syncConfig"
    BY <1>5
  <2>2. Tail(todo) \in LeftOfStart
    BY <2>1 DEF LeftOfStart
  <2> QED
    BY <1>5, <2>1, <2>2
<1>6. CASE todo = <<"syncConfig", "restart">>
  <2>1. Head(todo) = "syncConfig" /\ Len(todo) = 2 /\ Tail(todo) = <<"restart">> /\ Head(Tail(todo)) = "restart"
    BY <1>6
  <2>2. Tail(todo) \in LeftOfStart
    BY <2>1 DEF LeftOfStart
  <2> QED
    BY <1>6, <2>1, <2>2
<1>7. CASE todo = <<"restart">>
  <2>1. Head(todo) = "restart" /\ Len(todo) = 1
    BY <1>7
  <2> QED
    BY <1>7, <2>1
<1> QED
  BY <1>1, <1>2, <1>3, <1>4, <1>5, <1>6, <1>7 DEF LeftOfStart

LEMMA RestoreFacts ==
  ASSUME NEW todo \in LeftOfRestore
  PROVE  /\ todo # <<>> /\ Head(todo) \in {"return", "syncConfig", "restart", "drop", "syncPending", "disable"}
         /\ Len(todo) = 1 <=> Head(todo) = "disable"
         /\ Head(todo) # "disable" => Tail(todo) \in LeftOfRestore
         /\ Head(todo) = "return" => Head(Tail(todo)) = "syncConfig"
         /\ Head(todo) = "syncConfig" => Head(Tail(todo)) = "restart"
         /\ Head(todo) = "restart" => Head(Tail(todo)) = "drop"
         /\ Head(todo) = "drop" => Head(Tail(todo)) = "syncPending"
         /\ Head(todo) = "syncPending" => Head(Tail(todo)) = "disable"
<1>1. CASE todo = <<"return", "syncConfig", "restart", "drop", "syncPending", "disable">>
  <2>1. Head(todo) = "return" /\ Len(todo) = 6 /\ Tail(todo) = <<"syncConfig", "restart", "drop", "syncPending", "disable">> /\ Head(Tail(todo)) = "syncConfig"
    BY <1>1
  <2>2. Tail(todo) \in LeftOfRestore
    BY <2>1 DEF LeftOfRestore
  <2> QED
    BY <1>1, <2>1, <2>2
<1>2. CASE todo = <<"syncConfig", "restart", "drop", "syncPending", "disable">>
  <2>1. Head(todo) = "syncConfig" /\ Len(todo) = 5 /\ Tail(todo) = <<"restart", "drop", "syncPending", "disable">> /\ Head(Tail(todo)) = "restart"
    BY <1>2
  <2>2. Tail(todo) \in LeftOfRestore
    BY <2>1 DEF LeftOfRestore
  <2> QED
    BY <1>2, <2>1, <2>2
<1>3. CASE todo = <<"restart", "drop", "syncPending", "disable">>
  <2>1. Head(todo) = "restart" /\ Len(todo) = 4 /\ Tail(todo) = <<"drop", "syncPending", "disable">> /\ Head(Tail(todo)) = "drop"
    BY <1>3
  <2>2. Tail(todo) \in LeftOfRestore
    BY <2>1 DEF LeftOfRestore
  <2> QED
    BY <1>3, <2>1, <2>2
<1>4. CASE todo = <<"drop", "syncPending", "disable">>
  <2>1. Head(todo) = "drop" /\ Len(todo) = 3 /\ Tail(todo) = <<"syncPending", "disable">> /\ Head(Tail(todo)) = "syncPending"
    BY <1>4
  <2>2. Tail(todo) \in LeftOfRestore
    BY <2>1 DEF LeftOfRestore
  <2> QED
    BY <1>4, <2>1, <2>2
<1>5. CASE todo = <<"syncPending", "disable">>
  <2>1. Head(todo) = "syncPending" /\ Len(todo) = 2 /\ Tail(todo) = <<"disable">> /\ Head(Tail(todo)) = "disable"
    BY <1>5
  <2>2. Tail(todo) \in LeftOfRestore
    BY <2>1 DEF LeftOfRestore
  <2> QED
    BY <1>5, <2>1, <2>2
<1>6. CASE todo = <<"disable">>
  <2>1. Head(todo) = "disable" /\ Len(todo) = 1
    BY <1>6
  <2> QED
    BY <1>6, <2>1
<1> QED
  BY <1>1, <1>2, <1>3, <1>4, <1>5, <1>6 DEF LeftOfRestore

LEMMA ConfirmFacts ==
  ASSUME NEW todo \in LeftOfConfirm
  PROVE  /\ todo # <<>> /\ Head(todo) \in {"disable", "drop", "syncPending"}
         /\ Len(todo) = 1 <=> Head(todo) = "syncPending"
         /\ Head(todo) # "syncPending" => Tail(todo) \in LeftOfConfirm
         /\ Head(todo) = "disable" => Head(Tail(todo)) = "drop"
         /\ Head(todo) = "drop" => Head(Tail(todo)) = "syncPending"
<1>1. CASE todo = <<"disable", "drop", "syncPending">>
  <2>1. Head(todo) = "disable" /\ Len(todo) = 3 /\ Tail(todo) = <<"drop", "syncPending">> /\ Head(Tail(todo)) = "drop"
    BY <1>1
  <2>2. Tail(todo) \in LeftOfConfirm
    BY <2>1 DEF LeftOfConfirm
  <2> QED
    BY <1>1, <2>1, <2>2
<1>2. CASE todo = <<"drop", "syncPending">>
  <2>1. Head(todo) = "drop" /\ Len(todo) = 2 /\ Tail(todo) = <<"syncPending">> /\ Head(Tail(todo)) = "syncPending"
    BY <1>2
  <2>2. Tail(todo) \in LeftOfConfirm
    BY <2>1 DEF LeftOfConfirm
  <2> QED
    BY <1>2, <2>1, <2>2
<1>3. CASE todo = <<"syncPending">>
  <2>1. Head(todo) = "syncPending" /\ Len(todo) = 1
    BY <1>3
  <2> QED
    BY <1>3, <2>1
<1> QED
  BY <1>1, <1>2, <1>3 DEF LeftOfConfirm

HolderType == [by : DOMAIN Left, todo : UNION {Left[by] : by \in DOMAIN Left}]

LEMMA LeftFacts ==
  /\ DOMAIN Left = {"nobody", "start", "restore", "service", "confirm"}
  /\ Left["nobody"] = {<<>>} /\ Left["start"] = LeftOfStart /\ Left["restore"] = LeftOfRestore
  /\ Left["service"] = LeftOfRestore /\ Left["confirm"] = LeftOfConfirm
BY DEF Left

LEMMA Held ==
  ASSUME NEW by \in DOMAIN Left, NEW todo \in Left[by]
  PROVE  [by |-> by, todo |-> todo] \in HolderType
BY DEF HolderType

LEMMA FreeFacts ==
  /\ Free \in HolderType /\ Free.by = "nobody" /\ Free.todo \in Left[Free.by]
  /\ \A h \in HolderType : h.todo \in Left[h.by] /\ h.by = "nobody" => h = Free
<1>1. Free.by = "nobody" /\ Free.todo = <<>> /\ Free \in HolderType
  BY LeftFacts, Held DEF Free
<1>2. ASSUME NEW h \in HolderType, h.todo \in Left[h.by], h.by = "nobody" PROVE h = Free
  BY <1>2, LeftFacts DEF Free, HolderType
<1> QED
  BY <1>1, <1>2, LeftFacts

LEMMA WholePlans ==
  /\ Starting \in LeftOfStart /\ Restoring \in LeftOfRestore /\ Confirming \in LeftOfConfirm
  /\ Head(Starting) = "keep" /\ Head(Restoring) = "return"
BY DEF Starting, Restoring, Confirming, LeftOfStart, LeftOfRestore, LeftOfConfirm

-----------------------------------------------------------------------------
(* An operation begins with all its calls to make.                          *)
Begin(by, calls) == holder.by = "nobody" /\ holder' = [by |-> by, todo |-> calls]

LEMMA Begins ==
  ASSUME TypeOK
  PROVE  \A by, calls : Take(by, calls) => Begin(by, calls)
BY FreeFacts DEF Take, Begin

LEMMA TypeStep == IInv /\ [Next]_vars => TypeOK'
<1> SUFFICES ASSUME IInv, [Next]_vars PROVE TypeOK'
  OBVIOUS
<1>0. TypeOK /\ holder \in HolderType /\ holder.todo \in Left[holder.by]
  BY DEF IInv, TypeOK, HolderType
<1>1. ASSUME NEW by \in {"start", "restore", "service", "confirm"}, NEW calls \in Left[by], Take(by, calls)
      PROVE  holder' \in HolderType /\ holder'.todo \in Left[holder'.by] /\ holder'.by = by /\ holder.by = "nobody"
  BY <1>0, <1>1, LeftFacts, Held, Begins DEF Begin
<1>2. CASE Start
  BY <1>0, <1>1, <1>2, WholePlans, LeftFacts DEF Start, files, units, TypeOK, HolderType
<1>3. CASE Restore
  BY <1>0, <1>1, <1>3, WholePlans, LeftFacts DEF Restore, files, units, TypeOK, HolderType
<1>4. CASE Confirm
  BY <1>0, <1>1, <1>4, WholePlans, LeftFacts DEF Confirm, files, units, TypeOK, HolderType
<1>5. CASE Fire
  BY <1>0, <1>5 DEF Fire, files, TypeOK
<1>6. CASE Guard
  <2>1. CASE pending
    BY <1>0, <1>1, <1>6, <2>1, WholePlans, LeftFacts DEF Guard, files, TypeOK, HolderType
  <2>2. CASE ~pending
    BY <1>0, <1>6, <2>2 DEF Guard, files, TypeOK
  <2> QED
    BY <2>1, <2>2
<1>7. CASE Retry
  BY <1>0, <1>7 DEF Retry, files, TypeOK
<1>8. ASSUME NEW call, Effect(call)
      PROVE  /\ config' \in configAfter' /\ configAfter' \subseteq Configs
             /\ pending' \in pendingAfter' /\ pendingAfter' \subseteq BOOLEAN
             /\ enabled' \in linkAfter' /\ linkAfter' \subseteq BOOLEAN /\ timer' \in {"inactive", "waiting", "elapsed"} /\ greeter' \in Configs
  <2>1. config' \in Configs /\ config \in Configs
    BY <1>0, <1>8 DEF Effect, TypeOK, Configs
  <2>2. call = "syncConfig" => config' = config
    BY <1>8 DEF Effect
  <2>3. config' \in configAfter' /\ configAfter' \subseteq Configs
    BY <1>0, <1>8, <2>1, <2>2 DEF Effect, TypeOK
  <2>4. pending' \in BOOLEAN /\ pending \in BOOLEAN
    BY <1>0, <1>8 DEF Effect, TypeOK
  <2>5. call = "syncPending" => pending' = pending
    BY <1>8 DEF Effect
  <2>6. pending' \in pendingAfter' /\ pendingAfter' \subseteq BOOLEAN
    BY <1>0, <1>8, <2>4, <2>5 DEF Effect, TypeOK
  <2>7. enabled' \in linkAfter' /\ linkAfter' \subseteq BOOLEAN /\ timer' \in {"inactive", "waiting", "elapsed"}
    BY <1>0, <1>8 DEF Effect, TypeOK
  <2>8. greeter' \in Configs
    BY <1>0, <1>8, <2>1 DEF Effect, TypeOK
  <2> QED
    BY <2>3, <2>6, <2>7, <2>8
<1>9. CASE Step
  <2>1. holder # Free /\ Effect(Head(holder.todo)) /\ UNCHANGED <<confirmed, reused, unlinked, faults>>
    BY <1>9 DEF Step
  <2>2. holder.by # "nobody"
    BY <1>0, <2>1, FreeFacts
  <2>3. CASE Len(holder.todo) = 1
    BY <1>0, <1>8, <1>9, <2>1, <2>2, <2>3, FreeFacts DEF Step, Served, TypeOK, HolderType
  <2>4. CASE Len(holder.todo) # 1
    <3>1. Tail(holder.todo) \in Left[holder.by]
      <4>1. CASE holder.by = "start"
        BY <1>0, <2>4, <4>1, LeftFacts, StartFacts
      <4>2. CASE holder.by \in {"restore", "service"}
        BY <1>0, <2>4, <4>2, LeftFacts, RestoreFacts
      <4>3. CASE holder.by = "confirm"
        BY <1>0, <2>4, <4>3, LeftFacts, ConfirmFacts
      <4> QED
        BY <1>0, <2>2, <4>1, <4>2, <4>3, LeftFacts DEF HolderType
    <3>2. holder' = [by |-> holder.by, todo |-> Tail(holder.todo)] /\ service' = service
      BY <1>0, <1>9, <2>4 DEF Step, HolderType
    <3>3. holder' \in HolderType /\ holder'.todo \in Left[holder'.by] /\ holder'.by = holder.by
      BY <1>0, <3>1, <3>2, Held DEF HolderType
    <3> QED
      BY <1>0, <1>8, <2>1, <3>2, <3>3 DEF TypeOK, HolderType
  <2> QED
    BY <2>3, <2>4
<1>10. CASE Fail
  <2>1. faults' \in 0 .. MaxFaults
    BY <1>0, <1>10, FaultsAssumption DEF Fail, TypeOK
  <2>2. /\ config' \in configAfter' /\ configAfter' \subseteq Configs
        /\ pending' \in pendingAfter' /\ pendingAfter' \subseteq BOOLEAN
        /\ enabled' \in linkAfter' /\ linkAfter' \subseteq BOOLEAN /\ timer' \in {"inactive", "waiting", "elapsed"} /\ greeter' \in Configs
    BY <1>0, <1>8, <1>10 DEF Fail, files, TypeOK
  <2>3. holder' = Free /\ service' = Served("retry") /\ UNCHANGED <<confirmed, reused, unlinked>>
    BY <1>10 DEF Fail
  <2> QED
    BY <1>0, <2>1, <2>2, <2>3, FreeFacts DEF Served, TypeOK, HolderType
<1>11. CASE PowerLoss
  <2>1. faults' \in 0 .. MaxFaults
    BY <1>0, <1>11, FaultsAssumption DEF PowerLoss, TypeOK
  <2> QED
    BY <1>0, <1>11, <2>1, FreeFacts DEF PowerLoss, TypeOK, HolderType
<1>12. CASE UNCHANGED vars
  BY <1>0, <1>12 DEF vars, TypeOK
<1> QED
  BY <1>2, <1>3, <1>4, <1>5, <1>6, <1>7, <1>9, <1>10, <1>11, <1>12 DEF Next

-----------------------------------------------------------------------------
(* What a call may have done when it returns, fails or is cut short.        *)
Half(call) ==
  /\ call \in {"enable", "disable"}
  /\ enabled' = (call = "enable") /\ linkAfter' = linkAfter \cup {enabled'}
  /\ UNCHANGED <<files, timer, greeter>>

Done(call) ==
  /\ Effect(call) \/ Half(call) \/ UNCHANGED <<files, enabled, linkAfter, timer, greeter>>
  /\ UNCHANGED <<confirmed, reused, unlinked>>

Safe ==
  /\ ReturnInv
  /\ FallbackIsKept

LEMMA DoneFacts ==
  ASSUME TypeOK, NEW call, Done(call)
  PROVE  /\ call # "switch" => config' = config \/ config' = "original"
         /\ call \notin {"switch", "return"} => config' = config
         /\ config' = config => configAfter' \subseteq configAfter
         /\ configAfter' \subseteq configAfter \cup {config'}
         /\ call \notin {"keep", "drop"} => pending' = pending
         /\ call # "drop" => pending' = pending \/ pending'
         /\ pending' = pending /\ pendingAfter = {TRUE} => pendingAfter' = {TRUE}
         /\ call \notin {"enable", "disable"} => enabled' = enabled /\ timer' = timer
         /\ call = "enable" /\ enabled => enabled'
         /\ call = "enable" => timer' = timer \/ timer' = "waiting"
<1>1. CASE Effect(call)
  <2>1. config \in configAfter /\ pending \in pendingAfter
    BY DEF TypeOK
  <2>2. /\ call # "switch" => config' = config \/ config' = "original"
        /\ call \notin {"switch", "return"} => config' = config
        /\ (configAfter' = {config} /\ config' = config) \/ configAfter' = configAfter \cup {config'}
    BY <1>1 DEF Effect
  <2>3. /\ call \notin {"keep", "drop"} => pending' = pending
        /\ call # "drop" => pending' = pending \/ pending'
        /\ pendingAfter' = {pending} \/ pendingAfter' = pendingAfter \cup {pending'}
    BY <1>1 DEF Effect
  <2>4. /\ call \notin {"enable", "disable"} => enabled' = enabled /\ timer' = timer
        /\ call = "enable" /\ enabled => enabled'
        /\ call = "enable" => timer' = timer \/ timer' = "waiting"
    BY <1>1 DEF Effect
  <2> QED
    BY <2>1, <2>2, <2>3, <2>4
<1>2. CASE Half(call)
  <2>1. /\ config' = config /\ configAfter' = configAfter /\ pending' = pending
        /\ pendingAfter' = pendingAfter /\ timer' = timer /\ call \in {"enable", "disable"}
    BY <1>2 DEF Half, files
  <2>2. call = "enable" => enabled'
    BY <1>2 DEF Half
  <2> QED
    BY <2>1, <2>2
<1>3. CASE UNCHANGED <<files, enabled, linkAfter, timer, greeter>>
  BY <1>3 DEF files
<1> QED
  BY <1>1, <1>2, <1>3 DEF Done

(* No call of the three operations leaves a candidate without its fallback. *)
LEMMA DoneKeeps ==
  ASSUME IInv, holder.by # "nobody", Done(Coming)
  PROVE  /\ Safe'
         /\ ~reused /\ ~unlinked /\ config' = "candidate" /\ ~confirmed =>
              timer' = "waiting" \/ (service # "idle" /\ (holder.by = "service" => Coming # "disable"))
         /\ confirmed /\ pendingAfter = {FALSE} => config' = config
<1>0. /\ TypeOK /\ holder.todo \in Left[holder.by] /\ UNCHANGED <<confirmed, reused, unlinked>>
      /\ config \in configAfter /\ pending \in pendingAfter /\ configAfter \subseteq Configs
      /\ config \in Configs /\ pending \in BOOLEAN /\ enabled \in BOOLEAN
  BY DEF IInv, TypeOK, Done
<1>1. CASE holder.by = "start"
  <2>1. Coming \in {"keep", "syncPending", "enable", "check", "switch", "syncConfig", "restart"}
    BY <1>0, <1>1, LeftFacts, StartFacts DEF Coming
  <2>2. ~confirmed
    BY <1>1 DEF IInv, StartInv
  <2>3. CASE Coming \in {"keep", "syncPending", "enable", "check"}
    <3>1. configAfter = {"original"} /\ config' = config
      BY <1>0, <1>1, <2>3, DoneFacts DEF IInv, StartInv
    <3>2. configAfter' \subseteq {"original"} /\ config' = "original"
      BY <1>0, <3>1, DoneFacts
    <3> QED
      BY <1>0, <2>2, <3>2 DEF Safe, ReturnInv, FallbackIsKept
  <2>4. CASE Coming \in {"switch"}
    <3>1. /\ pendingAfter = {TRUE} /\ enabled
          /\ ~reused => Guarded
      BY <1>1, <2>4 DEF IInv, StartInv
    <3>2. pending' = pending /\ enabled' = enabled /\ timer' = timer
      BY <1>0, <2>4, DoneFacts
    <3>3. pendingAfter' = {TRUE} /\ pending
      BY <1>0, <1>1, <2>4, <3>1, <3>2, DoneFacts DEF IInv, StartInv
    <3> QED
      BY <1>1, <2>2, <3>1, <3>2, <3>3 DEF Safe, ReturnInv, FallbackIsKept, Guarded
  <2>5. CASE Coming \in {"syncConfig", "restart"}
    <3>1. /\ config' = config /\ configAfter' \subseteq configAfter /\ pending' = pending
          /\ enabled' = enabled /\ timer' = timer
      BY <1>0, <2>5, DoneFacts
    <3>2. pendingAfter = {TRUE} => pendingAfter' = {TRUE}
      BY <1>0, <3>1, DoneFacts
    <3> QED
      BY <1>0, <1>1, <2>2, <3>1, <3>2 DEF IInv, Safe, ReturnInv, FallbackIsKept, UnconfirmedIsGuarded, Guarded
  <2> QED
    BY <2>1, <2>3, <2>4, <2>5
<1>2. CASE holder.by \in {"restore", "service"}
  <2>1. Coming \in {"return", "syncConfig", "restart", "drop", "syncPending", "disable"}
    BY <1>0, <1>2, LeftFacts, RestoreFacts DEF Coming
  <2>2. CASE Coming \in {"restart", "drop", "syncPending", "disable"}
    <3>1. configAfter = {"original"} /\ config = "original" /\ config' = config
      BY <1>0, <1>2, <2>2, DoneFacts DEF IInv, RestoreInv
    <3>2. configAfter' \subseteq {"original"} /\ config' = "original"
      BY <1>0, <3>1, DoneFacts
    <3> QED
      BY <3>1, <3>2 DEF Safe, ReturnInv, FallbackIsKept
  <2>3. CASE Coming \in {"return", "syncConfig"}
    <3>1. pending /\ pending' = pending /\ enabled' = enabled /\ timer' = timer
      BY <1>0, <1>2, <2>3, DoneFacts DEF IInv, RestoreInv
    <3>2. /\ pendingAfter = {TRUE} => pendingAfter' = {TRUE}
          /\ pendingAfter # {FALSE}
          /\ "candidate" \in configAfter' => "candidate" \in configAfter
          /\ config' = "candidate" => config = "candidate"
      BY <1>0, <2>3, <3>1, DoneFacts DEF Configs
    <3> QED
      BY <1>0, <2>3, <3>1, <3>2 DEF IInv, Safe, ReturnInv, FallbackIsKept, UnconfirmedIsGuarded, Guarded
  <2> QED
    BY <2>1, <2>2, <2>3
<1>3. CASE holder.by = "confirm"
  <2>1. Coming \in {"disable", "drop", "syncPending"} /\ confirmed /\ config = "candidate"
    BY <1>0, <1>3, LeftFacts, ConfirmFacts DEF IInv, ConfirmInv, Coming
  <2>2. config' = "candidate"
    BY <1>0, <2>1, DoneFacts
  <2> QED
    BY <1>0, <2>1, <2>2 DEF Safe, ReturnInv, FallbackIsKept
<1> QED
  BY <1>0, <1>1, <1>2, <1>3, LeftFacts DEF TypeOK

-----------------------------------------------------------------------------
Order == StartInv /\ RestoreInv /\ ConfirmInv

LEMMA StepKeeps ==
  ASSUME IInv, Step
  PROVE  Order' /\ Safe' /\ UnconfirmedIsGuarded'
<1>0. /\ TypeOK /\ holder.todo \in Left[holder.by] /\ holder \in HolderType /\ holder.by # "nobody"
      /\ pending \in pendingAfter /\ config \in configAfter
  BY FreeFacts DEF IInv, TypeOK, HolderType, Step
<1>1. Effect(Coming) /\ UNCHANGED <<confirmed, reused, unlinked>> /\ (Coming = "check" => timer # "inactive")
  BY DEF Step, Coming
<1>2. Done(Coming)
  BY <1>1 DEF Done
<1>3. CASE Len(holder.todo) = 1
  <2>1. holder'.by = "nobody" /\ service' = (IF holder.by = "service" THEN "idle" ELSE service)
    BY <1>3, FreeFacts DEF Step, Served
  <2>2. holder.by = "service" => Coming = "disable"
    BY <1>0, <1>3, LeftFacts, RestoreFacts DEF Coming
  <2>3. Order'
    BY <2>1 DEF Order, StartInv, RestoreInv, ConfirmInv
  <2> QED
    BY <1>0, <1>1, <1>2, <2>1, <2>2, <2>3, DoneKeeps DEF UnconfirmedIsGuarded, Guarded
<1>4. CASE Len(holder.todo) # 1
  <2>1. holder'.by = holder.by /\ holder'.todo = Tail(holder.todo) /\ service' = service
    BY <1>0, <1>4 DEF Step, HolderType
  <2>2. holder.by = "service" => service # "idle"
    BY DEF IInv, TypeOK
  <2>3. UnconfirmedIsGuarded' /\ Safe'
    BY <1>0, <1>1, <1>2, <2>1, <2>2, DoneKeeps DEF UnconfirmedIsGuarded, Guarded
  <2>4. CASE holder.by = "start"
    <3>1. /\ Coming \in {"keep", "syncPending", "enable", "check", "switch", "syncConfig"}
          /\ Coming = "keep" => Coming' = "syncPending"
          /\ Coming = "syncPending" => Coming' = "enable"
          /\ Coming = "enable" => Coming' = "check"
          /\ Coming = "check" => Coming' = "switch"
          /\ Coming = "switch" => Coming' = "syncConfig"
          /\ Coming = "syncConfig" => Coming' = "restart"
      <4>1. holder.todo \in LeftOfStart
        BY <1>0, <2>4, LeftFacts
      <4>2. Head(holder.todo) # "restart"
        BY <1>4, <4>1, StartFacts
      <4>3. Coming = Head(holder.todo) /\ Coming' = Head(Tail(holder.todo))
        BY <2>1 DEF Coming
      <4> QED
        BY <4>1, <4>2, <4>3, StartFacts
    <3>2. /\ ~confirmed'
          /\ Coming = "keep" => pending'
          /\ Coming # "keep" => pending' = pending /\ pending
      BY <1>0, <1>1, <1>2, <2>4, <3>1, DoneFacts DEF IInv, StartInv, Effect
    <3>3. Coming' \in {"syncPending", "enable", "check", "switch"} => configAfter' = {"original"}
      <4>1. ASSUME Coming' \in {"syncPending", "enable", "check", "switch"}
            PROVE  configAfter = {"original"} /\ config' = config
        BY <1>0, <1>2, <2>4, <3>1, <4>1, DoneFacts DEF IInv, StartInv
      <4> QED
        BY <1>0, <1>1, <4>1 DEF Effect
    <3>4. Coming' \in {"enable", "check", "switch"} => pendingAfter' = {TRUE}
      <4>1. CASE Coming = "syncPending"
        BY <1>1, <2>4, <4>1 DEF IInv, StartInv, Effect
      <4>2. CASE Coming \in {"enable", "check"}
        BY <1>0, <1>2, <2>4, <4>2, DoneFacts DEF IInv, StartInv
      <4> QED
        BY <3>1, <4>1, <4>2
    <3>5. Coming' \in {"check", "switch"} => enabled'
      <4>1. CASE Coming = "enable"
        BY <1>1, <4>1 DEF Effect
      <4>2. CASE Coming \in {"check"}
        BY <1>0, <1>2, <2>4, <4>2, DoneFacts DEF IInv, StartInv
      <4> QED
        BY <3>1, <4>1, <4>2
    <3>6. ~reused' /\ Coming' \in {"syncPending", "enable"} => timer' = "inactive"
      BY <1>0, <1>1, <1>2, <2>4, <3>1, DoneFacts DEF IInv, StartInv
    <3>7. ~reused' /\ Coming' \in {"check", "switch"} => timer' = "waiting" \/ service' # "idle"
      <4>1. CASE Coming = "enable"
        BY <1>1, <2>4, <4>1 DEF IInv, StartInv, Effect
      <4>2. CASE Coming \in {"check"}
        BY <1>0, <1>1, <1>2, <2>1, <2>4, <4>2, DoneFacts DEF IInv, StartInv, Guarded
      <4> QED
        BY <3>1, <4>1, <4>2
    <3>8. Coming' # "keep"
      BY <3>1
    <3> QED
      BY <2>1, <2>3, <2>4, <3>2, <3>3, <3>4, <3>5, <3>6, <3>7, <3>8
      DEF Order, StartInv, RestoreInv, ConfirmInv, Guarded
  <2>5. CASE holder.by \in {"restore", "service"}
    <3>1. /\ Coming \in {"return", "syncConfig", "restart", "drop", "syncPending"}
          /\ Coming = "return" => Coming' = "syncConfig"
          /\ Coming = "syncConfig" => Coming' = "restart"
          /\ Coming = "restart" => Coming' = "drop"
          /\ Coming = "drop" => Coming' = "syncPending"
          /\ Coming = "syncPending" => Coming' = "disable"
      BY <1>0, <1>4, <2>1, <2>5, LeftFacts, RestoreFacts DEF Coming
    <3>2. Coming' \in {"return", "syncConfig", "restart", "drop"} => pending'
      BY <1>0, <1>2, <2>5, <3>1, DoneFacts DEF IInv, RestoreInv
    <3>3. config' = "original"
      BY <1>1, <2>5, <3>1 DEF IInv, RestoreInv, Effect
    <3>4. Coming' \in {"restart", "drop", "syncPending", "disable"} => configAfter' = {"original"}
      <4>1. CASE Coming = "syncConfig"
        BY <1>1, <2>5, <4>1 DEF IInv, RestoreInv, Effect
      <4>2. CASE Coming \in {"restart", "drop", "syncPending"}
        <5>1. configAfter = {"original"} /\ config = "original"
          BY <2>5, <4>2 DEF IInv, RestoreInv
        <5> QED
          BY <1>1, <3>3, <4>2, <5>1 DEF Effect
      <4> QED
        BY <3>1, <4>1, <4>2
    <3> QED
      BY <2>1, <2>3, <2>5, <3>2, <3>3, <3>4 DEF Order, StartInv, RestoreInv, ConfirmInv
  <2>6. CASE holder.by = "confirm"
    <3>1. Coming \in {"disable", "drop", "syncPending"} /\ confirmed /\ config = "candidate"
      BY <1>0, <2>6, LeftFacts, ConfirmFacts DEF IInv, ConfirmInv, Coming
    <3>2. config' = "candidate" /\ confirmed'
      BY <1>0, <1>1, <1>2, <3>1, DoneFacts
    <3> QED
      BY <2>1, <2>3, <2>6, <3>2 DEF Order, StartInv, RestoreInv, ConfirmInv
  <2> QED
    BY <1>0, <2>3, <2>4, <2>5, <2>6, LeftFacts DEF HolderType
<1> QED
  BY <1>3, <1>4

-----------------------------------------------------------------------------
LEMMA FailKeeps ==
  ASSUME IInv, Fail
  PROVE  Order' /\ Safe' /\ UnconfirmedIsGuarded'
<1>1. /\ holder.by # "nobody" /\ holder' = Free /\ holder'.by = "nobody"
      /\ service' = (IF holder.by = "service" THEN "retry" ELSE service)
  BY FreeFacts DEF IInv, TypeOK, HolderType, Fail, Served
<1>2. Done(Coming)
  BY DEF Fail, Done, Half, Coming
<1>3. Safe'
  BY <1>1, <1>2, DoneKeeps
<1>4. UnconfirmedIsGuarded'
  BY <1>1, <1>2, DoneKeeps DEF UnconfirmedIsGuarded, Guarded, Done
<1>5. Order'
  BY <1>1 DEF Order, StartInv, RestoreInv, ConfirmInv
<1> QED
  BY <1>3, <1>4, <1>5

LEMMA PowerLossKeeps ==
  ASSUME IInv, PowerLoss
  PROVE  Order' /\ Safe' /\ UnconfirmedIsGuarded'
<1>1. holder'.by = "nobody" /\ confirmed' = confirmed /\ (unlinked' <=> unlinked \/ (enabled /\ ~enabled'))
  BY FreeFacts DEF PowerLoss
<1>2. /\ config' \in configAfter /\ configAfter' = {config'}
      /\ pending' \in pendingAfter /\ pendingAfter' = {pending'}
      /\ timer' = IF enabled' THEN "waiting" ELSE "inactive"
  BY DEF PowerLoss
<1>3. "candidate" \in configAfter' /\ ~confirmed => pendingAfter = {TRUE} /\ (enabled \/ unlinked)
  BY <1>2 DEF IInv, FallbackIsKept
<1>4. config' = "candidate" => "candidate" \in configAfter'
  BY <1>2
<1>5. Order'
  BY <1>1 DEF Order, StartInv, RestoreInv, ConfirmInv
<1>6. ReturnInv'
  BY <1>2 DEF ReturnInv
<1>7. FallbackIsKept'
  BY <1>1, <1>2, <1>3 DEF FallbackIsKept
<1>8. UnconfirmedIsGuarded'
  BY <1>1, <1>2, <1>3, <1>4 DEF UnconfirmedIsGuarded, Guarded
<1> QED
  BY <1>5, <1>6, <1>7, <1>8 DEF Safe

(* An operation that begins, and the service manager's steps.               *)
LEMMA BeginKeeps ==
  ASSUME IInv, Start \/ Restore \/ Confirm \/ Fire \/ Guard \/ Retry
  PROVE  Order' /\ Safe' /\ UnconfirmedIsGuarded'
<1>0. /\ TypeOK /\ ReturnInv /\ FallbackIsKept /\ UnconfirmedIsGuarded
      /\ pending \in pendingAfter /\ config \in configAfter /\ configAfter \subseteq Configs
  BY DEF IInv, TypeOK
<1>1. config = "candidate" /\ ~confirmed => pending
  <2>1. ASSUME config = "candidate", ~confirmed PROVE pending
    <3>1. pendingAfter = {TRUE}
      BY <1>0, <2>1 DEF FallbackIsKept
    <3>2. pending = TRUE
      BY <1>0, <3>1
    <3> QED
      BY <3>2
  <2> QED
    BY <2>1
<1>2. CASE Start
  <2>1. /\ holder'.by = "start" /\ holder'.todo = Starting /\ config = "original" /\ ~pending /\ ~confirmed'
        /\ reused' = (timer # "inactive") /\ UNCHANGED <<files, units>>
    BY <1>0, <1>2, Begins DEF Start, Begin
  <2>2. Coming' = "keep"
    BY <2>1, WholePlans DEF Coming
  <2>3. "candidate" \notin configAfter
    BY <1>0, <2>1 DEF ReturnInv
  <2>4. configAfter' = {"original"} /\ config' = "original" /\ timer' = timer
    BY <1>0, <2>1, <2>3 DEF Configs, files, units
  <2>5. Order'
    BY <2>1, <2>2, <2>4 DEF Order, StartInv, RestoreInv, ConfirmInv
  <2>6. Safe' /\ UnconfirmedIsGuarded'
    BY <2>4 DEF Safe, ReturnInv, FallbackIsKept, UnconfirmedIsGuarded
  <2> QED
    BY <2>5, <2>6
<1>3. CASE Restore
  <2>1. /\ holder'.by = "restore" /\ holder'.todo = Restoring /\ pending
        /\ UNCHANGED <<files, units, confirmed, reused, unlinked>>
    BY <1>0, <1>3, Begins DEF Restore, Begin
  <2>2. Coming' = "return"
    BY <2>1, WholePlans DEF Coming
  <2>3. Order'
    BY <2>1, <2>2 DEF Order, StartInv, RestoreInv, ConfirmInv, files
  <2> QED
    BY <1>0, <2>1, <2>3 DEF Safe, ReturnInv, FallbackIsKept, UnconfirmedIsGuarded, Guarded, files, units
<1>4. CASE Confirm
  <2>1. /\ holder'.by = "confirm" /\ config = "candidate" /\ config' = config /\ confirmed'
    BY <1>0, <1>4, Begins DEF Confirm, Begin, files
  <2>2. Order'
    BY <2>1 DEF Order, StartInv, RestoreInv, ConfirmInv
  <2> QED
    BY <2>1, <2>2 DEF Safe, ReturnInv, FallbackIsKept, UnconfirmedIsGuarded
<1>5. CASE Guard
  <2>1. CASE pending
    <3>1. /\ holder'.by = "service" /\ holder'.todo = Restoring /\ service' = "running"
          /\ UNCHANGED <<files, enabled, linkAfter, timer, confirmed, reused, unlinked>>
      BY <1>0, <1>5, <2>1, Begins DEF Guard, Begin
    <3>2. Coming' = "return"
      BY <3>1, WholePlans DEF Coming
    <3>3. Order'
      BY <2>1, <3>1, <3>2 DEF Order, StartInv, RestoreInv, ConfirmInv, files
    <3>4. Safe'
      BY <1>0, <3>1 DEF Safe, ReturnInv, FallbackIsKept, files
    <3> QED
      BY <3>1, <3>3, <3>4 DEF UnconfirmedIsGuarded, Guarded
  <2>2. CASE ~pending
    <3>1. UNCHANGED <<files, enabled, linkAfter, timer, confirmed, reused, unlinked, holder>> /\ holder.by = "nobody"
      BY <1>5, <2>2, FreeFacts DEF Guard
    <3>2. config = "candidate" => confirmed
      BY <1>1, <2>2
    <3>3. Order'
      BY <3>1 DEF Order, StartInv, RestoreInv, ConfirmInv
    <3>4. Safe'
      BY <1>0, <3>1 DEF Safe, ReturnInv, FallbackIsKept, files
    <3> QED
      BY <3>1, <3>2, <3>3, <3>4 DEF UnconfirmedIsGuarded, files
  <2> QED
    BY <2>1, <2>2
<1>6. CASE Fire \/ Retry
  <2>1. /\ UNCHANGED <<files, enabled, linkAfter, holder, confirmed, reused, unlinked>> /\ Coming' = Coming
        /\ pending /\ Guarded => service' # "idle" \/ timer' = "waiting"
        /\ timer' = timer \/ timer = "waiting"
    BY <1>0, <1>6 DEF Fire, Retry, Coming, Guarded, TypeOK
  <2>2. config = "candidate" /\ ~confirmed => pending
    BY <1>1
  <2>3. Safe'
    BY <1>0, <2>1 DEF Safe, ReturnInv, FallbackIsKept, files
  <2>4. UnconfirmedIsGuarded'
    BY <1>0, <2>1, <2>2 DEF UnconfirmedIsGuarded, Guarded, files
  <2>5. Order'
    BY <1>0, <2>1 DEF IInv, Order, StartInv, RestoreInv, ConfirmInv, Guarded, files
  <2> QED
    BY <2>3, <2>4, <2>5
<1> QED
  BY <1>2, <1>3, <1>4, <1>5, <1>6

LEMMA InitEstablishes == Init => IInv
<1> SUFFICES ASSUME Init PROVE IInv
  OBVIOUS
<1>1. TypeOK
  <2>1. config \in configAfter /\ configAfter \subseteq Configs /\ greeter \in Configs
    BY DEF Init, Configs
  <2>2. pending \in pendingAfter /\ pendingAfter \subseteq BOOLEAN
    BY DEF Init
  <2>3. holder \in HolderType /\ holder.todo \in Left[holder.by] /\ holder.by = "nobody"
    BY FreeFacts DEF Init
  <2>4. faults \in 0 .. MaxFaults
    BY FaultsAssumption DEF Init
  <2>5. /\ enabled = FALSE /\ timer = "inactive" /\ service = "idle" /\ confirmed = FALSE /\ reused = FALSE /\ unlinked = FALSE /\ linkAfter = {FALSE}
    BY DEF Init
  <2> QED
    BY <2>1, <2>2, <2>3, <2>4, <2>5 DEF TypeOK, HolderType
<1>2. Order
  BY FreeFacts DEF Init, Order, StartInv, RestoreInv, ConfirmInv
<1> QED
  BY <1>1, <1>2 DEF Init, IInv, Order, ReturnInv, FallbackIsKept, UnconfirmedIsGuarded

LEMMA Inductive == IInv /\ [Next]_vars => IInv'
<1> SUFFICES ASSUME IInv, [Next]_vars PROVE IInv'
  OBVIOUS
<1>1. CASE UNCHANGED vars
  <2>1. Order' /\ Safe' /\ UnconfirmedIsGuarded'
    BY <1>1 DEF vars, IInv, Order, StartInv, RestoreInv, ConfirmInv, Coming, Safe, ReturnInv, FallbackIsKept,
                UnconfirmedIsGuarded, Guarded
  <2> QED
    BY <2>1, TypeStep DEF IInv, Order, Safe
<1>2. CASE Next
  <2>1. Order' /\ Safe' /\ UnconfirmedIsGuarded'
    BY <1>2, StepKeeps, FailKeeps, PowerLossKeeps, BeginKeeps DEF Next
  <2> QED
    BY <2>1, TypeStep DEF IInv, Order, Safe
<1> QED
  BY <1>1, <1>2

(* In every reachable state the calls made so far and the calls to come     *)
(* keep the fallback behind the candidate.                                  *)
THEOREM Invariance == Spec => []IInv
BY InitEstablishes, Inductive, PTL DEF Spec

(* The trial keeps its types.                                               *)
THEOREM TypeCorrect == Spec => []TypeOK
<1>1. IInv => TypeOK
  BY DEF IInv
<1> QED
  BY Invariance, <1>1, PTL

(* An unconfirmed candidate is guarded, unless the trial found the timer of *)
(* an earlier one or a loss of power took the link.                         *)
THEOREM CandidateGuarded == Spec => []UnconfirmedIsGuarded
<1>1. IInv => UnconfirmedIsGuarded
  BY DEF IInv
<1> QED
  BY Invariance, <1>1, PTL

(* A boot that finds an unconfirmed candidate finds the copy to return to,  *)
(* and the timer unless the link went with the power.                       *)
THEOREM BootFindsFallback == Spec => []FallbackIsKept
<1>1. IInv => FallbackIsKept
  BY DEF IInv
<1> QED
  BY Invariance, <1>1, PTL

(* A confirmation that is through is not taken back.                        *)
THEOREM ConfirmationStays == Spec => ConfirmedStays
<1>1. IInv /\ [Next]_vars => [confirmed /\ pendingAfter = {FALSE} /\ (Step \/ Fail) => config' = config]_vars
  <2> SUFFICES ASSUME IInv, confirmed, pendingAfter = {FALSE}, Step \/ Fail PROVE config' = config
    OBVIOUS
  <2>1. holder.by # "nobody"
    BY FreeFacts DEF IInv, TypeOK, HolderType, Step, Fail
  <2>2. Done(Coming)
    BY DEF Step, Fail, Done, Half, Coming
  <2> QED
    BY <2>1, <2>2, DoneKeeps
<1> QED
  BY Invariance, <1>1, PTL DEF Spec, ConfirmedStays
=============================================================================
