---------------------------- MODULE GreeterTrial ----------------------------
(***************************************************************************)
(* The trial of a new login configuration.  start() arms a timer of the    *)
(* service manager before it switches; unless confirm() disarms it, the    *)
(* timer runs restore().  The three take one lock.  Each file operation    *)
(* and each call of systemctl is a step: the process may be killed at it,  *)
(* the call may fail or time out having had its effect or not, and the     *)
(* power may go, with what was not synced there or not.                    *)
(***************************************************************************)
EXTENDS Naturals, Sequences

CONSTANT MaxFaults   \* bound on failed calls, killed processes and losses of power

ASSUME FaultsAssumption == MaxFaults \in Nat

VARIABLES
  config,        \* the login configuration
  configAfter,   \* what it may be after a loss of power
  pending,       \* pending.toml, the configuration to return to, exists
  pendingAfter,  \* whether it may after a loss of power
  enabled,       \* the link that has the timer started at boot is there
  linkAfter,     \* whether it may be after a loss of power: nobody syncs it
  timer,         \* the unit: inactive, waiting or, having fired, elapsed
  service,       \* its service: idle, waiting for the lock, running or to be retried
  greeter,       \* the configuration the running greeter was started with
  holder,        \* who has the lock, and the calls still to make
  confirmed,     \* history: this trial's confirmation has passed its checks
  reused,        \* history: the trial found the timer of an earlier one still active
  unlinked,      \* history: a loss of power took the link back
  faults

vars == <<config, configAfter, pending, pendingAfter, enabled, linkAfter, timer, service, greeter,
          holder, confirmed, reused, unlinked, faults>>

files == <<config, configAfter, pending, pendingAfter>>
units == <<enabled, linkAfter, timer, service, greeter>>

Configs == {"original", "candidate"}
Free == [by |-> "nobody", todo |-> <<>>]

Init ==
  /\ config = "original" /\ configAfter = {"original"}
  /\ pending = FALSE /\ pendingAfter = {FALSE}
  /\ enabled = FALSE /\ linkAfter = {FALSE}
  /\ timer = "inactive"
  /\ service = "idle"
  /\ greeter = "original"
  /\ holder = Free
  /\ confirmed = FALSE
  /\ reused = FALSE /\ unlinked = FALSE
  /\ faults = 0

-----------------------------------------------------------------------------
Take(by, todo) == holder = Free /\ holder' = [by |-> by, todo |-> todo]

\* Fault: the login configuration is switched first and guarded then.
Starting_Unguarded ==
  <<"keep", "syncPending", "switch", "syncConfig", "enable", "check", "restart">>

(* The calls of start(), once its unit files are there.                     *)
Starting == <<"keep", "syncPending", "enable", "check", "switch", "syncConfig", "restart">>

\* Fault: the fallback is given up as soon as it has been copied.
Restoring_Early ==
  <<"return", "drop", "syncPending", "syncConfig", "restart", "disable">>

Restoring == <<"return", "syncConfig", "restart", "drop", "syncPending", "disable">>

Confirming == <<"disable", "drop", "syncPending">>

Start ==
  /\ ~pending
  /\ config = "original"
  /\ Take("start", Starting)
  /\ confirmed' = FALSE
  /\ reused' = (timer # "inactive") /\ unlinked' = FALSE
  /\ UNCHANGED <<files, units, faults>>

(* restore(), by the administrator.                                         *)
Restore ==
  /\ pending
  /\ Take("restore", Restoring)
  /\ UNCHANGED <<files, units, confirmed, reused, unlinked, faults>>

Confirm ==
  /\ pending
  /\ config = "candidate"
  /\ Take("confirm", Confirming)
  /\ confirmed' = TRUE
  /\ UNCHANGED <<files, units, reused, unlinked, faults>>

-----------------------------------------------------------------------------
(* The service manager.                                                     *)

(* The timer fires once; its service is skipped when nothing is pending.    *)
Fire ==
  /\ timer = "waiting"
  /\ timer' = "elapsed"
  /\ service' = IF pending /\ service = "idle" THEN "waiting" ELSE service
  /\ UNCHANGED <<files, enabled, linkAfter, greeter, holder, confirmed, reused, unlinked, faults>>

\* Fault: what is pending is read before the lock is had.
Guard_Stale ==
  /\ service = "waiting"
  /\ Take("service", Restoring)
  /\ service' = "running"
  /\ UNCHANGED <<files, enabled, linkAfter, timer, greeter, confirmed, reused, unlinked, faults>>

(* restore(), by the service: once it has the lock it looks again.          *)
Guard ==
  /\ service = "waiting"
  /\ holder = Free
  /\ IF pending
     THEN Take("service", Restoring) /\ service' = "running"
     ELSE service' = "idle" /\ UNCHANGED holder
  /\ UNCHANGED <<files, enabled, linkAfter, timer, greeter, confirmed, reused, unlinked, faults>>

(* Restart=on-failure, under the same condition.                            *)
Retry ==
  /\ service = "retry"
  /\ service' = IF pending THEN "waiting" ELSE "idle"
  /\ UNCHANGED <<files, enabled, linkAfter, timer, greeter, holder, confirmed, reused, unlinked, faults>>

-----------------------------------------------------------------------------
(* The holder's next call.  An active timer, which an elapsed one is, is    *)
(* not started again by "enable --now".  The link that enable makes and     *)
(* disable removes is synced by neither, nor by the trial.                  *)
Effect(call) ==
  /\ config' = CASE call = "switch" -> "candidate" [] call = "return" -> "original" [] OTHER -> config
  /\ configAfter' = IF call = "syncConfig" THEN {config} ELSE configAfter \cup {config'}
  /\ pending' = CASE call = "keep" -> TRUE [] call = "drop" -> FALSE [] OTHER -> pending
  /\ pendingAfter' = IF call = "syncPending" THEN {pending} ELSE pendingAfter \cup {pending'}
  /\ enabled' = CASE call = "enable" -> TRUE [] call = "disable" -> FALSE [] OTHER -> enabled
  /\ linkAfter' = linkAfter \cup {enabled'}
  /\ timer' = CASE call = "enable" /\ timer = "inactive" -> "waiting"
                [] call = "disable" -> "inactive"
                [] OTHER -> timer
  /\ greeter' = IF call = "restart" THEN config ELSE greeter

\* Fault: the service has no Restart=on-failure.
Served_Once(outcome) == IF holder.by = "service" THEN "idle" ELSE service

Served(outcome) == IF holder.by = "service" THEN outcome ELSE service

Step ==
  /\ holder # Free
  /\ LET call == Head(holder.todo) IN
       /\ call = "check" => timer # "inactive"
       /\ Effect(call)
       /\ IF Len(holder.todo) = 1
          THEN holder' = Free /\ service' = Served("idle")
          ELSE holder' = [holder EXCEPT !.todo = Tail(@)] /\ UNCHANGED service
  /\ UNCHANGED <<confirmed, reused, unlinked, faults>>

(* The call fails, with its effect, half of it or none, or the process is   *)
(* killed.                                                                  *)
Fail ==
  /\ holder # Free
  /\ faults < MaxFaults
  /\ faults' = faults + 1
  /\ LET call == Head(holder.todo) IN
       /\ \/ Effect(call) \/ UNCHANGED <<files, enabled, linkAfter, timer, greeter>>
          \/ /\ call \in {"enable", "disable"}
             /\ enabled' = (call = "enable") /\ linkAfter' = linkAfter \cup {enabled'}
             /\ UNCHANGED <<files, timer, greeter>>
  /\ holder' = Free
  /\ service' = Served("retry")
  /\ UNCHANGED <<confirmed, reused, unlinked>>

(* What was not synced is there afterwards or not, the link included.       *)
PowerLoss ==
  /\ faults < MaxFaults
  /\ faults' = faults + 1
  /\ config' \in configAfter /\ configAfter' = {config'}
  /\ pending' \in pendingAfter /\ pendingAfter' = {pending'}
  /\ enabled' \in linkAfter /\ linkAfter' = {enabled'}
  /\ unlinked' = (unlinked \/ (enabled /\ ~enabled'))
  /\ timer' = IF enabled' THEN "waiting" ELSE "inactive"
  /\ service' = "idle"
  /\ greeter' = config'
  /\ holder' = Free
  /\ reused' = FALSE
  /\ UNCHANGED confirmed

Next == Start \/ Restore \/ Confirm \/ Fire \/ Guard \/ Retry \/ Step \/ Fail \/ PowerLoss

(* A process that has the lock goes on; the service manager keeps its timer *)
(* and starts its service again, and the kernel gives it the lock.          *)
Fairness == WF_vars(Step) /\ WF_vars(Fire) /\ WF_vars(Guard) /\ WF_vars(Retry)

Spec == Init /\ [][Next]_vars /\ Fairness

-----------------------------------------------------------------------------
(* What is left of each operation while it holds the lock.                  *)
LeftOfStart ==
  {<<"keep", "syncPending", "enable", "check", "switch", "syncConfig", "restart">>,
   <<"syncPending", "enable", "check", "switch", "syncConfig", "restart">>,
   <<"enable", "check", "switch", "syncConfig", "restart">>,
   <<"check", "switch", "syncConfig", "restart">>,
   <<"switch", "syncConfig", "restart">>,
   <<"syncConfig", "restart">>,
   <<"restart">>}

LeftOfRestore ==
  {<<"return", "syncConfig", "restart", "drop", "syncPending", "disable">>,
   <<"syncConfig", "restart", "drop", "syncPending", "disable">>,
   <<"restart", "drop", "syncPending", "disable">>,
   <<"drop", "syncPending", "disable">>,
   <<"syncPending", "disable">>,
   <<"disable">>}

LeftOfConfirm ==
  {<<"disable", "drop", "syncPending">>,
   <<"drop", "syncPending">>,
   <<"syncPending">>}

Left ==
  [nobody |-> {<<>>}, start |-> LeftOfStart, restore |-> LeftOfRestore,
   service |-> LeftOfRestore, confirm |-> LeftOfConfirm]

TypeOK ==
  /\ config \in configAfter /\ configAfter \subseteq Configs
  /\ pending \in pendingAfter /\ pendingAfter \subseteq BOOLEAN
  /\ enabled \in linkAfter /\ linkAfter \subseteq BOOLEAN
  /\ timer \in {"inactive", "waiting", "elapsed"}
  /\ service \in {"idle", "waiting", "running", "retry"}
  /\ greeter \in Configs
  /\ holder \in [by : DOMAIN Left, todo : UNION {Left[by] : by \in DOMAIN Left}]
  /\ holder.todo \in Left[holder.by]
  /\ service = "running" <=> holder.by = "service"
  /\ confirmed \in BOOLEAN /\ reused \in BOOLEAN /\ unlinked \in BOOLEAN
  /\ faults \in 0 .. MaxFaults

Guarded == timer = "waiting" \/ service # "idle"

(* "Only an explicit confirmation cancels recovery": while an unconfirmed   *)
(* candidate is the login configuration, the timer or its service is there  *)
(* to take it back, whatever is killed and whenever the power goes.  Two    *)
(* cases are left out.  A trial may find the timer of an earlier one still  *)
(* active: a restore got past the fallback and not past the timer, or a     *)
(* loss of power undid the removal of the link.  And a loss of power may    *)
(* take the link itself, which start() has made and nobody has synced.      *)
UnconfirmedIsGuarded == ~reused /\ ~unlinked /\ config = "candidate" /\ ~confirmed => Guarded

(* Whatever is killed and whenever the power goes, a boot that finds an     *)
(* unconfirmed candidate finds the fallback's copy, so that restore() can   *)
(* take it back; and the trial has the timer started at boot, until a loss  *)
(* of power takes the link.                                                 *)
FallbackIsKept ==
  "candidate" \in configAfter /\ ~confirmed => pendingAfter = {TRUE} /\ (enabled \/ unlinked)

(* A confirmation that is through is never taken back by a restore that was *)
(* waiting for the lock.                                                    *)
ConfirmedStays ==
  [][confirmed /\ pendingAfter = {FALSE} /\ (Step \/ Fail) => config' = config]_vars

(* A trial ends: with a confirmation, or with a greeter that has its        *)
(* earlier configuration back - unless it found the timer of an earlier one *)
(* or lost its link with the power, and then waits for the administrator.   *)
TrialEnds ==
  config = "candidate" /\ ~reused /\ ~unlinked
    ~> confirmed \/ reused \/ unlinked \/ (config = "original" /\ greeter = "original")
=============================================================================
