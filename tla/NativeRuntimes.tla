--------------------------- MODULE NativeRuntimes ---------------------------
(***************************************************************************)
(* The two native runtimes CSettingsService drives beside the participant: *)
(* the display transaction (makeMonitorRuntime) and the input and desktop  *)
(* transaction (makeDesktopRuntime around makeInputRuntime).  Each call is *)
(* synchronous and may throw half way, so an operator returns the set of   *)
(* its outcomes: ok is FALSE when the call throws, to is what it leaves.   *)
(***************************************************************************)
CONSTANTS
  Generations,
  Layouts,      \* monitor settings, up to what verifyRules can tell apart
  Elsewhere,    \* an effective layout that is none of Layouts
  Foreign       \* input or desktop settings that are no generation's

Ok(x) == [ok |-> TRUE, to |-> x]
Thrown(x) == [ok |-> FALSE, to |-> x]

-----------------------------------------------------------------------------
(* SMonitorTransaction.  live is what the outputs show, stable that neither *)
(* topologyRevision nor the outputs moved since prepare().                  *)
DisplayType ==
  [live : Layouts \cup {Elsewhere}, baseline : Layouts \cup {Elsewhere}, candidate : Layouts,
   prepared : BOOLEAN, stable : BOOLEAN]

\* The boot layout is installed and not read back: the outputs show anything.
DisplayBoot(l) ==
  {[live |-> shown, baseline |-> l, candidate |-> l, prepared |-> FALSE, stable |-> TRUE]
     : shown \in Layouts \cup {Elsewhere}}

Healthy(d) == d.prepared /\ d.stable

(* Throws with no usable output before it has taken a new baseline, and     *)
(* after it has when the layout would leave nothing visible.                *)
DisplayPrepare(d, l) ==
  LET seen == [d EXCEPT !.stable = TRUE]
      taken == [seen EXCEPT !.candidate = l, !.baseline = d.live]
  IN  {Thrown(seen), Thrown(taken), Ok([taken EXCEPT !.prepared = TRUE])}

Installed(d, l) == [d EXCEPT !.live = l]

NotInstalled(d, l) == {Thrown(Installed(d, shown)) : shown \in {d.live, Elsewhere} \ {l}}

DisplayApply(d) ==
  IF Healthy(d)
  THEN {Ok(Installed(d, d.candidate))} \cup NotInstalled(d, d.candidate)
  ELSE {Thrown(d)}

\* Fault: the topology is compared, the outputs are not.
DisplayVerify_NoReadBack(d) == Healthy(d)

DisplayVerify(d) == Healthy(d) /\ d.live = d.candidate

(* The baseline is installed before the topology is looked at.              *)
DisplayRestore(d) ==
  IF d.prepared
  THEN {[ok |-> d.stable, to |-> Installed(d, d.baseline)]} \cup NotInstalled(d, d.baseline)
  ELSE {Ok(d)}

(* An output comes or goes: the topology listeners of the transaction.      *)
DisplayHotplug(d) == {[d EXCEPT !.stable = FALSE, !.live = shown] : shown \in {d.live, Elsewhere}}

-----------------------------------------------------------------------------
(* devices and desktop are what is in force; current, before and candidate  *)
(* are makeInputRuntime's State (devicesBefore is before.devices, read back *)
(* from the manager), desktopBefore and applied makeDesktopRuntime's SChange*)
InputType ==
  [devices : Generations \cup {Foreign}, desktop : Generations \cup {Foreign},
   current : Generations, before : Generations, candidate : Generations,
   devicesBefore : Generations \cup {Foreign}, desktopBefore : Generations \cup {Foreign}, applied : BOOLEAN]

InputBoot(g) ==
  [devices |-> g, desktop |-> g, current |-> g, before |-> g, candidate |-> g,
   devicesBefore |-> g, desktopBefore |-> g, applied |-> FALSE]

(* Decoding the candidate, or a change of profile, throws half way.         *)
InputPrepare(i, g) ==
  LET taken == [i EXCEPT !.before = i.current, !.devicesBefore = i.devices, !.candidate = g,
                         !.desktopBefore = i.desktop]
  IN  {Thrown(taken), Ok([taken EXCEPT !.applied = FALSE])}

InputApply(i) ==
  LET begun == [i EXCEPT !.applied = TRUE]
      input == [begun EXCEPT !.devices = i.candidate, !.current = i.candidate]
  IN  {Ok([input EXCEPT !.desktop = i.candidate]),
       Thrown([input EXCEPT !.desktop = Foreign]),
       Thrown([begun EXCEPT !.devices = Foreign])}

\* A change of the gesture registry is drift even when the values agree.
InputVerify(i) ==
  {Thrown(i)} \cup {Ok(x) : x \in {y \in {i} : i.applied /\ i.devices = i.candidate /\ i.desktop = i.candidate}}

InputRestore(i) ==
  LET input == [i EXCEPT !.devices = i.devicesBefore, !.current = i.before]
  IN  {Thrown([i EXCEPT !.devices = Foreign])} \cup
      (IF i.applied
       THEN {Thrown([input EXCEPT !.desktop = Foreign]),
             Ok([input EXCEPT !.desktop = i.desktopBefore, !.applied = FALSE])}
       ELSE {Ok(input)})
=============================================================================
