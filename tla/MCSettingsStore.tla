-------------------------- MODULE MCSettingsStore --------------------------
(* Two generations to move between and two epochs: one that is handed the   *)
(* directory and one that takes it over.                                    *)
EXTENDS SettingsStore, TLC

CONSTANTS e1, e2, gA, gB, gC

MCEpochs == {e1, e2}
MCGenerations == {gA, gB, gC}
Symmetric == Permutations(MCEpochs) \cup Permutations(MCGenerations)
=============================================================================
