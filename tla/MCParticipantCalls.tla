------------------------- MODULE MCParticipantCalls -------------------------
(* Three generations and four requests, number 0 being the invalid one.     *)
EXTENDS ParticipantCalls, TLC

CONSTANTS e1, e2, gA, gB, gC

MCEpochs == {e1, e2}
MCGenerations == {gA, gB, gC}
Symmetric == Permutations(MCEpochs) \cup Permutations(MCGenerations)
=============================================================================
