------------------------- MODULE MCGenerationStore -------------------------
(* Two generations and one session.  A client that mistakes a probe for a   *)
(* session needs another one that probes.                                   *)
EXTENDS GenerationStore, TLC

CONSTANTS g1, g2, s1, c1, c2

MCGenerations == {g1, g2}
MCSessions == {s1}
OneClient == {c1}
TwoClients == {c1, c2}
Symmetric == Permutations(MCGenerations) \cup Permutations(TwoClients)
=============================================================================
