------------------------ MODULE MCAsyncJointProtocol ------------------------
(* Two transactions in one epoch, a third generation a transaction can be   *)
(* stale against, and tickets enough for a failed publication, its          *)
(* compensation, and a recovery after a failed restore.                     *)
EXTENDS AsyncJointProtocol, TLC

CONSTANTS e1, e2, gA, gB, gC

MCEpochs == {e1, e2}
MCGenerations == {gA, gB, gC}
Symmetric == Permutations(MCGenerations) \cup Permutations(MCEpochs)
=============================================================================
