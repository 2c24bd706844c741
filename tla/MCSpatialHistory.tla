-------------------------- MODULE MCSpatialHistory --------------------------
(* Two addresses, one launch, one request.                                *)
EXTENDS SpatialHistory, TLC

CONSTANTS launch, request, left, right

MCWindows == 1 .. 2
MCSpots == {left, right}
MCGroups == {launch}
MCRequests == {request}

Symmetry == Permutations(MCSpots)
=============================================================================
