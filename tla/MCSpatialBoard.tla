--------------------------- MODULE MCSpatialBoard ---------------------------
(* Three windows, three monitors, and one cell near the origin of each.     *)
EXTENDS SpatialBoard

MCWindows == 1 .. 3
MCBoards == 1 .. 3
MCNear == {<<0, 0>>}
MCFlows == {<<0, 1>>}
MCEdges == {<<-1, 0>>}
MCAside == {<<3, 0>>, <<0, 3>>}
=============================================================================
