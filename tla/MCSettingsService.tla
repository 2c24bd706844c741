------------------------- MODULE MCSettingsService -------------------------
(* Three generations of which the first two share a display layout, two     *)
(* transactions in an epoch and one attach under the other.                 *)
EXTENDS SettingsService, TLC

CONSTANTS e1, e2, gA, gB, gC, plain, wide

MCEpochs == {e1, e2}
MCGenerations == {gA, gB, gC}
MCLayouts == {plain, wide}
MCLayoutOf == [g \in Generations |-> IF g = gC THEN wide ELSE plain]
Symmetric == Permutations(MCEpochs) \cup Permutations({gA, gB})

(* Tickets only tell receipts apart, which MCAsyncJointProtocol explores to *)
(* the exhaustion of the counter; here there are more than any run needs.   *)
Ticketless ==
  <<[joint EXCEPT !.ticket = 0, !.pending = joint.pending # NoCommand],
    svc, native, touched, display, inputs, completed, ticked>>
=============================================================================
