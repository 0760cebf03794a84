--------------------------- MODULE MCCoordination ---------------------------
(* An escalation and an ordinary context, or a congested queue, whose objective *)
(* names its depth.                                                             *)
EXTENDS CoordinationLatch

CONSTANTS esc, stalled, congested

MCObjectives == [k \in Keys |-> IF k = congested THEN {1, 2} ELSE {1}]
=============================================================================
