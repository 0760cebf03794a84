--------------------------- MODULE MCMissionTree ---------------------------
(* MissionTree on small plans; the cfg files choose the hazards. *)
EXTENDS MissionTree, TLC

CONSTANTS eng, des, mkt

\* Parts of inferDefaultEdges: engineering before design, design before marketing.
OneEdge == {<<eng, des>>}
Chain == {<<eng, des>>, <<des, mkt>>}
Join == {<<eng, mkt>>, <<des, mkt>>}

Pair == {{eng, des}}
Triple == {{eng, des, mkt}}
DirectOrPair == {{}, {eng, des}}
=============================================================================
