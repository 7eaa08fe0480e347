---------------------------- MODULE MCRankCache ----------------------------
(* Instances of RankCache.  As text "player:10" comes before "player:9". *)
EXTENDS RankCache

CONSTANTS Level

MCPids == {9, 10}
MCMemberOrder == [p \in MCPids |-> IF p = 10 THEN 1 ELSE 2]
MCExps == 0 .. Level
MCEnds == -2 .. 1
=============================================================================
