---------------------------- MODULE MCGameServer ----------------------------
(***************************************************************************)
(* GameServer with two players, two items and bags of two slots.  p1 has a *)
(* row with a stack above its maximum, a sword and some experience, and is *)
(* the player of the default id; p2 has an empty row or none.  A stack of  *)
(* 2 has a quote among its bytes, a stack of one potion a backslash, and   *)
(* is read back as another.  A count of -3 leaves a stack of less than     *)
(* nothing, or a negative one.                                             *)
(***************************************************************************)
EXTENDS GameServer

CONSTANTS p1, p2, potion, sword

MCPids == {p1, p2}

RowOfP1 ==
  [rank |-> 1, exp |-> 7,
   bag |-> <<[id |-> potion, count |-> 4]>>,
   equip |-> <<[id |-> sword, count |-> 1]>>,
   cur |-> <<>>]
EmptyRow == [rank |-> 0, exp |-> 0, bag |-> <<>>, equip |-> <<>>, cur |-> <<>>]

MCInitialRows ==
  {[p \in MCPids |-> IF p = p1 THEN RowOfP1 ELSE row] : row \in {EmptyRow, NoRow}}

\* The memory a PlayerInfoComponent is made in may hold anything.
MCUninitialised == [pid : {p2, Nobody}, rank : {9}, exp : {9}]

MCAddCounts == {2, -3}
MCRemoveCounts == {3}
MCQuoted == [id : ItemIds, count : {2}]
MCSlashed == {[id |-> potion, count |-> 1]}
MCGarbled == [s \in MCSlashed |-> [id |-> s.id, count |-> 3]]
=============================================================================
