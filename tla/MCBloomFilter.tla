--------------------------- MODULE MCBloomFilter ----------------------------
(* BloomFilter with tables of 6 bits in cells of 2 (so that 6, 4 and 2 are *)
(* the sizes a table can have) and keys of one or two hashes.              *)
EXTENDS BloomFilter, TLC

CONSTANTS server, a, b, id1, id2, vector

MCFilters == {server, a, b}
MCParameters == {"unset", "optimal", "other"}
MCTableSize == [par \in MCParameters |-> IF par = "unset" THEN 0 ELSE 6]
MCPids == {id1, id2}
MCKeys == {id1, id2, vector}
MCHashes == {3, 10, 11, 17}
MCHashesOf ==
  [par \in MCParameters |-> [k \in MCKeys |->
     CASE par = "unset" -> {}
       [] par = "other" -> {11}
       [] k = id1 -> {3, 10}
       [] k = id2 -> {17, 10}
       [] OTHER -> {11, 3}]]
MCSymmetry == Permutations({a, b})
=============================================================================
