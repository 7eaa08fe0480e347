--------------------------- MODULE MCPlayerTable ----------------------------
(* PlayerTable with three players, three names and two processes. *)
EXTENDS PlayerTable, TLC

CONSTANTS s1, s2, i1, i2, i3, n1, n2, n3, v1, v2

MCServers == {s1, s2}
MCIds == {i1, i2, i3}
MCNames == {n1, n2, n3}
MCValues == {v1, v2}
MCSymmetry ==
  UNION {Permutations(MCServers), Permutations(MCIds),
         Permutations(MCNames), Permutations(MCValues)}
=============================================================================
