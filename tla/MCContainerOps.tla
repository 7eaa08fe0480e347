--------------------------- MODULE MCContainerOps ---------------------------
(***************************************************************************)
(* ContainerOps with two items and three slots.  A count of 5 is more than *)
(* two full stacks take, so stacks overflow, the bag fills up, and a stack *)
(* larger than its maximum is topped up, split and refused.  An add of 0   *)
(* splits such a stack too, and one of -2 leaves a stack of less than 0.   *)
(***************************************************************************)
EXTENDS ContainerOps, TLC

CONSTANTS potion, herb

MCItemIds == {potion, herb}
ItemSymmetry == Permutations(MCItemIds)

MCAddCounts == {-2, 0, 5}
MCRemoveCounts == {-1, 2}
=============================================================================
