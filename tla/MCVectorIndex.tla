---------------------------- MODULE MCVectorIndex ----------------------------
(* Two memories, each added and changed once, in batches of one; MCRecall  *)
(* has the assumptions on the recall that goes by the index.               *)
EXTENDS VectorIndex, MCRecall

CONSTANTS m1, m2

MCMemory == {m1, m2}
=============================================================================
