---------------------------- MODULE MCLfsSegUsage ----------------------------
(* Segments of two blocks of two bytes, dirty levels of one and two bytes *)
(* (below a full segment), up to two segments per cleaning pass.          *)
(* Three segments; crashes restore the checkpoint of a freshly made file  *)
(* system (see FreshDisk).                                                *)
EXTENDS LfsSegUsage

MCNumSegments == 3
MCSegmentSize == 4
MCBlockSize == 2
MCDirtyLevels == {1, 2}
MCMaxSegsToClean == 2

\* freeBlocks drifts with every reuse of a segment (see
\* CleanCreditsFreeBlocks); the bound cuts the drift off.
MinFreeBlocks == -2

StateConstraint == usage.cp.freeBlocks >= MinFreeBlocks

\* With three segments, a checkpoint of any state squares the state space;
\* states whose checkpoint is not the one made at format time are left
\* unexplored (Checkpoint still runs from every state).
FreshDisk == disk \in {Fresh(d) : d \in DirtyLevels}
=============================================================================
