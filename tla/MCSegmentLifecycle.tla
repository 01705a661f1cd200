------------------------- MODULE MCSegmentLifecycle -------------------------
(***************************************************************************)
(* An instance of SegmentLifecycle for TLC: two builds that differ in the   *)
(* size and in the version of the segment.                                  *)
(***************************************************************************)
EXTENDS SegmentLifecycle, TLC

MCSize == [b \in Build |-> IF b = "v2" THEN 2 ELSE 1]
MCVersion == [b \in Build |-> IF b = "v2" THEN 2 ELSE 1]

(* What objects nobody refers to any more once held is of no interest.      *)
MCView ==
    <<name, processVars, steady,
      {<<o, size[o], version[o], creators[o]>> : o \in {x \in Object : InUse(x)}}>>

MCSymmetry == Permutations(Process) \cup Permutations(Object)
=============================================================================
