--------------------------- MODULE MCCkFftContext ---------------------------
(* Instances of CkFftContext for TLC.                                       *)
EXTENDS CkFftContext, UnitCircle, TLC

CONSTANTS c1, c2, b1, b2

\* Valid and invalid values of maxCount
SomeMaxCounts == {-4, 3, 4}

\* In the runs where int overflows, INT_MAX is 127
OverflowMaxCounts == {4, 8, 16, 32}

SameBlocks == Permutations(Blocks)
=============================================================================
