--------------------------- MODULE MCBaselineWorker ---------------------------
(***************************************************************************)
(* BaselineWorker with values of six bits: ranges that begin at and near   *)
(* the prime 2 and that end before, at and after a gap between primes, and *)
(* differences shorter and longer than the gaps.                           *)
(***************************************************************************)
EXTENDS BaselineWorker

SomeStarts == {0, 2, 3, 4, 10, 23, 31}
SomeEnds == {1, 2, 3, 5, 11, 24, 29, 31, 37}
SomeDifferenceSets == {{0}, {2, 4}, {0, 6, 10}, {4, 14}}
=============================================================================
