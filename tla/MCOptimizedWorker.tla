--------------------------- MODULE MCOptimizedWorker ---------------------------
(***************************************************************************)
(* OptimizedWorker with words of four bits and values of six: segments of  *)
(* one and two words (and sizes that are rejected), ranges that begin and  *)
(* end everywhere, and differences that stay in a word, reach exactly the  *)
(* next one, and go beyond it.                                             *)
(***************************************************************************)
EXTENDS OptimizedWorker

SomeParameters == {<<>>, <<4>>, <<12>>, <<8, 1>>, <<16, 1>>, <<8, 4>>, <<16, 3>>, <<8, 0>>,
                   <<16, 5>>, <<8, 2, 1>>}
SomeCaches == {-1, 8, 20}
CompiledTiles == {1, 2, 4}
SomeStarts == {0, 1, 2, 3, 5, 8, 13, 16, 23, 29, 40, 47, 48, 54}
SomeEnds == {1, 2, 3, 4, 7, 8, 9, 15, 16, 17, 24, 30, 31, 32, 40, 47, 48, 49, 53, 55}
SomeDifferenceSets == {{0}, {0, 2}, {2, 4, 6}, {0, 8}, {6, 14}, {0, 2, 4, 6, 8}}
=============================================================================
