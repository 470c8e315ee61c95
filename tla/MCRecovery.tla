------------------------------ MODULE MCRecovery ------------------------------
(***************************************************************************)
(* A small instance of Recovery: prime_counts -l 99,999 -t 1 -k 1, with    *)
(* the counts there really are.  The last count has one digit in the first *)
(* range and two in the second.                                            *)
(***************************************************************************)
EXTENDS Recovery, TLC

TwoRanges == {<<0, 100>>, <<100, 1000>>}
TwinsToo == <<0, 2>>

SomeStops == (<<0, 100>> :> {0, 50, 100}) @@ (<<100, 1000>> :> {100, 500, 1000})

Counts ==
  (<<0, 100>> :> (0 :> <<0, 0>> @@ 50 :> <<15, 6>> @@ 100 :> <<25, 8>>))
    @@ (<<100, 1000>> :> (100 :> <<0, 0>> @@ 500 :> <<70, 16>> @@ 1000 :> <<143, 27>>))

TrueCounts(r, pos) == Counts[r][pos]

\* 0.25, or 5e-05.
SomeLeading == {0, 5}

\* The first range takes no time at all, the second one part of a second.
SomeTime(r) == IF r[1] = 0 THEN 0 ELSE Decimal
=============================================================================
