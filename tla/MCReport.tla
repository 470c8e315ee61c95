------------------------------- MODULE MCReport -------------------------------
(***************************************************************************)
(* RequiredRanges and Report with a value type of three bits: every start, *)
(* every list of report levels, and pools whose product fits, overflows or *)
(* is zero.                                                                *)
(***************************************************************************)
EXTENDS Report

SomeDifferences == {0, 2}
SomePools == {<<0, 1>>, <<1, 0>>, <<1, 1>>, <<1, 2>>, <<2, 1>>, <<2, 2>>, <<1, 5>>,
              <<7, 1>>, <<3, 2>>, <<2, 4>>, <<4, 4>>}
=============================================================================
