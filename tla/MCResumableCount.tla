--------------------------- MODULE MCResumableCount ---------------------------
(***************************************************************************)
(* Small instances of ResumableCount: the ranges get_required_ranges       *)
(* gives for -l 7 and for -l 5,7, both with -t 2 -k 1, and segments of two *)
(* values; and, for counts without a journal, those of -l 1,7 -t 1 -k 1,   *)
(* the first of which is finished as soon as its worker is constructed.    *)
(***************************************************************************)
EXTENDS ResumableCount

CONSTANTS t1, t2  \* threads

PlanA == {<<0, 4>>, <<4, 8>>}
PlanB == {<<0, 4>>, <<4, 6>>, <<6, 8>>}

PlanC == {<<0, 2>>, <<2, 8>>}

TwoThreads == {t1, t2}
OnePlan == {PlanA}
TwoPlans == {PlanA, PlanB}
OnePlanEach == {PlanA, PlanC}
NoPlan == {}
OnlyC == {PlanC}

AllFaults == {"sigint", "crash", "journal", "workfile"}
OnlySigint == {"sigint"}
OnlyCrash == {"crash"}
OnlyWorkfile == {"workfile"}
EverySave == {TRUE}
BothModes == {TRUE, FALSE}
=============================================================================
