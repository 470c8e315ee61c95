-------------------------------- MODULE Report --------------------------------
(***************************************************************************)
(* get_report_string on a complete journal: it adds up the records in the  *)
(* order of their ranges and writes a line for a report level whenever a   *)
(* range ends right after it.                                              *)
(*                                                                         *)
(* The journal holds one exact record for every range of RequiredRanges,   *)
(* which is what ResumableCount guarantees when a report is made.  Running *)
(* counts are shown as the set of positions whose pairs they contain.      *)
(***************************************************************************)
EXTENDS RequiredRanges

VARIABLES
  entry,    \* the records added up so far
  running,  \* running_counts: the positions counted
  index,    \* report_index: the levels reported so far
  lines,    \* the lines of the report: a level and the positions counted for it
  written   \* has the loop ended?

reportVars == <<entry, running, index, lines, written>>

\* Mutant: the level after the next one.
LevelAtLater(i, level) ==
  level \in levels /\ Cardinality({x \in levels : x < level}) = i + 1

\* report_levels[report_index]
LevelAt(i, level) == level \in levels /\ Cardinality({x \in levels : x < level}) = i

ReportInit ==
  /\ entry = 0
  /\ running = {}
  /\ index = 0
  /\ lines = {}
  /\ written = FALSE

\* One turn of the loop: add up a record, report the level it ends at if that
\* is the next to be reported, and stop after the last.
AddRecord ==
  /\ pc = "done"
  /\ ~written
  /\ entry < Len(result)
  /\ LET range == result[entry + 1]
         total == running \cup range[1] .. range[2] - 1
     IN  /\ running' = total
         /\ IF LevelAt(index, range[2] - 1)
            THEN /\ lines' = lines \cup {<<range[2] - 1, total>>}
                 /\ index' = index + 1
                 /\ written' = (index + 1 >= Cardinality(levels))
            ELSE UNCHANGED <<lines, index, written>>
  /\ entry' = entry + 1
  /\ UNCHANGED vars

\* Mutant: the end of the records is not seen.
RecordsEndLate ==
  /\ pc = "done"
  /\ ~written
  /\ entry > Len(result)
  /\ written' = TRUE
  /\ UNCHANGED <<vars, entry, running, index, lines>>

\* Every record has been added up.
RecordsEnd ==
  /\ pc = "done"
  /\ ~written
  /\ entry = Len(result)
  /\ written' = TRUE
  /\ UNCHANGED <<vars, entry, running, index, lines>>

CountInit == Init /\ ReportInit

CountNext ==
  \/ Next /\ UNCHANGED reportVars
  \/ AddRecord
  \/ RecordsEnd

CountSpec == CountInit /\ [][CountNext]_<<vars, reportVars>>

CountFairSpec == CountSpec /\ WF_<<vars, reportVars>>(CountNext)
-----------------------------------------------------------------------------
\* A line gives the counts from start up to its level, the level included, and
\* no level has two lines.
LinesExact ==
  /\ \A line \in lines : line[2] = start .. line[1]
  /\ \A k, m \in lines : k[1] = m[1] => k = m

Reported == {line[1] : line \in lines}

\* Unless a level lies before the first value counted, no level is left out.
EveryLevelReported ==
  written /\ (\A level \in levels : start <= level) => Reported = levels

\* Every command line is rejected or comes to a report: the loops over levels,
\* tasks and records end.
Terminates == <>(pc \in {"rejected", "thrown"} \/ written)

\* README.md, of the report file: "contains all counts for all differences at all
\* report levels".  The levels from start on have counts of this run.
AllLevelsReported ==
  written => {level \in levels : start <= level} \subseteq Reported

-----------------------------------------------------------------------------
(* The inductive invariant, beside that of RequiredRanges *)

\* Where the records added up so far end.
AddedTo == IF entry = 0 THEN start ELSE result[entry][2]

\* Nothing is added up before the ranges are known; then they are, one by one.
AddsInOrder ==
  /\ pc # "done" => entry = 0 /\ index = 0 /\ lines = {} /\ ~written
  /\ entry \in 0 .. Len(result) /\ index \in Nat
  /\ start <= AddedTo /\ running = start .. AddedTo - 1
  /\ \A line \in lines : line = <<line[1], start .. line[1]>>

\* Of levels that do not lie before start, those that have been passed are reported.
PassedAreReported ==
  (\A level \in levels : start <= level) =>
    /\ Reported = {level \in levels : level < AddedTo}
    /\ index = Cardinality(Reported)

ReportInv == AddsInOrder /\ PassedAreReported /\ LinesExact /\ EveryLevelReported
=============================================================================
