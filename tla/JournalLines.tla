----------------------------- MODULE JournalLines -----------------------------
(***************************************************************************)
(* The lines of the journal: what append_completion_record writes, and     *)
(* what load_journal_entries makes of a line, whatever is in it.           *)
(***************************************************************************)
EXTENDS Fields

CONSTANT Required  \* what get_required_ranges delivers

\* No two required ranges overlap.
ASSUME RequiredAssumption ==
  /\ Required \subseteq {r \in (0 .. MaxValue) \X (0 .. MaxValue) : r[1] < r[2]}
  /\ \A q, r \in Required : q # r => q[2] <= r[1] \/ r[2] <= q[1]

\* Mutant: the counts come first.
RecordCountsFirst(r, time, counts) == counts \o <<r[1], r[2], time>>

\* The line of a finished range.
Record(r, time, counts) == <<r[1], r[2], time>> \o counts

\* Mutant: the number of counts does not matter.
OutcomeUncounted(line) ==
  LET f == FieldsOf(line)
  IN  IF \E i \in DOMAIN f : IF i = 3 THEN f[i] = OutOfRange ELSE ~IsValue(f[i]) THEN "throws"
      ELSE IF Len(f) >= 3 /\ <<f[1], f[2]>> \in Required THEN "accepted"
      ELSE "skipped"

\* start and end are parsed first; a range that is not required is skipped before
\* its counts are looked at.  std::stod takes any CPU time that is within a double.
Outcome(line) ==
  LET f == FieldsOf(line)
  IN  IF \E i \in DOMAIN f : i <= 2 /\ ~IsValue(f[i]) THEN "throws"
      ELSE IF Len(f) < 3 \/ <<f[1], f[2]>> \notin Required THEN "skipped"
      ELSE IF f[3] = OutOfRange \/ \E i \in DOMAIN f : i > 3 /\ ~IsValue(f[i]) THEN "throws"
      ELSE IF Len(f) - 3 # Len(Differences) THEN "skipped"
      ELSE "accepted"

RangeOf(line) == <<line[1], line[2]>>
CountsOf(line) == SubSeq(line, 4, Len(line))
=============================================================================
