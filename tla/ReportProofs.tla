----------------------------- MODULE ReportProofs -----------------------------
(***************************************************************************)
(* Proofs about Report: for every value type, start and set of report      *)
(* levels, a line of the report has the counts up to its level, and no     *)
(* level from start on is left out.  They rest on the theorems about the   *)
(* ranges: no gap between them, and none of them across a level.           *)
(***************************************************************************)
EXTENDS Report, RequiredRangesProofs, FiniteSetTheorems

allVars == <<vars, reportVars>>

\* The report leaves the ranges as get_required_ranges has made them.
LEMMA ReportsOnRanges == CountSpec => Spec
<1>1. CountInit => Init
  BY DEF CountInit
<1>2. [CountNext]_allVars => [Next]_vars
  BY DEF CountNext, AddRecord, RecordsEnd, allVars, vars, args
<1> QED
  BY <1>1, <1>2, PTL DEF CountSpec, Spec, allVars

LEMMA RangesInvariant == CountSpec => []IInv
BY ReportsOnRanges, Invariance, PTL

-----------------------------------------------------------------------------
(* Levels *)

LEMMA LevelsAreFinite ==
  ASSUME TypeOK
  PROVE  /\ levels \in SUBSET Int /\ start \in Int
         /\ \A S \in SUBSET levels : IsFiniteSet(S) /\ Cardinality(S) \in Nat
         /\ Cardinality(levels) \in Nat
<1>1. levels \subseteq 0 .. MaxValue /\ start \in 0 .. MaxValue
  BY DEF TypeOK, Values
<1>2. IsFiniteSet(0 .. MaxValue) /\ MaxValue \in Int
  BY MaxAssumption, FS_Interval
<1>3. \A S \in SUBSET levels : IsFiniteSet(S)
  BY <1>1, <1>2, FS_Subset
<1>4. \A S \in SUBSET levels : Cardinality(S) \in Nat
  BY <1>3, FS_CardinalityType
<1> QED
  BY <1>1, <1>3, <1>4, MaxAssumption

\* The next record begins where the ones before it end, and has no level but,
\* maybe, its last value.
LEMMA NextRecord ==
  ASSUME IInv, AddsInOrder, entry < Len(result)
  PROVE  /\ result[entry + 1] \in Values \X Values
         /\ result[entry + 1][1] = AddedTo /\ AddedTo \in Int
         /\ AddedTo < result[entry + 1][2] /\ result[entry + 1][2] \in Int
         /\ start <= result[entry + 1][2] - 1 /\ start \in Int
         /\ \A level \in levels :
              level < result[entry + 1][2]
                <=> level < AddedTo \/ level = result[entry + 1][2] - 1
<1> DEFINE range == result[entry + 1]
<1>1. result \in Seq(Values \X Values) /\ Len(result) \in Nat /\ entry \in Nat
      /\ DOMAIN result = 1 .. Len(result)
  BY DEF IInv, TypeOK, AddsInOrder
<1>2. entry + 1 \in 1 .. Len(result) /\ entry + 1 \in DOMAIN result
  BY <1>1
<1>3. range \in Values \X Values
  BY <1>1, <1>2
<1>4. range[1] = AddedTo
  <2>1. CASE entry = 0
    <3>1. result # <<>>
      BY <1>1, <1>2
    <3> QED
      BY <2>1, <3>1 DEF IInv, Contiguous, AddedTo
  <2>2. CASE entry # 0
    <3>1. entry \in 1 .. Len(result) - 1
      BY <1>1, <2>2
    <3> QED
      BY <2>2, <3>1 DEF IInv, Contiguous, AddedTo
  <2> QED
    BY <2>1, <2>2
<1>5. range[1] < range[2]
  BY <1>2 DEF IInv, NoEmptyRange
<1>6. \A level \in levels : ~(range[1] <= level /\ level + 1 < range[2])
  BY <1>2 DEF IInv, LevelsRespected
<1>7. range[1] \in Int /\ range[2] \in Int /\ start \in Int
  BY <1>3, MaxAssumption DEF Values, IInv, TypeOK
<1>8. levels \in SUBSET Int
  BY LevelsAreFinite DEF IInv
<1> HIDE DEF range
<1>9. \A level \in levels : level < range[2] <=> level < range[1] \/ level = range[2] - 1
  <2> SUFFICES ASSUME NEW level \in levels
               PROVE  level < range[2] <=> level < range[1] \/ level = range[2] - 1
    OBVIOUS
  <2>1. level \in Int /\ ~(range[1] <= level /\ level + 1 < range[2])
    BY <1>6, <1>8
  <2> QED
    BY <1>5, <1>7, <2>1
<1>10. start <= range[2] - 1
  BY <1>4, <1>5, <1>7 DEF AddsInOrder
<1> QED
  BY <1>3, <1>4, <1>5, <1>7, <1>9, <1>10 DEF range

-----------------------------------------------------------------------------
(* The invariant *)

LEMMA ReportInvInit ==
  ASSUME CountInit, IInv
  PROVE  ReportInv
<1>1. /\ pc = "args" /\ entry = 0 /\ running = {} /\ index = 0 /\ lines = {}
      /\ written = FALSE /\ result = <<>>
  BY DEF CountInit, Init, ReportInit
<1>2. start \in Int /\ levels \in SUBSET Int
  BY LevelsAreFinite DEF IInv
<1>3. AddedTo = start /\ start .. start - 1 = {}
  BY <1>1, <1>2 DEF AddedTo
<1>4. AddsInOrder
  <2>1. entry \in 0 .. Len(result)
    BY <1>1
  <2>2. running = start .. AddedTo - 1 /\ start <= AddedTo
    BY <1>1, <1>2, <1>3
  <2> QED
    BY <1>1, <2>1, <2>2 DEF AddsInOrder
<1>5. Reported = {} /\ Cardinality({}) = 0
  BY <1>1, FS_EmptySet DEF Reported
<1>6. (\A level \in levels : start <= level) => {level \in levels : level < AddedTo} = {}
  <2> SUFFICES ASSUME NEW level \in levels, start <= level
               PROVE  ~(level < start)
    BY <1>3
  <2>1. level \in Int
    BY <1>2
  <2> QED
    BY <1>2, <2>1
<1> QED
  BY <1>1, <1>4, <1>5, <1>6 DEF ReportInv, PassedAreReported, LinesExact, EveryLevelReported

\* While the ranges are made there is no report.
LEMMA ReportInvRanges ==
  ASSUME ReportInv, Next, UNCHANGED reportVars, IInv, IInv'
  PROVE  ReportInv'
<1>1. UNCHANGED <<start, levels, entry, running, index, lines, written>>
  BY DEF Next, ParseArgs, Begin, Cut, NextLevel, Return, args, reportVars
<1>2. pc # "done"
  BY DEF Next, ParseArgs, Begin, Cut, NextLevel, Return
<1>3. entry = 0 /\ index = 0 /\ lines = {} /\ ~written
  BY <1>2 DEF ReportInv, AddsInOrder
<1>4. AddedTo' = AddedTo /\ AddedTo = start
  BY <1>1, <1>3 DEF AddedTo
<1>5. Len(result') \in Nat
  BY DEF IInv, TypeOK
<1>6. AddsInOrder'
  BY <1>1, <1>3, <1>4, <1>5 DEF ReportInv, AddsInOrder
<1>7. PassedAreReported'
  BY <1>1, <1>4 DEF ReportInv, PassedAreReported, Reported
<1> QED
  BY <1>1, <1>3, <1>6, <1>7 DEF ReportInv, LinesExact, EveryLevelReported

LEMMA ReportInvRecord ==
  ASSUME ReportInv, AddRecord, IInv
  PROVE  ReportInv'
<1> DEFINE range == result[entry + 1]
           last == range[2] - 1
           total == running \cup range[1] .. range[2] - 1
           passed(bound) == {level \in levels : level < bound}
<1>1. /\ UNCHANGED <<start, levels, pc, result>>
      /\ pc = "done" /\ ~written /\ entry < Len(result) /\ entry' = entry + 1
      /\ running' = total
      /\ LevelAt(index, last) => /\ lines' = lines \cup {<<last, total>>}
                                 /\ index' = index + 1
                                 /\ written' = (index + 1 >= Cardinality(levels))
      /\ ~LevelAt(index, last) => UNCHANGED <<lines, index, written>>
  BY DEF AddRecord, vars, args
<1>2. /\ range[1] = AddedTo /\ AddedTo \in Int /\ AddedTo < range[2] /\ range[2] \in Int
      /\ start <= last /\ start \in Int
      /\ \A level \in levels : level < range[2] <=> level < AddedTo \/ level = last
  BY <1>1, NextRecord DEF ReportInv
<1>3. /\ entry \in Nat /\ Len(result) \in Nat /\ index \in Nat /\ start <= AddedTo
      /\ running = start .. AddedTo - 1
  BY DEF ReportInv, AddsInOrder, IInv, TypeOK
<1>4. AddedTo' = range[2]
  BY <1>1, <1>3 DEF AddedTo
<1>5. total = start .. last
  BY <1>2, <1>3
<1>6. /\ levels \in SUBSET Int /\ Cardinality(levels) \in Nat
      /\ \A S \in SUBSET levels : IsFiniteSet(S) /\ Cardinality(S) \in Nat
  BY LevelsAreFinite DEF IInv
<1> HIDE DEF range, total
<1>7. last \in Int
  BY <1>2
<1>8. AddsInOrder'
  <2>1. \A line \in lines' : line = <<line[1], start .. line[1]>>
    BY <1>1, <1>5 DEF ReportInv, AddsInOrder
  <2>2. entry' \in 0 .. Len(result') /\ index' \in Nat
    BY <1>1, <1>3
  <2>3. start' <= AddedTo' /\ running' = start' .. AddedTo' - 1
    BY <1>1, <1>2, <1>3, <1>4, <1>5
  <2> QED
    BY <1>1, <2>1, <2>2, <2>3 DEF AddsInOrder
<1>9. LinesExact'
  <2>1. \A line \in lines' : line = <<line[1], start .. line[1]>>
    BY <1>1, <1>8 DEF AddsInOrder
  <2> QED
    BY <1>1, <2>1 DEF LinesExact
<1>10. ASSUME \A level \in levels : start <= level
       PROVE  /\ Reported' = passed(range[2])
              /\ index' = Cardinality(passed(range[2]))
              /\ written' => Reported' = levels
  <2>1. Reported = passed(AddedTo) /\ index = Cardinality(passed(AddedTo))
    BY <1>10 DEF ReportInv, PassedAreReported
  <2>2. \A level \in levels : level \in Int
    BY <1>6
  <2>3. {x \in levels : x < last} = passed(AddedTo)
    <3> SUFFICES ASSUME NEW x \in levels
                 PROVE  x < last <=> x < AddedTo
      OBVIOUS
    <3>1. x \in Int /\ (x < range[2] <=> x < AddedTo \/ x = last)
      BY <1>2, <2>2
    <3> QED
      BY <1>2, <3>1
  <2>4. LevelAt(index, last) <=> last \in levels
    BY <2>1, <2>3 DEF LevelAt
  <2>5. CASE last \in levels
    <3>1. passed(range[2]) = passed(AddedTo) \cup {last}
      BY <1>2, <2>5
    <3>2. last \notin passed(AddedTo)
      BY <1>2, <1>7
    <3>3. Reported' = Reported \cup {last}
      <4>1. lines' = lines \cup {<<last, total>>}
        BY <1>1, <2>4, <2>5
      <4>2. <<last, total>>[1] = last
        OBVIOUS
      <4>3. \A x : x \in Reported' <=> x \in Reported \/ x = <<last, total>>[1]
        BY <4>1 DEF Reported
      <4> QED
        BY <4>2, <4>3
    <3>4. passed(AddedTo) \in SUBSET levels /\ passed(range[2]) \in SUBSET levels
      OBVIOUS
    <3> HIDE DEF passed
    <3>5. Cardinality(passed(range[2])) = Cardinality(passed(AddedTo)) + 1
      BY <1>6, <3>1, <3>2, <3>4, FS_AddElement
    <3>6. index' = Cardinality(passed(range[2]))
      BY <1>1, <2>1, <2>4, <2>5, <3>5
    <3>7. Reported' = passed(range[2])
      BY <2>1, <3>1, <3>3
    <3>8. written' => passed(range[2]) = levels
      <4>1. written' => Cardinality(passed(range[2])) >= Cardinality(levels)
        BY <1>1, <2>1, <2>4, <2>5, <3>5
      <4>2. IsFiniteSet(levels)
        BY <1>6
      <4>3. /\ Cardinality(passed(range[2])) <= Cardinality(levels)
            /\ Cardinality(levels) = Cardinality(passed(range[2]))
                 => levels = passed(range[2])
        BY <3>4, <4>2, FS_Subset
      <4> QED
        BY <1>6, <3>4, <4>1, <4>3
    <3> QED
      BY <3>6, <3>7, <3>8
  <2>6. CASE last \notin levels
    <3>1. passed(range[2]) = passed(AddedTo)
      BY <1>2, <2>6
    <3>2. UNCHANGED <<lines, index, written>>
      BY <1>1, <2>4, <2>6
    <3> QED
      BY <1>1, <2>1, <3>1, <3>2 DEF Reported
  <2> QED
    BY <2>5, <2>6
<1>11. PassedAreReported' /\ EveryLevelReported'
  BY <1>1, <1>4, <1>10 DEF PassedAreReported, EveryLevelReported, Reported
<1> QED
  BY <1>8, <1>9, <1>11 DEF ReportInv

\* When the records end, the last level has been passed.
LEMMA ReportInvEnd ==
  ASSUME ReportInv, RecordsEnd, IInv
  PROVE  ReportInv'
<1>1. /\ UNCHANGED <<start, levels, pc, result, entry, running, index, lines>>
      /\ pc = "done" /\ entry = Len(result) /\ written' = TRUE
  BY DEF RecordsEnd, vars, args
<1>2. AddedTo' = AddedTo /\ Reported' = Reported
  BY <1>1 DEF AddedTo, Reported
<1>3. AddsInOrder' /\ LinesExact' /\ PassedAreReported'
  BY <1>1, <1>2 DEF ReportInv, AddsInOrder, LinesExact, PassedAreReported
<1>4. AddedTo = current
  <2>1. result \in Seq(Values \X Values)
    BY DEF IInv, TypeOK
  <2>2. CASE result = <<>>
    BY <1>1, <2>2 DEF AddedTo, IInv, InLoop
  <2>3. CASE result # <<>>
    BY <1>1, <2>1, <2>3 DEF AddedTo, IInv, Contiguous
  <2> QED
    BY <2>2, <2>3
<1>5. \A level \in levels : level < current
  BY <1>1 DEF IInv, InLoop
<1>6. EveryLevelReported'
  BY <1>1, <1>2, <1>4, <1>5 DEF EveryLevelReported, ReportInv, PassedAreReported
<1> QED
  BY <1>3, <1>6 DEF ReportInv

LEMMA ReportInvStep ==
  ASSUME ReportInv, [CountNext]_allVars, IInv, IInv'
  PROVE  ReportInv'
<1>1. CASE Next /\ UNCHANGED reportVars
  BY <1>1, ReportInvRanges
<1>2. CASE AddRecord
  BY <1>2, ReportInvRecord
<1>3. CASE RecordsEnd
  BY <1>3, ReportInvEnd
<1>4. CASE UNCHANGED allVars
  BY <1>4 DEF ReportInv, AddsInOrder, PassedAreReported, LinesExact, EveryLevelReported,
              AddedTo, Reported, allVars, vars, args, reportVars
<1> QED
  BY <1>1, <1>2, <1>3, <1>4 DEF CountNext

-----------------------------------------------------------------------------
(* Theorems *)

\* The inductive invariant: the records are added up in order, and the levels that
\* have been passed are those that are reported.
THEOREM ReportInvariance == CountSpec => []ReportInv
<1>1. CountInit /\ IInv => ReportInv
  BY ReportInvInit
<1>2. ReportInv /\ [CountNext]_allVars /\ IInv /\ IInv' => ReportInv'
  BY ReportInvStep
<1> QED
  BY <1>1, <1>2, RangesInvariant, PTL DEF CountSpec, allVars

\* Every line has the counts of all values from start up to its level, and there
\* is one line of a level at most.
THEOREM LinesAreExact == CountSpec => []LinesExact
<1>1. ReportInv => LinesExact
  BY DEF ReportInv
<1> QED
  BY <1>1, ReportInvariance, PTL

\* A report leaves out no level, unless one lies before the first value counted.
THEOREM LevelsAreReported == CountSpec => []EveryLevelReported
<1>1. ReportInv => EveryLevelReported
  BY DEF ReportInv
<1> QED
  BY <1>1, ReportInvariance, PTL
=============================================================================
