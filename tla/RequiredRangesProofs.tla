------------------------- MODULE RequiredRangesProofs -------------------------
(***************************************************************************)
(* Proofs about RequiredRanges, for every width of the value type and all  *)
(* arguments: the ranges of an accepted command line cover the values from *)
(* start to the last report level without gap or overlap, and none reaches *)
(* across a report level.                                                  *)
(***************************************************************************)
EXTENDS RequiredRanges, TLAPS

\* Unsigned arithmetic is ordinary arithmetic within the values.
LEMMA WrapInside ==
  ASSUME NEW x \in Values
  PROVE  Wrap(x) = x
BY MaxAssumption DEF Wrap, Values

LEMMA WrapType ==
  ASSUME NEW x \in Int
  PROVE  Wrap(x) \in Values
BY MaxAssumption DEF Wrap, Values

\* A share of a length is not longer than the length.
LEMMA ShareFacts ==
  ASSUME NEW a \in Nat, NEW b \in Nat \ {0}
  PROVE  a \div b \in 0 .. a
OBVIOUS

LEMMA GreatestUnique ==
  ASSUME NEW S \in SUBSET Int, NEW x, NEW y, IsGreatest(S, x), IsGreatest(S, y)
  PROVE  x = y
BY DEF IsGreatest

\* What pushing a range back does to the ranges.
LEMMA PushFacts ==
  ASSUME TypeOK, NEW r \in Values \X Values, result' = Append(result, r)
  PROVE  /\ Len(result) \in Nat /\ DOMAIN result = 1 .. Len(result)
         /\ result' \in Seq(Values \X Values)
         /\ Len(result') = Len(result) + 1
         /\ DOMAIN result' = 1 .. Len(result) + 1
         /\ \A i \in 1 .. Len(result) : result'[i] = result[i]
         /\ result'[Len(result) + 1] = r
BY DEF TypeOK

LEMMA InvInit == Init => IInv
<1> SUFFICES ASSUME Init PROVE IInv
  OBVIOUS
<1>1. result = <<>> /\ result \in Seq(Values \X Values)
  BY DEF Init
<1>2. TypeOK
  BY <1>1, MaxAssumption DEF Init, TypeOK, Values
<1>3. BeforeLoop /\ InLoop
  BY DEF Init, BeforeLoop, InLoop
<1>4. NoEmptyRange /\ Contiguous /\ LevelsRespected /\ EqualShares
  BY <1>1 DEF NoEmptyRange, Contiguous, LevelsRespected, EqualShares
<1> QED
  BY <1>2, <1>3, <1>4 DEF IInv

\* The arguments are checked before anything is cut.
LEMMA InvParse ==
  ASSUME IInv, ParseArgs
  PROVE  IInv'
<1>1. UNCHANGED <<start, levels, difference, pool, taskSize, current, pending, result>>
  BY DEF ParseArgs, args
<1>2. pc = "args" /\ pc' \in {"begin", "rejected"} /\ (pc' = "begin" => ValidArgs)
  BY DEF ParseArgs
<1>3. ValidArgs' = ValidArgs
  BY <1>1 DEF ValidArgs
<1>4. TypeOK'
  BY <1>1, <1>2 DEF IInv, TypeOK
<1>5. BeforeLoop' /\ InLoop'
  BY <1>1, <1>2, <1>3 DEF IInv, BeforeLoop, InLoop
<1>6. NoEmptyRange' /\ Contiguous' /\ LevelsRespected' /\ EqualShares'
  BY <1>1, <1>2 DEF IInv, BeforeLoop, NoEmptyRange, Contiguous, LevelsRespected,
                    EqualShares
<1> QED
  BY <1>4, <1>5, <1>6 DEF IInv

\* The size of a task is positive and fits the value type.
LEMMA InvBegin ==
  ASSUME IInv, Begin
  PROVE  IInv'
<1> DEFINE totalTasks == Wrap(pool[1] * pool[2])
<1>1. UNCHANGED <<start, levels, difference, pool, result>> /\ result = <<>>
  BY DEF Begin, args, IInv, BeforeLoop
<1>2. NoEmptyRange' /\ LevelsRespected' /\ EqualShares'
  BY <1>1 DEF NoEmptyRange, LevelsRespected, EqualShares
<1>3. Contiguous'
  BY <1>1 DEF Contiguous
<1>4. CASE totalTasks = 0
  <2>1. pc' = "thrown" /\ UNCHANGED <<taskSize, current, pending>>
    BY <1>4 DEF Begin
  <2>2. TypeOK'
    BY <1>1, <2>1 DEF IInv, TypeOK
  <2>3. BeforeLoop' /\ InLoop'
    BY <1>1, <2>1 DEF BeforeLoop, InLoop
  <2> QED
    BY <1>2, <1>3, <2>2, <2>3 DEF IInv
<1>5. CASE totalTasks # 0
  <2>1. pc = "begin" /\ pc' = "loop" /\ current' = start /\ pending' = levels
    BY <1>5 DEF Begin
  <2>2. PICK last \in levels :
          IsGreatest(levels, last)
          /\ taskSize' = Wrap(1 + Wrap(last - start) \div totalTasks)
    BY <1>5 DEF Begin
  <2>3. /\ levels \subseteq Values /\ levels \subseteq Int
        /\ start \in Values /\ last \in Values
    BY DEF IInv, TypeOK, Values
  <2>4. last < MaxValue /\ start <= last
    BY <2>1, <2>2, <2>3, GreatestUnique DEF IInv, BeforeLoop, ValidArgs
  <2>5. last - start \in Values
    BY <2>3, <2>4, MaxAssumption DEF Values
  <2>6. Wrap(last - start) = last - start
    BY <2>5, WrapInside
  <2>7. totalTasks \in Nat \ {0}
    <3>1. pool[1] \in Nat /\ pool[2] \in Nat
      BY InputAssumption DEF IInv, TypeOK
    <3>2. pool[1] * pool[2] \in Int
      BY <3>1
    <3>3. totalTasks \in Values
      BY <3>2, WrapType
    <3> QED
      BY <1>5, <3>3, MaxAssumption DEF Values
  <2> HIDE DEF totalTasks
  <2>8. (last - start) \div totalTasks \in 0 .. last - start
    <3>1. last - start \in Nat
      BY <2>5 DEF Values
    <3> QED
      BY <2>7, <3>1, ShareFacts
  <2>9. taskSize' \in Values /\ taskSize' >= 1
    <3>1. 1 + (last - start) \div totalTasks \in Values
      BY <2>3, <2>4, <2>8, MaxAssumption DEF Values
    <3>2. taskSize' = 1 + (last - start) \div totalTasks
      BY <2>2, <2>6, <3>1, WrapInside
    <3> QED
      BY <2>5, <2>8, <3>1, <3>2 DEF Values
  <2>10. TypeOK'
    BY <1>1, <2>1, <2>3, <2>9 DEF IInv, TypeOK
  <2>11. BeforeLoop'
    BY <2>1 DEF BeforeLoop
  <2>12. InLoop'
    <3>1. \A level \in levels : start <= level => start <= level + 1
      BY <2>3 DEF Values
    <3>2. start <= start /\ start <= last + 1
      BY <2>3, <2>4 DEF Values
    <3> QED
      BY <1>1, <2>1, <2>2, <2>4, <2>9, <3>1, <3>2 DEF InLoop, IsGreatest
  <2> QED
    BY <1>2, <1>3, <2>10, <2>11, <2>12 DEF IInv
<1> QED
  BY <1>4, <1>5

\* The clamped limit, without the wrapping: the end of a full task or the value
\* after the level, whichever comes first.
LEMMA LimitFacts ==
  ASSUME IInv, pc = "loop", NEW level \in levels, level < MaxValue, current <= level,
         NEW limit, limit = Clamp(SoftLimit, 1, Wrap(level + 1))
  PROVE  /\ limit \in Values
         /\ current < limit /\ limit <= level + 1
         /\ limit - current = taskSize \/ (limit = level + 1 /\ limit - current < taskSize)
<1>1. /\ current \in Values /\ taskSize \in Values /\ level \in Values
      /\ taskSize >= 1
  BY DEF IInv, TypeOK, InLoop
<1>2. Wrap(level + 1) = level + 1
  BY <1>1, WrapInside, MaxAssumption DEF Values
<1>3. Wrap(MaxValue - taskSize) = MaxValue - taskSize
  BY <1>1, WrapInside, MaxAssumption DEF Values
<1>4. CASE MaxValue - taskSize > current
  <2>1. Wrap(current + taskSize) = current + taskSize
    BY <1>1, <1>4, WrapInside, MaxAssumption DEF Values
  <2>2. SoftLimit = current + taskSize
    BY <1>3, <1>4, <2>1 DEF SoftLimit
  <2> QED
    BY <1>1, <1>2, <1>4, <2>2, MaxAssumption DEF Clamp, Values
<1>5. CASE ~(MaxValue - taskSize > current)
  <2>1. SoftLimit = MaxValue
    BY <1>3, <1>5 DEF SoftLimit
  <2> QED
    BY <1>1, <1>2, <1>5, <2>1, MaxAssumption DEF Clamp, Values
<1> QED
  BY <1>4, <1>5

\* A range that is cut begins where the one before it ended, and ends at the
\* latest right after the first level that is left.
LEMMA InvCut ==
  ASSUME IInv, Cut
  PROVE  IInv'
<1>1. PICK level \in pending :
        /\ IsLeast(pending, level) /\ current <= level
        /\ LET limit == Clamp(SoftLimit, 1, Wrap(level + 1))
           IN  /\ result' = Append(result, <<current, limit>>)
               /\ current' = limit
  BY DEF Cut
<1> DEFINE limit == Clamp(SoftLimit, 1, Wrap(level + 1))
<1>2. result' = Append(result, <<current, limit>>) /\ current' = limit
  BY <1>1
<1>3. /\ pc = "loop" /\ UNCHANGED <<start, levels, difference, pool, pc, taskSize, pending>>
  BY DEF Cut, args
<1>4. PICK last \in levels :
      /\ IsGreatest(levels, last) /\ last < MaxValue
      /\ start <= last /\ start <= current /\ current <= last + 1
      /\ taskSize >= 1
      /\ \A l \in levels \ pending : l < current
      /\ \A l \in pending : start <= l => current <= l + 1
      /\ result = <<>> => current = start
  BY <1>3 DEF IInv, InLoop
<1>5. /\ pending \subseteq levels /\ levels \subseteq Values /\ levels \subseteq Int
      /\ level \in levels /\ start \in Values /\ current \in Values /\ taskSize \in Values
  BY DEF IInv, TypeOK, Values
<1>6. level <= last /\ level < MaxValue
  BY <1>4, <1>5, MaxAssumption DEF IsGreatest, Values
<1>7. /\ limit \in Values
      /\ current < limit /\ limit <= level + 1
      /\ limit - current = taskSize \/ (limit = level + 1 /\ limit - current < taskSize)
  BY <1>1, <1>3, <1>5, <1>6, LimitFacts
<1> HIDE DEF limit
<1>8. /\ Len(result) \in Nat /\ DOMAIN result = 1 .. Len(result)
      /\ result' \in Seq(Values \X Values)
      /\ Len(result') = Len(result) + 1
      /\ DOMAIN result' = 1 .. Len(result) + 1
      /\ \A i \in 1 .. Len(result) : result'[i] = result[i]
      /\ result'[Len(result) + 1] = <<current, limit>>
  <2>1. <<current, limit>> \in Values \X Values
    BY <1>5, <1>7
  <2> QED
    BY <1>2, <2>1, PushFacts DEF IInv
<1>9. TypeOK'
  BY <1>2, <1>3, <1>7, <1>8 DEF IInv, TypeOK
<1>10. BeforeLoop'
  BY <1>3 DEF BeforeLoop
<1>11. InLoop'
  <2>1. start <= limit /\ limit <= last + 1
    BY <1>4, <1>5, <1>6, <1>7 DEF Values
  <2>2. \A l \in levels \ pending : l < limit
    BY <1>4, <1>5, <1>7 DEF Values
  <2>3. \A l \in pending : start <= l => limit <= l + 1
    BY <1>1, <1>5, <1>7 DEF IsLeast, Values
  <2>4. result' # <<>>
    BY <1>8
  <2> QED
    BY <1>2, <1>3, <1>4, <2>1, <2>2, <2>3, <2>4 DEF InLoop
<1>12. NoEmptyRange'
  <2> SUFFICES ASSUME NEW i \in DOMAIN result' PROVE result'[i][1] < result'[i][2]
    BY DEF NoEmptyRange
  <2>1. CASE i \in 1 .. Len(result)
    BY <1>8, <2>1 DEF IInv, NoEmptyRange
  <2>2. CASE i = Len(result) + 1
    BY <1>7, <1>8, <2>2
  <2> QED
    BY <1>8, <2>1, <2>2
<1>13. Contiguous'
  <2>1. CASE result = <<>>
    <3>1. Len(result) = 0 /\ current = start
      BY <1>4, <2>1
    <3> QED
      BY <1>2, <1>3, <1>8, <3>1 DEF Contiguous
  <2>2. CASE result # <<>>
    <3>1. Len(result) >= 1
      <4>1. result \in Seq(Values \X Values)
        BY DEF IInv, TypeOK
      <4> QED
        BY <2>2, <4>1
    <3>2. result'[1][1] = start
      BY <1>8, <2>2, <3>1 DEF IInv, Contiguous
    <3>3. result'[Len(result')][2] = limit
      BY <1>8
    <3>4. ASSUME NEW i \in 1 .. Len(result') - 1
          PROVE  result'[i][2] = result'[i + 1][1]
      <4>1. CASE i = Len(result)
        <5>1. result[i][2] = current
          BY <2>2, <4>1 DEF IInv, Contiguous
        <5>2. result'[i] = result[i] /\ result'[i + 1] = <<current, limit>>
          BY <1>8, <3>1, <4>1
        <5> QED
          BY <5>1, <5>2
      <4>2. CASE i # Len(result)
        <5>0. Len(result) \in Nat /\ Len(result') = Len(result) + 1
          BY <1>8
        <5>1. i \in 1 .. Len(result) - 1 /\ i + 1 \in 1 .. Len(result)
          BY <4>2, <5>0
        <5> QED
          BY <1>8, <5>1 DEF IInv, Contiguous
      <4> QED
        BY <4>1, <4>2
    <3> QED
      BY <1>2, <1>3, <3>2, <3>3, <3>4 DEF Contiguous
  <2> QED
    BY <2>1, <2>2
<1>14. LevelsRespected'
  <2> SUFFICES ASSUME NEW i \in DOMAIN result', NEW l \in levels
               PROVE  ~(result'[i][1] <= l /\ l + 1 < result'[i][2])
    BY <1>3 DEF LevelsRespected
  <2>1. CASE i \in 1 .. Len(result)
    BY <1>8, <2>1 DEF IInv, LevelsRespected
  <2>2. CASE i = Len(result) + 1
    <3>1. CASE l \in pending
      BY <1>1, <1>5, <1>7, <1>8, <2>2, <3>1 DEF IsLeast, Values
    <3>2. CASE l \notin pending
      BY <1>4, <1>5, <1>8, <2>2, <3>2 DEF Values
    <3> QED
      BY <3>1, <3>2
  <2> QED
    BY <1>8, <2>1, <2>2
<1>15. EqualShares'
  <2> SUFFICES ASSUME NEW i \in DOMAIN result'
               PROVE  \/ result'[i][2] - result'[i][1] = taskSize
                      \/ /\ result'[i][2] - result'[i][1] < taskSize
                         /\ \E l \in levels : l + 1 = result'[i][2]
    BY <1>3 DEF EqualShares
  <2>1. CASE i \in 1 .. Len(result)
    BY <1>8, <2>1 DEF IInv, EqualShares
  <2>2. CASE i = Len(result) + 1
    BY <1>5, <1>7, <1>8, <2>2
  <2> QED
    BY <1>8, <2>1, <2>2
<1> QED
  BY <1>9, <1>10, <1>11, <1>12, <1>13, <1>14, <1>15 DEF IInv

\* The outer loop moves on only once current is past the level.
LEMMA InvNextLevel ==
  ASSUME IInv, NextLevel
  PROVE  IInv'
<1>1. PICK level \in pending :
        IsLeast(pending, level) /\ current > level /\ pending' = pending \ {level}
  BY DEF NextLevel
<1>2. /\ pc = "loop"
      /\ UNCHANGED <<start, levels, difference, pool, pc, taskSize, current, result>>
  BY DEF NextLevel, args
<1>3. pending \subseteq levels /\ levels \subseteq Int /\ current \in Int
  BY DEF IInv, TypeOK, Values
<1>4. TypeOK'
  BY <1>1, <1>2 DEF IInv, TypeOK
<1>5. BeforeLoop' /\ InLoop'
  BY <1>1, <1>2, <1>3 DEF IInv, BeforeLoop, InLoop
<1>6. NoEmptyRange' /\ Contiguous' /\ LevelsRespected' /\ EqualShares'
  BY <1>2 DEF IInv, NoEmptyRange, Contiguous, LevelsRespected, EqualShares
<1> QED
  BY <1>4, <1>5, <1>6 DEF IInv

LEMMA InvReturn ==
  ASSUME IInv, Return \/ UNCHANGED vars
  PROVE  IInv'
<1>1. /\ UNCHANGED <<start, levels, difference, pool, taskSize, current, pending, result>>
      /\ \/ pc = "loop" /\ pc' = "done" /\ pending = {}
         \/ UNCHANGED pc
  BY DEF Return, vars, args
<1>2. TypeOK'
  BY <1>1 DEF IInv, TypeOK
<1>3. BeforeLoop' /\ InLoop'
  <2>1. ValidArgs' = ValidArgs
    BY <1>1 DEF ValidArgs
  <2> QED
    BY <1>1, <2>1 DEF IInv, BeforeLoop, InLoop
<1>4. NoEmptyRange' /\ Contiguous' /\ LevelsRespected' /\ EqualShares'
  BY <1>1 DEF IInv, NoEmptyRange, Contiguous, LevelsRespected, EqualShares
<1> QED
  BY <1>2, <1>3, <1>4 DEF IInv

LEMMA InvStep == IInv /\ [Next]_vars => IInv'
BY InvParse, InvBegin, InvCut, InvNextLevel, InvReturn DEF Next

\* The inductive invariant holds.
THEOREM Invariance == Spec => []IInv
BY InvInit, InvStep, PTL DEF Spec

\* The variables keep their types: no computed value leaves the value type.
THEOREM TypeCorrect == Spec => []TypeOK
<1>1. IInv => TypeOK
  BY DEF IInv
<1> QED
  BY <1>1, Invariance, PTL

\* The ranges are not empty and follow one another from start on, for every width
\* of the value type: sums that would wrap around do not upset the loop.
THEOREM RangesPartition == Spec => []Partition
<1>1. IInv => Partition
  BY DEF IInv, Partition
<1> QED
  BY <1>1, Invariance, PTL

\* The load is shared equally, but for the ranges that end with a report level.
THEOREM SharesAreEqual == Spec => []EqualShares
<1>1. IInv => EqualShares
  BY DEF IInv
<1> QED
  BY <1>1, Invariance, PTL

\* No range reaches across a report level.
THEOREM LevelsAreBoundaries == Spec => []LevelsRespected
<1>1. IInv => LevelsRespected
  BY DEF IInv
<1> QED
  BY <1>1, Invariance, PTL

\* Once the loop is over the ranges end right after the last report level.
THEOREM CoversToLastLevel == Spec => []EndsAfterLastLevel
<1>1. IInv => EndsAfterLastLevel
  <2> SUFFICES ASSUME IInv, pc = "done"
               PROVE  /\ result # <<>>
                      /\ \A last \in levels :
                           IsGreatest(levels, last) => current = last + 1
    BY DEF EndsAfterLastLevel
  <2>1. PICK last \in levels :
          /\ IsGreatest(levels, last) /\ start <= last /\ current <= last + 1
          /\ \A level \in levels \ pending : level < current
          /\ result = <<>> => current = start
          /\ pending = {}
    BY DEF IInv, InLoop
  <2>2. levels \subseteq Int /\ start \in Int /\ current \in Int
    BY DEF IInv, TypeOK, Values
  <2>3. current = last + 1
    BY <2>1, <2>2
  <2>4. result # <<>>
    BY <2>1, <2>2, <2>3
  <2>5. \A top \in levels : IsGreatest(levels, top) => top = last
    BY <2>1, <2>2, GreatestUnique
  <2> QED
    BY <2>3, <2>4, <2>5
<1> QED
  BY <1>1, Invariance, PTL

-----------------------------------------------------------------------------
(* The number of tasks *)

\* The check parse_args makes by division bounds the product.
LEMMA ProductFits ==
  ASSUME NEW a \in Nat \ {0}, NEW b \in Nat \ {0}, MaxValue \div a >= b
  PROVE  a * b \in 1 .. MaxValue
<1>1. MaxValue \div a \in Nat
  BY MaxAssumption
<1>2. \A n \in Nat : b <= n => a * b <= a * n
  OBVIOUS
<1>3. a * (MaxValue \div a) <= MaxValue
  BY MaxAssumption
<1>4. a * b >= 1
  OBVIOUS
<1>5. a * b \in Int /\ a * (MaxValue \div a) \in Int
  BY <1>1
<1> QED
  BY <1>1, <1>2, <1>3, <1>4, <1>5, MaxAssumption

\* An accepted pool never makes get_required_ranges throw: the number of tasks
\* does not wrap around to zero.
THEOREM NeverThrows == Spec => []NeverThrown
<1>1. Init => NeverThrown
  BY DEF Init, NeverThrown
<1>2. IInv /\ NeverThrown /\ [Next]_vars => NeverThrown'
  <2> SUFFICES ASSUME IInv, NeverThrown, [Next]_vars PROVE NeverThrown'
    OBVIOUS
  <2>1. CASE Begin
    <3>1. /\ pool[1] \in Nat /\ pool[2] \in Nat
          /\ pool[1] # 0 /\ pool[2] # 0 /\ MaxValue \div pool[1] >= pool[2]
      BY <2>1, InputAssumption DEF Begin, IInv, TypeOK, BeforeLoop, ValidArgs
    <3>2. pool[1] * pool[2] \in 1 .. MaxValue
      BY <3>1, ProductFits
    <3>3. pool[1] * pool[2] \in Values
      BY <3>2, MaxAssumption DEF Values
    <3>4. Wrap(pool[1] * pool[2]) = pool[1] * pool[2]
      BY <3>3, WrapInside
    <3>5. Wrap(pool[1] * pool[2]) # 0
      BY <3>2, <3>4, MaxAssumption
    <3>6. pc' = "loop"
      BY <2>1, <3>5 DEF Begin
    <3> QED
      BY <3>6 DEF NeverThrown
  <2>2. CASE ParseArgs \/ Cut \/ NextLevel \/ Return \/ UNCHANGED vars
    BY <2>2 DEF ParseArgs, Cut, NextLevel, Return, vars, NeverThrown
  <2> QED
    BY <2>1, <2>2 DEF Next
<1> QED
  BY <1>1, <1>2, Invariance, PTL DEF Spec
=============================================================================
