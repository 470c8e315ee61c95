------------------------- MODULE BaselineWorkerProofs -------------------------
(***************************************************************************)
(* Proofs about BaselineWorker, for every range, every set of differences  *)
(* and every width of the value type: a run from the start of its range    *)
(* that is not told to stop journals the exact counts, wherever it makes   *)
(* its checkpoints.                                                        *)
(***************************************************************************)
EXTENDS BaselineWorker, PrimesProofs

-----------------------------------------------------------------------------
(* Operators *)

LEMMA LeastOfTwo ==
  ASSUME NEW a \in Int, NEW b \in Int
  PROVE  Least({a, b}) = IF a <= b THEN a ELSE b
<1> DEFINE m == IF a <= b THEN a ELSE b
<1>1. m \in {a, b} /\ \A y \in {a, b} : m <= y
  OBVIOUS
<1>2. \A x \in {a, b} : (\A y \in {a, b} : x <= y) => x = m
  OBVIOUS
<1> QED
  BY <1>1, <1>2 DEF Least

LEMMA GreatestFacts ==
  ASSUME NEW T \in SUBSET Nat, T # {}, NEW n \in Nat, \A x \in T : x <= n
  PROVE  Greatest(T) \in T /\ \A y \in T : y <= Greatest(T)
<1>1. \E x \in T : \A y \in T : y <= x
  BY GreatestExists
<1> QED
  BY <1>1 DEF Greatest

LEMMA WrapType ==
  ASSUME NEW x \in Int
  PROVE  Wrap(x) \in 0 .. MaxValue
BY BaselineAssumption DEF Wrap

\* What is known of the constants of a range: the larger prime of a pair is a value.
LEMMA RangeFacts ==
  ASSUME TypeOK
  PROVE  /\ start \in Nat /\ end \in Nat /\ end <= MaxValue /\ MaxValue \in Nat
         /\ differences \subseteq Nat /\ \A d \in differences : d % 2 = 0
         /\ MaxGap \in differences /\ MaxGap \in Nat
         /\ \A d \in differences : d <= MaxGap
         /\ LoopEnd \in Nat /\ LoopEnd <= MaxValue
<1>1. /\ start \in Nat /\ end \in Nat /\ end <= MaxValue /\ MaxValue \in Nat
      /\ differences \in DifferenceSets /\ end \in Ends
  BY BaselineAssumption DEF TypeOK
<1>2. /\ differences \in SUBSET Nat /\ differences # {}
      /\ \A d \in differences : d % 2 = 0 /\ end + d <= MaxValue
  BY <1>1, BaselineAssumption, DifferenceAssumption
<1>3. \A d \in differences : d <= MaxValue
  BY <1>1, <1>2
<1>4. MaxGap \in differences /\ \A d \in differences : d <= MaxGap
  BY <1>1, <1>2, <1>3, GreatestFacts DEF MaxGap
<1> QED
  BY <1>1, <1>2, <1>4 DEF LoopEnd

\* The iterator has a prime from each value on, and after each value.
LEMMA MorePrimes ==
  ASSUME NEW x \in 0 .. MaxValue
  PROVE  (\E p \in Primes : p >= x) /\ (\E p \in Primes : p > x)
<1>1. PICK p \in Primes : p > MaxValue
  BY HorizonIsEnough
<1>2. p \in Nat
  BY PrimesAreFinite
<1> QED
  BY <1>1, <1>2, BaselineAssumption

LEMMA IteratorFacts ==
  ASSUME NEW x \in 0 .. MaxValue
  PROVE  /\ PrimeFrom(x) \in Primes /\ PrimeFrom(x) \in Nat
         /\ PrimeFrom(x) >= x /\ PrimeFrom(x) >= 2
         /\ \A q \in Primes : q >= x => PrimeFrom(x) <= q
         /\ NextPrime(x) \in Primes /\ NextPrime(x) \in Nat /\ NextPrime(x) > x
         /\ \A q \in Primes : q < NextPrime(x) => q <= x
<1>1. x \in Nat /\ x \in Int
  BY BaselineAssumption
<1>2. /\ PrimeFrom(x) \in Primes /\ PrimeFrom(x) >= x
      /\ \A q \in Primes : q >= x => PrimeFrom(x) <= q
  BY <1>1, MorePrimes, PrimeFromFacts
<1>3. /\ NextPrime(x) \in Primes /\ NextPrime(x) > x
      /\ \A q \in Primes : q < NextPrime(x) => q <= x
  BY <1>1, MorePrimes, NextPrimeFacts
<1> QED
  BY <1>2, <1>3, PrimesAreFinite

LEMMA ThreeIsPrime == 3 \in Primes
<1>1. Horizon >= 3
  BY HorizonIsEnough, PrimesAreFinite, BaselineAssumption, HorizonAssumption
<1>2. \A k \in 2 .. 2 : 3 % k # 0
  OBVIOUS
<1> QED
  BY <1>1, <1>2, HorizonAssumption DEF Primes

\* The pairs that are counted are finitely many.
LEMMA PairsAreFinite ==
  ASSUME NEW d, NEW bound
  PROVE  IsFiniteSet(SeenPairs(d, bound)) /\ Cardinality(SeenPairs(d, bound)) \in Nat
<1>1. SeenPairs(d, bound) \subseteq Primes
  BY DEF SeenPairs
<1> QED
  BY <1>1, PrimesAreFinite, FS_Subset, FS_CardinalityType

-----------------------------------------------------------------------------
(* Type correctness *)

LEMMA ZeroType ==
  Zero \in [differences -> Nat]
BY DEF Zero

LEMMA SavedType ==
  ASSUME TypeOK
  PROVE  /\ Cardinality(Saved) <= 1 /\ Cardinality(NoFile) <= 1
         /\ \A saved \in Saved : saved.position = position /\ saved.counts = counts
<1> DEFINE state == [position |-> position, counts |-> counts]
<1>1. Saved = {state}
  BY DEF Saved
<1>2. Cardinality({state}) = 1
  BY FS_Singleton
<1>3. Cardinality(NoFile) = 0
  BY FS_EmptySet DEF NoFile
<1>4. state.position = position /\ state.counts = counts
  OBVIOUS
<1> HIDE DEF state
<1> QED
  BY <1>1, <1>2, <1>3, <1>4

LEMMA MoveType ==
  ASSUME TypeOK, MoveCounts, prime \in Nat
  PROVE  /\ position' \in 0 .. end
         /\ counts' \in [differences -> Nat] /\ tallies' = Zero
<1>1. /\ end \in Nat /\ end <= MaxValue /\ MaxGap \in Nat
  BY RangeFacts
<1>2. Wrap(prime - MaxGap + 1) \in 0 .. MaxValue
  BY <1>1, WrapType
<1>3. position' \in 0 .. end
  BY <1>1, <1>2, LeastOfTwo, BaselineAssumption DEF MoveCounts
<1>4. \A d \in differences : counts[d] \in Nat /\ tallies[d] \in Nat
  BY DEF TypeOK
<1> QED
  BY <1>3, <1>4 DEF MoveCounts

Typed == TypeOK /\ Begins /\ InLoop

LEMMA TypeInit == Init => Typed
<1> SUFFICES ASSUME Init PROVE Typed
  OBVIOUS
<1>1. start \in Nat /\ end \in Nat /\ start < end
  BY BaselineAssumption DEF Init
<1>2. Cardinality(file) <= 1
  <2>1. Cardinality(file) = 0
    BY FS_EmptySet DEF Init, NoFile
  <2> QED
    BY <2>1
<1>3. 0 \in 0 .. MaxStops /\ position \in 0 .. end
  BY <1>1, BaselineAssumption DEF Init
<1>4. counts \in [differences -> Nat] /\ tallies \in [differences -> Nat]
  BY ZeroType DEF Init
<1>5. TypeOK
  BY <1>2, <1>3, <1>4 DEF Init, TypeOK, NoFile
<1>6. Begins /\ InLoop
  BY DEF Init, Begins, InLoop
<1> QED
  BY <1>5, <1>6 DEF Typed

LEMMA TypeStart ==
  ASSUME Typed, Start
  PROVE  Typed'
<1> DEFINE first == PrimeFrom(position)
<1>1. position \in 0 .. MaxValue /\ position \in Nat
  BY RangeFacts DEF Typed, TypeOK
<1>2. /\ first \in Primes /\ first >= position /\ first \in Nat /\ first >= 2
  BY <1>1, IteratorFacts
<1> HIDE DEF first
<1>3. position' \in 0 .. end
  <2>1. end \in Nat
    BY RangeFacts DEF Typed
  <2>2. Least({end, 3}) \in 0 .. end
    BY <2>1, LeastOfTwo
  <2> QED
    BY <2>2 DEF Start, Typed, TypeOK
<1>4. counts' \in [differences -> Nat]
  BY DEF Start, Typed, TypeOK
<1>5. /\ prime' \in Primes /\ prime' >= 3 /\ (~resumed => prime' >= start)
  <2>1. ~resumed => position = start
    BY DEF Start, Typed, Begins
  <2>2. first # 2 => prime' = first
    BY DEF Start, first
  <2>3. first = 2 => prime' = 3
    BY DEF Start, first
  <2> QED
    BY <1>1, <1>2, <2>1, <2>2, <2>3, ThreeIsPrime
<1>6. TypeOK'
  BY <1>3, <1>4, <1>5 DEF Start, Typed, TypeOK, rangeVars
<1>7. Begins' /\ InLoop'
  BY <1>5 DEF Start, Typed, Begins, InLoop, rangeVars
<1> QED
  BY <1>6, <1>7 DEF Typed

LEMMA TypeCount ==
  ASSUME Typed, CountPrime
  PROVE  Typed'
<1>1. history' \subseteq Primes
  <2>1. prime \in Primes
    BY DEF Typed, TypeOK, InLoop, CountPrime
  <2> QED
    BY <2>1 DEF CountPrime, Near, Typed, TypeOK
<1>2. tallies' \in [differences -> Nat]
  BY DEF CountPrime, Typed, TypeOK
<1>3. TypeOK'
  BY <1>1, <1>2 DEF CountPrime, Typed, TypeOK, rangeVars, stateVars
<1>4. LoopEnd' = LoopEnd
  BY DEF CountPrime, LoopEnd, MaxGap, rangeVars
<1>5. Begins' /\ InLoop'
  BY <1>4 DEF CountPrime, Typed, Begins, InLoop, rangeVars
<1> QED
  BY <1>3, <1>5 DEF Typed

\* The prime a checkpoint is followed by, or none.
LEMMA TypeAdvance ==
  ASSUME Typed, pc = "counted", prime' = NextPrime(prime)
  PROVE  /\ prime \in Nat /\ prime' \in Primes /\ prime' \in Nat /\ prime' > prime
         /\ \A q \in Primes : q < prime' => q <= prime
<1>1. prime \in Nat /\ prime < LoopEnd
  BY PrimesAreFinite DEF Typed, TypeOK, InLoop
<1>2. prime \in 0 .. MaxValue
  BY <1>1, RangeFacts DEF Typed
<1> QED
  BY <1>1, <1>2, IteratorFacts

LEMMA TypeNotDue ==
  ASSUME Typed, NotDue
  PROVE  Typed'
<1>1. /\ prime \in Nat /\ prime' \in Primes /\ prime' \in Nat /\ prime' > prime
  BY TypeAdvance DEF NotDue
<1>2. TypeOK'
  BY <1>1 DEF NotDue, Typed, TypeOK, rangeVars, stateVars
<1>3. prime >= 3 /\ (~resumed => prime >= start) /\ start \in Nat
  BY RangeFacts DEF NotDue, Typed, InLoop
<1>4. Begins' /\ InLoop'
  BY <1>1, <1>3 DEF NotDue, Typed, Begins, InLoop, rangeVars
<1> QED
  BY <1>2, <1>4 DEF Typed

LEMMA TypeCheckpoint ==
  ASSUME Typed, Checkpoint
  PROVE  Typed'
<1>1. /\ prime \in Nat /\ prime' \in Primes /\ prime' \in Nat /\ prime' > prime
  BY TypeAdvance DEF Checkpoint
<1>2. /\ position' \in 0 .. end
      /\ counts' \in [differences -> Nat] /\ tallies' \in [differences -> Nat]
  BY <1>1, MoveType, ZeroType DEF Checkpoint, Typed
<1>3. /\ Cardinality(file') <= 1
      /\ \A saved \in file' : saved.position \in 0 .. end
                              /\ saved.counts \in [differences -> Nat]
  BY SavedType DEF Checkpoint, Typed, TypeOK
<1>4. TypeOK'
  BY <1>1, <1>2, <1>3 DEF Checkpoint, Typed, TypeOK, rangeVars
<1>5. prime >= 3 /\ (~resumed => prime >= start) /\ start \in Nat
  BY RangeFacts DEF Checkpoint, Typed, InLoop
<1>6. Begins' /\ InLoop'
  BY <1>1, <1>5 DEF Checkpoint, Typed, Begins, InLoop, rangeVars
<1> QED
  BY <1>4, <1>6 DEF Typed

LEMMA TypeLeaveLoop ==
  ASSUME Typed, LeaveLoop
  PROVE  Typed'
<1>1. prime \in Nat
  BY PrimesAreFinite DEF Typed, TypeOK
<1>2. /\ position' \in 0 .. end
      /\ counts' \in [differences -> Nat] /\ tallies' \in [differences -> Nat]
  BY <1>1, MoveType, ZeroType DEF LeaveLoop, Typed
<1>3. TypeOK'
  BY <1>2 DEF LeaveLoop, Typed, TypeOK, rangeVars
<1>4. Begins' /\ InLoop'
  BY DEF LeaveLoop, Typed, Begins, InLoop, rangeVars
<1> QED
  BY <1>3, <1>4 DEF Typed

LEMMA TypeFinalise ==
  ASSUME Typed, Finalise
  PROVE  Typed'
<1>1. /\ Cardinality(file') <= 1
      /\ \A saved \in file' : saved.position \in 0 .. end
                              /\ saved.counts \in [differences -> Nat]
  BY SavedType DEF Finalise, Typed, TypeOK, NoFile
<1>2. TypeOK'
  BY <1>1 DEF Finalise, Typed, TypeOK, rangeVars, stateVars, workerVars
<1>3. Begins' /\ InLoop'
  BY DEF Finalise, Typed, Begins, InLoop, rangeVars
<1> QED
  BY <1>2, <1>3 DEF Typed

\* The steps that only stop the run.
LEMMA TypeStop ==
  ASSUME Typed, NotStarted \/ Interrupt \/ Crash
  PROVE  Typed'
<1>1. /\ UNCHANGED <<rangeVars, stateVars, workerVars, file, resumed>>
      /\ pc' \in {pc, "stopped"}
      /\ keepRunning' \in {keepRunning, FALSE}
      /\ stops' = stops \/ (stops < MaxStops /\ stops' = stops + 1)
  BY DEF NotStarted, Interrupt, Crash
<1>2. stops' \in 0 .. MaxStops
  BY <1>1, BaselineAssumption DEF Typed, TypeOK
<1>3. TypeOK'
  BY <1>1, <1>2 DEF Typed, TypeOK, rangeVars, stateVars, workerVars
<1>4. LoopEnd' = LoopEnd /\ Zero' = Zero
  BY <1>1 DEF LoopEnd, MaxGap, Zero, rangeVars
<1>5. Begins' /\ InLoop'
  BY <1>1, <1>4 DEF Typed, Begins, InLoop, rangeVars, stateVars, workerVars
<1> QED
  BY <1>3, <1>5 DEF Typed

LEMMA TypeResume ==
  ASSUME Typed, Resume
  PROVE  Typed'
<1>1. /\ position' \in 0 .. end /\ counts' \in [differences -> Nat]
      /\ checkpointing' \in BOOLEAN /\ resumed' \in BOOLEAN
      /\ ~resumed' => position' = start /\ counts' = Zero
  <2>1. CASE \E saved \in file : /\ position' = saved.position /\ counts' = saved.counts
                                 /\ checkpointing' = FALSE
                                 /\ resumed' = TRUE
    BY <2>1 DEF Typed, TypeOK
  <2>2. CASE /\ position' = start /\ counts' = Zero
             /\ checkpointing' \in BOOLEAN /\ resumed' = FALSE
    <3>1. start \in 0 .. end
      BY RangeFacts DEF Typed, Begins
    <3> QED
      BY <2>2, <3>1, ZeroType
  <2> QED
    BY <2>1, <2>2 DEF Resume
<1>2. TypeOK'
  BY <1>1, ZeroType DEF Resume, Typed, TypeOK, rangeVars
<1>3. Begins' /\ InLoop'
  BY <1>1 DEF Resume, Typed, Begins, InLoop, Zero, rangeVars
<1> QED
  BY <1>2, <1>3 DEF Typed

-----------------------------------------------------------------------------
(* Exactness *)

Exact == HistoryExact /\ CountsSeen /\ FinalExact /\ WholeRunExact

\* A prime that is a difference apart from a later one is odd: 2 is counted
\* before the loop, with itself only.
LEMMA SmallerIsOdd ==
  ASSUME NEW p \in Primes, NEW d \in Nat, d % 2 = 0, p + d \in Primes, p + d >= 3
  PROVE  p > 2
<1>1. p \in Nat /\ p >= 2
  BY PrimesAreFinite
<1>2. p = 2 => (p + d) % 2 = 0
  BY <1>1
<1> QED
  BY <1>1, <1>2, OddPrimes

LEMMA ExactStart ==
  ASSUME IInv, Start
  PROVE  HistoryExact' /\ CountsSeen'
<1> DEFINE first == PrimeFrom(position)
<1> SUFFICES ASSUME ~resumed
             PROVE  HistoryExact' /\ CountsSeen'
  BY DEF Start, HistoryExact, CountsSeen
<1>1. /\ position = start /\ counts = Zero /\ history = {} /\ tallies = Zero
      /\ UNCHANGED <<start, end, differences, history, tallies, resumed>>
      /\ pc' = "loop"
  BY DEF Start, IInv, Begins, rangeVars
<1>2. /\ start \in Nat /\ end \in Nat /\ start \in 0 .. MaxValue
      /\ differences \subseteq Nat
  BY RangeFacts, BaselineAssumption DEF IInv, TypeOK
<1>3. /\ first \in Primes /\ first \in Nat /\ first >= start /\ first >= 2
      /\ \A q \in Primes : q >= start => first <= q
  BY <1>1, <1>2, IteratorFacts
<1>4. /\ first = 2 => prime' = 3 /\ counts' = IF 0 \in differences /\ end > 2
                                              THEN [counts EXCEPT ![0] = @ + 1] ELSE counts
      /\ first # 2 => prime' = first /\ counts' = counts
  BY DEF Start
<1> HIDE DEF first
<1>5. Reached' = prime' /\ prime' \in Nat
  BY <1>1, <1>3, <1>4 DEF Reached
<1>6. ASSUME NEW p \in Primes, start <= p
      PROVE  p \in Nat /\ p >= 2 /\ p >= first /\ (p < prime' => p = 2 /\ first = 2)
  <2>1. p \in Nat /\ p >= 2 /\ p >= first
    BY <1>3, <1>6, PrimesAreFinite
  <2> QED
    BY <1>3, <1>4, <2>1
<1>7. HistoryExact'
  BY <1>1, <1>5, <1>6 DEF HistoryExact, InRange
<1>8. ASSUME NEW d \in differences
      PROVE  counts'[d] + tallies'[d] = Cardinality(SeenPairs(d, prime'))
  <2>1. d \in Nat /\ counts[d] = 0 /\ tallies'[d] = 0
    BY <1>1, <1>2 DEF Zero
  <2>2. \A p \in SeenPairs(d, prime') :
          p \in Primes /\ start <= p /\ p < end /\ p \in Nat /\ p + d < prime'
    BY <1>1, <1>6 DEF SeenPairs
  <2>3. \A p \in SeenPairs(d, prime') : p = 2 /\ first = 2 /\ d = 0
    <3> SUFFICES ASSUME NEW p \in SeenPairs(d, prime')
                 PROVE  p = 2 /\ first = 2 /\ d = 0
      OBVIOUS
    <3>1. p \in Nat /\ p + d < prime' /\ p < prime'
      BY <1>5, <2>1, <2>2
    <3>2. p = 2 /\ first = 2
      BY <1>6, <2>2, <3>1
    <3> QED
      BY <1>4, <2>1, <3>1, <3>2
  <2>4. CASE first = 2 /\ d = 0 /\ end > 2
    <3>1. 2 \in SeenPairs(d, prime')
      BY <1>1, <1>2, <1>3, <1>4, <2>4 DEF SeenPairs
    <3>2. SeenPairs(d, prime') = {2}
      BY <2>3, <3>1
    <3>3. Cardinality(SeenPairs(d, prime')) = 1
      BY <3>2, FS_Singleton
    <3>4. counts'[d] = 1
      BY <1>1, <1>4, <2>1, <2>4 DEF Zero
    <3> QED
      BY <2>1, <3>3, <3>4
  <2>5. CASE ~(first = 2 /\ d = 0 /\ end > 2)
    <3>1. SeenPairs(d, prime') = {}
      BY <1>2, <2>2, <2>3, <2>5
    <3>2. Cardinality(SeenPairs(d, prime')) = 0
      BY <3>1, FS_EmptySet
    <3>3. counts'[d] = 0
      BY <1>1, <1>4, <2>1, <2>5 DEF Zero
    <3> QED
      BY <2>1, <3>2, <3>3
  <2> QED
    BY <2>4, <2>5
<1>9. CountsSeen'
  BY <1>1, <1>5, <1>8 DEF CountsSeen, SeenPairs
<1> QED
  BY <1>7, <1>9

\* The current prime is paired with what the history has of the range.
LEMMA ExactCount ==
  ASSUME IInv, CountPrime
  PROVE  HistoryExact' /\ CountsSeen'
<1> SUFFICES ASSUME ~resumed
             PROVE  HistoryExact' /\ CountsSeen'
  BY DEF CountPrime, HistoryExact, CountsSeen
<1> DEFINE known == IF prime < end THEN history \cup {prime} ELSE history
           near == Near(known)
<1>1. /\ UNCHANGED <<start, end, differences, counts, prime, resumed>>
      /\ pc = "loop" /\ pc' = "counted"
      /\ history' = near
      /\ tallies' = [d \in differences |-> IF prime - d \in near THEN tallies[d] + 1
                                                                 ELSE tallies[d]]
  BY DEF CountPrime, rangeVars, stateVars
<1>2. /\ start \in Nat /\ end \in Nat /\ differences \subseteq Nat
      /\ \A d \in differences : d % 2 = 0 /\ d <= MaxGap
      /\ MaxGap \in Nat
  BY RangeFacts DEF IInv
<1>3. /\ prime \in Primes /\ prime \in Nat /\ prime >= 3 /\ prime >= start
  <2>1. prime >= 3 /\ prime >= start
    BY <1>1 DEF IInv, InLoop
  <2>2. prime \in Primes \cup {0}
    BY DEF IInv, TypeOK
  <2>3. prime \in Primes
    BY <2>1, <2>2
  <2> QED
    BY <2>1, <2>3, PrimesAreFinite
<1>4. Reached = prime /\ Reached' = prime + 1
  BY <1>1 DEF Reached
<1>5. MaxGap' = MaxGap
  BY <1>1 DEF MaxGap
<1>6. ASSUME NEW p \in Primes
      PROVE  p \in near <=> /\ 2 < p /\ start <= p /\ p < end /\ p <= prime
                            /\ prime - p <= MaxGap
  <2>1. p \in Nat
    BY PrimesAreFinite
  <2>2. p \in history => 2 < p /\ start <= p /\ p < end /\ p < prime
    BY <1>1, <1>4 DEF IInv, HistoryExact, InRange
  <2>3. 2 < p /\ start <= p /\ p < end /\ p < prime /\ prime - p <= MaxGap => p \in history
    BY <1>1, <1>4 DEF IInv, HistoryExact, InRange
  <2>4. p \in near <=> p \in known /\ prime - p <= MaxGap
    BY DEF Near
  <2>5. p \in known <=> p \in history \/ (p = prime /\ prime < end)
    OBVIOUS
  <2> HIDE DEF near, known
  <2> QED
    BY <1>2, <1>3, <2>1, <2>2, <2>3, <2>4, <2>5
<1>7. near \subseteq Primes
  BY <1>3 DEF Near, IInv, TypeOK
<1> HIDE DEF known, near
<1>8. HistoryExact'
  <2>1. \A p \in near : /\ p \in Primes /\ 2 < p /\ start <= p /\ p < end
                        /\ p < prime + 1
    BY <1>3, <1>6, <1>7, PrimesAreFinite
  <2>2. \A p \in Primes :
          2 < p /\ start <= p /\ p < end /\ p < prime + 1 /\ prime - p <= MaxGap => p \in near
    <3>1. \A p \in Primes : p \in Nat
      BY PrimesAreFinite
    <3>2. \A p \in Primes : p < prime + 1 => p <= prime
      BY <1>3, <3>1
    <3> QED
      BY <1>6, <3>2
  <2> QED
    BY <1>1, <1>4, <1>5, <2>1, <2>2 DEF HistoryExact, InRange
<1>9. ASSUME NEW d \in differences
      PROVE  counts'[d] + tallies'[d] = Cardinality(SeenPairs(d, prime + 1))
  <2>1. d \in Nat /\ d % 2 = 0 /\ d <= MaxGap /\ counts[d] \in Nat /\ tallies[d] \in Nat
    BY <1>2 DEF IInv, TypeOK
  <2>2. counts[d] + tallies[d] = Cardinality(SeenPairs(d, prime))
    BY <1>1, <1>4 DEF IInv, CountsSeen
  <2>3. ASSUME NEW p \in Primes
        PROVE  p \in SeenPairs(d, prime + 1)
                 <=> p \in SeenPairs(d, prime) \/ (p = prime - d /\ p \in near)
    <3>1. p \in Nat
      BY PrimesAreFinite
    <3>2. p + d = prime => p > 2
      BY <1>3, <2>1, SmallerIsOdd
    <3>3. p = prime - d => (p \in near <=> 2 < p /\ start <= p /\ p < end)
      BY <1>3, <1>6, <2>1, <3>1
    <3>4. p \in SeenPairs(d, prime + 1)
            <=> start <= p /\ p < end /\ p + d \in Primes /\ p + d < prime + 1
      BY DEF SeenPairs
    <3>5. p \in SeenPairs(d, prime)
            <=> start <= p /\ p < end /\ p + d \in Primes /\ p + d < prime
      BY DEF SeenPairs
    <3> QED
      BY <1>3, <2>1, <3>1, <3>2, <3>3, <3>4, <3>5
  <2>4. SeenPairs(d, prime + 1) \subseteq Primes /\ SeenPairs(d, prime) \subseteq Primes
    BY DEF SeenPairs
  <2>5. CASE prime - d \in near
    <3>1. SeenPairs(d, prime + 1) = SeenPairs(d, prime) \cup {prime - d}
      BY <1>7, <2>3, <2>4, <2>5
    <3>2. prime - d \notin SeenPairs(d, prime)
      BY <1>3, <2>1 DEF SeenPairs
    <3>3. Cardinality(SeenPairs(d, prime + 1)) = Cardinality(SeenPairs(d, prime)) + 1
      BY <3>1, <3>2, PairsAreFinite, FS_AddElement
    <3> QED
      BY <1>1, <2>1, <2>2, <2>5, <3>3
  <2>6. CASE prime - d \notin near
    <3>1. SeenPairs(d, prime + 1) = SeenPairs(d, prime)
      BY <2>3, <2>4, <2>6
    <3> QED
      BY <1>1, <2>1, <2>2, <2>6, <3>1
  <2> QED
    BY <2>5, <2>6
<1>10. CountsSeen'
  BY <1>1, <1>4, <1>9 DEF CountsSeen, SeenPairs
<1> QED
  BY <1>8, <1>10

\* The next prime is the first that has not been reached, and moving counts keeps
\* their sum.
LEMMA ExactAdvance ==
  ASSUME IInv, NotDue \/ Checkpoint
  PROVE  HistoryExact' /\ CountsSeen'
<1> SUFFICES ASSUME ~resumed
             PROVE  HistoryExact' /\ CountsSeen'
  BY DEF NotDue, Checkpoint, HistoryExact, CountsSeen
<1>1. /\ UNCHANGED <<start, end, differences, history, resumed>>
      /\ pc = "counted" /\ pc' = "loop" /\ prime' = NextPrime(prime)
  BY DEF NotDue, Checkpoint, rangeVars
<1>2. /\ prime \in Nat /\ prime' \in Primes /\ prime' \in Nat /\ prime' > prime
      /\ \A q \in Primes : q < prime' => q <= prime
  BY <1>1, TypeAdvance DEF IInv, Typed
<1>3. /\ start \in Nat /\ end \in Nat /\ differences \subseteq Nat /\ MaxGap \in Nat
  BY RangeFacts DEF IInv
<1>4. Reached = prime + 1 /\ Reached' = prime' /\ MaxGap' = MaxGap
  BY <1>1 DEF Reached, MaxGap
<1>5. \A q \in Primes : q \in Nat /\ (q < prime + 1 <=> q < prime')
  BY <1>2, PrimesAreFinite
<1>6. HistoryExact'
  <2>1. \A p \in history : InRange(p)
    BY <1>1 DEF IInv, HistoryExact
  <2>2. \A p \in Primes : InRange(p)' <=> InRange(p)
    BY <1>1, <1>4, <1>5 DEF InRange
  <2>3. ASSUME NEW p \in Primes, prime' - p <= MaxGap
        PROVE  prime - p <= MaxGap
    <3>1. p \in Nat
      BY <1>5
    <3>2. prime \in Nat /\ prime' \in Nat /\ prime' > prime /\ MaxGap \in Nat
      BY <1>2, <1>3
    <3>3. \A x, y, g \in Int : x < y /\ y - p <= g => x - p <= g
      BY <3>1
    <3> QED
      BY <2>3, <3>2, <3>3
  <2>4. \A p \in Primes : InRange(p) /\ prime - p <= MaxGap => p \in history
    BY <1>1 DEF IInv, HistoryExact
  <2>5. \A p \in history : InRange(p)'
    BY <2>1, <2>2 DEF InRange
  <2>6. \A p \in Primes : InRange(p)' /\ prime' - p <= MaxGap => p \in history
    BY <2>2, <2>3, <2>4
  <2> QED
    BY <1>1, <1>4, <2>5, <2>6 DEF HistoryExact
<1>7. ASSUME NEW d \in differences
      PROVE  counts'[d] + tallies'[d] = Cardinality(SeenPairs(d, prime'))
  <2>1. counts[d] \in Nat /\ tallies[d] \in Nat /\ d \in Nat
    BY <1>3 DEF IInv, TypeOK
  <2>2. counts[d] + tallies[d] = Cardinality(SeenPairs(d, prime + 1))
    BY <1>1, <1>4 DEF IInv, CountsSeen
  <2>3. counts'[d] + tallies'[d] = counts[d] + tallies[d]
    BY <2>1 DEF NotDue, Checkpoint, MoveCounts, stateVars, Zero
  <2>4. SeenPairs(d, prime') = SeenPairs(d, prime + 1)
    BY <1>5 DEF SeenPairs
  <2> QED
    BY <2>2, <2>3, <2>4
<1>8. CountsSeen'
  BY <1>1, <1>4, <1>7 DEF CountsSeen, SeenPairs
<1> QED
  BY <1>6, <1>8

\* When the loop has come to its end, every pair of the range has been seen.
LEMMA ExactLeave ==
  ASSUME IInv, LeaveLoop
  PROVE  FinalExact'
<1> SUFFICES ASSUME ~resumed, keepRunning, NEW d \in differences
             PROVE  counts'[d] = PairsCount(start, end, d)
  BY DEF LeaveLoop, FinalExact, rangeVars
<1>1. pc = "loop" /\ prime >= LoopEnd
  BY DEF LeaveLoop
<1>2. /\ end \in Nat /\ d \in Nat /\ d <= MaxGap /\ MaxGap \in Nat
      /\ prime \in Nat /\ LoopEnd = end + MaxGap
  BY RangeFacts, PrimesAreFinite DEF IInv, TypeOK, LoopEnd
<1>3. counts'[d] = counts[d] + tallies[d]
  BY DEF LeaveLoop, MoveCounts
<1>4. counts[d] + tallies[d] = Cardinality(SeenPairs(d, prime))
  BY <1>1 DEF IInv, CountsSeen, Reached
<1>5. \A p \in Primes : p < end => p + d < prime
  BY <1>1, <1>2, PrimesAreFinite
<1>6. SeenPairs(d, prime) = {p \in Primes : start <= p /\ p < end /\ p + d \in Primes}
  BY <1>5 DEF SeenPairs
<1> QED
  BY <1>3, <1>4, <1>6 DEF PairsCount

-----------------------------------------------------------------------------
LEMMA InvInit == Init => IInv
<1> SUFFICES ASSUME Init PROVE IInv
  OBVIOUS
<1>1. Typed
  BY TypeInit
<1>2. Exact
  BY DEF Init, Exact, HistoryExact, CountsSeen, FinalExact, WholeRunExact
<1> QED
  BY <1>1, <1>2 DEF IInv, Typed, Exact

LEMMA InvNext ==
  ASSUME IInv, [Next]_vars
  PROVE  IInv'
<1>1. Typed
  BY DEF IInv, Typed
<1>2. CASE Start
  <2>1. Typed'
    BY <1>1, <1>2, TypeStart
  <2>2. HistoryExact' /\ CountsSeen'
    BY <1>2, ExactStart
  <2>3. FinalExact' /\ WholeRunExact'
    BY <1>2 DEF Start, FinalExact, WholeRunExact
  <2> QED
    BY <2>1, <2>2, <2>3 DEF IInv, Typed
<1>3. CASE CountPrime
  <2>1. Typed'
    BY <1>1, <1>3, TypeCount
  <2>2. HistoryExact' /\ CountsSeen'
    BY <1>3, ExactCount
  <2>3. FinalExact' /\ WholeRunExact'
    BY <1>3 DEF CountPrime, FinalExact, WholeRunExact
  <2> QED
    BY <2>1, <2>2, <2>3 DEF IInv, Typed
<1>4. CASE NotDue \/ Checkpoint
  <2>1. Typed'
    BY <1>1, <1>4, TypeNotDue, TypeCheckpoint
  <2>2. HistoryExact' /\ CountsSeen'
    BY <1>4, ExactAdvance
  <2>3. FinalExact' /\ WholeRunExact'
    BY <1>4 DEF NotDue, Checkpoint, FinalExact, WholeRunExact
  <2> QED
    BY <2>1, <2>2, <2>3 DEF IInv, Typed
<1>5. CASE LeaveLoop
  <2>1. Typed'
    BY <1>1, <1>5, TypeLeaveLoop
  <2>2. FinalExact'
    BY <1>5, ExactLeave
  <2>3. HistoryExact' /\ CountsSeen' /\ WholeRunExact'
    BY <1>5 DEF LeaveLoop, HistoryExact, CountsSeen, WholeRunExact
  <2> QED
    BY <2>1, <2>2, <2>3 DEF IInv, Typed
<1>6. CASE Finalise
  <2>1. Typed'
    BY <1>1, <1>6, TypeFinalise
  <2>2. HistoryExact' /\ CountsSeen' /\ FinalExact'
    BY <1>6 DEF Finalise, HistoryExact, CountsSeen, FinalExact
  <2>3. WholeRunExact'
    BY <1>6 DEF Finalise, IInv, FinalExact, WholeRunExact, rangeVars, stateVars
  <2> QED
    BY <2>1, <2>2, <2>3 DEF IInv, Typed
<1>7. CASE NotStarted \/ Crash \/ Resume
  <2>1. Typed'
    BY <1>1, <1>7, TypeStop, TypeResume
  <2>2. pc' \in {"stopped", "start"}
    BY <1>7 DEF NotStarted, Crash, Resume
  <2>3. Exact'
    BY <2>2 DEF Exact, HistoryExact, CountsSeen, FinalExact, WholeRunExact
  <2> QED
    BY <2>1, <2>3 DEF IInv, Typed, Exact
<1>8. CASE Interrupt
  <2>1. Typed'
    BY <1>1, <1>8, TypeStop
  <2>2. /\ UNCHANGED <<start, end, differences, pc, history, tallies, counts, prime, resumed>>
        /\ ~keepRunning'
    BY <1>8 DEF Interrupt, rangeVars, stateVars, workerVars
  <2>3. FinalExact' /\ WholeRunExact'
    BY <2>2 DEF FinalExact, WholeRunExact
  <2>4. Reached' = Reached /\ MaxGap' = MaxGap
    BY <2>2 DEF Reached, MaxGap
  <2>5. HistoryExact'
    BY <2>2, <2>4 DEF IInv, HistoryExact, InRange
  <2>6. CountsSeen'
    BY <2>2, <2>4 DEF IInv, CountsSeen, SeenPairs
  <2> QED
    BY <2>1, <2>3, <2>5, <2>6 DEF IInv, Typed
<1>9. CASE UNCHANGED vars
  BY <1>9 DEF IInv, TypeOK, Begins, InLoop, HistoryExact, CountsSeen, FinalExact, WholeRunExact,
              InRange, Reached, SeenPairs, LoopEnd, MaxGap, Zero,
              vars, rangeVars, stateVars, workerVars
<1> QED
  BY <1>2, <1>3, <1>4, <1>5, <1>6, <1>7, <1>8, <1>9 DEF Next

-----------------------------------------------------------------------------
(* Theorems *)

\* The inductive invariant: what the history holds and what has been counted, at
\* the head of the loop, before the checkpoint, and when the loop has been left.
THEOREM Invariance == Spec => []IInv
<1>1. Init => IInv
  BY InvInit
<1>2. IInv /\ [Next]_vars => IInv'
  BY InvNext
<1> QED
  BY <1>1, <1>2, PTL DEF Spec

\* Type correctness: a history holds primes, the position stays in the range.
THEOREM TypeCorrect == Spec => []TypeOK
<1>1. IInv => TypeOK
  BY DEF IInv
<1> QED
  BY <1>1, Invariance, PTL

\* No prime of the range is dropped from the history while a later one may be
\* paired with it, however long the gaps between primes are.
THEOREM HistoryHoldsAll == Spec => []HistoryComplete
<1>1. IInv => HistoryComplete
  BY DEF IInv, HistoryExact, HistoryComplete, InRange, Reached
<1> QED
  BY <1>1, Invariance, PTL

\* Moved and not yet moved, the counts are those of the pairs seen: checkpoints
\* neither lose a pair nor move one twice.
THEOREM PairsCountedOnce == Spec => []SeenPairsCounted
<1>1. IInv => SeenPairsCounted
  BY DEF IInv, CountsSeen, SeenPairsCounted, Reached
<1> QED
  BY <1>1, Invariance, PTL

\* A run of the reference implementation from the start of its range that is not
\* told to stop journals the exact counts.
THEOREM WholeRunsAreExact == Spec => []WholeRunExact
<1>1. IInv => WholeRunExact
  BY DEF IInv
<1> QED
  BY <1>1, Invariance, PTL
=============================================================================
