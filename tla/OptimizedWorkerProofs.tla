------------------------- MODULE OptimizedWorkerProofs -------------------------
(***************************************************************************)
(* Proofs about OptimizedWorker, for words and values of any width, every  *)
(* range, all even differences and every size of a segment or a tile the   *)
(* constructor accepts.  First the arithmetic: no sum wraps around, no     *)
(* access is out of bounds, every segment brings the position forward.     *)
(* Then the bits: the segments hold exactly their primes, the masks leave  *)
(* exactly the positions they should, and the counts are exact.            *)
(***************************************************************************)
EXTENDS OptimizedWorker, BitsProofs

-----------------------------------------------------------------------------
(* Operators *)

LEMMA LeastOfTwo ==
  ASSUME NEW a \in Int, NEW b \in Int
  PROVE  Least({a, b}) = IF a <= b THEN a ELSE b
<1> DEFINE m == IF a <= b THEN a ELSE b
<1>1. m \in {a, b} /\ \A y \in {a, b} : m <= y
  OBVIOUS
<1>2. \A x \in {a, b} : (\A y \in {a, b} : x <= y) => x = m
  OBVIOUS
<1> QED
  BY <1>1, <1>2 DEF Least

LEMMA GreatestOfTwo ==
  ASSUME NEW a \in Int, NEW b \in Int
  PROVE  Greatest({a, b}) = IF a <= b THEN b ELSE a
<1> DEFINE m == IF a <= b THEN b ELSE a
<1>1. m \in {a, b} /\ \A y \in {a, b} : y <= m
  OBVIOUS
<1>2. \A x \in {a, b} : (\A y \in {a, b} : y <= x) => x = m
  OBVIOUS
<1> QED
  BY <1>1, <1>2 DEF Greatest

LEMMA GreatestFacts ==
  ASSUME NEW T \in SUBSET Nat, T # {}, NEW n \in Nat, \A x \in T : x <= n
  PROVE  Greatest(T) \in T /\ \A y \in T : y <= Greatest(T)
<1>1. \E x \in T : \A y \in T : y <= x
  BY GreatestExists
<1> QED
  BY <1>1 DEF Greatest

LEMMA WrapInside ==
  ASSUME NEW x \in 0 .. MaxValue
  PROVE  Wrap(x) = x
BY SizeAssumption DEF Wrap

LEMMA WrapType ==
  ASSUME NEW x \in Int
  PROVE  Wrap(x) \in 0 .. MaxValue
BY SizeAssumption DEF Wrap

\* Wrapping around never makes a natural number larger.
LEMMA WrapSmaller ==
  ASSUME NEW x \in Nat
  PROVE  Wrap(x) <= x
BY SizeAssumption DEF Wrap

\* Division by a size that is not known: where a value is within its segment.
LEMMA DivFacts ==
  ASSUME NEW x \in Nat, NEW n \in Nat \ {0}
  PROVE  /\ x \div n \in Nat
         /\ (x \div n) * n <= x /\ x < (x \div n) * n + n
OBVIOUS

LEMMA DivMonotone ==
  ASSUME NEW x \in Nat, NEW y \in Nat, x <= y, NEW n \in Nat \ {0}
  PROVE  x \div n <= y \div n
OBVIOUS

\* A size the constructor accepts is even: only powers of two are.
LEMMA SizeFacts ==
  ASSUME NEW size \in Nat, ValidSize(size)
  PROVE  size >= 2 /\ size % 2 = 0 /\ BitsPerWord \in Nat \ {0}
<1>1. BitsPerWord \in Nat \ {0}
  BY WidthAssumption
<1>2. size >= 2
  BY <1>1 DEF ValidSize, ValuesPerWord
<1>3. size % size = 0 /\ size \in 2 .. size
  BY <1>2
<1>4. size % 2 = 0
  BY <1>3 DEF ValidSize, IsPowerOfTwo
<1> QED
  BY <1>1, <1>2, <1>4

\* The greatest difference is one.
LEMMA DifferenceFacts ==
  ASSUME differences \in DifferenceSets
  PROVE  /\ differences \subseteq Nat
         /\ Greatest(differences) \in differences /\ Greatest(differences) \in Nat
         /\ \A d \in differences : d <= Greatest(differences)
<1>1. /\ differences \in SUBSET Nat /\ differences # {}
      /\ \A d \in differences : d <= MaxValue
      /\ MaxValue \in Nat
  BY RangeAssumption, SizeAssumption
<1> QED
  BY <1>1, GreatestFacts

-----------------------------------------------------------------------------
(* Segments *)

\* What is known of a worker that has been constructed.
LEMMA SegmentFacts ==
  ASSUME RangeOK, Constructed
  PROVE  /\ segmentSize \in Nat \ {0} /\ segmentSize >= 2 /\ segmentSize % 2 = 0
         /\ start \in Nat /\ end \in Nat /\ position \in Nat /\ position <= end
         /\ MaxValue \in Nat /\ Greatest(differences) \in Nat
         /\ end + Greatest(differences) + segmentSize <= MaxValue
         /\ BitsPerWord \in Nat \ {0}
<1>1. segmentSize \in Nat /\ ValidSize(segmentSize)
  BY DEF RangeOK
<1>2. segmentSize >= 2 /\ segmentSize % 2 = 0 /\ BitsPerWord \in Nat \ {0}
  BY <1>1, SizeFacts
<1>3. /\ start \in Nat /\ end \in Nat /\ position \in Nat /\ position <= end
      /\ MaxValue \in Nat
  BY RangeAssumption, SizeAssumption DEF RangeOK
<1>4. Greatest(differences) \in Nat
  BY DifferenceFacts DEF RangeOK
<1>5. MaxValue - segmentSize >= end + Greatest(differences)
  BY <1>1 DEF ValidSize
<1> QED
  BY <1>1, <1>2, <1>3, <1>4, <1>5

\* The segment that is counted ends after it begins, at a value.
LEMMA CountedSegment ==
  ASSUME IInv, pc = "sieved"
  PROVE  /\ SegmentStart \in Nat /\ segmentIndex \in Nat
         /\ SegmentStart + segmentSize = segmentIndex * segmentSize
         /\ SegmentStart + segmentSize <= MaxValue
         /\ SegmentEnd = SegmentStart + segmentSize
         /\ SegmentStart <= position /\ position < SegmentEnd /\ position < end
<1>1. /\ segmentSize \in Nat \ {0} /\ position \in Nat /\ end \in Nat /\ MaxValue \in Nat
      /\ end + Greatest(differences) + segmentSize <= MaxValue
      /\ Greatest(differences) \in Nat
  BY SegmentFacts DEF IInv, Constructed
<1>2. /\ segmentIndex - 1 \in Nat /\ position < end
      /\ (segmentIndex - 1) * segmentSize <= position
      /\ position < (segmentIndex - 1) * segmentSize + segmentSize
  BY DEF IInv, PositionInSegment, InSegment
<1> DEFINE i == segmentIndex - 1
<1>3. i * segmentSize \in Nat
  BY <1>1, <1>2
<1>4. segmentIndex = i + 1
  <2>1. segmentIndex \in Nat
    BY DEF IInv, RangeOK
  <2> QED
    BY <2>1
<1> HIDE DEF i
<1>5. segmentIndex * segmentSize = i * segmentSize + segmentSize
  BY <1>1, <1>2, <1>4 DEF i
<1>6. i * segmentSize + segmentSize \in 0 .. MaxValue
  BY <1>1, <1>2, <1>3 DEF i
<1>7. SegmentStart = i * segmentSize
  BY DEF SegmentStart, i
<1>8. SegmentEnd = i * segmentSize + segmentSize
  BY <1>6, <1>7, WrapInside DEF SegmentEnd
<1>9. segmentIndex \in Nat
  BY <1>2, <1>4 DEF i
<1> QED
  BY <1>1, <1>2, <1>3, <1>5, <1>6, <1>7, <1>8, <1>9 DEF i

LEMMA SegmentsDoNotWrap == IInv => NoWrapAround
<1> SUFFICES ASSUME IInv, pc = "sieved"
             PROVE  SegmentStart < SegmentEnd /\ segmentIndex * segmentSize <= MaxValue
  BY DEF NoWrapAround
<1>1. segmentSize \in Nat \ {0} /\ MaxValue \in Nat
  BY SegmentFacts DEF IInv, Constructed
<1>2. SegmentStart \in Nat
  BY CountedSegment
<1>3. SegmentEnd = SegmentStart + segmentSize
  BY CountedSegment
<1>4. segmentIndex * segmentSize = SegmentStart + segmentSize
  BY CountedSegment
<1>5. SegmentStart + segmentSize <= MaxValue
  BY CountedSegment
<1> QED
  BY <1>1, <1>2, <1>3, <1>4, <1>5

\* The first and the last bit to be counted are bits of the segment.
LEMMA BitsInSegment ==
  ASSUME IInv, pc = "sieved", Wanted
  PROVE  /\ FirstBit \in Nat /\ LastBit \in Nat /\ FirstBit <= LastBit
         /\ LastBit <= segmentSize \div 2 - 1
<1>1. segmentSize \in Nat \ {0} /\ segmentSize >= 2 /\ segmentSize % 2 = 0
  BY SegmentFacts DEF IInv, Constructed
<1>2. /\ SegmentStart \in Nat /\ SegmentEnd = SegmentStart + segmentSize
      /\ position \in Nat /\ end \in Nat
  BY CountedSegment, SegmentFacts DEF IInv, Constructed
<1> DEFINE odd == IF position % 2 = 0 THEN position + 1 ELSE position
           lastOdd == Wrap(IF end % 2 = 0 THEN end - 1 ELSE end - 2)
<1>3. odd \in Nat /\ lastOdd \in Int
  <2>1. (IF end % 2 = 0 THEN end - 1 ELSE end - 2) \in Int
    BY <1>2
  <2>2. lastOdd \in 0 .. MaxValue
    BY <2>1, WrapType
  <2> QED
    BY <1>2, <2>2, SizeAssumption
<1> HIDE DEF odd, lastOdd
<1>4. FirstWanted \in Nat /\ FirstWanted >= SegmentStart + 1
  <2>1. FirstWanted = Greatest({SegmentStart + 1, odd})
    BY DEF FirstWanted, odd
  <2>2. SegmentStart + 1 \in Int /\ odd \in Int
    BY <1>2, <1>3
  <2> QED
    BY <1>2, <1>3, <2>1, <2>2, GreatestOfTwo
<1>5. LastToCount \in Int /\ LastToCount <= SegmentStart + segmentSize - 1
  <2>1. LastToCount = Least({SegmentEnd - 1, lastOdd})
    BY DEF LastToCount, lastOdd
  <2>2. SegmentEnd - 1 \in Int /\ lastOdd \in Int
    BY <1>1, <1>2, <1>3
  <2> QED
    BY <1>1, <1>2, <1>3, <2>1, <2>2, LeastOfTwo
<1>6. FirstWanted <= LastToCount
  BY DEF Wanted
<1> DEFINE first == FirstWanted - (SegmentStart + 1)
           last == LastToCount - (SegmentStart + 1)
<1>7. first \in Nat /\ last \in Nat /\ first <= last /\ last <= segmentSize - 2
  BY <1>1, <1>2, <1>4, <1>5, <1>6
<1> HIDE DEF first, last
<1>8. first \div 2 \in Nat /\ last \div 2 \in Nat /\ first \div 2 <= last \div 2
  BY <1>7
<1>9. last \div 2 <= segmentSize \div 2 - 1
  BY <1>1, <1>7
<1> QED
  BY <1>8, <1>9 DEF FirstBit, LastBit, first, last

\* The look ahead is at least one word, and reaches the greatest difference.
LEMMA LookaheadFacts ==
  ASSUME differences \in DifferenceSets
  PROVE  /\ MaxLookahead \in Nat
         /\ \A d \in differences : WordShift(d) \in Nat /\ WordShift(d) + 1 <= MaxLookahead
<1> DEFINE T == {WordShift(d) + 1 : d \in differences}
           greatest == Greatest(differences)
<1>1. /\ differences \subseteq Nat /\ greatest \in differences /\ greatest \in Nat
      /\ \A d \in differences : d <= greatest
  BY DifferenceFacts
<1>2. BitsPerWord \in Nat \ {0}
  BY WidthAssumption
<1>3. \A d \in differences : WordShift(d) \in Nat
  <2> SUFFICES ASSUME NEW d \in differences PROVE WordShift(d) \in Nat
    OBVIOUS
  <2>1. d \in Nat
    BY <1>1
  <2>2. d \div 2 \in Nat
    BY <2>1
  <2> QED
    BY <1>2, <2>2, DivFacts DEF WordShift
<1>4. \A d \in differences : WordShift(d) <= WordShift(greatest)
  <2> SUFFICES ASSUME NEW d \in differences PROVE WordShift(d) <= WordShift(greatest)
    OBVIOUS
  <2>1. d \in Nat /\ d <= greatest
    BY <1>1
  <2> HIDE DEF greatest
  <2>2. d \div 2 \in Nat /\ greatest \div 2 \in Nat /\ d \div 2 <= greatest \div 2
    BY <1>1, <2>1
  <2> QED
    BY <1>2, <2>2, DivMonotone DEF WordShift
<1> HIDE DEF greatest
<1>5. T \in SUBSET Nat /\ T # {} /\ \A x \in T : x <= WordShift(greatest) + 1
  BY <1>1, <1>3, <1>4
<1>6. WordShift(greatest) + 1 \in Nat
  BY <1>1, <1>3
<1>7. Greatest(T) \in T /\ \A x \in T : x <= Greatest(T)
  BY <1>5, <1>6, GreatestFacts
<1>8. MaxLookahead = Greatest(T)
  BY DEF MaxLookahead
<1>9. \A d \in differences : WordShift(d) + 1 \in T
  OBVIOUS
<1> HIDE DEF T
<1> QED
  BY <1>3, <1>5, <1>7, <1>8, <1>9

LEMMA AccessesInBounds == IInv => AccessInBounds
<1> SUFFICES ASSUME IInv, pc = "sieved", Wanted
             PROVE  AccessInBounds
  BY DEF AccessInBounds
<1>1. /\ FirstBit \in Nat /\ LastBit \in Nat /\ FirstBit <= LastBit
      /\ LastBit <= segmentSize \div 2 - 1
  BY BitsInSegment
<1>2. /\ BitsPerWord \in Nat \ {0}
      /\ segmentSize \in Nat \ {0} /\ segmentSize >= 2 /\ segmentSize % 2 = 0
  BY SegmentFacts DEF IInv, Constructed
<1> DEFINE bits == segmentSize \div 2
<1>3. bits \in Nat /\ segmentSize = 2 * bits /\ bits - 1 \in Nat
  BY <1>2
<1>4. SegmentWords = (bits + BitsPerWord - 1) \div BitsPerWord
  BY DEF SegmentWords
<1> HIDE DEF bits
<1>5. SegmentWords = (bits - 1) \div BitsPerWord + 1
  BY <1>2, <1>3, <1>4
<1>6. SegmentWords \in Nat /\ bits <= SegmentWords * BitsPerWord
  BY <1>2, <1>3, <1>5, DivFacts
<1>7. LastBit <= bits - 1
  BY <1>1 DEF bits
<1>8. /\ FirstWord \in Nat /\ LastWord \in Nat /\ FirstWord <= LastWord
      /\ LastWord <= SegmentWords - 1
  <2>1. FirstWord \in Nat /\ LastWord \in Nat
    BY <1>1, <1>2, DivFacts DEF FirstWord, LastWord
  <2>2. FirstWord <= LastWord
    BY <1>1, <1>2, DivMonotone DEF FirstWord, LastWord
  <2>3. LastWord <= (bits - 1) \div BitsPerWord
    BY <1>1, <1>2, <1>3, <1>7, DivMonotone DEF LastWord
  <2>4. (bits - 1) \div BitsPerWord \in Nat
    BY <1>2, <1>3, DivFacts
  <2> QED
    BY <1>5, <2>1, <2>2, <2>3, <2>4
<1>9. /\ MaxLookahead \in Nat
      /\ \A d \in differences : WordShift(d) \in Nat /\ WordShift(d) + 1 <= MaxLookahead
  BY LookaheadFacts DEF IInv, RangeOK
<1>10. \A d \in differences : LastWord + WordShift(d) + 1 \in Words
  <2> SUFFICES ASSUME NEW d \in differences
               PROVE  LastWord + WordShift(d) + 1 \in Words
    OBVIOUS
  <2>1. WordShift(d) \in Nat /\ WordShift(d) + 1 <= MaxLookahead
    BY <1>9
  <2> QED
    BY <1>6, <1>8, <1>9, <2>1 DEF Words
<1>11. FirstWord \in Words
  BY <1>6, <1>8, <1>9 DEF Words
<1>12. ASSUME NEW p \in Primes, segmentIndex * segmentSize <= p,
              p < Wrap(segmentIndex * segmentSize + segmentSize)
       PROVE  (p - segmentIndex * segmentSize) \div 2 < SegmentWords * BitsPerWord
  <2> DEFINE base == segmentIndex * segmentSize
  <2>1. base \in Nat
    BY <1>2, CountedSegment
  <2>2. p \in Nat
    BY PrimesAreFinite
  <2>3. base <= p /\ p < Wrap(base + segmentSize)
    BY <1>12
  <2> HIDE DEF base
  <2>4. Wrap(base + segmentSize) <= base + segmentSize /\ Wrap(base + segmentSize) \in Int
    BY <1>2, <2>1, WrapSmaller, WrapType, SizeAssumption
  <2>5. p - base \in Nat /\ p - base < 2 * bits
    BY <1>2, <1>3, <2>1, <2>2, <2>3, <2>4
  <2>6. (p - base) \div 2 < bits
    BY <1>3, <2>5
  <2>7. SegmentWords * BitsPerWord \in Nat
    BY <1>2, <1>6
  <2> QED
    BY <1>3, <1>6, <2>5, <2>6, <2>7 DEF base
<1> QED
  BY <1>8, <1>10, <1>11, <1>12 DEF AccessInBounds

-----------------------------------------------------------------------------
(* The invariant *)

\* The default size is a power of two, whatever size the cache has.
LEMMA SuggestionFacts ==
  ASSUME NEW detected \in DetectedCaches
  PROVE  /\ SuggestedSegmentSize(detected) \in Nat
         /\ IsPowerOfTwo(SuggestedSegmentSize(detected))
<1> DEFINE T == {s \in 1 .. Cache(detected) : IsPowerOfTwo(s)}
<1>1. Cache(detected) \in Nat \ {0}
  BY SizeAssumption DEF Cache
<1>2. IsPowerOfTwo(1)
  BY DEF IsPowerOfTwo
<1>3. 1 \in T
  BY <1>1, <1>2
<1>4. T \in SUBSET Nat /\ T # {} /\ \A x \in T : x <= Cache(detected)
  BY <1>1, <1>3
<1>5. Greatest(T) \in T
  BY <1>1, <1>4, GreatestFacts
<1>6. SuggestedSegmentSize(detected) = Greatest(T)
  BY DEF SuggestedSegmentSize
<1> HIDE DEF T
<1>7. Greatest(T) \in Nat
  BY <1>4, <1>5
<1>8. IsPowerOfTwo(Greatest(T))
  BY <1>5 DEF T
<1> QED
  BY <1>6, <1>7, <1>8

LEMMA InvInit == Init => IInv
<1> SUFFICES ASSUME Init PROVE IInv
  OBVIOUS
<1>1. start \in Nat /\ end \in Nat /\ start < end
  BY RangeAssumption, SizeAssumption DEF Init
<1>2. RangeOK
  BY <1>1 DEF Init, RangeOK, Constructed
<1>3. PositionInSegment /\ DefaultsWork
  BY DEF Init, PositionInSegment, DefaultsWork
<1> QED
  BY <1>2, <1>3 DEF IInv

\* The first prime is there, and the prime 2 is only skipped inside of the range.
LEMMA ConstructedPosition ==
  ASSUME IInv, Construct
  PROVE  position' \in start .. end
<1>1. /\ start \in Nat /\ end \in Nat /\ start < end /\ position \in Nat
      /\ start <= position /\ position <= end /\ MaxValue \in Nat /\ end <= MaxValue
  BY RangeAssumption, SizeAssumption DEF IInv, RangeOK
<1>2. \E p \in Primes : p >= position
  <2>1. PICK p \in Primes : p > MaxValue
    BY HorizonIsEnough
  <2>2. p \in Nat
    BY PrimesAreFinite
  <2> QED
    BY <1>1, <2>1, <2>2
<1>3. PrimeFrom(position) >= position
  BY <1>1, <1>2, PrimeFromFacts
<1>4. PrimeFrom(position) = 2 => start <= 2
  BY <1>1, <1>3
<1>5. Least({end, 3}) = IF end <= 3 THEN end ELSE 3
  BY <1>1, LeastOfTwo
<1>6. CASE PrimeFrom(position) = 2
  <2>1. position' = position \/ position' = Least({end, 3})
    BY <1>6, Zenon DEF Construct
  <2> QED
    BY <1>1, <1>4, <1>5, <1>6, <2>1
<1>7. CASE PrimeFrom(position) # 2
  <2>1. position' = position
    BY <1>7, Zenon DEF Construct
  <2> QED
    BY <1>1, <2>1
<1> QED
  BY <1>6, <1>7

LEMMA InvConstruct ==
  ASSUME IInv, Construct
  PROVE  IInv'
<1>1. /\ UNCHANGED <<start, end, differences, parameters, segmentIndex>>
      /\ pc' \in {"run", "failed"}
  BY DEF Construct, stateVars
<1>2. PICK detected \in DetectedCaches :
        /\ segmentSize' = SegmentSizeFor(detected)
        /\ tileSize' = TileSizeGiven
        /\ pc' = "run" <=> ~(Len(parameters) > 2 \/ ~(ValidSize(SegmentSizeFor(detected))
                                                      /\ ValidTile(TileSizeGiven)))
  BY Zenon DEF Construct
<1>3. parameters \in Seq(Nat)
  BY SizeAssumption DEF IInv, RangeOK
<1>4. segmentSize' \in Nat
  BY <1>2, <1>3, SuggestionFacts DEF SegmentSizeFor
<1>5. parameters = <<>> => /\ tileSize' = SuggestedTileSize /\ ValidTile(TileSizeGiven)
                           /\ Len(parameters) = 0
                           /\ IsPowerOfTwo(segmentSize')
  <2> SUFFICES ASSUME parameters = <<>>
               PROVE  /\ tileSize' = SuggestedTileSize /\ ValidTile(TileSizeGiven)
                      /\ Len(parameters) = 0
                      /\ IsPowerOfTwo(segmentSize')
    OBVIOUS
  <2>1. Len(parameters) = 0
    OBVIOUS
  <2>2. TileSizeGiven = 2
    BY <2>1 DEF TileSizeGiven, SuggestedTileSize
  <2>3. ValidTile(2)
    BY SizeAssumption DEF ValidTile
  <2>4. segmentSize' = SuggestedSegmentSize(detected)
    BY <1>2 DEF SegmentSizeFor
  <2> QED
    BY <1>2, <2>1, <2>2, <2>3, <2>4, SuggestionFacts DEF SuggestedTileSize
<1>6. pc' = "run" <=> ~(Len(parameters) > 2 \/ ~(ValidSize(segmentSize')
                                                  /\ ValidTile(TileSizeGiven)))
  BY <1>2
<1>7. RangeOK'
  <2>1. position' \in start' .. end'
    BY <1>1, ConstructedPosition
  <2>2. Constructed' => ValidSize(segmentSize)'
    BY <1>1, <1>6 DEF Constructed, ValidSize
  <2> QED
    BY <1>1, <1>4, <1>5, <2>1, <2>2 DEF IInv, RangeOK, Constructed
<1>8. PositionInSegment'
  BY <1>1 DEF PositionInSegment
<1>9. DefaultsWork'
  <2> SUFFICES ASSUME pc' = "failed", parameters = <<>>
               PROVE  \/ segmentSize' <= Greatest(differences)
                      \/ segmentSize' < ValuesPerWord
                      \/ end + Greatest(differences) > MaxValue - segmentSize'
    BY <1>1 DEF DefaultsWork
  <2>1. ~ValidSize(segmentSize') /\ IsPowerOfTwo(segmentSize')
    BY <1>5, <1>6
  <2>2. /\ Greatest(differences) \in Nat /\ ValuesPerWord \in Nat /\ end \in Nat
        /\ MaxValue \in Nat
    BY DifferenceFacts, RangeAssumption, SizeAssumption, WidthAssumption
       DEF IInv, RangeOK, ValuesPerWord
  <2> QED
    BY <1>4, <2>1, <2>2 DEF ValidSize
<1> QED
  BY <1>7, <1>8, <1>9 DEF IInv

\* The steps of the loop.
LEMMA RangeKept ==
  ASSUME RangeOK, UNCHANGED <<stateVars, sizes>>,
         pc' \in {pc, "run", "loop", "sieved", "left"}, Constructed,
         position' \in start .. end, segmentIndex' \in Nat
  PROVE  RangeOK'
BY DEF RangeOK, Constructed, ValidSize, stateVars, sizes

LEMMA InvRun ==
  ASSUME IInv, Run
  PROVE  IInv'
<1>1. /\ UNCHANGED <<stateVars, sizes, position>> /\ pc = "run" /\ pc' \in {"left", "loop"}
      /\ pc' = "loop" => segmentIndex' = position \div segmentSize
      /\ pc' = "left" => segmentIndex' = segmentIndex
  BY DEF Run
<1>2. segmentSize \in Nat \ {0} /\ position \in Nat
  BY <1>1, SegmentFacts DEF IInv, Constructed
<1>3. /\ position \div segmentSize \in Nat
      /\ (position \div segmentSize) * segmentSize <= position
      /\ position < (position \div segmentSize) * segmentSize + segmentSize
  BY <1>2, DivFacts
<1>4. RangeOK'
  <2>1. segmentIndex' \in Nat
    BY <1>1, <1>3 DEF IInv, RangeOK
  <2> QED
    BY <1>1, <2>1, RangeKept DEF IInv, RangeOK, Constructed
<1>5. PositionInSegment'
  BY <1>1, <1>3 DEF PositionInSegment, InSegment, sizes
<1>6. DefaultsWork'
  BY <1>1 DEF DefaultsWork
<1> QED
  BY <1>4, <1>5, <1>6 DEF IInv

LEMMA InvSieveNext ==
  ASSUME IInv, SieveNext
  PROVE  IInv'
<1>1. /\ UNCHANGED <<stateVars, sizes, position>> /\ pc = "loop" /\ pc' = "sieved"
      /\ position < end /\ segmentIndex' = segmentIndex + 1
  BY DEF SieveNext
<1>2. segmentIndex \in Nat /\ InSegment(segmentIndex)
  BY <1>1 DEF IInv, RangeOK, PositionInSegment
<1>3. RangeOK'
  BY <1>1, <1>2, RangeKept DEF IInv, RangeOK, Constructed
<1>4. segmentIndex' - 1 = segmentIndex
  BY <1>1, <1>2
<1>5. PositionInSegment'
  BY <1>1, <1>2, <1>4 DEF PositionInSegment, InSegment, stateVars, sizes
<1>6. DefaultsWork'
  BY <1>1 DEF DefaultsWork
<1> QED
  BY <1>3, <1>5, <1>6 DEF IInv

\* The position moves to the end of the segment, or of the range.
LEMMA ProcessedPosition ==
  ASSUME IInv, ProcessSegment
  PROVE  /\ position' \in Nat /\ position' > position /\ position' \in start .. end
         /\ position' < end => position' = segmentIndex * segmentSize
<1>1. pc = "sieved" /\ position' = Least({SegmentEnd, end})
  BY DEF ProcessSegment, PositionAfter
<1>2. /\ start \in Nat /\ end \in Nat /\ position \in Nat /\ segmentSize \in Nat
      /\ start <= position
  BY <1>1, SegmentFacts, RangeAssumption, SizeAssumption DEF IInv, Constructed, RangeOK
<1>3. /\ SegmentEnd = segmentIndex * segmentSize /\ SegmentEnd \in Nat
      /\ position < SegmentEnd /\ position < end
  BY <1>1, <1>2, CountedSegment
<1>4. position' = IF SegmentEnd <= end THEN SegmentEnd ELSE end
  BY <1>1, <1>2, <1>3, LeastOfTwo
<1> QED
  BY <1>2, <1>3, <1>4

LEMMA InvProcessSegment ==
  ASSUME IInv, ProcessSegment
  PROVE  IInv'
<1>1. /\ UNCHANGED <<stateVars, sizes, segmentIndex>> /\ pc = "sieved" /\ pc' = "loop"
  BY DEF ProcessSegment
<1>2. /\ position' \in start .. end
      /\ position' < end => position' = segmentIndex * segmentSize
  BY ProcessedPosition
<1>3. segmentIndex \in Nat /\ segmentSize \in Nat \ {0}
  BY <1>1, SegmentFacts DEF IInv, RangeOK, Constructed
<1>4. RangeOK'
  BY <1>1, <1>2, <1>3, RangeKept DEF IInv, RangeOK, Constructed
<1>5. PositionInSegment'
  <2>1. segmentIndex * segmentSize \in Nat
    BY <1>3
  <2>2. segmentIndex * segmentSize < segmentIndex * segmentSize + segmentSize
    BY <1>3, <2>1
  <2> QED
    BY <1>1, <1>2, <1>3, <2>1, <2>2 DEF PositionInSegment, InSegment, stateVars, sizes
<1>6. DefaultsWork'
  BY <1>1 DEF DefaultsWork
<1> QED
  BY <1>4, <1>5, <1>6 DEF IInv

\* The steps out of the loop.
LEMMA InvLeave ==
  ASSUME IInv, Leave
  PROVE  IInv'
<1>1. /\ UNCHANGED <<stateVars, sizes, position, segmentIndex>>
      /\ pc = "loop" /\ pc' = "left"
  BY DEF Leave, segmentVars
<1>2. RangeOK'
  BY <1>1, RangeKept DEF IInv, RangeOK, Constructed
<1>3. PositionInSegment' /\ DefaultsWork'
  BY <1>1 DEF PositionInSegment, DefaultsWork
<1> QED
  BY <1>2, <1>3 DEF IInv

\* The default tile size is one that code is compiled for.
LEMMA InvAccumulateThrows ==
  ASSUME IInv, AccumulateThrows
  PROVE  IInv'
<1>1. /\ UNCHANGED <<start, end, differences, parameters, position, segmentIndex>>
      /\ pc = "sieved" /\ pc' = "failed" /\ tileSize \notin FixedTiles
  BY DEF AccumulateThrows, stateVars, segmentVars
<1>2. parameters # <<>>
  BY <1>1, SizeAssumption DEF IInv, RangeOK, Constructed, SuggestedTileSize
<1>3. RangeOK'
  BY <1>1 DEF IInv, RangeOK, Constructed
<1>4. PositionInSegment' /\ DefaultsWork'
  BY <1>1, <1>2 DEF PositionInSegment, DefaultsWork
<1> QED
  BY <1>3, <1>4 DEF IInv

LEMMA InvResume ==
  ASSUME IInv, Resume
  PROVE  IInv'
<1>1. /\ UNCHANGED <<start, end, differences, parameters, position>>
      /\ pc' = "construct" /\ segmentIndex' = 0
  BY DEF Resume, stateVars
<1>2. RangeOK'
  BY <1>1 DEF IInv, RangeOK, Constructed
<1>3. PositionInSegment' /\ DefaultsWork'
  BY <1>1 DEF PositionInSegment, DefaultsWork
<1> QED
  BY <1>2, <1>3 DEF IInv

LEMMA InvNext ==
  ASSUME IInv, [Next]_vars
  PROVE  IInv'
<1>1. CASE UNCHANGED vars
  BY <1>1 DEF IInv, RangeOK, PositionInSegment, DefaultsWork, InSegment, Constructed, ValidSize,
              vars, stateVars, segmentVars, sizes
<1> QED
  BY <1>1, InvConstruct, InvRun, InvLeave, InvSieveNext, InvProcessSegment,
     InvAccumulateThrows, InvResume DEF Next

-----------------------------------------------------------------------------
(* Powers of two *)

\* Half of a power of two is one.
LEMMA PowerHalf ==
  ASSUME NEW n \in Nat, IsPowerOfTwo(n), n # 1
  PROVE  /\ n % 2 = 0 /\ n \div 2 \in Nat \ {0} /\ n = 2 * (n \div 2)
         /\ IsPowerOfTwo(n \div 2)
<1>1. n >= 2 /\ n \in 2 .. n /\ n % n = 0
  BY DEF IsPowerOfTwo
<1>2. n % 2 = 0
  BY <1>1 DEF IsPowerOfTwo
<1> DEFINE h == n \div 2
<1>3. h \in Nat \ {0} /\ n = 2 * h
  BY <1>1, <1>2
<1> HIDE DEF h
<1>4. ASSUME NEW k \in 2 .. h, h % k = 0
      PROVE  k % 2 = 0
  <2> DEFINE q == h \div k
  <2>1. k \in Nat \ {0} /\ k \in 2 .. n
    BY <1>3
  <2>2. q \in Nat /\ h = q * k
    <3>1. h \div k \in Nat /\ h = (h \div k) * k + (h % k)
      BY <1>3, <2>1, DivMod
    <3>2. (h \div k) * k \in Nat
      BY <2>1, <3>1
    <3> QED
      BY <1>4, <3>1, <3>2
  <2> HIDE DEF q
  <2>3. (2 * q) * k = 2 * (q * k)
    BY <2>1, <2>2
  <2>4. n = (2 * q) * k + 0
    BY <1>3, <2>2, <2>3
  <2>5. 2 * q \in Nat /\ 0 \in 0 .. k - 1
    BY <2>1, <2>2
  <2>6. n % k = 0
    BY <2>1, <2>4, <2>5, DivUnique
  <2> QED
    BY <2>1, <2>6 DEF IsPowerOfTwo
<1> QED
  BY <1>2, <1>3, <1>4 DEF IsPowerOfTwo, h

\* Of two powers of two the smaller one divides the other.
LEMMA PowersDivide ==
  ASSUME NEW n \in Nat, IsPowerOfTwo(n), NEW m \in Nat, IsPowerOfTwo(m), n <= m
  PROVE  \E k \in Nat \ {0} : m = k * n
<1> DEFINE Divides(b) == \A x, y \in Nat : /\ IsPowerOfTwo(x) /\ IsPowerOfTwo(y)
                                           /\ x <= y /\ y <= b
                                           => \E k \in Nat \ {0} : y = k * x
           T == {b \in Nat : Divides(b)}
<1>1. 0 \in T
  BY DEF IsPowerOfTwo
<1>2. ASSUME NEW b \in Nat, b \in T
      PROVE  b + 1 \in T
  <2>1. Divides(b)
    BY <1>2
  <2> HIDE DEF T
  <2>2. ASSUME NEW x \in Nat, NEW y \in Nat, IsPowerOfTwo(x), IsPowerOfTwo(y),
               x <= y, y <= b + 1
        PROVE  \E k \in Nat \ {0} : y = k * x
    <3>1. x # 0 /\ y # 0
      BY <2>2 DEF IsPowerOfTwo
    <3>2. CASE x = 1
      <4>1. y \in Nat \ {0} /\ y = y * x
        BY <3>1, <3>2
      <4> QED
        BY <4>1
    <3>3. CASE x # 1
      <4>1. y # 1
        BY <2>2, <3>1, <3>3
      <4> DEFINE u == x \div 2
                 v == y \div 2
      <4>2. u \in Nat \ {0} /\ x = 2 * u /\ IsPowerOfTwo(u)
        BY <2>2, <3>3, PowerHalf
      <4>3. v \in Nat \ {0} /\ y = 2 * v /\ IsPowerOfTwo(v)
        BY <2>2, <4>1, PowerHalf
      <4> HIDE DEF u, v
      <4>4. u <= v /\ v <= b
        BY <2>2, <4>2, <4>3
      <4>5. PICK k \in Nat \ {0} : v = k * u
        BY <2>1, <4>2, <4>3, <4>4
      <4>6. y = k * x
        BY <4>2, <4>3, <4>5
      <4> QED
        BY <4>6
    <3> QED
      BY <3>2, <3>3
  <2>3. Divides(b + 1)
    BY <2>2
  <2> QED
    BY <2>3 DEF T
<1> HIDE DEF T
<1>3. \A b \in Nat : b \in T
  BY <1>1, <1>2, Induction
<1>4. Divides(m)
  BY <1>3 DEF T
<1> QED
  BY <1>4

\* A segment is a whole number of words.
LEMMA SegmentIsWords ==
  ASSUME RangeOK, Constructed
  PROVE  /\ SegmentWords \in Nat \ {0}
         /\ SegmentWords * BitsPerWord = segmentSize \div 2
         /\ 2 * (SegmentWords * BitsPerWord) = segmentSize
<1>1. segmentSize \in Nat /\ ValidSize(segmentSize)
  BY DEF RangeOK
<1>2. segmentSize >= 2 /\ segmentSize % 2 = 0 /\ BitsPerWord \in Nat \ {0}
  BY <1>1, SizeFacts
<1> DEFINE h == segmentSize \div 2
<1>3. segmentSize # 1 /\ IsPowerOfTwo(segmentSize)
  BY <1>1, <1>2 DEF ValidSize
<1>4. h \in Nat \ {0} /\ segmentSize = 2 * h /\ IsPowerOfTwo(h)
  BY <1>1, <1>3, PowerHalf
<1>5. SegmentWords = (h + BitsPerWord - 1) \div BitsPerWord
  BY DEF SegmentWords
<1> HIDE DEF h
<1>6. BitsPerWord <= h
  BY <1>1, <1>2, <1>4 DEF ValidSize, ValuesPerWord
<1>7. PICK k \in Nat \ {0} : h = k * BitsPerWord
  BY <1>2, <1>4, <1>6, WordAssumption, PowersDivide
<1>8. h + BitsPerWord - 1 = k * BitsPerWord + (BitsPerWord - 1)
  BY <1>2, <1>4, <1>7
<1>9. h + BitsPerWord - 1 \in Nat /\ BitsPerWord - 1 \in 0 .. BitsPerWord - 1
  BY <1>2, <1>4
<1>10. SegmentWords = k
  BY <1>2, <1>5, <1>8, <1>9, DivUnique
<1> QED
  BY <1>4, <1>7, <1>10 DEF h

\* No difference reaches beyond the next segment.
LEMMA LookaheadShort ==
  ASSUME RangeOK, Constructed
  PROVE  /\ MaxLookahead \in Nat \ {0} /\ MaxLookahead <= SegmentWords
         /\ \A d \in differences : /\ d \in Nat /\ d % 2 = 0 /\ d <= Greatest(differences)
                                   /\ WordShift(d) \in Nat /\ BitShift(d) \in Bits
                                   /\ d = 2 * (WordShift(d) * BitsPerWord + BitShift(d))
                                   /\ WordShift(d) + 1 <= MaxLookahead
<1> DEFINE T == {WordShift(d) + 1 : d \in differences}
<1>1. /\ differences \subseteq Nat /\ differences # {}
      /\ Greatest(differences) \in differences /\ Greatest(differences) \in Nat
      /\ \A d \in differences : d <= Greatest(differences)
  BY DifferenceFacts DEF RangeOK
<1>2. BitsPerWord \in Nat \ {0} /\ segmentSize \in Nat /\ Greatest(differences) < segmentSize
  BY SegmentFacts DEF RangeOK, ValidSize
<1>3. SegmentWords \in Nat \ {0} /\ 2 * (SegmentWords * BitsPerWord) = segmentSize
  BY SegmentIsWords
<1>4. ASSUME NEW d \in differences
      PROVE  /\ d \in Nat /\ d % 2 = 0 /\ d <= Greatest(differences)
             /\ WordShift(d) \in Nat /\ BitShift(d) \in Bits
             /\ d = 2 * (WordShift(d) * BitsPerWord + BitShift(d))
             /\ WordShift(d) + 1 <= SegmentWords
  <2>1. d \in Nat /\ d % 2 = 0 /\ d <= Greatest(differences)
    BY <1>1, RangeAssumption DEF RangeOK
  <2> DEFINE h == d \div 2
  <2>2. h \in Nat /\ d = 2 * h
    BY <2>1
  <2>3. WordShift(d) = h \div BitsPerWord /\ BitShift(d) = h % BitsPerWord
    BY DEF WordShift, BitShift
  <2> HIDE DEF h
  <2>4. /\ WordShift(d) \in Nat /\ BitShift(d) \in Bits
        /\ h = WordShift(d) * BitsPerWord + BitShift(d)
    BY <2>2, <2>3, BitPlace
  <2>5. h < SegmentWords * BitsPerWord
    <3>1. SegmentWords * BitsPerWord \in Nat
      BY <1>2, <1>3
    <3> QED
      BY <1>1, <1>2, <1>3, <2>1, <2>2, <3>1
  <2>6. h \in 0 .. SegmentWords * BitsPerWord - 1
    <3>1. SegmentWords * BitsPerWord \in Nat
      BY <1>2, <1>3
    <3> QED
      BY <2>2, <2>5, <3>1
  <2>7. WordShift(d) \in 0 .. SegmentWords - 1
    BY <1>3, <2>3, <2>6, InSpan
  <2> QED
    BY <1>3, <2>1, <2>2, <2>4, <2>7
<1>5. T \in SUBSET Nat /\ T # {} /\ \A x \in T : x <= SegmentWords
  <2>1. \A d \in differences : WordShift(d) + 1 \in Nat /\ WordShift(d) + 1 <= SegmentWords
    BY <1>4
  <2> QED
    BY <1>1, <2>1
<1>6. Greatest(T) \in T
  BY <1>3, <1>5, GreatestFacts
<1>7. MaxLookahead = Greatest(T)
  BY DEF MaxLookahead
<1>8. \A x \in T : x \in Nat \ {0}
  BY <1>4
<1> HIDE DEF T
<1>9. MaxLookahead \in Nat \ {0} /\ MaxLookahead <= SegmentWords
  BY <1>5, <1>6, <1>7, <1>8
<1>10. \A d \in differences : WordShift(d) + 1 <= MaxLookahead
  BY LookaheadFacts DEF RangeOK
<1> QED
  BY <1>4, <1>9, <1>10

-----------------------------------------------------------------------------
(* Sieving *)

\* A segment may be sieved: the iterator is at an odd prime.
Sievable(seg) ==
  /\ RangeOK /\ Constructed
  /\ prime \in Primes /\ prime # 2
  /\ seg \in Nat /\ seg * segmentSize <= MaxValue

LEMMA SievableFacts ==
  ASSUME NEW seg, Sievable(seg)
  PROVE  /\ segmentSize \in Nat \ {0} /\ segmentSize % 2 = 0
         /\ seg * segmentSize \in Nat /\ MaxValue \in Nat
         /\ prime \in Nat /\ prime >= 3
         /\ LastPrimeWanted \in Nat /\ LastPrimeWanted + segmentSize <= MaxValue
<1>1. segmentSize \in Nat \ {0} /\ segmentSize % 2 = 0
  BY SegmentFacts DEF Sievable
<1>2. MaxValue \in Nat /\ end \in Nat /\ Greatest(differences) \in Nat
  BY SegmentFacts DEF Sievable
<1>3. end + Greatest(differences) + segmentSize <= MaxValue
  BY SegmentFacts DEF Sievable
<1>4. seg * segmentSize \in Nat
  BY <1>1 DEF Sievable
<1>5. prime \in Nat /\ prime >= 3
  BY PrimesAreFinite DEF Sievable
<1> QED
  BY <1>1, <1>2, <1>3, <1>4, <1>5 DEF LastPrimeWanted

\* The first prime that is looked at skips only what is not of the segment.
LEMMA FirstSievedFacts ==
  ASSUME NEW seg, Sievable(seg)
  PROVE  /\ FirstSieved(seg) \in Primes /\ FirstSieved(seg) \in Nat
         /\ FirstSieved(seg) >= seg * segmentSize /\ FirstSieved(seg) >= 3
         /\ \A q \in Primes : seg * segmentSize <= q /\ prime <= q => FirstSieved(seg) <= q
<1> DEFINE base == seg * segmentSize
<1>1. base \in Nat /\ prime \in Nat /\ prime >= 3 /\ MaxValue \in Nat /\ base <= MaxValue
  BY SievableFacts DEF Sievable
<1>2. FirstSieved(seg) = IF prime < base THEN PrimeFrom(base) ELSE prime
  BY DEF FirstSieved
<1>3. prime \in Primes
  BY DEF Sievable
<1> HIDE DEF base
<1>4. \E p \in Primes : p >= base
  <2>1. PICK p \in Primes : p > MaxValue
    BY HorizonIsEnough
  <2>2. p \in Nat
    BY PrimesAreFinite
  <2> QED
    BY <1>1, <2>1, <2>2
<1>5. /\ PrimeFrom(base) \in Primes /\ PrimeFrom(base) >= base
      /\ \A q \in Primes : q >= base => PrimeFrom(base) <= q
  BY <1>1, <1>4, PrimeFromFacts
<1>6. PrimeFrom(base) \in Nat
  BY <1>5, PrimesAreFinite
<1>7. CASE prime < base
  <2>1. FirstSieved(seg) = PrimeFrom(base)
    BY <1>2, <1>7
  <2>2. \A q \in Primes : base <= q => FirstSieved(seg) <= q
    <3> SUFFICES ASSUME NEW q \in Primes, base <= q PROVE PrimeFrom(base) <= q
      BY <2>1
    <3>1. q \in Nat
      BY PrimesAreFinite
    <3> QED
      BY <1>1, <1>5, <3>1
  <2> QED
    BY <1>1, <1>5, <1>6, <1>7, <2>1, <2>2 DEF base
<1>8. CASE ~(prime < base)
  <2>1. FirstSieved(seg) = prime
    BY <1>2, <1>8
  <2> QED
    BY <1>1, <1>3, <1>8, <2>1 DEF base
<1> QED
  BY <1>7, <1>8

\* The end of a segment that is wanted does not wrap around.
LEMMA SievedFacts ==
  ASSUME NEW seg, Sievable(seg)
  PROVE  /\ Sieved(seg) \subseteq Primes
         /\ \A p \in Sieved(seg) :
              /\ p \in Nat /\ p >= 3 /\ p % 2 = 1 /\ p <= LastPrimeWanted
              /\ seg * segmentSize <= p /\ p < seg * segmentSize + segmentSize
         /\ \A p \in Primes : /\ seg * segmentSize <= p /\ p < seg * segmentSize + segmentSize
                              /\ p <= LastPrimeWanted /\ prime <= p
                              => p \in Sieved(seg)
<1> DEFINE base == seg * segmentSize
<1>1. /\ base \in Nat /\ segmentSize \in Nat /\ MaxValue \in Nat
      /\ prime \in Nat /\ LastPrimeWanted \in Nat
      /\ LastPrimeWanted + segmentSize <= MaxValue
  BY SievableFacts
<1>2. /\ FirstSieved(seg) \in Nat /\ FirstSieved(seg) >= base /\ FirstSieved(seg) >= 3
      /\ \A q \in Primes : base <= q /\ prime <= q => FirstSieved(seg) <= q
  BY FirstSievedFacts
<1>3. Sieved(seg) = {p \in Primes : /\ FirstSieved(seg) <= p
                                    /\ p < Wrap(base + segmentSize)
                                    /\ p <= LastPrimeWanted}
  BY DEF Sieved
<1> HIDE DEF base
<1>4. Wrap(base + segmentSize) <= base + segmentSize /\ Wrap(base + segmentSize) \in Int
  BY <1>1, WrapSmaller, WrapType
<1>5. ASSUME NEW p \in Sieved(seg)
      PROVE  /\ p \in Nat /\ p >= 3 /\ p % 2 = 1 /\ p <= LastPrimeWanted
             /\ base <= p /\ p < base + segmentSize
  <2>1. /\ p \in Primes /\ FirstSieved(seg) <= p /\ p < Wrap(base + segmentSize)
        /\ p <= LastPrimeWanted
    BY <1>3
  <2>2. p \in Nat
    BY <2>1, PrimesAreFinite
  <2>3. p >= 3
    BY <1>2, <2>1, <2>2
  <2>4. p % 2 # 0
    BY <2>1, <2>3, OddPrimes
  <2> QED
    BY <1>1, <1>2, <1>4, <2>1, <2>2, <2>3, <2>4
<1>6. ASSUME NEW p \in Primes, base <= p, p < base + segmentSize, p <= LastPrimeWanted, prime <= p
      PROVE  p \in Sieved(seg)
  <2>1. p \in Nat
    BY PrimesAreFinite
  <2>2. base + segmentSize \in 0 .. MaxValue
    BY <1>1, <1>6, <2>1
  <2>3. Wrap(base + segmentSize) = base + segmentSize
    BY <2>2, WrapInside
  <2> QED
    BY <1>2, <1>3, <1>6, <2>3
<1> QED
  BY <1>3, <1>5, <1>6 DEF base

\* The iterator stays before every prime of the segments that follow.
LEMMA PrimeAfterFacts ==
  ASSUME NEW seg, Sievable(seg)
  PROVE  /\ PrimeAfter(seg) \in Primes /\ PrimeAfter(seg) # 2
         /\ \A q \in Primes : seg * segmentSize + segmentSize <= q /\ prime <= q
                                => PrimeAfter(seg) <= q
<1> DEFINE base == seg * segmentSize
           greatest == Greatest(Sieved(seg))
<1>1. /\ base \in Nat /\ segmentSize \in Nat /\ MaxValue \in Nat
      /\ prime \in Nat /\ LastPrimeWanted \in Nat /\ LastPrimeWanted <= MaxValue
  BY SievableFacts
<1>2. /\ FirstSieved(seg) \in Primes /\ FirstSieved(seg) >= 3
      /\ \A q \in Primes : base <= q /\ prime <= q => FirstSieved(seg) <= q
  BY FirstSievedFacts
<1>3. /\ Sieved(seg) \subseteq Primes
      /\ \A p \in Sieved(seg) : p \in Nat /\ p >= 3 /\ p <= LastPrimeWanted /\ p < base + segmentSize
  BY SievedFacts
<1>4. PrimeAfter(seg) = IF Sieved(seg) = {} THEN FirstSieved(seg) ELSE NextPrime(greatest)
  BY DEF PrimeAfter
<1> HIDE DEF base
<1>5. CASE Sieved(seg) = {}
  <2>1. PrimeAfter(seg) = FirstSieved(seg)
    BY <1>4, <1>5
  <2>2. ASSUME NEW q \in Primes, base + segmentSize <= q, prime <= q
        PROVE  FirstSieved(seg) <= q
    <3>1. q \in Nat
      BY PrimesAreFinite
    <3> QED
      BY <1>1, <1>2, <2>2, <3>1
  <2>3. FirstSieved(seg) # 2
    BY <1>2
  <2> QED
    BY <1>2, <2>1, <2>2, <2>3 DEF base
<1>6. CASE Sieved(seg) # {}
  <2>1. greatest \in Sieved(seg)
    <3>1. Sieved(seg) \in SUBSET Nat
      BY <1>3
    <3> QED
      BY <1>1, <1>3, <1>6, <3>1, GreatestFacts
  <2>2. greatest \in Nat /\ greatest >= 3 /\ greatest <= LastPrimeWanted /\ greatest < base + segmentSize
    BY <1>3, <2>1
  <2> HIDE DEF greatest
  <2>3. \E q \in Primes : q > greatest
    <3>1. PICK q \in Primes : q > MaxValue
      BY HorizonIsEnough
    <3>2. q \in Nat
      BY PrimesAreFinite
    <3> QED
      BY <1>1, <2>2, <3>1, <3>2
  <2>4. /\ NextPrime(greatest) \in Primes /\ NextPrime(greatest) > greatest
        /\ \A q \in Primes : q < NextPrime(greatest) => q <= greatest
    BY <2>2, <2>3, NextPrimeFacts
  <2>5. NextPrime(greatest) \in Nat /\ NextPrime(greatest) # 2
    <3>1. NextPrime(greatest) \in Nat
      BY <2>4, PrimesAreFinite
    <3> QED
      BY <2>2, <2>4, <3>1
  <2>6. ASSUME NEW q \in Primes, base + segmentSize <= q
        PROVE  NextPrime(greatest) <= q
    <3>1. q \in Nat
      BY PrimesAreFinite
    <3>2. ~(q <= greatest)
      BY <1>1, <2>2, <2>6, <3>1
    <3>3. ~(q < NextPrime(greatest))
      BY <2>4, <3>2
    <3> QED
      BY <2>5, <3>1, <3>3
  <2> QED
    BY <1>4, <1>6, <2>4, <2>5, <2>6 DEF base
<1> QED
  BY <1>5, <1>6

\* The words of a segment and of the look ahead make a span.
LEMMA WordsFacts ==
  ASSUME RangeOK, Constructed
  PROVE  /\ SegmentWords + MaxLookahead \in Nat
         /\ Words = 0 .. (SegmentWords + MaxLookahead) - 1
         /\ [Words -> 0 .. NotZero] = Span(SegmentWords + MaxLookahead)
<1>1. SegmentWords \in Nat /\ MaxLookahead \in Nat
  BY SegmentIsWords, LookaheadShort
<1>2. Words = 0 .. (SegmentWords + MaxLookahead) - 1
  BY <1>1 DEF Words
<1>3. [Words -> 0 .. NotZero] = Span(SegmentWords + MaxLookahead)
  BY <1>2 DEF Span, Word
<1> QED
  BY <1>1, <1>2, <1>3

\* Setting the bits of a set of indices, one after the other.
LEMMA SetBits ==
  ASSUME NEW m \in Nat, NEW base \in Nat, NEW S, IsFiniteSet(S),
         \A p \in S : (p - base) \div 2 \in 0 .. m * BitsPerWord - 1,
         NEW a \in Span(m), \A j \in 0 .. m * BitsPerWord - 1 : ~HasBit(a, j)
  PROVE  LET f == FoldSet(LAMBDA p, x : SetBit(x, (p - base) \div 2), a, S)
         IN  /\ f \in Span(m)
             /\ \A j \in 0 .. m * BitsPerWord - 1 :
                  HasBit(f, j) <=> \E p \in S : j = (p - base) \div 2
<1> DEFINE all == 0 .. m * BitsPerWord - 1
           g == [z \in S \X Span(m) |-> SetBit(z[2], (z[1] - base) \div 2)]
           c == [s \in SUBSET S |-> CHOOSE x \in s : TRUE]
           Fold(h) == \A s \in SUBSET S :
                        h[s] = IF s = {} THEN a ELSE g[<<c[s], h[s \ {c[s]}]>>]
           IsIter(h) == h = [s \in SUBSET S |->
                               IF s = {} THEN a
                               ELSE LET x == CHOOSE x \in s : TRUE
                                    IN  SetBit(h[s \ {x}], (x - base) \div 2)]
           iter == CHOOSE h : IsIter(h)
<1>1. FoldSet(LAMBDA p, x : SetBit(x, (p - base) \div 2), a, S) = iter[S]
  BY DEF FoldSet, MapThenFoldSet
<1>2. \A p \in S, v \in Span(m) : SetBit(v, (p - base) \div 2) \in Span(m)
  BY SetBitFacts
<1>3. \A p \in S, v \in Span(m) : /\ g[<<p, v>>] = SetBit(v, (p - base) \div 2)
                                  /\ g[<<p, v>>] \in Span(m)
  <2> SUFFICES ASSUME NEW p \in S, NEW v \in Span(m)
               PROVE  /\ g[<<p, v>>] = SetBit(v, (p - base) \div 2)
                      /\ g[<<p, v>>] \in Span(m)
    OBVIOUS
  <2>1. <<p, v>> \in S \X Span(m) /\ <<p, v>>[1] = p /\ <<p, v>>[2] = v
    OBVIOUS
  <2>2. g[<<p, v>>] = SetBit(v, (p - base) \div 2)
    BY <2>1
  <2> QED
    BY <1>2, <2>2
<1>4. \A s \in SUBSET S : s # {} => c[s] = (CHOOSE x \in s : TRUE) /\ c[s] \in s
  OBVIOUS
<1> HIDE DEF g, c
<1>5. PICK f \in [SUBSET S -> Span(m)] : Fold(f)
  <2>1. DOMAIN c = SUBSET S /\ \A s \in SUBSET S : s # {} => c[s] \in s
    BY <1>4 DEF c
  <2>2. g \in [S \X Span(m) -> Span(m)]
    <3>1. \A z \in S \X Span(m) : SetBit(z[2], (z[1] - base) \div 2) \in Span(m)
      BY <1>2
    <3> QED
      BY <3>1 DEF g
  <2> HIDE DEF Fold, IsIter, iter, all
  <2>3. \E f : IsFold(f, S, Span(m), a, g, c)
    BY <2>1, <2>2, FoldExists, Zenon
  <2> QED
    BY <2>3 DEF IsFold, Fold
<1>6. ASSUME NEW s \in SUBSET S, s # {}
      PROVE  /\ c[s] \in s /\ c[s] \in S /\ s \ {c[s]} \in SUBSET S
             /\ f[s \ {c[s]}] \in Span(m)
             /\ f[s] = SetBit(f[s \ {c[s]}], (c[s] - base) \div 2)
  <2>1. c[s] \in s /\ c[s] \in S /\ s \ {c[s]} \in SUBSET S
    BY <1>4, <1>6
  <2>2. f[s \ {c[s]}] \in Span(m)
    BY <1>5, <2>1
  <2>3. f[s] = g[<<c[s], f[s \ {c[s]}]>>]
    BY <1>5, <1>6
  <2> QED
    BY <1>3, <2>1, <2>2, <2>3
<1>7. IsIter(f)
  <2> DEFINE F(s) == IF s = {} THEN a
                     ELSE LET x == CHOOSE x \in s : TRUE
                          IN  SetBit(f[s \ {x}], (x - base) \div 2)
  <2>1. ASSUME NEW s \in SUBSET S PROVE f[s] = F(s)
    <3>1. CASE s = {}
      BY <1>5, <3>1
    <3>2. CASE s # {}
      <4>1. F(s) = SetBit(f[s \ {c[s]}], (c[s] - base) \div 2)
        BY <1>4, <3>2
      <4> QED
        BY <1>6, <3>2, <4>1
    <3> QED
      BY <3>1, <3>2
  <2>2. f = [s \in SUBSET S |-> f[s]]
    BY <1>5
  <2> HIDE DEF F
  <2>3. f = [s \in SUBSET S |-> F(s)]
    BY <2>1, <2>2
  <2> QED
    BY <2>3 DEF F
<1>8. IsIter(iter)
  BY <1>7
<1> HIDE DEF iter
<1> DEFINE Right(s) == /\ iter[s] \in Span(m)
                       /\ \A j \in all : HasBit(iter[s], j) <=> \E p \in s : j = (p - base) \div 2
           T == {s \in SUBSET S : Right(s)}
<1>9. {} \in T
  <2>1. iter[{}] = a
    BY <1>8
  <2> QED
    BY <2>1
<1>10. ASSUME NEW s \in SUBSET S, s # {}, \A x \in s : s \ {x} \in T
       PROVE  s \in T
  <2> DEFINE x == CHOOSE x \in s : TRUE
  <2>1. iter[s] = SetBit(iter[s \ {x}], (x - base) \div 2)
    BY <1>8, <1>10
  <2>2. x \in s
    BY <1>10
  <2> HIDE DEF x
  <2>3. Right(s \ {x})
    BY <1>10, <2>2
  <2> DEFINE b == iter[s \ {x}]
             i == (x - base) \div 2
  <2>4. b \in Span(m) /\ i \in all
    BY <2>2, <2>3
  <2>5. \A j \in all : HasBit(b, j) <=> \E p \in s \ {x} : j = (p - base) \div 2
    BY <2>3
  <2>6. iter[s] = SetBit(b, i)
    BY <2>1
  <2> HIDE DEF b
  <2>7. /\ SetBit(b, i) \in Span(m)
        /\ \A j \in all : HasBit(SetBit(b, i), j) <=> j = i \/ HasBit(b, j)
    BY <2>4, SetBitFacts
  <2>8. ASSUME NEW j \in all
        PROVE  HasBit(iter[s], j) <=> \E p \in s : j = (p - base) \div 2
    <3>1. HasBit(iter[s], j) <=> j = i \/ \E p \in s \ {x} : j = (p - base) \div 2
      BY <2>5, <2>6, <2>7
    <3> QED
      BY <2>2, <3>1
  <2> QED
    BY <2>6, <2>7, <2>8
<1> HIDE DEF T
<1>11. \A s \in SUBSET S : s \in T
  BY <1>9, <1>10, SubsetInduction
<1>12. Right(S)
  BY <1>11 DEF T
<1> QED
  BY <1>1, <1>12

\* An odd value of a segment has a bit, and only that one.
LEMMA IndexOf ==
  ASSUME NEW base \in Nat, base % 2 = 0, NEW m \in Nat,
         NEW p \in Nat, p % 2 = 1, base <= p, p < base + 2 * m
  PROVE  /\ (p - base) \div 2 \in 0 .. m - 1
         /\ base + 2 * ((p - base) \div 2) + 1 = p
<1> DEFINE k == (p - base) \div 2
<1>1. k \in Nat /\ p - base = 2 * k + 1
  OBVIOUS
<1> HIDE DEF k
<1>2. k <= m - 1
  BY <1>1
<1> QED
  BY <1>1, <1>2 DEF k

LEMMA ValueFacts ==
  ASSUME RangeOK, Constructed, NEW seg \in Nat
  PROVE  /\ seg * segmentSize \in Nat /\ (seg * segmentSize) % 2 = 0
         /\ (seg + 1) * segmentSize = seg * segmentSize + segmentSize
         /\ SegmentWords * BitsPerWord \in Nat /\ segmentSize = 2 * (SegmentWords * BitsPerWord)
         /\ \A i : ValueOf(seg, i) = seg * segmentSize + 2 * i + 1
         /\ \A i \in 0 .. SegmentWords * BitsPerWord - 1 :
              /\ i \in Nat /\ ValueOf(seg, i) \in Nat /\ ValueOf(seg, i) % 2 = 1
              /\ seg * segmentSize < ValueOf(seg, i)
              /\ ValueOf(seg, i) < seg * segmentSize + segmentSize
<1> DEFINE base == seg * segmentSize
           half == SegmentWords * BitsPerWord
<1>1. segmentSize \in Nat \ {0} /\ half \in Nat /\ segmentSize = 2 * half
  BY SegmentFacts, SegmentIsWords
<1>2. base \in Nat /\ (seg + 1) * segmentSize = base + segmentSize
  BY <1>1
<1>3. base = 2 * (seg * half) + 0 /\ seg * half \in Nat
  BY <1>1
<1>4. base % 2 = 0
  BY <1>2, <1>3
<1>5. \A i : ValueOf(seg, i) = base + 2 * i + 1
  BY DEF ValueOf
<1> HIDE DEF base, half
<1>6. ASSUME NEW i \in 0 .. half - 1
      PROVE  /\ i \in Nat /\ ValueOf(seg, i) \in Nat /\ ValueOf(seg, i) % 2 = 1
             /\ base < ValueOf(seg, i) /\ ValueOf(seg, i) < base + segmentSize
  <2>1. i \in Nat /\ i <= half - 1
    BY <1>1
  <2>2. ValueOf(seg, i) = base + 2 * i + 1
    BY <1>5
  <2> QED
    BY <1>1, <1>2, <1>4, <2>1, <2>2
<1> QED
  BY <1>1, <1>2, <1>4, <1>5, <1>6 DEF base, half

\* What sieve_segment sets: from a value on, if the iterator is not past it, the
\* primes of the segment, whatever was in the span before.
LEMMA SegmentHolds ==
  ASSUME NEW seg, Sievable(seg), NEW span \in [Words -> 0 .. NotZero], NEW from \in Nat,
         \A q \in Primes : seg * segmentSize <= q /\ from <= q /\ q <= LastPrimeWanted
                             => prime <= q
  PROVE  Holds(SegmentOf(seg, span), seg, from)
<1> DEFINE base == seg * segmentSize
           m == SegmentWords + MaxLookahead
           half == SegmentWords * BitsPerWord
           S == Sieved(seg)
           clear == ClearAllBits(span)
<1>1. RangeOK /\ Constructed /\ seg \in Nat
  BY DEF Sievable
<1>2. /\ base \in Nat /\ base % 2 = 0 /\ half \in Nat /\ segmentSize = 2 * half
      /\ \A i : ValueOf(seg, i) = base + 2 * i + 1
      /\ \A i \in 0 .. half - 1 :
           /\ i \in Nat /\ ValueOf(seg, i) \in Nat /\ ValueOf(seg, i) % 2 = 1
           /\ base < ValueOf(seg, i) /\ ValueOf(seg, i) < base + segmentSize
  BY <1>1, ValueFacts
<1>3. /\ S \subseteq Primes
      /\ \A p \in S : /\ p \in Nat /\ p % 2 = 1 /\ p <= LastPrimeWanted
                      /\ base <= p /\ p < base + segmentSize
      /\ \A p \in Primes : /\ base <= p /\ p < base + segmentSize
                           /\ p <= LastPrimeWanted /\ prime <= p
                           => p \in S
  BY SievedFacts
<1>4. m \in Nat /\ Words = 0 .. m - 1 /\ [Words -> 0 .. NotZero] = Span(m)
  BY <1>1, WordsFacts
<1>5. m * BitsPerWord \in Nat /\ half <= m * BitsPerWord
  <2>1. SegmentWords \in Nat /\ MaxLookahead \in Nat /\ BitsPerWord \in Nat
    BY <1>1, SegmentIsWords, LookaheadShort, WidthFacts
  <2>2. m * BitsPerWord = half + MaxLookahead * BitsPerWord
    BY <2>1
  <2>3. MaxLookahead * BitsPerWord \in Nat
    BY <2>1
  <2> QED
    BY <1>2, <2>2, <2>3
<1>6. IsFiniteSet(S)
  BY <1>3, PrimesAreFinite, FS_Subset
<1>7. clear \in Span(m) /\ \A j \in 0 .. m * BitsPerWord - 1 : ~HasBit(clear, j)
  <2>1. span \in Span(m) /\ DOMAIN span = 0 .. m - 1
    BY <1>4
  <2> QED
    BY <1>4, <2>1, ClearAllFacts
<1>8. SegmentOf(seg, span) = FoldSet(LAMBDA p, x : SetBit(x, (p - base) \div 2), clear, S)
  BY DEF SegmentOf, SetPrimes
<1> HIDE DEF base, m, half, S, clear
<1>9. \A p \in S : /\ (p - base) \div 2 \in 0 .. half - 1
                   /\ base + 2 * ((p - base) \div 2) + 1 = p
  BY <1>2, <1>3, IndexOf
<1>10. \A p \in S : (p - base) \div 2 \in 0 .. m * BitsPerWord - 1
  BY <1>2, <1>5, <1>9
<1>11. /\ SegmentOf(seg, span) \in Span(m)
       /\ \A j \in 0 .. m * BitsPerWord - 1 :
            HasBit(SegmentOf(seg, span), j) <=> \E p \in S : j = (p - base) \div 2
  <2> DEFINE f == FoldSet(LAMBDA p, x : SetBit(x, (p - base) \div 2), clear, S)
  <2>1. /\ f \in Span(m)
        /\ \A j \in 0 .. m * BitsPerWord - 1 : HasBit(f, j) <=> \E p \in S : j = (p - base) \div 2
    BY <1>2, <1>4, <1>6, <1>7, <1>10, SetBits
  <2>2. SegmentOf(seg, span) = f
    BY <1>8
  <2> HIDE DEF f
  <2> QED
    BY <2>1, <2>2
<1>12. ASSUME NEW i \in 0 .. half - 1, from <= ValueOf(seg, i)
       PROVE  HasBit(SegmentOf(seg, span), i) <=>
                ValueOf(seg, i) \in Primes /\ ValueOf(seg, i) <= LastPrimeWanted
  <2> DEFINE v == ValueOf(seg, i)
  <2>1. /\ i \in Nat /\ v \in Nat /\ v % 2 = 1 /\ base < v /\ v < base + segmentSize
        /\ v = base + 2 * i + 1 /\ from <= v
    BY <1>2, <1>12
  <2>2. HasBit(SegmentOf(seg, span), i) <=> \E p \in S : i = (p - base) \div 2
    <3>1. i \in 0 .. m * BitsPerWord - 1
      BY <1>2, <1>5
    <3> QED
      BY <1>11, <3>1
  <2> HIDE DEF v
  <2>3. ASSUME NEW p \in S, i = (p - base) \div 2
        PROVE  v \in Primes /\ v <= LastPrimeWanted
    <3>1. p = v
      BY <1>9, <2>1, <2>3
    <3> QED
      BY <1>3, <3>1
  <2>4. ASSUME v \in Primes, v <= LastPrimeWanted
        PROVE  \E p \in S : i = (p - base) \div 2
    <3>1. base <= v
      BY <1>2, <2>1
    <3>2. prime <= v
      BY <2>1, <2>4, <3>1 DEF base
    <3>3. v \in S
      BY <1>3, <2>1, <2>4, <3>1, <3>2
    <3>4. i = (v - base) \div 2
      BY <1>2, <2>1
    <3> QED
      BY <3>3, <3>4
  <2> QED
    BY <2>2, <2>3, <2>4 DEF v
<1> QED
  BY <1>4, <1>11, <1>12 DEF Holds, half

-----------------------------------------------------------------------------
(* The segment that is counted *)

\* Both segments hold their primes, from the position on.
Counting ==
  /\ IInv /\ pc = "sieved" /\ position >= 3
  /\ Holds(current, segmentIndex - 1, position)
  /\ Holds(next, segmentIndex, segmentIndex * segmentSize)

\* What the bits of the segment and of the look ahead stand for.
Value(i) == SegmentStart + 2 * i + 1

LEMMA CountingFacts ==
  ASSUME Counting
  PROVE  /\ SegmentStart \in Nat /\ SegmentStart % 2 = 0
         /\ SegmentWords \in Nat \ {0} /\ MaxLookahead \in Nat \ {0}
         /\ MaxLookahead <= SegmentWords
         /\ SegmentWords * BitsPerWord \in Nat
         /\ segmentSize = 2 * (SegmentWords * BitsPerWord)
         /\ SegmentEnd = SegmentStart + 2 * (SegmentWords * BitsPerWord)
         /\ segmentIndex * segmentSize = SegmentStart + 2 * (SegmentWords * BitsPerWord)
         /\ position \in Nat /\ position >= 3 /\ end \in Nat /\ position < end
         /\ SegmentStart <= position /\ position < SegmentEnd
         /\ MaxValue \in Nat /\ end <= MaxValue
         /\ LastPrimeWanted \in Nat /\ end <= LastPrimeWanted
<1>1. IInv /\ pc = "sieved" /\ RangeOK /\ Constructed /\ position >= 3
  BY DEF Counting, IInv, Constructed
<1>2. /\ SegmentStart \in Nat /\ segmentIndex - 1 \in Nat
      /\ SegmentStart + segmentSize = segmentIndex * segmentSize
      /\ SegmentEnd = SegmentStart + segmentSize
      /\ SegmentStart <= position /\ position < SegmentEnd /\ position < end
  BY <1>1, CountedSegment DEF IInv, PositionInSegment, InSegment
<1>3. SegmentStart % 2 = 0
  BY <1>1, <1>2, ValueFacts DEF SegmentStart
<1>4. /\ SegmentWords \in Nat \ {0} /\ MaxLookahead \in Nat \ {0}
      /\ MaxLookahead <= SegmentWords
      /\ segmentSize = 2 * (SegmentWords * BitsPerWord)
  BY <1>1, SegmentIsWords, LookaheadShort
<1>5. SegmentWords * BitsPerWord \in Nat
  BY <1>4, WidthFacts
<1>6. /\ position \in Nat /\ end \in Nat /\ MaxValue \in Nat
      /\ Greatest(differences) \in Nat /\ segmentSize \in Nat
      /\ end + Greatest(differences) + segmentSize <= MaxValue
  BY <1>1, SegmentFacts
<1>7. LastPrimeWanted \in Nat /\ end <= LastPrimeWanted /\ end <= MaxValue
  BY <1>6 DEF LastPrimeWanted
<1> QED
  BY <1>1, <1>2, <1>3, <1>4, <1>5, <1>6, <1>7

\* The look ahead continues the segment: the bits of both are those of the primes.
LEMMA ExtendedFacts ==
  ASSUME Counting
  PROVE  /\ Extended \in Span(SegmentWords + MaxLookahead)
         /\ \A i \in 0 .. (SegmentWords + MaxLookahead) * BitsPerWord - 1 :
              position <= Value(i) =>
                (HasBit(Extended, i) <=> Value(i) \in Primes /\ Value(i) <= LastPrimeWanted)
<1> DEFINE half == SegmentWords * BitsPerWord
           m == SegmentWords + MaxLookahead
<1>1. /\ SegmentStart \in Nat /\ SegmentWords \in Nat /\ MaxLookahead \in Nat
      /\ MaxLookahead <= SegmentWords /\ half \in Nat /\ segmentSize = 2 * half
      /\ segmentIndex * segmentSize = SegmentStart + 2 * half
      /\ position \in Nat /\ SegmentStart <= position /\ position < SegmentEnd
      /\ SegmentEnd = SegmentStart + 2 * half
  BY CountingFacts
<1>2. IInv /\ pc = "sieved" /\ RangeOK /\ Constructed
  BY DEF Counting, IInv, Constructed
<1>3. m \in Nat /\ Words = 0 .. m - 1 /\ [Words -> 0 .. NotZero] = Span(m)
  BY <1>2, WordsFacts
<1>4. /\ current \in Span(m)
      /\ \A i \in 0 .. half - 1 :
           position <= ValueOf(segmentIndex - 1, i) =>
             (HasBit(current, i) <=> /\ ValueOf(segmentIndex - 1, i) \in Primes
                                     /\ ValueOf(segmentIndex - 1, i) <= LastPrimeWanted)
  BY <1>3 DEF Counting, Holds
<1>5. /\ next \in Span(m)
      /\ \A i \in 0 .. half - 1 :
           segmentIndex * segmentSize <= ValueOf(segmentIndex, i) =>
             (HasBit(next, i) <=> /\ ValueOf(segmentIndex, i) \in Primes
                                  /\ ValueOf(segmentIndex, i) <= LastPrimeWanted)
  BY <1>3 DEF Counting, Holds
<1>6. /\ \A i : ValueOf(segmentIndex - 1, i) = SegmentStart + 2 * i + 1
      /\ \A i : ValueOf(segmentIndex, i) = SegmentStart + 2 * half + 2 * i + 1
  <2>1. \A i : ValueOf(segmentIndex, i) = segmentIndex * segmentSize + 2 * i + 1
    BY DEF ValueOf
  <2> QED
    BY <1>1, <2>1 DEF ValueOf, SegmentStart
<1>7. Extended = [w \in 0 .. m - 1 |-> IF w >= SegmentWords THEN next[w - SegmentWords]
                                       ELSE current[w]]
  BY <1>3 DEF Extended
<1>8. m = SegmentWords + MaxLookahead
  OBVIOUS
<1>9. m * BitsPerWord = half + MaxLookahead * BitsPerWord /\ m * BitsPerWord \in Nat
      /\ MaxLookahead * BitsPerWord \in Nat /\ MaxLookahead * BitsPerWord <= half
  <2>1. BitsPerWord \in Nat
    BY WidthFacts
  <2>2. m * BitsPerWord = half + MaxLookahead * BitsPerWord
    BY <1>1, <2>1
  <2>3. MaxLookahead * BitsPerWord \in Nat
    BY <1>1, <2>1
  <2>4. MaxLookahead * BitsPerWord <= SegmentWords * BitsPerWord
    BY <1>1, <2>1
  <2> QED
    BY <1>1, <2>2, <2>3, <2>4
<1> HIDE DEF m
<1>10. ASSUME NEW w \in 0 .. m - 1
       PROVE  /\ w < SegmentWords => w \in 0 .. m - 1 /\ Extended[w] = current[w]
              /\ w >= SegmentWords => /\ w - SegmentWords \in 0 .. m - 1
                                      /\ Extended[w] = next[w - SegmentWords]
  BY <1>1, <1>3, <1>7, <1>8
<1>11. Extended \in Span(m)
  <2>1. \A w \in 0 .. m - 1 : Extended[w] \in Word
    <3> SUFFICES ASSUME NEW w \in 0 .. m - 1 PROVE Extended[w] \in Word
      OBVIOUS
    <3>1. w < SegmentWords \/ w >= SegmentWords
      BY <1>1, <1>3
    <3> QED
      BY <1>4, <1>5, <1>10, <3>1 DEF Span
  <2>2. DOMAIN Extended = 0 .. m - 1 /\ Extended = [w \in 0 .. m - 1 |-> Extended[w]]
    BY <1>7
  <2> QED
    BY <2>1, <2>2 DEF Span
<1>12. ASSUME NEW i \in 0 .. m * BitsPerWord - 1, position <= Value(i)
       PROVE  HasBit(Extended, i) <=> Value(i) \in Primes /\ Value(i) <= LastPrimeWanted
  <2>1. i \in Nat /\ i \div BitsPerWord \in 0 .. m - 1 /\ i <= m * BitsPerWord - 1
    BY <1>3, <1>9, InSpan
  <2>2. Value(i) = SegmentStart + 2 * i + 1
    BY DEF Value
  <2>3. CASE i < half
    <3>1. i \in 0 .. half - 1
      BY <1>1, <2>1, <2>3
    <3>2. i \div BitsPerWord \in 0 .. SegmentWords - 1
      BY <1>1, <3>1, InSpan
    <3>3. Extended[i \div BitsPerWord] = current[i \div BitsPerWord]
      BY <1>1, <1>10, <2>1, <3>2
    <3>4. HasBit(Extended, i) <=> HasBit(current, i)
      BY <3>3 DEF HasBit
    <3> QED
      BY <1>4, <1>6, <1>12, <2>2, <3>1, <3>4
  <2>4. CASE ~(i < half)
    <3> DEFINE j == i - half
               v == j \div BitsPerWord
               b == j % BitsPerWord
    <3>1. j \in Nat /\ i = half + j /\ j \in 0 .. half - 1
      <4>1. j \in Nat /\ i = half + j
        BY <1>1, <2>1, <2>4
      <4>2. j <= MaxLookahead * BitsPerWord - 1
        BY <1>1, <1>9, <2>1
      <4> QED
        BY <1>1, <1>9, <4>1, <4>2
    <3> HIDE DEF j
    <3>2. v \in Nat /\ b \in Bits /\ j = v * BitsPerWord + b
      BY <3>1, BitPlace
    <3> HIDE DEF v, b
    <3>3. i = (SegmentWords + v) * BitsPerWord + b
      BY <1>1, <3>1, <3>2, WidthFacts DEF Bits
    <3>4. i \div BitsPerWord = SegmentWords + v /\ i % BitsPerWord = b
      BY <1>1, <3>2, <3>3, PlaceOf
    <3>5. Extended[i \div BitsPerWord] = next[v]
      BY <1>1, <1>10, <2>1, <3>2, <3>4
    <3>6. HasBit(Extended, i) <=> HasBit(next, j)
      BY <3>4, <3>5 DEF HasBit, v, b
    <3>7. ValueOf(segmentIndex, j) = Value(i)
      BY <1>1, <1>6, <2>2, <3>1
    <3>8. segmentIndex * segmentSize <= ValueOf(segmentIndex, j)
      BY <1>1, <1>6, <3>1
    <3> QED
      BY <1>5, <3>1, <3>6, <3>7, <3>8
  <2> QED
    BY <2>3, <2>4
<1> QED
  BY <1>11, <1>12 DEF m

\* The first and the last odd value between the position and the end of the segment
\* and of the range.
LEMMA WantedFacts ==
  ASSUME Counting
  PROVE  /\ FirstWanted \in Nat /\ FirstWanted % 2 = 1
         /\ position <= FirstWanted /\ SegmentStart < FirstWanted
         /\ \A v \in Nat : v % 2 = 1 /\ position <= v => FirstWanted <= v
         /\ LastToCount \in Nat /\ LastToCount % 2 = 1
         /\ LastToCount < SegmentEnd /\ LastToCount < end
         /\ \A v \in Nat : v % 2 = 1 /\ v < SegmentEnd /\ v < end => v <= LastToCount
<1> DEFINE odd == IF position % 2 = 0 THEN position + 1 ELSE position
           lastOdd == IF end % 2 = 0 THEN end - 1 ELSE end - 2
           half == SegmentWords * BitsPerWord
<1>1. /\ SegmentStart \in Nat /\ SegmentStart % 2 = 0
      /\ half \in Nat /\ SegmentEnd = SegmentStart + 2 * half
      /\ position \in Nat /\ position >= 3 /\ end \in Nat /\ position < end
      /\ SegmentStart <= position /\ position < SegmentEnd
      /\ MaxValue \in Nat /\ end <= MaxValue
  BY CountingFacts
<1> HIDE DEF half
<1>2. /\ odd \in Nat /\ odd % 2 = 1 /\ position <= odd
      /\ \A v \in Nat : v % 2 = 1 /\ position <= v => odd <= v
  <2>1. \A v \in Nat : v % 2 = 1 /\ position <= v => odd <= v
    BY <1>1
  <2>2. odd \in Nat /\ odd % 2 = 1 /\ position <= odd
    BY <1>1
  <2> QED
    BY <2>1, <2>2
<1>3. FirstWanted = IF SegmentStart + 1 <= odd THEN odd ELSE SegmentStart + 1
  <2>1. FirstWanted = Greatest({SegmentStart + 1, odd})
    BY DEF FirstWanted
  <2>2. SegmentStart + 1 \in Int /\ odd \in Int
    BY <1>1, <1>2
  <2> HIDE DEF odd
  <2> QED
    BY <2>1, <2>2, GreatestOfTwo
<1>4. /\ lastOdd \in Nat /\ lastOdd % 2 = 1 /\ lastOdd < end /\ lastOdd <= MaxValue
      /\ \A v \in Nat : v % 2 = 1 /\ v < end => v <= lastOdd
  <2>1. lastOdd \in Nat /\ lastOdd % 2 = 1 /\ lastOdd < end /\ lastOdd <= MaxValue
    BY <1>1
  <2>2. \A v \in Nat : v % 2 = 1 /\ v < end => v <= lastOdd
    BY <1>1
  <2> QED
    BY <2>1, <2>2
<1>5. LastToCount = IF SegmentEnd - 1 <= lastOdd THEN SegmentEnd - 1 ELSE lastOdd
  <2>1. LastToCount = Least({SegmentEnd - 1, Wrap(lastOdd)})
    BY DEF LastToCount
  <2> HIDE DEF lastOdd
  <2>2. lastOdd \in 0 .. MaxValue
    BY <1>1, <1>4
  <2>3. Wrap(lastOdd) = lastOdd
    BY <2>2, WrapInside
  <2>4. SegmentEnd - 1 \in Int /\ lastOdd \in Int
    BY <1>1, <1>4
  <2> QED
    BY <2>1, <2>3, <2>4, LeastOfTwo
<1> HIDE DEF odd, lastOdd
<1>6. /\ FirstWanted \in Nat /\ FirstWanted % 2 = 1
      /\ position <= FirstWanted /\ SegmentStart < FirstWanted
  BY <1>1, <1>2, <1>3
<1>7. ASSUME NEW v \in Nat, v % 2 = 1, position <= v
      PROVE  FirstWanted <= v
  <2>1. odd <= v /\ SegmentStart + 1 <= v
    BY <1>1, <1>2, <1>7
  <2> QED
    BY <1>1, <1>2, <1>3, <2>1
<1>8. /\ LastToCount \in Nat /\ LastToCount % 2 = 1
      /\ LastToCount < SegmentEnd /\ LastToCount < end
  BY <1>1, <1>4, <1>5
<1>9. ASSUME NEW v \in Nat, v % 2 = 1, v < SegmentEnd, v < end
      PROVE  v <= LastToCount
  <2>1. v <= lastOdd /\ v <= SegmentEnd - 1
    BY <1>1, <1>4, <1>9
  <2> QED
    BY <1>1, <1>4, <1>5, <2>1
<1> QED
  BY <1>6, <1>7, <1>8, <1>9

\* Their bits, and the words these are in.
LEMMA WantedBits ==
  ASSUME Counting, Wanted
  PROVE  /\ FirstBit \in Nat /\ LastBit \in Nat /\ FirstBit <= LastBit
         /\ Value(FirstBit) = FirstWanted /\ Value(LastBit) = LastToCount
         /\ FirstWord \in Nat /\ LastWord \in Nat /\ FirstWord <= LastWord
         /\ LastWord < SegmentWords
         /\ FirstBit % BitsPerWord \in Bits /\ LastBit % BitsPerWord \in Bits
         /\ FirstBit = FirstWord * BitsPerWord + (FirstBit % BitsPerWord)
         /\ LastBit = LastWord * BitsPerWord + (LastBit % BitsPerWord)
<1> DEFINE half == SegmentWords * BitsPerWord
<1>1. IInv /\ pc = "sieved" /\ RangeOK /\ Constructed
  BY DEF Counting, IInv, Constructed
<1>2. /\ SegmentStart \in Nat /\ SegmentStart % 2 = 0 /\ SegmentWords \in Nat
      /\ half \in Nat /\ segmentSize = 2 * half
  BY CountingFacts
<1>3. /\ FirstBit \in Nat /\ LastBit \in Nat /\ FirstBit <= LastBit
      /\ LastBit <= segmentSize \div 2 - 1
  BY <1>1, BitsInSegment
<1>4. /\ FirstWanted \in Nat /\ FirstWanted % 2 = 1 /\ SegmentStart < FirstWanted
      /\ LastToCount \in Nat /\ LastToCount % 2 = 1 /\ FirstWanted <= LastToCount
  BY WantedFacts DEF Wanted
<1> HIDE DEF half
<1>5. Value(FirstBit) = FirstWanted /\ Value(LastBit) = LastToCount
  BY <1>2, <1>4 DEF Value, FirstBit, LastBit
<1>6. LastBit \in 0 .. half - 1
  BY <1>2, <1>3
<1>7. LastWord \in 0 .. SegmentWords - 1
  BY <1>2, <1>6, InSpan DEF LastWord, half
<1>8. /\ FirstWord \in Nat /\ FirstBit % BitsPerWord \in Bits
      /\ FirstBit = FirstWord * BitsPerWord + (FirstBit % BitsPerWord)
      /\ LastBit % BitsPerWord \in Bits
      /\ LastBit = LastWord * BitsPerWord + (LastBit % BitsPerWord)
  BY <1>3, BitPlace DEF FirstWord, LastWord
<1>9. FirstWord <= LastWord
  BY <1>3, WidthFacts, DivMonotone DEF FirstWord, LastWord
<1> QED
  BY <1>2, <1>3, <1>5, <1>7, <1>8, <1>9

\* clear_left_bits takes away what is before the first bit to be counted, and leaves
\* the look ahead as it is.
LEMMA ViewFacts ==
  ASSUME Counting, Wanted
  PROVE  /\ View \in Span(SegmentWords + MaxLookahead)
         /\ \A i \in 0 .. (SegmentWords + MaxLookahead) * BitsPerWord - 1 :
              /\ FirstBit <= i =>
                   (HasBit(View, i) <=> Value(i) \in Primes /\ Value(i) <= LastPrimeWanted)
              /\ FirstWord * BitsPerWord <= i /\ i < FirstBit => ~HasBit(View, i)
<1> DEFINE m == SegmentWords + MaxLookahead
           k == LastWord - FirstWord + 1
           rest == FirstBit % BitsPerWord
           sub == [w \in 0 .. LastWord - FirstWord |-> Extended[FirstWord + w]]
           counted == ClearLeftBits(sub, rest)
<1>1. /\ SegmentWords \in Nat /\ MaxLookahead \in Nat
      /\ SegmentStart \in Nat /\ position \in Nat
  BY CountingFacts
<1>2. /\ FirstWord \in Nat /\ LastWord \in Nat /\ FirstWord <= LastWord
      /\ LastWord < SegmentWords /\ FirstBit \in Nat
      /\ rest \in Bits /\ FirstBit = FirstWord * BitsPerWord + rest
      /\ Value(FirstBit) = FirstWanted
  BY WantedBits
<1>3. IInv /\ pc = "sieved" /\ RangeOK /\ Constructed
  BY DEF Counting, IInv, Constructed
<1>4. m \in Nat /\ Words = 0 .. m - 1
  BY <1>3, WordsFacts
<1>5. /\ Extended \in Span(m)
      /\ \A i \in 0 .. m * BitsPerWord - 1 :
           position <= Value(i) =>
             (HasBit(Extended, i) <=> Value(i) \in Primes /\ Value(i) <= LastPrimeWanted)
  BY ExtendedFacts
<1>6. k \in Nat /\ k - 1 = LastWord - FirstWord
  BY <1>2
<1>7. LastWord < m
  BY <1>1, <1>2
<1>8. View = [w \in 0 .. m - 1 |-> IF w \in FirstWord .. LastWord THEN counted[w - FirstWord]
                                   ELSE Extended[w]]
  BY <1>4 DEF View
<1> HIDE DEF m, rest
<1>9. sub \in Span(k)
  <2>1. \A w \in 0 .. k - 1 : FirstWord + w \in 0 .. m - 1
    BY <1>2, <1>4, <1>6, <1>7
  <2>2. \A w \in 0 .. k - 1 : Extended[FirstWord + w] \in Word
    BY <1>5, <2>1 DEF Span
  <2>3. sub = [w \in 0 .. k - 1 |-> Extended[FirstWord + w]]
    BY <1>6
  <2> HIDE DEF k, sub
  <2> QED
    BY <2>2, <2>3 DEF Span
<1>10. /\ counted \in Span(k)
       /\ \A j \in 0 .. k * BitsPerWord - 1 :
            HasBit(counted, j) <=> j >= rest /\ HasBit(sub, j)
  <2>1. rest \in Nat
    BY <1>2, WidthFacts DEF Bits
  <2> HIDE DEF sub, k
  <2> QED
    BY <1>6, <1>9, <2>1, ClearLeftFacts
<1>11. \A v \in 0 .. k - 1 : sub[v] = Extended[FirstWord + v]
  BY <1>6
<1> HIDE DEF counted, sub
<1>12. View \in Span(m)
  <2>1. ASSUME NEW w \in 0 .. m - 1
        PROVE  (IF w \in FirstWord .. LastWord THEN counted[w - FirstWord] ELSE Extended[w]) \in Word
    <3>1. CASE w \in FirstWord .. LastWord
      <4>1. w - FirstWord \in 0 .. k - 1
        BY <1>2, <1>6, <3>1
      <4> HIDE DEF k
      <4>2. counted[w - FirstWord] \in Word
        BY <1>10, <4>1 DEF Span
      <4> QED
        BY <3>1, <4>2
    <3>2. CASE w \notin FirstWord .. LastWord
      <4>1. Extended[w] \in Word
        BY <1>5 DEF Span
      <4> QED
        BY <3>2, <4>1
    <3> QED
      BY <3>1, <3>2
  <2> QED
    BY <1>8, <2>1 DEF Span
<1>13. ASSUME NEW i \in 0 .. m * BitsPerWord - 1
       PROVE  /\ FirstBit <= i => (HasBit(View, i) <=> HasBit(Extended, i))
              /\ FirstWord * BitsPerWord <= i /\ i < FirstBit => ~HasBit(View, i)
  <2> DEFINE w == i \div BitsPerWord
             b == i % BitsPerWord
  <2>1. i \in Nat /\ w \in 0 .. m - 1
    BY <1>4, InSpan
  <2>2. b \in Bits /\ i = w * BitsPerWord + b
    BY <2>1, BitPlace
  <2>3. HasBit(View, i) <=> b \in BitsOf(View[w])
    BY DEF HasBit
  <2>4. HasBit(Extended, i) <=> b \in BitsOf(Extended[w])
    BY DEF HasBit
  <2> HIDE DEF w, b
  <2>5. w \in Nat /\ b \in Nat /\ b < BitsPerWord /\ BitsPerWord \in Nat
    BY <1>4, <2>1, <2>2, WidthFacts DEF Bits
  <2>6. CASE w \in FirstWord .. LastWord
    <3> DEFINE v == w - FirstWord
               j == v * BitsPerWord + b
    <3>1. v \in 0 .. k - 1 /\ w = FirstWord + v /\ v \in Nat
      BY <1>2, <1>6, <2>6
    <3> HIDE DEF v, k
    <3>2. j \in Nat /\ j \div BitsPerWord = v /\ j % BitsPerWord = b
      BY <2>2, <3>1, PlaceOf
    <3>3. i = FirstWord * BitsPerWord + j
      BY <1>2, <2>2, <2>5, <3>1
    <3>4. j \in 0 .. k * BitsPerWord - 1
      <4>1. k * BitsPerWord \in Nat /\ j < k * BitsPerWord + 0
        <5>1. 0 \in Bits
          BY WidthFacts DEF Bits
        <5>2. v < k
          BY <1>6, <3>1
        <5> QED
          BY <1>6, <2>2, <2>5, <3>1, <5>1, <5>2, LaterWord
      <4> QED
        BY <3>2, <4>1
    <3>5. HasBit(counted, j) <=> j >= rest /\ HasBit(sub, j)
      BY <1>10, <3>4
    <3>6. View[w] = counted[v]
      BY <1>8, <2>1, <2>6 DEF v
    <3>7. HasBit(View, i) <=> HasBit(counted, j)
      BY <2>3, <3>2, <3>6 DEF HasBit
    <3>8. HasBit(sub, j) <=> HasBit(Extended, i)
      <4>1. sub[v] = Extended[w]
        BY <1>11, <3>1
      <4> QED
        BY <2>4, <3>2, <4>1 DEF HasBit
    <3>9. j >= rest <=> FirstBit <= i
      <4>1. FirstWord * BitsPerWord \in Nat /\ rest \in Nat
        BY <1>2, <2>5 DEF Bits
      <4> HIDE DEF j
      <4> QED
        BY <1>2, <3>2, <3>3, <4>1
    <3>10. i < FirstBit => ~(FirstBit <= i)
      BY <1>2, <2>1
    <3> QED
      BY <3>5, <3>7, <3>8, <3>9, <3>10
  <2>7. CASE w \notin FirstWord .. LastWord
    <3>1. View[w] = Extended[w]
      BY <1>8, <2>1, <2>7
    <3>2. HasBit(View, i) <=> HasBit(Extended, i)
      BY <2>3, <2>4, <3>1
    <3>3. ~(FirstWord * BitsPerWord <= i /\ i < FirstBit)
      <4>1. 0 \in Bits
        BY WidthFacts DEF Bits
      <4>2. w < FirstWord => i < FirstWord * BitsPerWord + 0
        BY <1>2, <2>2, <2>5, <4>1, LaterWord
      <4>3. w > FirstWord => FirstBit < i
        <5>1. FirstWord * BitsPerWord + rest < w * BitsPerWord + b
                <=> FirstWord < w \/ (FirstWord = w /\ rest < b)
          <6>1. FirstWord \in Int /\ w \in Int /\ rest \in Bits /\ b \in Bits
            BY <1>2, <2>2, <2>5
          <6> QED
            BY <6>1, LaterWord
        <5>2. FirstBit < i <=> FirstWord < w \/ (FirstWord = w /\ rest < b)
          BY <1>2, <2>2, <5>1
        <5> QED
          BY <1>2, <2>5, <5>2
      <4>4. w < FirstWord \/ w > FirstWord
        BY <1>2, <2>5, <2>7
      <4>5. FirstWord * BitsPerWord \in Nat
        BY <1>2, <2>5
      <4> QED
        BY <1>2, <2>1, <4>2, <4>3, <4>4, <4>5
    <3> QED
      BY <3>2, <3>3
  <2> QED
    BY <2>6, <2>7
<1>14. ASSUME NEW i \in 0 .. m * BitsPerWord - 1, FirstBit <= i
       PROVE  position <= Value(i)
  <2>1. i \in Nat
    BY <1>4, InSpan
  <2>2. position <= FirstWanted
    BY WantedFacts
  <2>3. FirstWanted = SegmentStart + 2 * FirstBit + 1 /\ Value(i) = SegmentStart + 2 * i + 1
    BY <1>2 DEF Value
  <2> QED
    BY <1>1, <1>2, <1>14, <2>1, <2>2, <2>3
<1> QED
  BY <1>5, <1>12, <1>13, <1>14 DEF m

\* The word a value has its bit in, and the pairs that begin in a word.
WordIn(p) == ((p - (SegmentStart + 1)) \div 2) \div BitsPerWord

PairsIn(w, d) ==
  {p \in Primes : /\ FirstWanted <= p /\ p <= LastToCount /\ p + d \in Primes
                  /\ WordIn(p) = w}

\* The word is masked after the last bit to be counted.
LEMMA BaseWordFacts ==
  ASSUME Counting, Wanted, NEW w \in FirstWord .. LastWord, NEW b \in Bits
  PROVE  b \in BitsOf(BaseWord(w)) <=> HasBit(View, w * BitsPerWord + b)
                                       /\ w * BitsPerWord + b <= LastBit
<1> DEFINE last == LastBit % BitsPerWord
<1>1. /\ FirstWord \in Nat /\ LastWord \in Nat /\ last \in Bits /\ LastBit \in Nat
      /\ LastBit = LastWord * BitsPerWord + last
  BY WantedBits
<1>2. w \in Nat /\ w <= LastWord /\ w \in Int /\ LastWord \in Int
  BY <1>1
<1> HIDE DEF last
<1>3. HasBit(View, w * BitsPerWord + b) <=> b \in BitsOf(View[w])
  <2>1. (w * BitsPerWord + b) \div BitsPerWord = w /\ (w * BitsPerWord + b) % BitsPerWord = b
    BY <1>2, PlaceOf
  <2> QED
    BY <2>1 DEF HasBit
<1>4. w * BitsPerWord + b \in Nat
  BY <1>2, PlaceOf
<1>5. LastBit < w * BitsPerWord + b <=> LastWord < w \/ (LastWord = w /\ last < b)
  <2>1. LastWord * BitsPerWord + last < w * BitsPerWord + b
          <=> LastWord < w \/ (LastWord = w /\ last < b)
    BY <1>1, <1>2, LaterWord
  <2> QED
    BY <1>1, <2>1
<1>6. w * BitsPerWord + b <= LastBit <=> w < LastWord \/ (w = LastWord /\ b <= last)
  <2>1. b \in Nat /\ last \in Nat
    BY <1>1, WidthFacts DEF Bits
  <2>2. w * BitsPerWord + b <= LastBit <=> ~(LastBit < w * BitsPerWord + b)
    BY <1>1, <1>4
  <2> QED
    BY <1>1, <1>2, <1>5, <2>1, <2>2
<1>7. CASE w = LastWord
  <2>1. BaseWord(w) = And(View[w], LastWordMask)
    BY <1>7 DEF BaseWord
  <2>2. BitsOf(LastWordMask) = {c \in Bits : c <= last}
    BY <1>1, MaskUpTo DEF LastWordMask, last
  <2>3. BitsOf(BaseWord(w)) = BitsOf(View[w]) \cap {c \in Bits : c <= last}
    BY <2>1, <2>2, AndFacts
  <2>4. w * BitsPerWord + b <= LastBit <=> b <= last
    BY <1>2, <1>6, <1>7
  <2> QED
    BY <1>3, <2>3, <2>4
<1>8. CASE w # LastWord
  <2>1. BaseWord(w) = View[w]
    BY <1>8 DEF BaseWord
  <2>2. w * BitsPerWord + b <= LastBit
    BY <1>1, <1>2, <1>6, <1>8
  <2> QED
    BY <1>3, <2>1, <2>2
<1> QED
  BY <1>7, <1>8

\* The word looked up for a difference begins where the difference says.
LEMMA ShiftedFacts ==
  ASSUME Counting, Wanted, NEW d \in differences,
         NEW w \in FirstWord .. LastWord, NEW b \in Bits
  PROVE  /\ d \div 2 \in Nat /\ d = 2 * (d \div 2)
         /\ w * BitsPerWord + b + (d \div 2) \in
              0 .. (SegmentWords + MaxLookahead) * BitsPerWord - 1
         /\ b \in BitsOf(Shifted(w, d)) <=> HasBit(View, w * BitsPerWord + b + (d \div 2))
<1> DEFINE m == SegmentWords + MaxLookahead
           s == WordShift(d)
           n == BitShift(d)
           i == w * BitsPerWord + b + (d \div 2)
<1>1. RangeOK /\ Constructed
  BY DEF Counting, IInv, Constructed
<1>2. /\ SegmentWords \in Nat /\ MaxLookahead \in Nat /\ BitsPerWord \in Nat
      /\ s \in Nat /\ n \in Bits /\ s + 1 <= MaxLookahead
      /\ d \in Nat /\ d = 2 * (s * BitsPerWord + n)
  BY <1>1, CountingFacts, LookaheadShort, WidthFacts
<1>3. FirstWord \in Nat /\ LastWord \in Nat /\ LastWord < SegmentWords
  BY WantedBits
<1>4. w \in Nat /\ w + s + 1 <= m - 1 /\ m \in Nat
  BY <1>2, <1>3
<1>5. View \in Span(m)
  BY ViewFacts
<1>6. Shifted(w, d) = ShiftBits(View[w + s], View[w + s + 1], n)
  BY DEF Shifted
<1> HIDE DEF m, s, n
<1>7. View[w + s] \in Word /\ View[w + s + 1] \in Word
  <2>1. w + s \in 0 .. m - 1 /\ w + s + 1 \in 0 .. m - 1
    BY <1>2, <1>4
  <2> QED
    BY <1>5, <2>1 DEF Span
<1>8. b \in BitsOf(Shifted(w, d)) <=> IF b + n < BitsPerWord THEN b + n \in BitsOf(View[w + s])
                                      ELSE b + n - BitsPerWord \in BitsOf(View[w + s + 1])
  <2>1. BitsOf(ShiftBits(View[w + s], View[w + s + 1], n))
          = {c \in Bits : IF c + n < BitsPerWord THEN c + n \in BitsOf(View[w + s])
                          ELSE c + n - BitsPerWord \in BitsOf(View[w + s + 1])}
    BY <1>2, <1>7, ShiftBitsFacts
  <2> QED
    BY <1>6, <2>1
<1>9. s * BitsPerWord \in Nat /\ n \in Nat /\ b \in Nat /\ b < BitsPerWord /\ n < BitsPerWord
  BY <1>2 DEF Bits
<1>10. d \div 2 \in Nat /\ d = 2 * (d \div 2) /\ d \div 2 = s * BitsPerWord + n
  BY <1>2, <1>9
<1>11. i = (w + s) * BitsPerWord + (b + n)
  <2>1. (w + s) * BitsPerWord = w * BitsPerWord + s * BitsPerWord /\ w * BitsPerWord \in Nat
    BY <1>2, <1>4
  <2> QED
    BY <1>9, <1>10, <2>1
<1> HIDE DEF i
<1>12. ASSUME NEW v \in Nat, NEW c \in Bits, i = v * BitsPerWord + c, v <= m - 1
       PROVE  /\ i \in 0 .. m * BitsPerWord - 1
              /\ HasBit(View, i) <=> c \in BitsOf(View[v])
  <2>1. i \in Nat /\ i \div BitsPerWord = v /\ i % BitsPerWord = c
    BY <1>12, PlaceOf
  <2>2. HasBit(View, i) <=> c \in BitsOf(View[v])
    BY <2>1 DEF HasBit
  <2>3. i < m * BitsPerWord
    <3>1. 0 \in Bits /\ m \in Int /\ v \in Int /\ c \in Bits
      BY <1>4, WidthFacts DEF Bits
    <3>2. v * BitsPerWord + c < m * BitsPerWord + 0
      BY <1>4, <1>12, <3>1, LaterWord
    <3>3. m * BitsPerWord \in Nat
      BY <1>2, <1>4
    <3> QED
      BY <1>12, <3>2, <3>3
  <2>4. m * BitsPerWord \in Nat
    BY <1>2, <1>4
  <2> QED
    BY <2>1, <2>2, <2>3, <2>4
<1>13. CASE b + n < BitsPerWord
  <2>1. w + s \in Nat /\ b + n \in Bits /\ w + s <= m - 1
    BY <1>2, <1>4, <1>9, <1>13 DEF Bits
  <2>2. /\ i \in 0 .. m * BitsPerWord - 1
        /\ HasBit(View, i) <=> b + n \in BitsOf(View[w + s])
    BY <1>11, <1>12, <2>1
  <2> QED
    BY <1>8, <1>10, <1>13, <2>2 DEF i, m
<1>14. CASE ~(b + n < BitsPerWord)
  <2>1. w + s + 1 \in Nat /\ b + n - BitsPerWord \in Bits
    BY <1>2, <1>4, <1>9, <1>14 DEF Bits
  <2>2. i = (w + s + 1) * BitsPerWord + (b + n - BitsPerWord)
    <3>1. (w + s + 1) * BitsPerWord = (w + s) * BitsPerWord + BitsPerWord
      BY <1>2, <1>4
    <3>2. (w + s) * BitsPerWord \in Nat
      BY <1>2, <1>4
    <3> QED
      BY <1>2, <1>9, <1>11, <3>1, <3>2
  <2>3. /\ i \in 0 .. m * BitsPerWord - 1
        /\ HasBit(View, i) <=> b + n - BitsPerWord \in BitsOf(View[w + s + 1])
    BY <1>4, <1>12, <2>1, <2>2
  <2> QED
    BY <1>8, <1>10, <1>14, <2>3 DEF i, m
<1> QED
  BY <1>13, <1>14

\* The bits that are counted in a word are those of the pairs that begin in it.
LEMMA CountedBits ==
  ASSUME Counting, Wanted, NEW d \in differences,
         NEW w \in FirstWord .. LastWord, NEW b \in Bits
  PROVE  b \in BitsOf(And(BaseWord(w), Shifted(w, d))) <=>
           Value(w * BitsPerWord + b) \in PairsIn(w, d)
<1> DEFINE i == w * BitsPerWord + b
           h == d \div 2
           m == SegmentWords + MaxLookahead
           p == Value(i)
<1>1. /\ FirstWord \in Nat /\ LastWord \in Nat /\ LastWord < SegmentWords
      /\ FirstBit \in Nat /\ LastBit \in Nat
      /\ Value(FirstBit) = FirstWanted /\ Value(LastBit) = LastToCount
  BY WantedBits
<1>2. w \in Nat /\ i \in Nat /\ i \div BitsPerWord = w /\ FirstWord * BitsPerWord <= i
  <2>1. w \in Nat /\ FirstWord <= w
    BY <1>1
  <2>2. i \in Nat /\ i \div BitsPerWord = w
    BY <2>1, PlaceOf
  <2>3. FirstWord * BitsPerWord <= w * BitsPerWord
    BY <1>1, <2>1, WidthFacts
  <2>4. w * BitsPerWord \in Nat /\ FirstWord * BitsPerWord \in Nat /\ b \in Nat
    BY <1>1, <2>1, WidthFacts DEF Bits
  <2> QED
    BY <2>1, <2>2, <2>3, <2>4
<1>3. /\ h \in Nat /\ d = 2 * h /\ i + h \in 0 .. m * BitsPerWord - 1
      /\ b \in BitsOf(Shifted(w, d)) <=> HasBit(View, i + h)
  BY ShiftedFacts
<1>4. b \in BitsOf(BaseWord(w)) <=> HasBit(View, i) /\ i <= LastBit
  BY BaseWordFacts
<1>5. BitsOf(And(BaseWord(w), Shifted(w, d))) = BitsOf(BaseWord(w)) \cap BitsOf(Shifted(w, d))
  BY AndFacts
<1>6. \A j \in 0 .. m * BitsPerWord - 1 :
        /\ FirstBit <= j =>
             (HasBit(View, j) <=> Value(j) \in Primes /\ Value(j) <= LastPrimeWanted)
        /\ FirstWord * BitsPerWord <= j /\ j < FirstBit => ~HasBit(View, j)
  BY ViewFacts
<1>7. SegmentStart \in Nat /\ LastPrimeWanted \in Nat /\ end \in Nat /\ end <= LastPrimeWanted
  BY CountingFacts
<1>8. LastToCount < end /\ LastToCount \in Nat /\ FirstWanted \in Nat
  BY WantedFacts
<1> HIDE DEF i, h, m
<1>9. i \in 0 .. m * BitsPerWord - 1
  <2>1. SegmentWords + MaxLookahead \in Nat /\ BitsPerWord \in Nat
    BY CountingFacts, WidthFacts
  <2>2. m * BitsPerWord \in Nat
    BY <2>1 DEF m
  <2>3. i + h <= m * BitsPerWord - 1
    BY <1>2, <1>3, <2>2
  <2> QED
    BY <1>2, <1>3, <2>2, <2>3
<1>10. \A j : Value(j) = SegmentStart + 2 * j + 1
  BY DEF Value
<1>11. p = SegmentStart + 2 * i + 1 /\ p \in Nat
  BY <1>2, <1>7, <1>10
<1>12. FirstWanted = SegmentStart + 2 * FirstBit + 1 /\ LastToCount = SegmentStart + 2 * LastBit + 1
  BY <1>1, <1>10
<1>13. (FirstBit <= i <=> FirstWanted <= p) /\ (i <= LastBit <=> p <= LastToCount)
  BY <1>1, <1>2, <1>7, <1>11, <1>12
<1>14. Value(i + h) = p + d
  BY <1>2, <1>3, <1>7, <1>10, <1>11
<1>15. WordIn(p) = w
  <2>1. p - (SegmentStart + 1) = 2 * i
    BY <1>2, <1>7, <1>11
  <2>2. (p - (SegmentStart + 1)) \div 2 = i
    BY <1>2, <2>1
  <2> QED
    BY <1>2, <2>2 DEF WordIn
<1>16. p \in PairsIn(w, d) <=>
         p \in Primes /\ FirstWanted <= p /\ p <= LastToCount /\ p + d \in Primes
  BY <1>15 DEF PairsIn
<1>17. CASE i < FirstBit
  <2>1. ~HasBit(View, i)
    BY <1>2, <1>6, <1>9, <1>17
  <2>2. ~(FirstWanted <= p)
    BY <1>1, <1>2, <1>13, <1>17
  <2> QED
    BY <1>4, <1>5, <1>16, <2>1, <2>2 DEF i
<1>18. CASE FirstBit <= i /\ i <= LastBit
  <2>1. HasBit(View, i) <=> p \in Primes /\ p <= LastPrimeWanted
    BY <1>6, <1>9, <1>18
  <2>2. p <= LastPrimeWanted /\ p < end
    BY <1>7, <1>8, <1>11, <1>13, <1>18
  <2>3. FirstBit <= i + h
    BY <1>1, <1>2, <1>3, <1>18
  <2>4. HasBit(View, i + h) <=> p + d \in Primes /\ p + d <= LastPrimeWanted
    BY <1>3, <1>6, <1>14, <2>3
  <2>5. p + d <= LastPrimeWanted
    <3>1. /\ d <= Greatest(differences) /\ d \in Nat /\ Greatest(differences) \in Nat
      BY DifferenceFacts DEF Counting, IInv, RangeOK
    <3> QED
      BY <1>7, <1>11, <2>2, <3>1 DEF LastPrimeWanted
  <2> QED
    BY <1>3, <1>4, <1>5, <1>13, <1>16, <1>18, <2>1, <2>2, <2>4, <2>5 DEF i
<1>19. CASE ~(i <= LastBit)
  <2>1. ~(p <= LastToCount)
    BY <1>13, <1>19
  <2> QED
    BY <1>4, <1>5, <1>16, <1>19, <2>1 DEF i
<1> QED
  BY <1>1, <1>2, <1>17, <1>18, <1>19

\* A pair has one bit in the word it begins in.
LEMMA WordHits ==
  ASSUME Counting, Wanted, NEW d \in differences, NEW w \in FirstWord .. LastWord
  PROVE  /\ IsFiniteSet(PairsIn(w, d))
         /\ PopCount(And(BaseWord(w), Shifted(w, d))) = Cardinality(PairsIn(w, d))
<1> DEFINE X == BitsOf(And(BaseWord(w), Shifted(w, d)))
           a == SegmentStart + 2 * (w * BitsPerWord) + 1
           Y == {a + 2 * b : b \in X}
<1>1. X \subseteq Bits
  BY BitsOfFacts
<1>2. \A b \in Bits : b \in X <=> Value(w * BitsPerWord + b) \in PairsIn(w, d)
  BY CountedBits
<1>3. w \in Nat /\ BitsPerWord \in Nat /\ SegmentStart \in Nat /\ SegmentStart % 2 = 0
  BY WantedBits, CountingFacts, WidthFacts
<1>4. w * BitsPerWord \in Nat /\ a \in Int
  BY <1>3
<1>5. IsFiniteSet(X) /\ X \in SUBSET Nat
  <2>1. IsFiniteSet(Bits) /\ Bits \subseteq Nat
    BY WidthFacts, FS_Interval DEF Bits
  <2> QED
    BY <1>1, <2>1, FS_Subset
<1> HIDE DEF X
<1>6. \A b \in Bits : Value(w * BitsPerWord + b) = a + 2 * b
  <2> SUFFICES ASSUME NEW b \in Bits PROVE Value(w * BitsPerWord + b) = a + 2 * b
    OBVIOUS
  <2>1. b \in Nat
    BY WidthFacts DEF Bits
  <2> QED
    BY <1>3, <1>4, <2>1 DEF Value
<1>7. Y \subseteq PairsIn(w, d)
  BY <1>1, <1>2, <1>6
<1>8. ASSUME NEW p \in PairsIn(w, d)
      PROVE  p \in Y
  <2> DEFINE i == (p - (SegmentStart + 1)) \div 2
             b == i % BitsPerWord
  <2>1. /\ p \in Primes /\ FirstWanted <= p /\ WordIn(p) = w
    BY DEF PairsIn
  <2>2. FirstWanted \in Nat /\ SegmentStart < FirstWanted /\ position <= FirstWanted
        /\ position \in Nat /\ position >= 3
    BY WantedFacts, CountingFacts
  <2>3. p \in Nat
    BY <2>1, PrimesAreFinite
  <2>4. p > 2
    BY <2>1, <2>2, <2>3
  <2>5. p % 2 = 1
    BY <2>1, <2>3, <2>4, OddPrimes
  <2>6. i \in Nat /\ p = SegmentStart + 2 * i + 1
    BY <1>3, <2>1, <2>2, <2>3, <2>5
  <2>7. i \div BitsPerWord = w
    BY <2>1 DEF WordIn
  <2> HIDE DEF i
  <2>8. b \in Bits /\ i = w * BitsPerWord + b
    BY <2>6, <2>7, BitPlace
  <2>9. p = Value(w * BitsPerWord + b)
    BY <2>6, <2>8 DEF Value
  <2>10. b \in X /\ p = a + 2 * b
    BY <1>2, <1>6, <2>8, <2>9
  <2> HIDE DEF b, a
  <2> QED
    BY <2>10
<1>9. Y = PairsIn(w, d)
  BY <1>7, <1>8
<1>10. IsFiniteSet(Y) /\ Cardinality(Y) = Cardinality(X)
  <2> HIDE DEF a
  <2>1. 2 \in Nat \ {0}
    OBVIOUS
  <2> QED
    BY <1>4, <1>5, <2>1, ScaledCopy
<1> QED
  BY <1>9, <1>10 DEF PopCount, X

\* What accumulate adds for a difference: the pairs that begin in the segment, from
\* the position on and before the end of the range.
LEMMA HitsFacts ==
  ASSUME Counting, Wanted, NEW d \in differences
  PROVE  Hits(d) = Cardinality({p \in Primes : /\ FirstWanted <= p /\ p <= LastToCount
                                               /\ p + d \in Primes})
<1> DEFINE S == FirstWord .. LastWord
           P == [w \in S |-> PairsIn(w, d)]
           c == [s \in SUBSET S |-> CHOOSE x \in s : TRUE]
           g == [z \in S \X Nat |-> Cardinality(P[z[1]]) + z[2]]
           count == [w \in S |-> PopCount(And(BaseWord(w), Shifted(w, d)))]
           IsIter(h) == h = [s \in SUBSET S |->
                               IF s = {} THEN 0
                               ELSE LET x == CHOOSE x \in s : TRUE
                                    IN  PopCount(And(BaseWord(x), Shifted(x, d))) + h[s \ {x}]]
           iter == CHOOSE h : IsIter(h)
           all == {p \in Primes : /\ FirstWanted <= p /\ p <= LastToCount /\ p + d \in Primes}
<1>1. Hits(d) = iter[S]
  BY DEF Hits, MapThenSumSet, MapThenFoldSet
<1>2. /\ FirstWord \in Nat /\ LastWord \in Nat /\ FirstBit \in Nat /\ LastBit \in Nat
      /\ Value(FirstBit) = FirstWanted /\ Value(LastBit) = LastToCount
  BY WantedBits
<1>3. IsFiniteSet(S)
  BY <1>2, FS_Interval
<1>4. \A w \in S : /\ P[w] = PairsIn(w, d) /\ IsFiniteSet(P[w])
                   /\ PopCount(And(BaseWord(w), Shifted(w, d))) = Cardinality(P[w])
                   /\ Cardinality(P[w]) \in Nat
  BY WordHits, FS_CardinalityType
<1>5. \A s \in SUBSET S : s # {} => c[s] = (CHOOSE x \in s : TRUE) /\ c[s] \in s
  OBVIOUS
<1>6. DOMAIN c = SUBSET S
  OBVIOUS
<1>7. \A x, y \in S : x # y => P[x] \cap P[y] = {}
  BY <1>4 DEF PairsIn
<1>8. UNION {P[w] : w \in S} = all
  <2>1. \A w \in S : P[w] \subseteq all
    BY <1>4 DEF PairsIn
  <2>2. ASSUME NEW p \in all
        PROVE  \E w \in S : p \in P[w]
    <3>1. WordIn(p) \in S
      <4> DEFINE i == (p - (SegmentStart + 1)) \div 2
      <4>1. p \in Nat /\ FirstWanted <= p /\ p <= LastToCount
        BY PrimesAreFinite
      <4>2. SegmentStart \in Nat
        BY CountingFacts
      <4>3. FirstWanted = SegmentStart + 2 * FirstBit + 1 /\ LastToCount = SegmentStart + 2 * LastBit + 1
        BY <1>2 DEF Value
      <4>4. i \in Nat /\ FirstBit <= i /\ i <= LastBit
        BY <1>2, <4>1, <4>2, <4>3
      <4> HIDE DEF i
      <4>5. FirstWord <= i \div BitsPerWord /\ i \div BitsPerWord <= LastWord
        BY <1>2, <4>4, WidthFacts, DivMonotone DEF FirstWord, LastWord
      <4>6. i \div BitsPerWord \in Nat
        BY <4>4, BitPlace
      <4> QED
        BY <1>2, <4>5, <4>6 DEF WordIn, i
    <3>2. p \in P[WordIn(p)]
      BY <1>4, <3>1 DEF PairsIn
    <3> QED
      BY <3>1, <3>2
  <2> HIDE DEF P, S, all
  <2> QED
    BY <2>1, <2>2
<1> HIDE DEF P, c, S, all
<1>9. PICK f \in [SUBSET S -> Nat] :
        \A s \in SUBSET S : f[s] = IF s = {} THEN 0 ELSE g[<<c[s], f[s \ {c[s]}]>>]
  <2>1. g \in [S \X Nat -> Nat]
    <3>1. \A z \in S \X Nat : Cardinality(P[z[1]]) + z[2] \in Nat
      BY <1>4
    <3> QED
      BY <3>1
  <2>2. 0 \in Nat
    OBVIOUS
  <2>3. \A s \in SUBSET S : s # {} => c[s] \in s
    BY <1>5
  <2> HIDE DEF g, IsIter, iter
  <2>4. \E f : IsFold(f, S, Nat, 0, g, c)
    BY <1>3, <1>6, <2>1, <2>2, <2>3, FoldExists, Zenon
  <2> QED
    BY <2>4 DEF IsFold
<1>10. ASSUME NEW s \in SUBSET S, s # {}
       PROVE  /\ c[s] \in s /\ c[s] \in S /\ s \ {c[s]} \in SUBSET S
              /\ f[s] = Cardinality(P[c[s]]) + f[s \ {c[s]}]
  <2>1. c[s] \in s /\ c[s] \in S /\ s \ {c[s]} \in SUBSET S
    BY <1>5, <1>10
  <2>2. f[s \ {c[s]}] \in Nat
    BY <1>9, <2>1
  <2>3. f[s] = g[<<c[s], f[s \ {c[s]}]>>]
    BY <1>9, <1>10
  <2>4. g[<<c[s], f[s \ {c[s]}]>>] = Cardinality(P[c[s]]) + f[s \ {c[s]}]
    <3> DEFINE z == <<c[s], f[s \ {c[s]}]>>
    <3>1. z \in S \X Nat /\ z[1] = c[s] /\ z[2] = f[s \ {c[s]}]
      BY <2>1, <2>2
    <3> HIDE DEF z
    <3>2. g[z] = Cardinality(P[z[1]]) + z[2]
      BY <3>1
    <3> QED
      BY <3>1, <3>2 DEF z
  <2> QED
    BY <2>1, <2>3, <2>4
<1>11. IsIter(f)
  <2> DEFINE F(s) == IF s = {} THEN 0
                     ELSE LET x == CHOOSE x \in s : TRUE
                          IN  PopCount(And(BaseWord(x), Shifted(x, d))) + f[s \ {x}]
  <2>1. ASSUME NEW s \in SUBSET S PROVE f[s] = F(s)
    <3>1. CASE s = {}
      BY <1>9, <3>1
    <3>2. CASE s # {}
      <4>1. F(s) = PopCount(And(BaseWord(c[s]), Shifted(c[s], d))) + f[s \ {c[s]}]
        BY <1>5, <3>2
      <4>2. PopCount(And(BaseWord(c[s]), Shifted(c[s], d))) = Cardinality(P[c[s]])
        BY <1>4, <1>10, <3>2
      <4> QED
        BY <1>10, <3>2, <4>1, <4>2
    <3> QED
      BY <3>1, <3>2
  <2>2. f = [s \in SUBSET S |-> f[s]]
    BY <1>9
  <2> HIDE DEF F
  <2>3. f = [s \in SUBSET S |-> F(s)]
    BY <2>1, <2>2
  <2> QED
    BY <2>3 DEF F
<1>12. IsIter(iter)
  BY <1>11
<1> HIDE DEF iter
<1>13. \A s \in SUBSET S :
         iter[s] = IF s = {} THEN 0 ELSE Cardinality(P[c[s]]) + iter[s \ {c[s]}]
  <2> SUFFICES ASSUME NEW s \in SUBSET S
               PROVE  iter[s] = IF s = {} THEN 0 ELSE Cardinality(P[c[s]]) + iter[s \ {c[s]}]
    OBVIOUS
  <2>1. CASE s = {}
    BY <1>12, <2>1
  <2>2. CASE s # {}
    <3>1. iter[s] = PopCount(And(BaseWord(c[s]), Shifted(c[s], d))) + iter[s \ {c[s]}]
      BY <1>5, <1>12, <2>2
    <3>2. PopCount(And(BaseWord(c[s]), Shifted(c[s], d))) = Cardinality(P[c[s]])
      BY <1>4, <1>10, <2>2
    <3> QED
      BY <2>2, <3>1, <3>2
  <2> QED
    BY <2>1, <2>2
<1> HIDE DEF IsIter
<1>14. iter[S] = Cardinality(AllOf(P, S))
  <2>1. \A x \in S : IsFiniteSet(P[x])
    BY <1>4
  <2>2. \A s \in SUBSET S : s # {} => c[s] \in s
    BY <1>5
  <2>3. IsSizeSum(iter, S, P, c)
    BY <1>13, <2>2 DEF IsSizeSum
  <2> QED
    BY <1>3, <1>7, <2>1, <2>3, SumOfSizes
<1> QED
  BY <1>1, <1>8, <1>14 DEF all, AllOf

-----------------------------------------------------------------------------
(* The counts *)

\* The pairs of a range are those of its parts.
LEMMA PairsSplit ==
  ASSUME NEW a \in Nat, NEW b \in Nat, NEW c \in Nat, a <= b, b <= c, NEW d
  PROVE  /\ PairsCount(a, b, d) \in Nat /\ PairsCount(b, c, d) \in Nat
         /\ PairsCount(a, c, d) = PairsCount(a, b, d) + PairsCount(b, c, d)
<1> DEFINE Pairs(s, e) == {p \in Primes : s <= p /\ p < e /\ p + d \in Primes}
<1>1. Primes \subseteq Nat
  BY PrimesAreFinite
<1>2. \A s, e \in Nat : IsFiniteSet(Pairs(s, e)) /\ Cardinality(Pairs(s, e)) \in Nat
  BY PrimesAreFinite, FS_Subset, FS_CardinalityType
<1>3. \A p \in Primes : /\ (a <= p /\ p < c) <=> ((a <= p /\ p < b) \/ (b <= p /\ p < c))
                         /\ ~((a <= p /\ p < b) /\ (b <= p /\ p < c))
  <2> SUFFICES ASSUME NEW p \in Primes
               PROVE  /\ (a <= p /\ p < c) <=> ((a <= p /\ p < b) \/ (b <= p /\ p < c))
                      /\ ~((a <= p /\ p < b) /\ (b <= p /\ p < c))
    OBVIOUS
  <2>1. p \in Nat
    BY <1>1
  <2> QED
    BY <2>1
<1>4. Pairs(a, c) = Pairs(a, b) \cup Pairs(b, c)
  BY <1>3
<1>5. Pairs(a, b) \cap Pairs(b, c) = {}
  BY <1>3
<1>6. /\ PairsCount(a, b, d) = Cardinality(Pairs(a, b))
      /\ PairsCount(b, c, d) = Cardinality(Pairs(b, c))
      /\ PairsCount(a, c, d) = Cardinality(Pairs(a, c))
  BY DEF PairsCount
<1>7. /\ IsFiniteSet(Pairs(a, b)) /\ Cardinality(Pairs(a, b)) \in Nat
      /\ IsFiniteSet(Pairs(b, c)) /\ Cardinality(Pairs(b, c)) \in Nat
  BY <1>2
<1> HIDE DEF Pairs
<1>8. Cardinality(Pairs(a, b) \cup Pairs(b, c)) =
        Cardinality(Pairs(a, b)) + Cardinality(Pairs(b, c)) - Cardinality(Pairs(a, b) \cap Pairs(b, c))
  BY <1>7, FS_Union
<1>9. Cardinality(Pairs(a, b) \cap Pairs(b, c)) = 0
  BY <1>5, FS_EmptySet
<1> QED
  BY <1>4, <1>6, <1>7, <1>8, <1>9

\* What is counted in a segment: the pairs between the position and the next one.
LEMMA SegmentCounted ==
  ASSUME Counting, NEW d \in differences
  PROVE  PairsCount(position, PositionAfter, d) = IF Wanted THEN Hits(d) ELSE 0
<1> DEFINE new == {p \in Primes : position <= p /\ p < PositionAfter /\ p + d \in Primes}
           counted == {p \in Primes : /\ FirstWanted <= p /\ p <= LastToCount
                                      /\ p + d \in Primes}
<1>1. /\ position \in Nat /\ position >= 3 /\ end \in Nat /\ SegmentEnd \in Nat
  BY CountingFacts
<1>2. PositionAfter = IF SegmentEnd <= end THEN SegmentEnd ELSE end
  BY <1>1, LeastOfTwo DEF PositionAfter
<1>3. /\ FirstWanted \in Nat /\ position <= FirstWanted
      /\ \A v \in Nat : v % 2 = 1 /\ position <= v => FirstWanted <= v
      /\ LastToCount \in Nat /\ LastToCount < SegmentEnd /\ LastToCount < end
      /\ \A v \in Nat : v % 2 = 1 /\ v < SegmentEnd /\ v < end => v <= LastToCount
  BY WantedFacts
<1>4. ASSUME NEW p \in Primes
      PROVE  position <= p /\ p < PositionAfter <=> FirstWanted <= p /\ p <= LastToCount
  <2>1. p \in Nat
    BY PrimesAreFinite
  <2>2. p < PositionAfter <=> p < SegmentEnd /\ p < end
    BY <1>1, <1>2, <2>1
  <2>3. p >= 3 => p % 2 = 1
    BY <2>1, OddPrimes
  <2>4. position <= p <=> FirstWanted <= p
    BY <1>1, <1>3, <2>1, <2>3
  <2>5. p >= 3 => (p < PositionAfter <=> p <= LastToCount)
    BY <1>1, <1>3, <2>1, <2>2, <2>3
  <2>6. position <= p => p >= 3
    BY <1>1, <2>1
  <2> QED
    BY <2>4, <2>5, <2>6
<1>5. new = counted
  BY <1>4
<1>6. PairsCount(position, PositionAfter, d) = Cardinality(counted)
  BY <1>5 DEF PairsCount
<1>7. CASE Wanted
  BY <1>6, <1>7, HitsFacts
<1>8. CASE ~Wanted
  <2>1. \A p \in Primes : ~(FirstWanted <= p /\ p <= LastToCount)
    <3> SUFFICES ASSUME NEW p \in Primes, FirstWanted <= p, p <= LastToCount PROVE FALSE
      OBVIOUS
    <3>1. p \in Nat
      BY PrimesAreFinite
    <3> QED
      BY <1>3, <1>8, <3>1 DEF Wanted
  <2>2. counted = {}
    BY <2>1
  <2> QED
    BY <1>6, <1>8, <2>2, FS_EmptySet
<1> QED
  BY <1>7, <1>8

\* The full tiles and the rest cover all the differences.
LEMMA EveryDifferenceInATile ==
  ASSUME differences \in DifferenceSets, tileSize \in Nat \ {0}, NEW d \in differences
  PROVE  InATile(d)
<1> DEFINE n == Cardinality(differences)
           smaller == {x \in differences : x < d}
           full == n \div tileSize
           rest == n % tileSize
           k == Index(d) \div tileSize
           i == Index(d) % tileSize
<1>1. differences \subseteq Nat /\ IsFiniteSet(differences)
  <2> DEFINE all == 0 .. MaxValue
  <2>1. differences \subseteq all /\ MaxValue \in Nat
    BY RangeAssumption, SizeAssumption
  <2>2. all \subseteq Nat /\ IsFiniteSet(all)
    BY <2>1, FS_Interval
  <2> HIDE DEF all
  <2> QED
    BY <2>1, <2>2, FS_Subset
<1>2. Index(d) \in Nat /\ n \in Nat /\ Index(d) < n
  <2>1. smaller \subseteq differences /\ d \in differences /\ d \notin smaller
    BY <1>1
  <2>2. /\ Cardinality(smaller) <= n
        /\ Cardinality(differences) = Cardinality(smaller) => differences = smaller
    BY <1>1, <2>1, FS_Subset
  <2>3. IsFiniteSet(smaller)
    BY <1>1, <2>1, FS_Subset
  <2>4. Cardinality(smaller) \in Nat /\ n \in Nat
    BY <1>1, <2>3, FS_CardinalityType
  <2>5. Cardinality(smaller) # n
    BY <2>1, <2>2
  <2> HIDE DEF smaller, n
  <2>6. Cardinality(smaller) < n
    BY <2>2, <2>4, <2>5
  <2> QED
    BY <2>4, <2>6 DEF Index, smaller
<1> HIDE DEF n
<1>3. /\ full \in Nat /\ rest \in 0 .. tileSize - 1 /\ n = full * tileSize + rest
  BY <1>2, DivMod
<1>4. k \in Nat /\ i \in 0 .. tileSize - 1 /\ Index(d) = k * tileSize + i
  BY <1>2, DivMod
<1>5. k <= full
  BY <1>2, DivMonotone
<1>6. InATile(d) <=> \/ \E a \in 0 .. full - 1, b \in 0 .. tileSize - 1 : Index(d) = a * tileSize + b
                     \/ \E b \in 0 .. rest - 1 : Index(d) = full * tileSize + b
  BY DEF InATile, n
<1> HIDE DEF full, rest, k, i
<1>7. CASE k < full
  <2>1. k \in 0 .. full - 1
    BY <1>3, <1>4, <1>7
  <2> QED
    BY <1>4, <1>6, <2>1
<1>8. CASE k = full
  <2>1. full * tileSize \in Nat
    BY <1>3
  <2>2. i \in 0 .. rest - 1
    BY <1>2, <1>3, <1>4, <1>8, <2>1
  <2> QED
    BY <1>4, <1>6, <1>8, <2>2
<1> QED
  BY <1>3, <1>4, <1>5, <1>7, <1>8

-----------------------------------------------------------------------------
(* The invariant of the counts *)

LEMMA ExactInit == Init => ExactInv
<1> SUFFICES ASSUME Init PROVE ExactInv
  OBVIOUS
<1>1. /\ start \in Nat /\ end \in Nat /\ start < end /\ start \in start .. end
      /\ MaxValue \in Nat
  BY RangeAssumption, SizeAssumption DEF Init
<1>2. TypeOK
  BY <1>1 DEF Init, TypeOK, Constructed
<1>3. SegmentsOK
  BY DEF Init, SegmentsOK, Constructed
<1>4. \A d \in differences : counts[d] = PairsCount(start, position, d)
  <2> SUFFICES ASSUME NEW d \in differences PROVE counts[d] = PairsCount(start, position, d)
    OBVIOUS
  <2>1. {p \in Primes : start <= p /\ p < start /\ p + d \in Primes} = {}
    <3>1. \A p \in Primes : ~(start <= p /\ p < start)
      BY <1>1, PrimesAreFinite
    <3> QED
      BY <3>1
  <2>2. PairsCount(start, start, d) = 0
    BY <2>1, FS_EmptySet DEF PairsCount
  <2>3. counts[d] = 0 /\ position = start
    BY DEF Init
  <2> QED
    BY <2>2, <2>3
<1>5. CountsOK
  BY <1>4 DEF Init, CountsOK, Constructed
<1> QED
  BY <1>2, <1>3, <1>5 DEF ExactInv

\* A segment keeps what it holds while the range and the sizes are the same.
LEMMA WordsKept ==
  ASSUME UNCHANGED <<stateVars, sizes>>
  PROVE  /\ Words' = Words /\ SegmentWords' = SegmentWords
         /\ LastPrimeWanted' = LastPrimeWanted /\ segmentSize' = segmentSize
         /\ end' = end /\ start' = start /\ differences' = differences
<1>1. end' = end /\ start' = start /\ differences' = differences /\ segmentSize' = segmentSize
  BY DEF stateVars, sizes
<1>2. SegmentWords' = SegmentWords
  BY <1>1 DEF SegmentWords
<1>3. MaxLookahead' = MaxLookahead
  BY <1>1 DEF MaxLookahead, WordShift
<1> QED
  BY <1>1, <1>2, <1>3 DEF Words, LastPrimeWanted

\* The prime 2, for which there is no bit, is counted by the constructor.
LEMMA ConstructExact ==
  ASSUME IInv, ExactInv, Construct
  PROVE  ExactInv'
<1>1. /\ UNCHANGED <<start, end, differences, parameters, segmentIndex>>
      /\ pc = "construct" /\ pc' \in {"run", "failed"}
      /\ pc' = "run" => current' = [w \in Words' |-> 0] /\ next' = [w \in Words' |-> 0]
  BY DEF Construct, stateVars
<1>spans. Constructed' => current' \in [Words' -> 0 .. NotZero] /\ next' \in [Words' -> 0 .. NotZero]
  <2>1. 0 \in 0 .. NotZero
    BY NoBits DEF Word
  <2>2. Constructed' => pc' = "run"
    BY <1>1 DEF Constructed
  <2> QED
    BY <1>1, <2>1, <2>2
<1>2. /\ start \in Nat /\ end \in Nat /\ start < end /\ position \in Nat
      /\ start <= position /\ position <= end /\ MaxValue \in Nat /\ end <= MaxValue
      /\ differences \in DifferenceSets
  BY RangeAssumption, SizeAssumption DEF IInv, RangeOK
<1>3. IInv'
  BY InvConstruct
<1>4. /\ position' \in start .. end /\ position' \in Nat
  BY <1>2, ConstructedPosition
<1>5. segmentSize' \in Nat /\ tileSize' \in Nat
  <2>1. PICK detected \in DetectedCaches :
          segmentSize' = SegmentSizeFor(detected) /\ tileSize' = TileSizeGiven
    BY Zenon DEF Construct
  <2>2. parameters \in Seq(Nat)
    BY SizeAssumption DEF IInv, RangeOK
  <2>3. SegmentSizeFor(detected) \in Nat
    BY <2>2, SuggestionFacts DEF SegmentSizeFor
  <2>4. TileSizeGiven \in Nat
    BY <2>2 DEF TileSizeGiven, SuggestedTileSize
  <2> QED
    BY <2>1, <2>3, <2>4
<1>6. counts \in [differences -> Nat] /\ \A d \in differences : counts[d] = PairsCount(start, position, d)
  BY DEF ExactInv, TypeOK, CountsOK
<1>7. PICK h \in Primes : h > MaxValue
  BY HorizonIsEnough
<1>8. h \in Nat /\ Horizon \in Nat /\ h <= Horizon
  BY <1>7, PrimesAreFinite, HorizonAssumption
<1>9. \E p \in Primes : p >= position
  BY <1>2, <1>7, <1>8
<1>10. /\ PrimeFrom(position) \in Primes /\ PrimeFrom(position) >= position
       /\ \A q \in Primes : q >= position => PrimeFrom(position) <= q
  BY <1>2, <1>9, PrimeFromFacts
<1>11. CASE pc' = "failed"
  <2>1. UNCHANGED <<position, counts, prime>>
    BY <1>11, Zenon DEF Construct
  <2>2. TypeOK'
    BY <1>spans, <1>1, <1>5, <1>11, <2>1 DEF ExactInv, TypeOK
  <2>3. SegmentsOK' /\ CountsOK'
    BY <1>1, <1>6, <1>11, <2>1 DEF SegmentsOK, CountsOK, Constructed
  <2> QED
    BY <2>2, <2>3 DEF ExactInv
<1>12. CASE pc' = "run" /\ PrimeFrom(position) = 2
  <2>1. /\ counts' = IF 0 \in differences /\ end > 2 THEN [counts EXCEPT ![0] = @ + 1] ELSE counts
        /\ position' = Least({end, 3}) /\ prime' = 3
    BY <1>12, Zenon DEF Construct
  <2>2. position' = IF end <= 3 THEN end ELSE 3
    BY <1>2, <2>1, LeastOfTwo
  <2>3. position <= 2 /\ position <= position'
    BY <1>2, <1>10, <1>12, <2>2
  <2>4. 3 \in Primes /\ 2 \in Primes
    <3>1. RangeOK' /\ Constructed' /\ MaxValue >= 3
      <4>1. RangeOK' /\ Constructed'
        BY <1>3, <1>12 DEF IInv, Constructed
      <4>2. (ValidSize(segmentSize))'
        BY <4>1 DEF RangeOK
      <4>3. MaxValue - segmentSize' >= end + Greatest(differences) /\ segmentSize' >= ValuesPerWord
        BY <1>1, <4>2 DEF ValidSize
      <4>4. Greatest(differences) \in Nat
        BY <1>2, DifferenceFacts
      <4>5. ValuesPerWord \in Nat /\ ValuesPerWord >= 3
        BY WidthFacts DEF ValuesPerWord
      <4>6. MaxValue >= 3
        BY <1>2, <1>5, <4>3, <4>4, <4>5
      <4> QED
        BY <4>1, <4>6
    <3>2. Horizon >= 3
      BY <1>2, <1>7, <1>8, <3>1
    <3> QED
      BY <1>8, <3>2 DEF Primes
  <2>5. ASSUME NEW d \in differences
        PROVE  PairsCount(position, position', d) = IF d = 0 /\ end > 2 THEN 1 ELSE 0
    <3> DEFINE new == {p \in Primes : position <= p /\ p < position' /\ p + d \in Primes}
    <3>1. d \in Nat /\ d % 2 = 0
      BY <1>2, RangeAssumption
    <3>2. \A p \in Primes : position <= p /\ p < position' <=> p = 2 /\ end > 2
      <4> SUFFICES ASSUME NEW p \in Primes
                   PROVE  position <= p /\ p < position' <=> p = 2 /\ end > 2
        OBVIOUS
      <4>1. p \in Nat /\ p >= 2
        BY PrimesAreFinite
      <4> QED
        BY <1>2, <2>2, <2>3, <4>1
    <3>3. 2 + d \in Primes <=> d = 0
      <4>1. (2 + d) % 2 = 0
        BY <3>1
      <4>2. 2 + d \in Primes => 2 + d = 2
        BY <4>1, OddPrimes
      <4> QED
        BY <2>4, <3>1, <4>2
    <3>4. new = IF d = 0 /\ end > 2 THEN {2} ELSE {}
      BY <2>4, <3>2, <3>3
    <3>5. PairsCount(position, position', d) = Cardinality(new)
      BY DEF PairsCount
    <3> HIDE DEF new
    <3> QED
      BY <3>4, <3>5, FS_EmptySet, FS_Singleton
  <2>6. \A d \in differences : counts'[d] = PairsCount(start, position', d) /\ counts'[d] \in Nat
    <3> SUFFICES ASSUME NEW d \in differences
                 PROVE  counts'[d] = PairsCount(start, position', d) /\ counts'[d] \in Nat
      OBVIOUS
    <3>1. counts'[d] = counts[d] + (IF d = 0 /\ end > 2 THEN 1 ELSE 0)
      BY <1>6, <2>1
    <3>2. PairsCount(start, position', d) = PairsCount(start, position, d) + PairsCount(position, position', d)
      BY <1>2, <1>4, <2>3, PairsSplit
    <3> QED
      BY <1>6, <2>5, <3>1, <3>2
  <2>7. counts' \in [differences -> Nat]
    BY <1>6, <2>1
  <2>8. TypeOK'
    BY <1>spans, <1>1, <1>4, <1>5, <1>12, <2>1, <2>4, <2>7 DEF ExactInv, TypeOK
  <2>9. SegmentsOK'
    <3>1. \A q \in Primes : position' <= q /\ position' < end => 3 <= q
      BY <1>2, <2>2, PrimesAreFinite
    <3> QED
      BY <1>1, <1>12, <2>1, <2>4, <3>1 DEF SegmentsOK, Constructed
  <2>10. CountsOK'
    <3>1. position' < end => position' >= 3
      BY <1>2, <2>2
    <3> QED
      BY <1>1, <2>6, <3>1 DEF CountsOK
  <2> QED
    BY <2>8, <2>9, <2>10 DEF ExactInv
<1>13. CASE pc' = "run" /\ PrimeFrom(position) # 2
  <2>1. prime' = PrimeFrom(position) /\ UNCHANGED <<position, counts>>
    BY <1>13, Zenon DEF Construct
  <2>2. TypeOK'
    BY <1>spans, <1>1, <1>5, <1>10, <1>13, <2>1 DEF ExactInv, TypeOK
  <2>3. SegmentsOK'
    <3>1. \A q \in Primes : position <= q => PrimeFrom(position) <= q
      <4> SUFFICES ASSUME NEW q \in Primes, position <= q PROVE PrimeFrom(position) <= q
        OBVIOUS
      <4>1. q \in Nat
        BY PrimesAreFinite
      <4> QED
        BY <1>2, <1>10, <4>1
    <3> QED
      BY <1>1, <1>10, <1>13, <2>1, <3>1 DEF SegmentsOK, Constructed
  <2>4. CountsOK'
    <3>1. position >= 3
      <4> SUFFICES ASSUME ~(position >= 3) PROVE FALSE
        OBVIOUS
      <4>1. h >= 2
        BY <1>7, PrimesAreFinite
      <4>2. 2 \in Primes
        BY <1>8, <4>1 DEF Primes
      <4>3. PrimeFrom(position) <= 2 /\ PrimeFrom(position) >= 2
        <5>1. 2 >= position
          BY <1>2
        <5> QED
          BY <1>10, <4>2, <5>1, PrimesAreFinite
      <4>4. PrimeFrom(position) \in Nat
        BY <1>10, PrimesAreFinite
      <4> QED
        BY <1>13, <4>3, <4>4
    <3> QED
      BY <1>1, <1>6, <2>1, <3>1 DEF CountsOK
  <2> QED
    BY <2>2, <2>3, <2>4 DEF ExactInv
<1> QED
  BY <1>1, <1>11, <1>12, <1>13

LEMMA RunExact ==
  ASSUME IInv, ExactInv, Run
  PROVE  ExactInv'
<1>1. /\ UNCHANGED <<stateVars, sizes, position, counts, next>>
      /\ UNCHANGED <<start, end, differences, parameters, segmentSize, tileSize>>
      /\ pc = "run" /\ pc' \in {"left", "loop"}
  BY DEF Run, stateVars, sizes
<1>2. RangeOK /\ Constructed /\ prime \in Primes /\ prime # 2
  BY <1>1 DEF IInv, ExactInv, SegmentsOK, Constructed
<1>spans. Words' = Words /\ current \in [Words -> 0 .. NotZero] /\ next \in [Words -> 0 .. NotZero]
  BY <1>1, <1>2, WordsKept DEF ExactInv, TypeOK
<1>3. CASE position >= end
  <2>1. pc' = "left" /\ UNCHANGED <<segmentIndex, current, prime>>
    BY <1>3, Zenon DEF Run
  <2>2. TypeOK'
    BY <1>spans, <1>1, <2>1 DEF ExactInv, TypeOK
  <2>3. SegmentsOK' /\ CountsOK'
    BY <1>1, <1>2, <2>1 DEF ExactInv, SegmentsOK, CountsOK, Constructed
  <2> QED
    BY <2>2, <2>3 DEF ExactInv
<1>4. CASE ~(position >= end)
  <2> DEFINE seg == position \div segmentSize
  <2>1. /\ pc' = "loop" /\ segmentIndex' = seg
        /\ current' = SegmentOf(segmentIndex', current) /\ prime' = PrimeAfter(segmentIndex')
    BY <1>4, Zenon DEF Run
  <2>2. /\ segmentSize \in Nat \ {0} /\ position \in Nat /\ end \in Nat /\ MaxValue \in Nat
        /\ end <= MaxValue /\ position < end
    <3>1. /\ segmentSize \in Nat \ {0} /\ position \in Nat /\ end \in Nat /\ MaxValue \in Nat
          /\ Greatest(differences) \in Nat
          /\ end + Greatest(differences) + segmentSize <= MaxValue
      BY <1>2, SegmentFacts
    <3> QED
      BY <1>4, <3>1
  <2>3. seg \in Nat /\ seg * segmentSize <= position /\ position < seg * segmentSize + segmentSize
        /\ seg <= position
    BY <2>2, DivFacts, DivLess
  <2> HIDE DEF seg
  <2>4. seg * segmentSize \in Nat /\ seg * segmentSize <= MaxValue /\ seg <= MaxValue
    BY <2>2, <2>3
  <2>5. Sievable(seg)
    BY <1>2, <2>3, <2>4 DEF Sievable
  <2>6. \A q \in Primes : position <= q => prime <= q
    BY <1>1, <2>2 DEF ExactInv, SegmentsOK
  <2>7. Holds(SegmentOf(seg, current), seg, position)
    BY <1>spans, <2>2, <2>5, <2>6, SegmentHolds
  <2>8. /\ PrimeAfter(seg) \in Primes /\ PrimeAfter(seg) # 2
        /\ \A q \in Primes : seg * segmentSize + segmentSize <= q /\ prime <= q
                               => PrimeAfter(seg) <= q
    BY <2>5, PrimeAfterFacts
  <2>9. \A q \in Primes : (seg + 1) * segmentSize <= q => PrimeAfter(seg) <= q
    <3> SUFFICES ASSUME NEW q \in Primes, (seg + 1) * segmentSize <= q
                 PROVE  PrimeAfter(seg) <= q
      OBVIOUS
    <3>1. (seg + 1) * segmentSize = seg * segmentSize + segmentSize
      BY <2>2, <2>3
    <3>2. q \in Nat
      BY PrimesAreFinite
    <3>3. position <= q /\ seg * segmentSize + segmentSize <= q
      BY <2>2, <2>3, <2>4, <3>1, <3>2
    <3> QED
      BY <2>6, <2>8, <3>3
  <2>10. current' = SegmentOf(seg, current) /\ prime' = PrimeAfter(seg)
    BY <2>1
  <2>11. Holds(current, segmentIndex, position)'
    BY <1>1, <2>1, <2>7, <2>10, WordsKept DEF Holds, ValueOf
  <2>12. TypeOK'
    <3>1. current' \in [Words' -> 0 .. NotZero] /\ next' \in [Words' -> 0 .. NotZero]
      BY <1>spans, <1>1, <2>11 DEF Holds
    <3> QED
      BY <1>1, <2>1, <2>3, <2>4, <2>8, <3>1 DEF ExactInv, TypeOK
  <2>13. NonePassed(segmentIndex + 1)'
    BY <1>1, <2>1, <2>9, <2>10 DEF NonePassed
  <2>14. SegmentsOK'
    BY <2>1, <2>8, <2>10, <2>11, <2>13 DEF SegmentsOK, Constructed
  <2>15. CountsOK'
    BY <1>1, <1>2, <2>1 DEF ExactInv, CountsOK, Constructed
  <2> QED
    BY <2>12, <2>14, <2>15 DEF ExactInv
<1> QED
  BY <1>3, <1>4

LEMMA SieveNextExact ==
  ASSUME IInv, ExactInv, SieveNext
  PROVE  ExactInv'
<1> DEFINE seg == segmentIndex + 1
<1>1. /\ UNCHANGED <<stateVars, sizes, position, counts, current>>
      /\ UNCHANGED <<start, end, differences, parameters, segmentSize, tileSize>>
      /\ pc = "loop" /\ pc' = "sieved" /\ position < end
      /\ segmentIndex' = seg /\ next' = SegmentOf(segmentIndex', next)
      /\ prime' = PrimeAfter(segmentIndex')
  BY DEF SieveNext, stateVars, sizes
<1>2. RangeOK /\ Constructed /\ prime \in Primes /\ prime # 2
  BY <1>1 DEF IInv, ExactInv, SegmentsOK, Constructed
<1>3. /\ segmentSize \in Nat \ {0} /\ position \in Nat /\ end \in Nat /\ MaxValue \in Nat
      /\ Greatest(differences) \in Nat
      /\ end + Greatest(differences) + segmentSize <= MaxValue
  BY <1>2, SegmentFacts
<1>4. /\ segmentIndex \in Nat /\ segmentIndex * segmentSize <= position
      /\ position < segmentIndex * segmentSize + segmentSize
  BY <1>1 DEF IInv, PositionInSegment, InSegment
<1>5. /\ seg \in Nat /\ seg - 1 = segmentIndex
      /\ seg * segmentSize = segmentIndex * segmentSize + segmentSize
      /\ seg * segmentSize \in Nat /\ position < seg * segmentSize
      /\ (seg + 1) * segmentSize = seg * segmentSize + segmentSize
  BY <1>3, <1>4
<1>6. seg * segmentSize <= MaxValue /\ seg <= MaxValue
  <2>1. segmentIndex * segmentSize \in Nat
    BY <1>3, <1>4
  <2>2. seg * segmentSize <= MaxValue
    BY <1>1, <1>3, <1>4, <1>5, <2>1
  <2>3. seg <= seg * segmentSize
    <3> HIDE DEF seg
    <3> QED
      BY <1>3, <1>5
  <2> QED
    BY <1>3, <1>5, <2>2, <2>3
<1>7. /\ Holds(current, segmentIndex, position)
      /\ \A q \in Primes : seg * segmentSize <= q /\ q <= LastPrimeWanted => prime <= q
  BY <1>1 DEF ExactInv, SegmentsOK, NonePassed
<1> HIDE DEF seg
<1>8. Sievable(seg)
  BY <1>2, <1>5, <1>6 DEF Sievable
<1>spans. next \in [Words -> 0 .. NotZero]
  BY <1>2 DEF ExactInv, TypeOK
<1>9. Holds(SegmentOf(seg, next), seg, seg * segmentSize)
  BY <1>spans, <1>5, <1>7, <1>8, SegmentHolds
<1>10. /\ PrimeAfter(seg) \in Primes /\ PrimeAfter(seg) # 2
       /\ \A q \in Primes : seg * segmentSize + segmentSize <= q /\ prime <= q
                              => PrimeAfter(seg) <= q
  BY <1>8, PrimeAfterFacts
<1>11. \A q \in Primes : (seg + 1) * segmentSize <= q /\ q <= LastPrimeWanted
                           => PrimeAfter(seg) <= q
  <2> SUFFICES ASSUME NEW q \in Primes, (seg + 1) * segmentSize <= q, q <= LastPrimeWanted
               PROVE  PrimeAfter(seg) <= q
    OBVIOUS
  <2>1. q \in Nat
    BY PrimesAreFinite
  <2>2. seg * segmentSize <= q /\ seg * segmentSize + segmentSize <= q
    BY <1>3, <1>5, <2>1
  <2> QED
    BY <1>7, <1>10, <2>2
<1>12. next' = SegmentOf(seg, next) /\ prime' = PrimeAfter(seg)
  BY <1>1
<1>13. Holds(current, segmentIndex - 1, position)'
  <2>1. segmentIndex' - 1 = segmentIndex
    BY <1>1, <1>5
  <2> QED
    BY <1>1, <1>7, <2>1, WordsKept DEF Holds, ValueOf
<1>14. Holds(next, segmentIndex, segmentIndex * segmentSize)'
  BY <1>1, <1>9, <1>12, WordsKept DEF Holds, ValueOf
<1>15. NonePassed(segmentIndex + 1)'
  BY <1>1, <1>11, <1>12, WordsKept DEF NonePassed
<1>16. SegmentsOK'
  BY <1>1, <1>10, <1>12, <1>13, <1>14, <1>15 DEF SegmentsOK, Constructed
<1>17. TypeOK'
  <2>1. current' \in [Words' -> 0 .. NotZero] /\ next' \in [Words' -> 0 .. NotZero]
    BY <1>13, <1>14 DEF Holds
  <2> QED
    BY <1>1, <1>5, <1>6, <1>10, <1>12, <2>1 DEF ExactInv, TypeOK
<1>18. CountsOK'
  BY <1>1, <1>2 DEF ExactInv, CountsOK, Constructed
<1> QED
  BY <1>16, <1>17, <1>18 DEF ExactInv

\* The pairs of the segment are added, and the look ahead is counted next.
LEMMA ProcessSegmentExact ==
  ASSUME IInv, ExactInv, ProcessSegment
  PROVE  ExactInv'
<1>1. /\ UNCHANGED <<stateVars, sizes, segmentIndex, prime>>
      /\ UNCHANGED <<start, end, differences, parameters, segmentSize, tileSize>>
      /\ pc = "sieved" /\ pc' = "loop"
      /\ position' = PositionAfter /\ current' = next
      /\ next' = (IF Wanted THEN View ELSE Extended)
      /\ Wanted => tileSize \in FixedTiles
      /\ counts' = [d \in differences |->
                      IF Wanted /\ InATile(d) THEN counts[d] + Hits(d) ELSE counts[d]]
  BY DEF ProcessSegment, stateVars, sizes
<1>2. RangeOK /\ Constructed
  BY <1>1 DEF IInv, Constructed
<1>3. /\ position' \in Nat /\ position' > position /\ position' \in start .. end
      /\ position' < end => position' = segmentIndex * segmentSize
  BY ProcessedPosition
<1>4. /\ counts \in [differences -> Nat]
      /\ \A d \in differences : counts[d] = PairsCount(start, position, d)
      /\ position < end => position >= 3
      /\ Holds(current, segmentIndex - 1, position)
      /\ Holds(next, segmentIndex, segmentIndex * segmentSize)
      /\ NonePassed(segmentIndex + 1) /\ prime \in Primes /\ prime # 2
  BY <1>1, <1>2 DEF ExactInv, TypeOK, SegmentsOK, CountsOK, Constructed
<1>5. position < end
  BY <1>1 DEF IInv, PositionInSegment
<1>6. Counting
  BY <1>1, <1>4, <1>5 DEF Counting
<1>7. /\ start \in Nat /\ end \in Nat /\ position \in Nat /\ start <= position
      /\ differences \in DifferenceSets
  BY <1>2, RangeAssumption, SizeAssumption DEF RangeOK
<1>8. ASSUME NEW d \in differences
      PROVE  counts'[d] = PairsCount(start, position', d) /\ counts'[d] \in Nat
  <2>1. Wanted => InATile(d)
    <3>1. tileSize \in FixedTiles => tileSize \in Nat \ {0}
      BY SizeAssumption
    <3> QED
      BY <1>1, <1>7, <3>1, EveryDifferenceInATile
  <2>2. counts'[d] = IF Wanted /\ InATile(d) THEN counts[d] + Hits(d) ELSE counts[d]
    BY <1>1
  <2>3. PairsCount(position, position', d) = IF Wanted THEN Hits(d) ELSE 0
    BY <1>1, <1>6, SegmentCounted
  <2>4. /\ PairsCount(start, position, d) \in Nat /\ PairsCount(position, position', d) \in Nat
        /\ PairsCount(start, position', d) = PairsCount(start, position, d) + PairsCount(position, position', d)
    BY <1>3, <1>7, PairsSplit
  <2>5. counts[d] = PairsCount(start, position, d)
    BY <1>4
  <2>6. CASE Wanted
    <3>1. counts'[d] = counts[d] + Hits(d) /\ PairsCount(position, position', d) = Hits(d)
      BY <2>1, <2>2, <2>3, <2>6
    <3> QED
      BY <2>4, <2>5, <3>1
  <2>7. CASE ~Wanted
    <3>1. counts'[d] = counts[d] /\ PairsCount(position, position', d) = 0
      BY <2>2, <2>3, <2>7
    <3> QED
      BY <2>4, <2>5, <3>1
  <2> QED
    BY <2>6, <2>7
<1>9. counts' \in [differences -> Nat]
  BY <1>1, <1>8
<1>10. TypeOK'
  <2>1. [Words -> 0 .. NotZero] = Span(SegmentWords + MaxLookahead) /\ Words' = Words
    BY <1>1, <1>2, WordsFacts, WordsKept
  <2>2. Wanted => View \in [Words -> 0 .. NotZero]
    BY <1>6, <2>1, ViewFacts
  <2>3. Extended \in [Words -> 0 .. NotZero]
    BY <1>6, <2>1, ExtendedFacts
  <2>4. current' \in [Words' -> 0 .. NotZero] /\ next' \in [Words' -> 0 .. NotZero]
    BY <1>1, <1>4, <2>1, <2>2, <2>3 DEF Holds
  <2> QED
    BY <1>1, <1>3, <1>9, <2>4 DEF ExactInv, TypeOK
<1>11. position' < end => Holds(current, segmentIndex, position)'
  BY <1>1, <1>3, <1>4, WordsKept DEF Holds, ValueOf
<1>12. NonePassed(segmentIndex + 1)'
  BY <1>1, <1>4, WordsKept DEF NonePassed
<1>13. SegmentsOK'
  BY <1>1, <1>4, <1>11, <1>12 DEF SegmentsOK, Constructed
<1>14. CountsOK'
  BY <1>1, <1>3, <1>4, <1>5, <1>7, <1>8 DEF CountsOK
<1> QED
  BY <1>10, <1>13, <1>14 DEF ExactInv

LEMMA LeaveExact ==
  ASSUME IInv, ExactInv, Leave
  PROVE  ExactInv'
<1>1. Words' = Words
  BY WordsKept DEF Leave, segmentVars
<1> QED
  BY <1>1 DEF Leave, ExactInv, TypeOK, SegmentsOK, CountsOK, Constructed, stateVars,
              segmentVars, sizes

LEMMA AccumulateThrowsExact ==
  ASSUME IInv, ExactInv, AccumulateThrows
  PROVE  ExactInv'
BY DEF AccumulateThrows, ExactInv, TypeOK, SegmentsOK, CountsOK, Constructed, stateVars,
       segmentVars, sizes

LEMMA ResumeExact ==
  ASSUME IInv, ExactInv, Resume
  PROVE  ExactInv'
<1>1. /\ UNCHANGED <<start, end, differences, parameters, position, counts>>
      /\ pc' = "construct" /\ segmentSize' = 0 /\ tileSize' = 0 /\ segmentIndex' = 0
      /\ prime' = 0
  BY DEF Resume, stateVars
<1>2. 0 \in 0 .. MaxValue
  BY SizeAssumption
<1>3. TypeOK'
  BY <1>1, <1>2 DEF ExactInv, TypeOK, Constructed
<1>4. SegmentsOK' /\ CountsOK'
  BY <1>1 DEF ExactInv, SegmentsOK, CountsOK, Constructed
<1> QED
  BY <1>3, <1>4 DEF ExactInv

LEMMA ExactNext ==
  ASSUME IInv, ExactInv, [Next]_vars
  PROVE  ExactInv'
<1>1. CASE UNCHANGED vars
  <2>1. /\ UNCHANGED <<stateVars, sizes>>
        /\ UNCHANGED <<start, end, differences, parameters, position, counts, pc, segmentSize,
                        tileSize, segmentIndex, current, next, prime>>
    BY <1>1 DEF vars, stateVars, segmentVars, sizes
  <2>2. TypeOK' /\ CountsOK'
    BY <2>1, WordsKept DEF ExactInv, TypeOK, CountsOK, Constructed
  <2>3. SegmentsOK'
    <3>1. /\ pc = "loop" /\ position < end => Holds(current, segmentIndex, position)'
          /\ pc = "sieved" => /\ Holds(current, segmentIndex - 1, position)'
                              /\ Holds(next, segmentIndex, segmentIndex * segmentSize)'
      BY <2>1, WordsKept DEF ExactInv, SegmentsOK, Holds, ValueOf
    <3>2. NonePassed(segmentIndex + 1) => NonePassed(segmentIndex + 1)'
      BY <2>1, WordsKept DEF NonePassed
    <3> QED
      BY <2>1, <3>1, <3>2 DEF ExactInv, SegmentsOK, Constructed
  <2> QED
    BY <2>2, <2>3 DEF ExactInv
<1> QED
  BY <1>1, ConstructExact, RunExact, LeaveExact, SieveNextExact, ProcessSegmentExact,
     AccumulateThrowsExact, ResumeExact DEF Next

\* What the counts say holds at every point at which the worker may be stopped.
LEMMA CountsFollow == ExactInv => CountsExact
BY DEF ExactInv, CountsOK, CountsExact

\* The bits of the segment looked ahead to are those of the primes in it.
LEMMA SegmentsFollow == IInv /\ ExactInv => SegmentsHoldPrimes
<1> SUFFICES ASSUME IInv, ExactInv, pc = "sieved",
                    NEW i \in 0 .. SegmentWords * BitsPerWord - 1
             PROVE  LET value == segmentIndex * segmentSize + 2 * i + 1
                    IN  /\ GetBit(next, i) = 1 => value \in Primes
                        /\ (value \in Primes /\ value <= LastPrimeWanted) => GetBit(next, i) = 1
  BY DEF SegmentsHoldPrimes
<1> DEFINE m == SegmentWords + MaxLookahead
<1>1. RangeOK /\ Constructed
  BY DEF IInv, Constructed
<1>2. Holds(next, segmentIndex, segmentIndex * segmentSize)
  BY DEF ExactInv, SegmentsOK
<1>3. /\ SegmentWords \in Nat /\ MaxLookahead \in Nat /\ m \in Nat
      /\ [Words -> 0 .. NotZero] = Span(m)
  BY <1>1, SegmentIsWords, LookaheadShort, WordsFacts
<1>4. segmentIndex \in Nat
  BY <1>1 DEF RangeOK
<1>5. /\ i \in Nat /\ ValueOf(segmentIndex, i) \in Nat
      /\ segmentIndex * segmentSize < ValueOf(segmentIndex, i)
      /\ segmentIndex * segmentSize \in Nat
  BY <1>1, <1>4, ValueFacts
<1>6. HasBit(next, i) <=> /\ ValueOf(segmentIndex, i) \in Primes
                          /\ ValueOf(segmentIndex, i) <= LastPrimeWanted
  <2>1. segmentIndex * segmentSize <= ValueOf(segmentIndex, i)
    BY <1>5
  <2> QED
    BY <1>2, <2>1 DEF Holds
<1>7. GetBit(next, i) = 1 <=> HasBit(next, i)
  <2>1. next \in Span(m)
    BY <1>2, <1>3 DEF Holds
  <2>2. i \div BitsPerWord \in 0 .. SegmentWords - 1
    BY <1>3, InSpan
  <2>3. i \div BitsPerWord \in 0 .. m - 1
    BY <1>3, <2>2
  <2>4. next[i \div BitsPerWord] \in Word
    BY <2>1, <2>3 DEF Span
  <2> QED
    BY <1>5, <2>4, GetBitFacts
<1> QED
  BY <1>6, <1>7 DEF ValueOf

\* The bits of a span, by the words they are in.
LEMMA BitsInFacts ==
  ASSUME NEW m \in Nat, NEW a \in Span(m)
  PROVE  BitsIn(a) = {i \in 0 .. m * BitsPerWord - 1 : HasBit(a, i)}
<1>1. DOMAIN a = 0 .. m - 1
  BY DEF Span
<1>2. Cardinality(0 .. m - 1) = m
  <2>1. Cardinality(0 .. m - 1) = IF 0 > m - 1 THEN 0 ELSE (m - 1) - 0 + 1
    BY FS_Interval
  <2> QED
    BY <2>1
<1>3. ASSUME NEW i \in 0 .. m * BitsPerWord - 1
      PROVE  GetBit(a, i) = 1 <=> HasBit(a, i)
  <2>1. i \in Nat /\ i \div BitsPerWord \in 0 .. m - 1
    BY InSpan
  <2>2. a[i \div BitsPerWord] \in Word
    BY <2>1 DEF Span
  <2> QED
    BY <2>1, <2>2, GetBitFacts
<1> QED
  BY <1>1, <1>2, <1>3 DEF BitsIn

\* Every word is cleared as far as it should be.
LEMMA ClearsFollow == IInv /\ ExactInv => ClearsExactly
<1> DEFINE m == SegmentWords + MaxLookahead
           all == m * BitsPerWord
           rest == 0 .. all - 1
<1> SUFFICES ASSUME IInv, ExactInv, pc = "sieved",
                    NEW n \in 0 .. Cardinality(Words) * BitsPerWord - 1
             PROVE  LET size == Cardinality(Words) * BitsPerWord
                    IN  /\ BitsIn(ClearLeftBits(next, n)) = BitsIn(next) \ (0 .. n - 1)
                        /\ BitsIn(ClearRightBits(next, n)) = BitsIn(next) \ (size - n .. size - 1)
                        /\ BitsIn(ClearBit(next, n)) = BitsIn(next) \ {n}
  BY DEF ClearsExactly
<1>1. RangeOK /\ Constructed
  BY DEF IInv, Constructed
<1>2. m \in Nat /\ Words = 0 .. m - 1 /\ [Words -> 0 .. NotZero] = Span(m)
  BY <1>1, WordsFacts
<1>3. next \in Span(m)
  BY <1>2 DEF ExactInv, SegmentsOK, Holds
<1> HIDE DEF m
<1>4. Cardinality(Words) = m
  <2>1. Cardinality(0 .. m - 1) = IF 0 > m - 1 THEN 0 ELSE (m - 1) - 0 + 1
    BY <1>2, FS_Interval
  <2> QED
    BY <1>2, <2>1
<1>5. all \in Nat /\ n \in rest /\ n \in Nat
  BY <1>2, <1>4, WidthFacts
<1>6. BitsIn(next) = {i \in rest : HasBit(next, i)}
  BY <1>2, <1>3, BitsInFacts
<1>7. /\ ClearLeftBits(next, n) \in Span(m)
      /\ \A j \in rest : HasBit(ClearLeftBits(next, n), j) <=> j >= n /\ HasBit(next, j)
  BY <1>2, <1>3, <1>5, ClearLeftFacts
<1>8. /\ ClearRightBits(next, n) \in Span(m)
      /\ \A j \in rest : HasBit(ClearRightBits(next, n), j) <=> j < all - n /\ HasBit(next, j)
  BY <1>2, <1>3, <1>5, ClearRightFacts
<1>9. /\ ClearBit(next, n) \in Span(m)
      /\ \A j \in rest : HasBit(ClearBit(next, n), j) <=> j # n /\ HasBit(next, j)
  BY <1>2, <1>3, <1>5, ClearBitFacts
<1>10. /\ BitsIn(ClearLeftBits(next, n)) = {i \in rest : HasBit(ClearLeftBits(next, n), i)}
       /\ BitsIn(ClearRightBits(next, n)) = {i \in rest : HasBit(ClearRightBits(next, n), i)}
       /\ BitsIn(ClearBit(next, n)) = {i \in rest : HasBit(ClearBit(next, n), i)}
  BY <1>2, <1>7, <1>8, <1>9, BitsInFacts
<1>11. \A j \in rest : /\ j >= n <=> j \notin 0 .. n - 1
                       /\ j < all - n <=> j \notin all - n .. all - 1
  <2> HIDE DEF all
  <2> QED
    BY <1>5
<1> HIDE DEF rest
<1>12. BitsIn(ClearLeftBits(next, n)) = BitsIn(next) \ (0 .. n - 1)
  <2> DEFINE cleared == 0 .. n - 1
  <2>1. \A j \in rest : j >= n <=> j \notin cleared
    BY <1>11
  <2> HIDE DEF cleared
  <2>2. BitsIn(ClearLeftBits(next, n)) = BitsIn(next) \ cleared
    BY <1>6, <1>7, <1>10, <2>1
  <2> QED
    BY <2>2 DEF cleared
<1>13. BitsIn(ClearRightBits(next, n)) = BitsIn(next) \ (all - n .. all - 1)
  <2> DEFINE cleared == all - n .. all - 1
  <2>1. \A j \in rest : j < all - n <=> j \notin cleared
    BY <1>11
  <2> HIDE DEF cleared
  <2>2. BitsIn(ClearRightBits(next, n)) = BitsIn(next) \ cleared
    BY <1>6, <1>8, <1>10, <2>1
  <2> QED
    BY <2>2 DEF cleared
<1>14. BitsIn(ClearBit(next, n)) = BitsIn(next) \ {n}
  BY <1>6, <1>9, <1>10
<1> QED
  BY <1>4, <1>12, <1>13, <1>14

-----------------------------------------------------------------------------
(* Theorems *)

\* The inductive invariant: the position is in the segment that is counted next,
\* and that segment and the one after it end before the largest value.
THEOREM Invariance == Spec => []IInv
<1>1. Init => IInv
  BY InvInit
<1>2. IInv /\ [Next]_vars => IInv'
  BY InvNext
<1> QED
  BY <1>1, <1>2, PTL DEF Spec

\* No segment that is counted wraps around, up to the largest value of any width.
THEOREM NoSegmentWraps == Spec => []NoWrapAround
BY Invariance, SegmentsDoNotWrap, PTL

\* Every word a difference is looked up in exists, for every difference smaller
\* than the segment, and so does the bit of every prime of a segment.
THEOREM NoAccessOutOfBounds == Spec => []AccessInBounds
BY Invariance, AccessesInBounds, PTL

\* Without parameters a worker fails only if the cache is too small for the
\* differences, or too large for the end of the range.
THEOREM DefaultsAreAccepted == Spec => []DefaultsWork
<1>1. IInv => DefaultsWork
  BY DEF IInv
<1> QED
  BY <1>1, Invariance, PTL

\* Every turn of the loop brings the position forward: no segment is counted
\* twice, and the loop cannot stay where it is.
THEOREM EverySegmentAdvances == Spec => Progress
<1>1. IInv /\ [Next]_vars => [pc = "sieved" /\ pc' = "loop" => position' > position]_vars
  <2> SUFFICES ASSUME IInv, Next, pc = "sieved", pc' = "loop"
               PROVE  position' > position
    OBVIOUS
  <2>1. ProcessSegment
    BY DEF Next, Construct, Run, Leave, SieveNext, AccumulateThrows, Resume
  <2> QED
    BY <2>1, ProcessedPosition
<1> QED
  BY <1>1, Invariance, PTL DEF Spec, Progress

\* The inductive invariant of the counts: from the position on the segments hold the
\* primes that will be looked at, and the counts are those of the range before it.
THEOREM ExactInvariance == Spec => [](IInv /\ ExactInv)
<1>1. Init => IInv /\ ExactInv
  BY InvInit, ExactInit
<1>2. (IInv /\ ExactInv) /\ [Next]_vars => (IInv /\ ExactInv)'
  BY InvNext, ExactNext
<1> QED
  BY <1>1, <1>2, PTL DEF Spec

\* Every variable has its type: sizes, words, counts and the prime of the iterator.
THEOREM TypeCorrect == Spec => []TypeOK
<1>1. ExactInv => TypeOK
  BY DEF ExactInv
<1> QED
  BY <1>1, ExactInvariance, PTL

\* types.hpp: wherever the worker may be stopped or saved its counts are the numbers
\* of pairs in the range before its position, for words of any power of two, every
\* segment size the constructor accepts, every range and every set of differences,
\* however often it was resumed.
THEOREM CountsAreExact == Spec => []CountsExact
BY ExactInvariance, CountsFollow, PTL

\* worker_optimized.hpp: a bit of a segment is set if and only if the value it stands
\* for is a prime that will be looked at.
THEOREM SegmentsAreExact == Spec => []SegmentsHoldPrimes
BY ExactInvariance, SegmentsFollow, PTL

\* bits.hpp: clear_left_bits, clear_right_bits and clear_bit clear what they say, and
\* nothing else, of spans of any number of words of any width.
THEOREM BitsAreCleared == Spec => []ClearsExactly
BY ExactInvariance, ClearsFollow, PTL
=============================================================================
