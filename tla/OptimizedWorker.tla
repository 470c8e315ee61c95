---------------------------- MODULE OptimizedWorker ----------------------------
(***************************************************************************)
(* Worker_optimized: the primes of a segment are set as bits, one bit for  *)
(* each odd value, in words; the pairs with a difference d are counted by  *)
(* shifting the segment by d/2 bits over itself, with a look ahead into    *)
(* the next segment.  A worker may be told to stop at any segment, and may *)
(* be resumed from where it was, on a machine with another cache.          *)
(*                                                                         *)
(* Unsigned sums wrap around after MaxValue.                               *)
(***************************************************************************)
EXTENDS Primes, Bits, Sequences, FiniteSetsExt

CONSTANTS
  MaxValue,      \* std::numeric_limits<value_type>::max()
  Parameters,    \* the values of -p there may be; <<>> is that of no -p
  DetectedCaches,  \* what sysconf(_SC_LEVEL2_CACHE_SIZE) may return
  DefaultCache,  \* DEFAULT_L2_CACHE_SIZE
  FixedTiles,    \* the tile sizes accumulate_fixed_tile is compiled for
  MaxTile,       \* MAX_DIFF_TILE_SIZE
  Starts, Ends,  \* the ranges
  DifferenceSets \* the sorted even differences (-d)

ASSUME SizeAssumption ==
  /\ MaxValue \in Nat \ {0} /\ DefaultCache \in Nat \ {0}
  /\ Parameters \subseteq Seq(Nat) /\ DetectedCaches \subseteq Int
  /\ MaxTile \in Nat /\ FixedTiles \subseteq 1 .. MaxTile /\ 2 \in FixedTiles
ASSUME RangeAssumption ==
  /\ Starts \subseteq 0 .. MaxValue /\ Ends \subseteq 0 .. MaxValue
  /\ \A D \in DifferenceSets : D # {} /\ \A d \in D : d \in 0 .. MaxValue /\ d % 2 = 0

\* Past what parse_args accepts the iterator would run out of primes.
ASSUME HorizonIsEnough == \E p \in Primes : p > MaxValue

ValuesPerWord == 2 * BitsPerWord
Wrap(x) == x % (MaxValue + 1)

Least(S) == CHOOSE x \in S : \A y \in S : x <= y
Greatest(S) == CHOOSE x \in S : \A y \in S : y <= x

VARIABLES
  start, end, differences, parameters,  \* of the worker_state
  position, counts,         \* current_position and current_counts
  pc,                       \* "construct", "run", "loop", "sieved", "left", "failed"
  segmentSize, tileSize,    \* segment_size_ and diff_tile_size_
  segmentIndex,
  current, next,            \* current_segment_ and next_segment_
  prime                     \* prime_

stateVars == <<start, end, differences, parameters>>
sizes == <<segmentSize, tileSize>>
segmentVars == <<sizes, segmentIndex, current, next, prime>>
vars == <<stateVars, position, counts, pc, segmentVars>>

\* std::has_single_bit: 1 is the only odd divisor.
IsPowerOfTwo(n) == n # 0 /\ \A k \in 2 .. n : n % k = 0 => k % 2 = 0

\* BYTES_PER_WORD * CHAR_BIT.
ASSUME WordAssumption == IsPowerOfTwo(BitsPerWord)

-----------------------------------------------------------------------------
(* Words and spans *)

\* Where a difference is found: words and bits to look ahead.
WordShift(d) == (d \div 2) \div BitsPerWord
BitShift(d) == (d \div 2) % BitsPerWord

\* The words of a segment, and those of the next one that are kept behind it.
SegmentWords == (segmentSize \div 2 + BitsPerWord - 1) \div BitsPerWord
\* Mutant: the word that is shifted in from the right is forgotten.
MaxLookaheadShort == Greatest({WordShift(d) : d \in differences})

MaxLookahead == Greatest({WordShift(d) + 1 : d \in differences})
Words == 0 .. SegmentWords + MaxLookahead - 1

LastPrimeWanted == end + Greatest(differences)

\* sieve_segment: what is set in segment seg, and the first prime after it.
FirstSieved(seg) == IF prime < seg * segmentSize THEN PrimeFrom(seg * segmentSize) ELSE prime

Sieved(seg) ==
  {p \in Primes : /\ FirstSieved(seg) <= p
                  /\ p < Wrap(seg * segmentSize + segmentSize)
                  /\ p <= LastPrimeWanted}

SetPrimes(seg, span) ==
  FoldSet(LAMBDA p, a : SetBit(a, (p - seg * segmentSize) \div 2), span, Sieved(seg))

\* Mutant: what was in the span is not cleared.
SegmentUncleared(seg, span) == SetPrimes(seg, span)

\* clear_all_bits and a set_bit for each prime, in a span that has been used before.
SegmentOf(seg, span) == SetPrimes(seg, ClearAllBits(span))

PrimeAfter(seg) ==
  IF Sieved(seg) = {} THEN FirstSieved(seg) ELSE NextPrime(Greatest(Sieved(seg)))

-----------------------------------------------------------------------------
Init ==
  /\ start \in Starts
  /\ end \in {e \in Ends : e > start}
  /\ differences \in DifferenceSets
  /\ end + Greatest(differences) <= MaxValue  \* as parse_args insists
  /\ parameters \in Parameters
  /\ position = start
  /\ counts = [d \in differences |-> 0]
  /\ pc = "construct"
  /\ segmentSize = 0
  /\ tileSize = 0
  /\ segmentIndex = 0
  /\ current = <<>>
  /\ next = <<>>
  /\ prime = 0

\* Mutant: nothing is said of the last segment.
ValidSizeUnbounded(size) ==
  /\ Greatest(differences) < size
  /\ size >= ValuesPerWord
  /\ IsPowerOfTwo(size)

\* What the constructor insists on.
ValidSize(size) ==
  /\ Greatest(differences) < size
  /\ size >= ValuesPerWord
  /\ IsPowerOfTwo(size)
  /\ MaxValue - size >= end + Greatest(differences)

ValidTile(tile) == tile # 0 /\ tile <= MaxTile

\* get_cache_sizes, of the second level.
Cache(detected) == IF detected > 0 THEN detected ELSE DefaultCache

\* Mutant: the cache as it is.
SuggestedSegmentSizeWhole(detected) == Cache(detected)

\* get_suggested_segment_size, the std::bit_floor of it.
SuggestedSegmentSize(detected) ==
  Greatest({s \in 1 .. Cache(detected) : IsPowerOfTwo(s)})

SuggestedTileSize == 2

\* The parameters of the state, from a checkpoint file those of the invocation
\* that began the range, or what suits this machine.
SegmentSizeFor(detected) ==
  IF parameters = <<>> THEN SuggestedSegmentSize(detected) ELSE parameters[1]

TileSizeGiven == IF Len(parameters) > 1 THEN parameters[2] ELSE SuggestedTileSize

\* The constructor: a segment size, spans of zeros, the first prime, and the prime
\* 2, which has no bit.
Construct ==
  /\ pc = "construct"
  /\ UNCHANGED <<stateVars, segmentIndex>>
  /\ \E detected \in DetectedCaches :
       LET size == SegmentSizeFor(detected)
           tile == TileSizeGiven
       IN
       /\ segmentSize' = size
       /\ tileSize' = tile
       /\ IF Len(parameters) > 2 \/ ~(ValidSize(size) /\ ValidTile(tile))
          THEN /\ pc' = "failed"
               /\ UNCHANGED <<position, counts, current, next, prime>>
          ELSE /\ pc' = "run"
               /\ current' = [w \in Words' |-> 0]
               /\ next' = [w \in Words' |-> 0]
               /\ IF PrimeFrom(position) = 2
                  THEN /\ counts' = IF 0 \in differences /\ end > 2
                                    THEN [counts EXCEPT ![0] = @ + 1] ELSE counts
                       /\ position' = Least({end, 3})
                       /\ prime' = 3
                  ELSE /\ prime' = PrimeFrom(position)
                       /\ UNCHANGED <<position, counts>>

\* run() up to its loop.
Run ==
  /\ pc = "run"
  /\ IF position >= end
     THEN /\ pc' = "left"
          /\ UNCHANGED <<segmentIndex, current, prime>>
     ELSE /\ pc' = "loop"
          /\ segmentIndex' = position \div segmentSize
          /\ current' = SegmentOf(segmentIndex', current)
          /\ prime' = PrimeAfter(segmentIndex')
  /\ UNCHANGED <<stateVars, position, counts, sizes, next>>

\* The loop is over, or is left because KEEP_RUNNING has been cleared.
Leave ==
  /\ pc = "loop"
  /\ pc' = "left"
  /\ UNCHANGED <<stateVars, position, counts, segmentVars>>

\* The next segment is sieved, for look ahead, in the span of the one before.
SieveNext ==
  /\ pc = "loop"
  /\ position < end
  /\ segmentIndex' = segmentIndex + 1
  /\ next' = SegmentOf(segmentIndex', next)
  /\ prime' = PrimeAfter(segmentIndex')
  /\ pc' = "sieved"
  /\ UNCHANGED <<stateVars, position, counts, sizes, current>>

-----------------------------------------------------------------------------
(* process_segment, of the segment before segmentIndex *)

SegmentStart == (segmentIndex - 1) * segmentSize
SegmentEnd == Wrap(SegmentStart + segmentSize)

\* The odd values to be counted.
FirstWanted ==
  Greatest({SegmentStart + 1, IF position % 2 = 0 THEN position + 1 ELSE position})
LastToCount == Least({SegmentEnd - 1, Wrap(IF end % 2 = 0 THEN end - 1 ELSE end - 2)})

FirstBit == (FirstWanted - (SegmentStart + 1)) \div 2
LastBit == (LastToCount - (SegmentStart + 1)) \div 2
FirstWord == FirstBit \div BitsPerWord
LastWord == LastBit \div BitsPerWord

\* The segment with the look ahead copied behind it.
Extended == [w \in Words |-> IF w >= SegmentWords THEN next[w - SegmentWords] ELSE current[w]]

\* clear_left_bits, of the view that begins with the first word to be counted:
\* the bits before the first one to be counted.
View ==
  LET counted == ClearLeftBits([w \in 0 .. LastWord - FirstWord |-> Extended[FirstWord + w]],
                               FirstBit % BitsPerWord)
  IN  [w \in Words |->
         IF w \in FirstWord .. LastWord THEN counted[w - FirstWord] ELSE Extended[w]]

\* Mutant: 1 is shifted at once.
LastWordMaskAtOnce == MinusOne(ShiftLeft(1, (LastBit % BitsPerWord) + 1))

\* 1 is shifted twice, as a shift by the width of a word is undefined.
LastWordMask == MinusOne(ShiftLeft(ShiftLeft(1, 1), LastBit % BitsPerWord))

\* The last word is masked when it is counted, not before: its other bits may
\* be looked ahead to.
BaseWord(w) == IF w = LastWord THEN And(View[w], LastWordMask) ELSE View[w]

\* accumulate_fixed_tile: the differences in full tiles, and those of the rest.
Index(d) == Cardinality({x \in differences : x < d})

\* Mutant: no partial tile.
InFullTile(d) == Index(d) < (Cardinality(differences) \div tileSize) * tileSize

InATile(d) ==
  LET full == Cardinality(differences) \div tileSize
      rest == Cardinality(differences) % tileSize
  IN  \/ \E k \in 0 .. full - 1, i \in 0 .. tileSize - 1 : Index(d) = k * tileSize + i
      \/ \E i \in 0 .. rest - 1 : Index(d) = full * tileSize + i

\* The words from a difference on.
Shifted(w, d) == ShiftBits(View[w + WordShift(d)], View[w + WordShift(d) + 1], BitShift(d))

\* accumulate: how many pairs of a difference begin in the words to be counted.
Hits(d) ==
  MapThenSumSet(LAMBDA w : PopCount(And(BaseWord(w), Shifted(w, d))), FirstWord .. LastWord)

\* Mutant: the position of a worker is past the end of its range.
PositionAfterSegment == SegmentEnd

\* Mutant: the position stays at the segment that has been counted.
PositionOfSegment == Least({SegmentStart, end})

\* Where the worker is when the segment has been counted.
PositionAfter == Least({SegmentEnd, end})

\* Is there an odd value of the segment to count?
Wanted == FirstWanted <= LastToCount

\* The spans are swapped.  The one of this segment has what was copied behind it,
\* and has lost what was cleared in front.
ProcessSegment ==
  /\ pc = "sieved"
  /\ Wanted => tileSize \in FixedTiles
  /\ counts' = [d \in differences |->
                  IF Wanted /\ InATile(d) THEN counts[d] + Hits(d) ELSE counts[d]]
  /\ position' = PositionAfter
  /\ current' = next
  /\ next' = (IF Wanted THEN View ELSE Extended)
  /\ pc' = "loop"
  /\ UNCHANGED <<stateVars, sizes, segmentIndex, prime>>

\* accumulate throws on a tile size nothing is compiled for.
AccumulateThrows ==
  /\ pc = "sieved"
  /\ Wanted /\ tileSize \notin FixedTiles
  /\ pc' = "failed"
  /\ UNCHANGED <<stateVars, position, counts, segmentVars>>

-----------------------------------------------------------------------------
\* A worker that has left its loop, or has been killed right after the checkpoint
\* output_progress makes, is built again from its checkpoint file.
Resume ==
  /\ pc \in {"left", "loop"}
  /\ position < end
  /\ pc' = "construct"
  /\ segmentSize' = 0
  /\ tileSize' = 0
  /\ segmentIndex' = 0
  /\ current' = <<>>
  /\ next' = <<>>
  /\ prime' = 0
  /\ UNCHANGED <<stateVars, position, counts>>

Next ==
  Construct \/ Run \/ Leave \/ SieveNext \/ ProcessSegment \/ AccumulateThrows \/ Resume

Spec == Init /\ [][Next]_vars

-----------------------------------------------------------------------------
Constructed == pc \in {"run", "loop", "sieved", "left"}

TypeOK ==
  /\ start \in Starts /\ end \in Ends /\ differences \in DifferenceSets
  /\ position \in start .. end
  /\ counts \in [differences -> Nat]
  /\ pc \in {"construct", "run", "loop", "sieved", "left", "failed"}
  /\ parameters \in Parameters
  /\ segmentSize \in Nat /\ tileSize \in Nat
  /\ Constructed => current \in [Words -> 0 .. NotZero] /\ next \in [Words -> 0 .. NotZero]
  /\ segmentIndex \in 0 .. MaxValue
  /\ prime \in Primes \cup {0}

\* types.hpp: current_counts are the "totals of difference counts found in the
\* range [start, current_position)".  At every point at which the worker may be
\* stopped or saved they are, for ranges and segments that begin and end anywhere
\* in a word, up to the largest values, however often the worker was resumed.
CountsExact ==
  pc # "sieved" =>
    \A d \in differences : counts[d] = PairsCount(start, position, d)

\* The words a difference is looked up in exist, and no prime is set beyond the
\* words of its segment.
AccessInBounds ==
  pc = "sieved" /\ Wanted =>
    /\ \A d \in differences : LastWord + WordShift(d) + 1 \in Words
    /\ FirstWord \in Words /\ FirstWord <= LastWord
    /\ \A p \in Primes :
         segmentIndex * segmentSize <= p /\ p < Wrap(segmentIndex * segmentSize + segmentSize)
           => (p - segmentIndex * segmentSize) \div 2 < SegmentWords * BitsPerWord

\* The segment that is counted never wraps around.  (The one looked ahead to may
\* end at 2^w; then no prime of it is wanted.)
NoWrapAround == pc = "sieved" => SegmentStart < SegmentEnd /\ segmentIndex * segmentSize <= MaxValue

\* worker_optimized.hpp: bit i of a segment is set "if and only if" the value it
\* stands for is a prime; of all the primes that will be looked at.
SegmentsHoldPrimes ==
  pc = "sieved" =>
    \A i \in 0 .. SegmentWords * BitsPerWord - 1 :
      LET value == segmentIndex * segmentSize + 2 * i + 1
      IN  /\ GetBit(next, i) = 1 => value \in Primes
          /\ (value \in Primes /\ value <= LastPrimeWanted) => GetBit(next, i) = 1

\* The functions of bits.hpp clear what they say of the spans that are met, to
\* the bit, wherever a word ends.
BitsIn(a) == {i \in 0 .. Cardinality(DOMAIN a) * BitsPerWord - 1 : GetBit(a, i) = 1}

ClearsExactly ==
  pc = "sieved" =>
    LET all == Cardinality(Words) * BitsPerWord
    IN  \A n \in 0 .. all - 1 :
          /\ BitsIn(ClearLeftBits(next, n)) = BitsIn(next) \ (0 .. n - 1)
          /\ BitsIn(ClearRightBits(next, n)) = BitsIn(next) \ (all - n .. all - 1)
          /\ BitsIn(ClearBit(next, n)) = BitsIn(next) \ {n}

\* Without parameters a worker fails for no other reason than that the cache of
\* the machine is too small for the largest difference, or too large for the
\* end of the range, whatever size the cache has.
DefaultsWork ==
  pc = "failed" /\ parameters = <<>> =>
    \/ segmentSize <= Greatest(differences)
    \/ segmentSize < ValuesPerWord
    \/ end + Greatest(differences) > MaxValue - segmentSize

\* Every step of the loop brings the position forward.
Progress == [][pc = "sieved" /\ pc' = "loop" => position' > position]_vars

-----------------------------------------------------------------------------
(* The inductive invariant of the arithmetic of segments *)

\* The range is one parse_args accepts, and a size one the constructor accepts.
RangeOK ==
  /\ start \in Starts /\ end \in Ends /\ start < end
  /\ differences \in DifferenceSets /\ end + Greatest(differences) <= MaxValue
  /\ parameters \in Parameters
  /\ position \in start .. end /\ segmentIndex \in Nat
  /\ pc \in {"construct", "run", "loop", "sieved", "left", "failed"}
  /\ Constructed => segmentSize \in Nat /\ ValidSize(segmentSize)
  /\ Constructed /\ parameters = <<>> => tileSize = SuggestedTileSize

\* The position is in the segment that is to be counted next.
InSegment(i) ==
  /\ i \in Nat
  /\ i * segmentSize <= position /\ position < i * segmentSize + segmentSize

PositionInSegment ==
  /\ pc = "loop" /\ position < end => InSegment(segmentIndex)
  /\ pc = "sieved" => position < end /\ InSegment(segmentIndex - 1)

IInv == RangeOK /\ PositionInSegment /\ DefaultsWork

-----------------------------------------------------------------------------
(* The inductive invariant of the counts *)

\* The value that bit i of a segment stands for.
ValueOf(seg, i) == seg * segmentSize + 2 * i + 1

\* From a value on, a segment holds the primes that will be looked at, and nothing
\* else, in the words that are not kept for looking ahead.
Holds(a, seg, from) ==
  /\ a \in [Words -> 0 .. NotZero]
  /\ \A i \in 0 .. SegmentWords * BitsPerWord - 1 :
       from <= ValueOf(seg, i) =>
         (HasBit(a, i) <=> ValueOf(seg, i) \in Primes /\ ValueOf(seg, i) <= LastPrimeWanted)

\* The iterator has not passed a prime of a segment that is still to be sieved.
NonePassed(seg) ==
  \A q \in Primes : seg * segmentSize <= q /\ q <= LastPrimeWanted => prime <= q

SegmentsOK ==
  /\ Constructed => prime \in Primes /\ prime # 2
  /\ pc = "run" /\ position < end => \A q \in Primes : position <= q => prime <= q
  /\ pc = "loop" /\ position < end =>
       Holds(current, segmentIndex, position) /\ NonePassed(segmentIndex + 1)
  /\ pc = "sieved" =>
       /\ Holds(current, segmentIndex - 1, position)
       /\ Holds(next, segmentIndex, segmentIndex * segmentSize)
       /\ NonePassed(segmentIndex + 1)

\* The constructor has counted 2, for which there is no bit.
CountsOK ==
  /\ \A d \in differences : counts[d] = PairsCount(start, position, d)
  /\ Constructed /\ position < end => position >= 3

ExactInv == TypeOK /\ SegmentsOK /\ CountsOK
=============================================================================
