--------------------------------- MODULE Bits ---------------------------------
(***************************************************************************)
(* bits.hpp: spans of words, and the arithmetic of unsigned words they are *)
(* made of.  A word is a number, a span a function from 0 on to words; bit *)
(* i of a span is bit i % BitsPerWord of word i \div BitsPerWord.          *)
(***************************************************************************)
EXTENDS Integers, FiniteSets

CONSTANT BitsPerWord  \* BITS_PER_WORD

ASSUME WidthAssumption == BitsPerWord \in Nat /\ BitsPerWord > 1

\* 1 << n.
TwoTo[n \in Nat] == IF n = 0 THEN 1 ELSE 2 * TwoTo[n - 1]

Bits == 0 .. BitsPerWord - 1
NotZero == TwoTo[BitsPerWord] - 1

\* The positions of the bits that are set in a word, and the word of some.
BitsOf(x) == {b \in Bits : (x \div TwoTo[b]) % 2 = 1}
WordOf(S) == CHOOSE x \in 0 .. NotZero : BitsOf(x) = S

And(x, y) == WordOf(BitsOf(x) \cap BitsOf(y))
Or(x, y) == WordOf(BitsOf(x) \cup BitsOf(y))
Not(x) == NotZero - x
PopCount(x) == Cardinality(BitsOf(x))

\* A shift by the width of a word or more is undefined; the processor shifts by
\* the remainder.
ShiftLeft(x, n) == (x * TwoTo[n % BitsPerWord]) % (NotZero + 1)
ShiftRight(x, n) == x \div TwoTo[n % BitsPerWord]
MinusOne(x) == IF x = 0 THEN NotZero ELSE x - 1

-----------------------------------------------------------------------------
\* Is bit i of a span set?
HasBit(a, i) == i % BitsPerWord \in BitsOf(a[i \div BitsPerWord])

GetBit(a, i) == And(ShiftRight(a[i \div BitsPerWord], i % BitsPerWord), 1)

ClearBit(a, i) ==
  [a EXCEPT ![i \div BitsPerWord] = And(@, Not(ShiftLeft(1, i % BitsPerWord)))]

\* Mutant: the bit is the one of the value, not of its index in the word.
SetBitUnreduced(a, i) ==
  [a EXCEPT ![i \div BitsPerWord] = Or(@, TwoTo[i] % (NotZero + 1))]

SetBit(a, i) == [a EXCEPT ![i \div BitsPerWord] = Or(@, ShiftLeft(1, i % BitsPerWord))]

ClearAllBits(a) == [w \in DOMAIN a |-> 0]

\* The first n bits, and the last n.
ClearLeftBits(a, n) ==
  LET words == n \div BitsPerWord
      rest == n % BitsPerWord
  IN  [w \in DOMAIN a |->
         IF w < words THEN 0
         ELSE IF w = words /\ rest > 0 THEN And(a[w], ShiftLeft(NotZero, rest))
         ELSE a[w]]

\* Mutant: the word of the boundary keeps its upper bits.
ClearRightBitsUpper(a, n) ==
  LET words == n \div BitsPerWord
      rest == n % BitsPerWord
      size == Cardinality(DOMAIN a)
  IN  [w \in DOMAIN a |->
         IF w >= size - words THEN 0
         ELSE IF w = size - words - 1 /\ rest > 0 THEN And(a[w], ShiftLeft(NotZero, rest))
         ELSE a[w]]

ClearRightBits(a, n) ==
  LET words == n \div BitsPerWord
      rest == n % BitsPerWord
      size == Cardinality(DOMAIN a)
  IN  [w \in DOMAIN a |->
         IF w >= size - words THEN 0
         ELSE IF w = size - words - 1 /\ rest > 0
         THEN And(a[w], MinusOne(ShiftLeft(1, BitsPerWord - rest)))
         ELSE a[w]]

\* Mutant: what is shifted to the left is shifted at once.
ShiftBitsAtOnce(left, right, shift) ==
  Or(ShiftRight(left, shift), ShiftLeft(right, BitsPerWord - shift))

\* The word that begins `shift' bits into left and goes on in right.
ShiftBits(left, right, shift) ==
  Or(ShiftRight(left, shift), ShiftLeft(ShiftLeft(right, BitsPerWord - 1 - shift), 1))
=============================================================================
