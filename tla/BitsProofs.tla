------------------------------ MODULE BitsProofs ------------------------------
(***************************************************************************)
(* Lemmas about the bits of words of any width: what shifts, masks and the *)
(* functions on spans do to each bit.  They rest on induction over the     *)
(* least element of a set, in which a number is taken apart into its half  *)
(* and its lowest bit.                                                     *)
(***************************************************************************)
EXTENDS Bits, PrimesProofs, FunctionTheorems

-----------------------------------------------------------------------------
(* Powers of two *)

LEMMA Induction ==
  ASSUME NEW T, 0 \in T, \A n \in Nat : n \in T => n + 1 \in T
  PROVE  \A n \in Nat : n \in T
<1> DEFINE R == OpToRel(<, Nat)
           Outside == {n \in Nat : n \notin T}
<1>1. IsWellFoundedOn(R, Nat)
  BY NatLessThanWellFounded
<1>2. \A x, y \in Nat : x < y => <<x, y>> \in R
  BY DEF OpToRel
<1> HIDE DEF R
<1>3. Outside = {}
  <2> SUFFICES ASSUME Outside # {} PROVE FALSE
    OBVIOUS
  <2>1. PICK x \in Outside : \A y \in Outside : ~(<<y, x>> \in R)
    BY <1>1, WFMin
  <2>2. x \in Nat /\ x # 0 /\ x - 1 \in Nat /\ x - 1 < x /\ (x - 1) + 1 = x
    OBVIOUS
  <2>3. x - 1 \notin T
    BY <2>2
  <2> QED
    BY <1>2, <2>1, <2>2, <2>3
<1> QED
  BY <1>3

\* The powers up to any exponent exist: a function up to n is continued to n + 1.
LEMMA DoublingsUpTo ==
  ASSUME NEW n \in Nat
  PROVE  \E f \in [0 .. n -> Nat] :
           f[0] = 1 /\ \A k \in 1 .. n : f[k] = 2 * f[k - 1]
<1> DEFINE Doublings(f, m) ==
             /\ f \in [0 .. m -> Nat] /\ f[0] = 1
             /\ \A k \in 1 .. m : f[k] = 2 * f[k - 1]
           T == {m \in Nat : \E f : Doublings(f, m)}
<1>1. 0 \in T
  <2>1. Doublings([k \in 0 .. 0 |-> 1], 0)
    OBVIOUS
  <2> QED
    BY <2>1
<1>2. ASSUME NEW m \in Nat, m \in T
      PROVE  m + 1 \in T
  <2>1. PICK f : Doublings(f, m)
    BY <1>2
  <2> DEFINE g == [k \in 0 .. m + 1 |-> IF k = m + 1 THEN 2 * f[m] ELSE f[k]]
  <2>2. 2 * f[m] \in Nat
    BY <2>1
  <2>3. g \in [0 .. m + 1 -> Nat] /\ g[0] = 1
    BY <2>1, <2>2
  <2>4. \A k \in 1 .. m + 1 : g[k] = 2 * g[k - 1]
    BY <2>1
  <2>5. Doublings(g, m + 1)
    BY <2>3, <2>4
  <2>6. \E h : Doublings(h, m + 1)
    <3> HIDE DEF Doublings, g
    <3> QED
      BY <2>5
  <2> HIDE DEF Doublings
  <2> QED
    BY <2>6
<1>3. n \in T
  <2> HIDE DEF T
  <2> QED
    BY <1>1, <1>2, Induction
<1> QED
  BY <1>3

\* There is only one such function, so that those for all n make up TwoTo.
LEMMA TwoToDefined ==
  TwoTo = [k \in Nat |-> IF k = 0 THEN 1 ELSE 2 * TwoTo[k - 1]]
<1> DEFINE Doublings(f, n) ==
             /\ f \in [0 .. n -> Nat] /\ f[0] = 1
             /\ \A k \in 1 .. n : f[k] = 2 * f[k - 1]
           UpTo(n) == CHOOSE f : Doublings(f, n)
           P == [k \in Nat |-> UpTo(k)[k]]
<1>1. \A n \in Nat : Doublings(UpTo(n), n)
  <2> TAKE n \in Nat
  <2>1. \E f : Doublings(f, n)
    BY DoublingsUpTo
  <2> HIDE DEF Doublings
  <2> QED
    BY <2>1
<1>2. ASSUME NEW m \in Nat, NEW n \in Nat, m <= n
      PROVE  \A k \in Nat : k \in {j \in Nat : j <= m => UpTo(m)[j] = UpTo(n)[j]}
  <2> DEFINE T == {j \in Nat : j <= m => UpTo(m)[j] = UpTo(n)[j]}
  <2> HIDE DEF UpTo
  <2>1. 0 \in T
    BY <1>1
  <2>2. ASSUME NEW k \in Nat, k \in T
        PROVE  k + 1 \in T
    <3> SUFFICES ASSUME k + 1 <= m
                 PROVE  UpTo(m)[k + 1] = UpTo(n)[k + 1]
      OBVIOUS
    <3>1. k + 1 \in 1 .. m /\ k + 1 \in 1 .. n /\ (k + 1) - 1 = k
      BY <1>2
    <3>2. UpTo(m)[k + 1] = 2 * UpTo(m)[k] /\ UpTo(n)[k + 1] = 2 * UpTo(n)[k]
      BY <1>1, <3>1
    <3> QED
      BY <2>2, <3>2
  <2> HIDE DEF T
  <2>3. \A k \in Nat : k \in T
    BY <2>1, <2>2, Induction
  <2> QED
    BY <2>3 DEF T
<1>3. P = [k \in Nat |-> IF k = 0 THEN 1 ELSE 2 * P[k - 1]]
  <2>1. \A k \in Nat : UpTo(k)[k] = IF k = 0 THEN 1 ELSE 2 * UpTo(k - 1)[k - 1]
    <3> SUFFICES ASSUME NEW k \in Nat
                 PROVE  UpTo(k)[k] = IF k = 0 THEN 1 ELSE 2 * UpTo(k - 1)[k - 1]
      OBVIOUS
    <3> HIDE DEF UpTo
    <3>1. CASE k = 0
      BY <1>1, <3>1
    <3>2. CASE k # 0
      <4>1. k - 1 \in Nat /\ k \in 1 .. k /\ k - 1 <= k
        BY <3>2
      <4>2. UpTo(k)[k] = 2 * UpTo(k)[k - 1]
        BY <1>1, <4>1
      <4>3. UpTo(k - 1)[k - 1] = UpTo(k)[k - 1]
        BY <1>2, <4>1
      <4> QED
        BY <3>2, <4>2, <4>3
    <3> QED
      BY <3>1, <3>2
  <2> HIDE DEF UpTo
  <2>2. \A k \in Nat : k # 0 => k - 1 \in Nat
    OBVIOUS
  <2> QED
    BY <2>1, <2>2
<1>4. \E f : f = [k \in Nat |-> IF k = 0 THEN 1 ELSE 2 * f[k - 1]]
  <2> HIDE DEF P
  <2> QED
    BY <1>3
<1> QED
  BY <1>4, Zenon DEF TwoTo

LEMMA TwoToFacts ==
  /\ TwoTo[0] = 1 /\ TwoTo[1] = 2
  /\ \A k \in Nat : TwoTo[k] \in Nat \ {0} /\ TwoTo[k + 1] = 2 * TwoTo[k]
<1> DEFINE T == {k \in Nat : TwoTo[k] \in Nat \ {0}}
<1>1. TwoTo[0] = 1
  BY TwoToDefined
<1>2. ASSUME NEW k \in Nat
      PROVE  TwoTo[k + 1] = 2 * TwoTo[k]
  <2>1. k + 1 \in Nat /\ k + 1 # 0 /\ (k + 1) - 1 = k
    OBVIOUS
  <2>2. \A m \in Nat : TwoTo[m] = IF m = 0 THEN 1 ELSE 2 * TwoTo[m - 1]
    BY TwoToDefined
  <2> QED
    BY <2>1, <2>2
<1>3. 0 \in T
  BY <1>1
<1>4. \A k \in Nat : k \in T => k + 1 \in T
  BY <1>2
<1> HIDE DEF T
<1>5. \A k \in Nat : k \in T
  BY <1>3, <1>4, Induction
<1> USE DEF T
<1>6. TwoTo[1] = 2
  BY <1>1, <1>2
<1> QED
  BY <1>1, <1>2, <1>5, <1>6

\* Quotient and remainder are those that make up the number.
LEMMA DivUnique ==
  ASSUME NEW x \in Nat, NEW n \in Nat \ {0}, NEW q \in Nat, NEW r \in 0 .. n - 1,
         x = q * n + r
  PROVE  x \div n = q /\ x % n = r
OBVIOUS

LEMMA DivMod ==
  ASSUME NEW x \in Nat, NEW n \in Nat \ {0}
  PROVE  /\ x \div n \in Nat /\ x % n \in 0 .. n - 1
         /\ x = (x \div n) * n + (x % n)
OBVIOUS

LEMMA DivLess ==
  ASSUME NEW x \in Nat, NEW n \in Nat \ {0}
  PROVE  x \div n <= x
<1> DEFINE q == x \div n
<1>1. q \in Nat /\ x >= q * n
  BY DivMod
<1> HIDE DEF q
<1>2. q * n >= q
  BY <1>1
<1> QED
  BY <1>1, <1>2 DEF q

LEMMA DivSmall ==
  ASSUME NEW n \in Nat \ {0}, NEW x \in 0 .. n - 1
  PROVE  x \div n = 0 /\ x % n = x
<1>1. x = 0 * n + x
  OBVIOUS
<1> QED
  BY <1>1, DivUnique

\* Dividing twice is dividing by the product.
LEMMA DivTwice ==
  ASSUME NEW x \in Nat, NEW m \in Nat \ {0}, NEW n \in Nat \ {0}
  PROVE  (x \div m) \div n = x \div (m * n)
<1> DEFINE q1 == x \div m  r1 == x % m
           q2 == q1 \div n  r2 == q1 % n
<1>1. q1 \in Nat /\ r1 \in 0 .. m - 1 /\ x = q1 * m + r1
  BY DivMod
<1>2. q2 \in Nat /\ r2 \in 0 .. n - 1 /\ q1 = q2 * n + r2
  BY <1>1, DivMod
<1> HIDE DEF q1, r1, q2, r2
<1>3. m * n \in Nat \ {0}
  OBVIOUS
<1>4. x = q2 * (m * n) + (r2 * m + r1)
  BY <1>1, <1>2
<1>5. r2 * m + r1 \in 0 .. m * n - 1
  <2>1. r2 * m <= (n - 1) * m /\ r2 * m \in Nat
    BY <1>2
  <2>2. (n - 1) * m + m = m * n
    OBVIOUS
  <2> QED
    BY <1>1, <2>1, <2>2
<1>6. x \div (m * n) = q2
  BY <1>2, <1>3, <1>4, <1>5, DivUnique
<1> QED
  BY <1>6 DEF q1, q2

LEMMA TwoToSum ==
  ASSUME NEW m \in Nat, NEW n \in Nat
  PROVE  TwoTo[m + n] = TwoTo[m] * TwoTo[n]
<1> DEFINE T == {k \in Nat : TwoTo[m + k] = TwoTo[m] * TwoTo[k]}
<1>1. 0 \in T
  BY TwoToFacts
<1>2. ASSUME NEW k \in Nat, k \in T
      PROVE  k + 1 \in T
  <2>1. TwoTo[m + k] \in Nat /\ TwoTo[m] \in Nat /\ TwoTo[k] \in Nat
    BY TwoToFacts
  <2>2. TwoTo[(m + k) + 1] = 2 * TwoTo[m + k] /\ TwoTo[k + 1] = 2 * TwoTo[k]
    BY TwoToFacts
  <2>3. m + (k + 1) = (m + k) + 1
    OBVIOUS
  <2>4. TwoTo[m + (k + 1)] = TwoTo[m] * TwoTo[k + 1]
    BY <1>2, <2>1, <2>2, <2>3
  <2> QED
    BY <2>4
<1> HIDE DEF T
<1>3. n \in T
  BY <1>1, <1>2, Induction
<1> QED
  BY <1>3 DEF T

LEMMA TwoToGrows ==
  ASSUME NEW m \in Nat, NEW n \in Nat, m <= n
  PROVE  /\ n - m \in Nat /\ TwoTo[n] = TwoTo[m] * TwoTo[n - m] /\ TwoTo[m] <= TwoTo[n]
         /\ m < n => TwoTo[n - m] % 2 = 0
<1>1. n - m \in Nat /\ m + (n - m) = n
  OBVIOUS
<1>2. TwoTo[n] = TwoTo[m] * TwoTo[n - m]
  BY <1>1, TwoToSum
<1>3. TwoTo[m] \in Nat \ {0} /\ TwoTo[n - m] \in Nat \ {0}
  BY <1>1, TwoToFacts
<1>4. TwoTo[m] <= TwoTo[m] * TwoTo[n - m]
  BY <1>3
<1>5. ASSUME m < n
      PROVE  TwoTo[n - m] % 2 = 0
  <2>1. n - m - 1 \in Nat /\ (n - m - 1) + 1 = n - m
    BY <1>5
  <2>2. TwoTo[n - m] = 2 * TwoTo[n - m - 1] /\ TwoTo[n - m - 1] \in Nat
    BY <2>1, TwoToFacts
  <2> QED
    BY <2>2
<1> QED
  BY <1>1, <1>2, <1>4, <1>5

-----------------------------------------------------------------------------
(* Bits of numbers *)

\* Bit b of a number, which may be wider than a word.
IsSet(x, b) == (x \div TwoTo[b]) % 2 = 1

\* The lowest bit, and the others, which are those of the half.
LEMMA HalfBits ==
  ASSUME NEW x \in Nat
  PROVE  /\ IsSet(x, 0) <=> x % 2 = 1
         /\ \A b \in Nat : IsSet(x, b + 1) <=> IsSet(x \div 2, b)
<1>1. IsSet(x, 0) <=> x % 2 = 1
  BY TwoToFacts DEF IsSet
<1>2. ASSUME NEW b \in Nat
      PROVE  IsSet(x, b + 1) <=> IsSet(x \div 2, b)
  <2>1. TwoTo[b] \in Nat \ {0} /\ TwoTo[b + 1] = 2 * TwoTo[b]
    BY TwoToFacts
  <2>2. (x \div 2) \div TwoTo[b] = x \div (2 * TwoTo[b])
    BY <2>1, DivTwice
  <2> QED
    BY <2>1, <2>2 DEF IsSet
<1> QED
  BY <1>1, <1>2

\* Halves of numbers below TwoTo[n + 1] are below TwoTo[n].
LEMMA Halved ==
  ASSUME NEW n \in Nat, NEW x \in 0 .. TwoTo[n + 1] - 1
  PROVE  x \div 2 \in 0 .. TwoTo[n] - 1 /\ x = 2 * (x \div 2) + (x % 2)
<1>1. TwoTo[n] \in Nat \ {0} /\ TwoTo[n + 1] = 2 * TwoTo[n]
  BY TwoToFacts
<1> QED
  BY <1>1

\* Numbers with the same bits are the same.
LEMMA SameBits ==
  ASSUME NEW n \in Nat
  PROVE  \A x, y \in 0 .. TwoTo[n] - 1 : (\A b \in 0 .. n - 1 : IsSet(x, b) <=> IsSet(y, b)) => x = y
<1> DEFINE Same(k) == \A x, y \in 0 .. TwoTo[k] - 1 :
                        (\A b \in 0 .. k - 1 : IsSet(x, b) <=> IsSet(y, b)) => x = y
           T == {k \in Nat : Same(k)}
<1>1. Same(0)
  BY TwoToFacts
<1>2. ASSUME NEW k \in Nat, Same(k)
      PROVE  Same(k + 1)
  <2> SUFFICES ASSUME NEW x \in 0 .. TwoTo[k + 1] - 1, NEW y \in 0 .. TwoTo[k + 1] - 1,
                      \A b \in 0 .. (k + 1) - 1 : IsSet(x, b) <=> IsSet(y, b)
               PROVE  x = y
    OBVIOUS
  <2>1. TwoTo[k + 1] \in Nat /\ x \in Nat /\ y \in Nat
    BY TwoToFacts
  <2>2. x % 2 = y % 2
    <3>1. IsSet(x, 0) <=> IsSet(y, 0)
      OBVIOUS
    <3> QED
      BY <2>1, <3>1, HalfBits
  <2>3. \A b \in 0 .. k - 1 : IsSet(x \div 2, b) <=> IsSet(y \div 2, b)
    <3> TAKE b \in 0 .. k - 1
    <3>1. b \in Nat /\ b + 1 \in 0 .. (k + 1) - 1
      OBVIOUS
    <3> QED
      BY <2>1, <3>1, HalfBits
  <2>4. x \div 2 = y \div 2
    BY <1>2, <2>3, Halved
  <2> QED
    BY <2>2, <2>4, Halved
<1> HIDE DEF Same
<1>3. 0 \in T /\ \A k \in Nat : k \in T => k + 1 \in T
  BY <1>1, <1>2
<1> HIDE DEF T
<1>4. n \in T
  BY <1>3, Induction
<1> QED
  BY <1>4 DEF T, Same


\* There is a number with any bits.
LEMMA SomeNumber ==
  ASSUME NEW n \in Nat
  PROVE  \A S \in SUBSET (0 .. n - 1) :
           \E x \in 0 .. TwoTo[n] - 1 : \A b \in 0 .. n - 1 : IsSet(x, b) <=> b \in S
<1> DEFINE Has(k) == \A S \in SUBSET (0 .. k - 1) :
                       \E x \in 0 .. TwoTo[k] - 1 : \A b \in 0 .. k - 1 : IsSet(x, b) <=> b \in S
           T == {k \in Nat : Has(k)}
<1>1. Has(0)
  <2>1. 0 \in 0 .. TwoTo[0] - 1 /\ \A b : b \notin 0 .. 0 - 1
    BY TwoToFacts
  <2> QED
    BY <2>1
<1>2. ASSUME NEW k \in Nat, Has(k)
      PROVE  Has(k + 1)
  <2> SUFFICES ASSUME NEW S \in SUBSET (0 .. (k + 1) - 1)
               PROVE  \E x \in 0 .. TwoTo[k + 1] - 1 :
                        \A b \in 0 .. (k + 1) - 1 : IsSet(x, b) <=> b \in S
    OBVIOUS
  <2> DEFINE R == {b \in 0 .. k - 1 : b + 1 \in S}
  <2>1. PICK h \in 0 .. TwoTo[k] - 1 : \A b \in 0 .. k - 1 : IsSet(h, b) <=> b \in R
    <3>1. R \in SUBSET (0 .. k - 1)
      OBVIOUS
    <3> HIDE DEF R
    <3> QED
      BY <1>2, <3>1
  <2>2. TwoTo[k] \in Nat \ {0} /\ TwoTo[k + 1] = 2 * TwoTo[k]
    BY TwoToFacts
  <2>3. PICK low \in {0, 1} : low = 1 <=> 0 \in S
    OBVIOUS
  <2>4. PICK x \in 0 .. TwoTo[k + 1] - 1 : x \div 2 = h /\ x % 2 = low
    <3>1. 2 * h + low \in 0 .. TwoTo[k + 1] - 1
      BY <2>2
    <3>2. (2 * h + low) \div 2 = h /\ (2 * h + low) % 2 = low
      BY <2>2
    <3> QED
      BY <3>1, <3>2
  <2>5. x \in Nat
    BY <2>2
  <2>6. IsSet(x, 0) <=> 0 \in S
    BY <2>3, <2>4, <2>5, HalfBits
  <2>7. ASSUME NEW b \in 0 .. (k + 1) - 1, b # 0
        PROVE  IsSet(x, b) <=> b \in S
    <3>1. PICK c \in 0 .. k - 1 : b = c + 1
      <4>1. b - 1 \in 0 .. k - 1 /\ b = (b - 1) + 1
        BY <2>7
      <4> QED
        BY <4>1
    <3>2. c \in Nat
      OBVIOUS
    <3>3. IsSet(x, b) <=> IsSet(h, c)
      BY <2>4, <2>5, <3>1, <3>2, HalfBits
    <3> QED
      BY <2>1, <3>1, <3>3
  <2> QED
    BY <2>6, <2>7
<1> HIDE DEF Has
<1>3. 0 \in T /\ \A k \in Nat : k \in T => k + 1 \in T
  BY <1>1, <1>2
<1> HIDE DEF T
<1>4. n \in T
  BY <1>3, Induction
<1> QED
  BY <1>4 DEF T, Has

\* The lowest k bits: the number before TwoTo[k].
LEMMA LowBits ==
  ASSUME NEW k \in Nat
  PROVE  \A b \in Nat : IsSet(TwoTo[k] - 1, b) <=> b < k
<1> DEFINE Low(n) == \A b \in Nat : IsSet(TwoTo[n] - 1, b) <=> b < n
           T == {n \in Nat : Low(n)}
<1>1. Low(0)
  <2> SUFFICES ASSUME NEW b \in Nat
               PROVE  ~IsSet(0, b)
    BY TwoToFacts
  <2>1. TwoTo[b] \in Nat \ {0} /\ 0 \in 0 .. TwoTo[b] - 1
    BY TwoToFacts
  <2>2. 0 \div TwoTo[b] = 0
    BY <2>1, DivSmall
  <2> QED
    BY <2>2 DEF IsSet
<1>2. ASSUME NEW n \in Nat, Low(n)
      PROVE  Low(n + 1)
  <2> SUFFICES ASSUME NEW b \in Nat
               PROVE  IsSet(TwoTo[n + 1] - 1, b) <=> b < n + 1
    OBVIOUS
  <2>1. TwoTo[n] \in Nat \ {0} /\ TwoTo[n + 1] = 2 * TwoTo[n]
    BY TwoToFacts
  <2>2. PICK x \in Nat : x = TwoTo[n + 1] - 1
    BY <2>1
  <2>3. x \div 2 = TwoTo[n] - 1 /\ x % 2 = 1
    BY <2>1, <2>2
  <2>4. CASE b = 0
    BY <2>2, <2>3, <2>4, HalfBits
  <2>5. CASE b # 0
    <3>1. PICK c \in Nat : b = c + 1
      <4>1. b - 1 \in Nat /\ b = (b - 1) + 1
        BY <2>5
      <4> QED
        BY <4>1
    <3>2. IsSet(x, b) <=> IsSet(TwoTo[n] - 1, c)
      BY <2>3, <3>1, HalfBits
    <3>3. IsSet(x, b) <=> c < n
      BY <1>2, <3>2
    <3> QED
      BY <2>2, <3>1, <3>3
  <2> QED
    BY <2>4, <2>5
<1> HIDE DEF Low
<1>3. 0 \in T /\ \A n \in Nat : n \in T => n + 1 \in T
  BY <1>1, <1>2
<1> HIDE DEF T
<1>4. k \in T
  BY <1>3, Induction
<1> QED
  BY <1>4 DEF T, Low

\* What is left of all ones when a number is taken away are its zeros.
LEMMA Complement ==
  ASSUME NEW n \in Nat
  PROVE  \A x \in 0 .. TwoTo[n] - 1 : \A b \in 0 .. n - 1 :
           IsSet(TwoTo[n] - 1 - x, b) <=> ~IsSet(x, b)
<1> DEFINE Opposite(k) == \A x \in 0 .. TwoTo[k] - 1 : \A b \in 0 .. k - 1 :
                            IsSet(TwoTo[k] - 1 - x, b) <=> ~IsSet(x, b)
           T == {k \in Nat : Opposite(k)}
<1>1. Opposite(0)
  OBVIOUS
<1>2. ASSUME NEW k \in Nat, Opposite(k)
      PROVE  Opposite(k + 1)
  <2> SUFFICES ASSUME NEW x \in 0 .. TwoTo[k + 1] - 1, NEW b \in 0 .. (k + 1) - 1
               PROVE  IsSet(TwoTo[k + 1] - 1 - x, b) <=> ~IsSet(x, b)
    OBVIOUS
  <2>1. TwoTo[k] \in Nat \ {0} /\ TwoTo[k + 1] = 2 * TwoTo[k]
    BY TwoToFacts
  <2>2. PICK y \in Nat : y = TwoTo[k + 1] - 1 - x
    BY <2>1
  <2>3. x \in Nat /\ x \div 2 \in 0 .. TwoTo[k] - 1
    BY <2>1, Halved
  <2>4. y \div 2 = TwoTo[k] - 1 - (x \div 2) /\ (y % 2 = 1 <=> ~(x % 2 = 1))
    BY <2>1, <2>2, <2>3
  <2>5. CASE b = 0
    BY <2>2, <2>3, <2>4, <2>5, HalfBits
  <2>6. CASE b # 0
    <3>1. PICK c \in 0 .. k - 1 : b = c + 1
      <4>1. b - 1 \in 0 .. k - 1 /\ b = (b - 1) + 1
        BY <2>6
      <4> QED
        BY <4>1
    <3>2. c \in Nat
      OBVIOUS
    <3>3. IsSet(y, b) <=> IsSet(TwoTo[k] - 1 - (x \div 2), c)
      BY <2>4, <3>1, <3>2, HalfBits
    <3>4. IsSet(x, b) <=> IsSet(x \div 2, c)
      BY <2>3, <3>1, <3>2, HalfBits
    <3> QED
      BY <1>2, <2>2, <2>3, <3>3, <3>4
  <2> QED
    BY <2>5, <2>6
<1> HIDE DEF Opposite
<1>3. 0 \in T /\ \A k \in Nat : k \in T => k + 1 \in T
  BY <1>1, <1>2
<1> HIDE DEF T
<1>4. n \in T
  BY <1>3, Induction
<1> QED
  BY <1>4 DEF T, Opposite


-----------------------------------------------------------------------------
(* Words *)

Word == 0 .. NotZero

LEMMA WidthFacts ==
  /\ BitsPerWord \in Nat /\ BitsPerWord > 1 /\ BitsPerWord \in Nat \ {0}
  /\ NotZero \in Nat /\ TwoTo[BitsPerWord] = NotZero + 1 /\ NotZero >= 3
<1>1. BitsPerWord \in Nat /\ BitsPerWord > 1
  BY WidthAssumption
<1>2. TwoTo[BitsPerWord] \in Nat \ {0}
  BY <1>1, TwoToFacts
<1>3. TwoTo[2] = 4
  <2>1. TwoTo[1 + 1] = 4
    BY TwoToFacts
  <2> QED
    BY <2>1
<1>4. TwoTo[2] <= TwoTo[BitsPerWord]
  BY <1>1, TwoToGrows
<1> QED
  BY <1>1, <1>2, <1>3, <1>4 DEF NotZero

LEMMA BitsOfFacts ==
  ASSUME NEW x
  PROVE  /\ BitsOf(x) \subseteq Bits
         /\ \A b \in Bits : b \in BitsOf(x) <=> IsSet(x, b)
BY DEF BitsOf, IsSet

LEMMA WordOfFacts ==
  ASSUME NEW S \in SUBSET Bits
  PROVE  WordOf(S) \in Word /\ BitsOf(WordOf(S)) = S
<1>1. PICK x \in 0 .. TwoTo[BitsPerWord] - 1 :
        \A b \in 0 .. BitsPerWord - 1 : IsSet(x, b) <=> b \in S
  BY WidthFacts, SomeNumber DEF Bits
<1>2. x \in Word
  BY <1>1, WidthFacts DEF Word
<1>3. BitsOf(x) = S
  BY <1>1 DEF BitsOf, IsSet, Bits
<1> QED
  BY <1>2, <1>3 DEF WordOf, Word

LEMMA SameWord ==
  ASSUME NEW x \in Word, NEW y \in Word, BitsOf(x) = BitsOf(y)
  PROVE  x = y
<1>1. \A b \in 0 .. BitsPerWord - 1 : IsSet(x, b) <=> IsSet(y, b)
  BY BitsOfFacts DEF Bits
<1>2. x \in 0 .. TwoTo[BitsPerWord] - 1 /\ y \in 0 .. TwoTo[BitsPerWord] - 1
  BY WidthFacts DEF Word
<1> QED
  BY <1>1, <1>2, WidthFacts, SameBits

LEMMA AndFacts ==
  ASSUME NEW x, NEW y
  PROVE  And(x, y) \in Word /\ BitsOf(And(x, y)) = BitsOf(x) \cap BitsOf(y)
<1>1. BitsOf(x) \cap BitsOf(y) \in SUBSET Bits
  BY BitsOfFacts
<1> QED
  BY <1>1, WordOfFacts DEF And

LEMMA OrFacts ==
  ASSUME NEW x, NEW y
  PROVE  Or(x, y) \in Word /\ BitsOf(Or(x, y)) = BitsOf(x) \cup BitsOf(y)
<1>1. BitsOf(x) \cup BitsOf(y) \in SUBSET Bits
  BY BitsOfFacts
<1> QED
  BY <1>1, WordOfFacts DEF Or

LEMMA NotFacts ==
  ASSUME NEW x \in Word
  PROVE  Not(x) \in Word /\ BitsOf(Not(x)) = Bits \ BitsOf(x)
<1>1. x \in 0 .. TwoTo[BitsPerWord] - 1 /\ Not(x) = TwoTo[BitsPerWord] - 1 - x
  BY WidthFacts DEF Word, Not
<1>2. \A b \in Bits : IsSet(Not(x), b) <=> ~IsSet(x, b)
  BY <1>1, WidthFacts, Complement DEF Bits
<1>3. Not(x) \in Word
  BY <1>1, WidthFacts DEF Word
<1> QED
  BY <1>2, <1>3, BitsOfFacts

LEMMA NoBits == 0 \in Word /\ BitsOf(0) = {}
<1>1. \A b \in Nat : ~IsSet(0, b)
  <2> TAKE b \in Nat
  <2>1. TwoTo[0] - 1 = 0
    BY TwoToFacts
  <2>2. IsSet(TwoTo[0] - 1, b) <=> b < 0
    BY LowBits
  <2> QED
    BY <2>1, <2>2
<1>2. \A b \in Bits : b \in Nat
  BY DEF Bits
<1> QED
  BY <1>1, <1>2, BitsOfFacts, WidthFacts DEF Word

\* The first k bits.
LEMMA Mask ==
  ASSUME NEW k \in 0 .. BitsPerWord
  PROVE  TwoTo[k] - 1 \in Word /\ BitsOf(TwoTo[k] - 1) = {b \in Bits : b < k}
<1>1. k \in Nat /\ k <= BitsPerWord /\ BitsPerWord \in Nat
  BY WidthFacts
<1>2. TwoTo[k] \in Nat \ {0} /\ TwoTo[k] <= TwoTo[BitsPerWord]
  BY <1>1, TwoToFacts, TwoToGrows
<1>3. \A b \in Bits : IsSet(TwoTo[k] - 1, b) <=> b < k
  BY <1>1, LowBits DEF Bits
<1> QED
  BY <1>2, <1>3, BitsOfFacts, WidthFacts DEF Word

LEMMA AllBits == NotZero \in Word /\ BitsOf(NotZero) = Bits
<1>1. BitsPerWord \in 0 .. BitsPerWord
  BY WidthFacts
<1>2. \A b \in Bits : b < BitsPerWord
  BY WidthFacts DEF Bits
<1>3. NotZero = TwoTo[BitsPerWord] - 1
  BY WidthFacts
<1> QED
  BY <1>1, <1>2, <1>3, Mask

LEMMA OneBit == 1 \in Word /\ BitsOf(1) = {0}
<1>1. 1 \in 0 .. BitsPerWord /\ TwoTo[1] - 1 = 1
  BY WidthFacts, TwoToFacts
<1>2. \A b \in Bits : b < 1 <=> b = 0
  BY DEF Bits
<1>3. 0 \in Bits
  BY WidthFacts DEF Bits
<1> QED
  BY <1>1, <1>2, <1>3, Mask

-----------------------------------------------------------------------------
(* Shifts *)

LEMMA ShiftRightFacts ==
  ASSUME NEW x \in Word, NEW n \in Bits
  PROVE  /\ ShiftRight(x, n) \in Word
         /\ BitsOf(ShiftRight(x, n)) = {b \in Bits : b + n \in BitsOf(x)}
<1>1. n \in Nat /\ n < BitsPerWord /\ BitsPerWord \in Nat \ {0} /\ x \in Nat
      /\ x < TwoTo[BitsPerWord]
  BY WidthFacts DEF Bits, Word
<1>2. n % BitsPerWord = n
  BY <1>1, DivSmall
<1>3. TwoTo[n] \in Nat \ {0}
  BY <1>1, TwoToFacts
<1>4. ShiftRight(x, n) = x \div TwoTo[n]
  BY <1>2 DEF ShiftRight
<1>5. x \div TwoTo[n] \in Nat /\ x \div TwoTo[n] <= x
  BY <1>1, <1>3, DivMod, DivLess
<1>6. ShiftRight(x, n) \in Word
  BY <1>4, <1>5, WidthFacts DEF Word
<1>7. ASSUME NEW b \in Bits
      PROVE  IsSet(ShiftRight(x, n), b) <=> IsSet(x, b + n)
  <2>1. b \in Nat
    BY DEF Bits
  <2>2. TwoTo[b] \in Nat \ {0} /\ TwoTo[b + n] = TwoTo[n] * TwoTo[b]
    BY <1>1, <2>1, TwoToFacts, TwoToSum
  <2>3. (x \div TwoTo[n]) \div TwoTo[b] = x \div TwoTo[b + n]
    BY <1>1, <1>3, <2>2, DivTwice
  <2> QED
    BY <1>4, <2>3 DEF IsSet
<1>8. ASSUME NEW b \in Nat, b >= BitsPerWord
      PROVE  ~IsSet(x, b)
  <2>1. TwoTo[b] \in Nat \ {0} /\ TwoTo[BitsPerWord] \in Nat /\ TwoTo[BitsPerWord] <= TwoTo[b]
    BY <1>1, <1>8, TwoToFacts, TwoToGrows
  <2>2. x \in 0 .. TwoTo[b] - 1
    BY <1>1, <2>1
  <2>3. x \div TwoTo[b] = 0
    BY <2>1, <2>2, DivSmall
  <2> QED
    BY <2>3 DEF IsSet
<1>9. ASSUME NEW b \in Bits
      PROVE  b \in BitsOf(ShiftRight(x, n)) <=> b + n \in BitsOf(x)
  <2>1. b \in Nat /\ b + n \in Nat /\ (b + n \in Bits <=> b + n < BitsPerWord)
    BY <1>1 DEF Bits
  <2>2. CASE b + n \in Bits
    BY <1>7, <2>2, BitsOfFacts
  <2>3. CASE b + n \notin Bits
    <3>1. ~IsSet(x, b + n)
      BY <1>1, <1>8, <2>1, <2>3
    <3>2. b + n \notin BitsOf(x)
      BY <2>3, BitsOfFacts
    <3> QED
      BY <1>7, <3>1, <3>2, BitsOfFacts
  <2> QED
    BY <2>2, <2>3
<1> QED
  BY <1>6, <1>9, BitsOfFacts


\* The bits of a product with a power of two, below it and from it on.
LEMMA ProductBits ==
  ASSUME NEW x \in Nat, NEW n \in Nat, NEW b \in Nat
  PROVE  IsSet(x * TwoTo[n], b) <=> b >= n /\ IsSet(x, b - n)
<1>1. TwoTo[n] \in Nat \ {0} /\ TwoTo[b] \in Nat \ {0} /\ x * TwoTo[n] \in Nat
  BY TwoToFacts
<1>2. CASE b >= n
  <2>1. b - n \in Nat /\ TwoTo[b] = TwoTo[n] * TwoTo[b - n] /\ TwoTo[b - n] \in Nat \ {0}
    BY <1>2, TwoToGrows, TwoToFacts
  <2>2. (x * TwoTo[n]) \div TwoTo[n] = x
    <3>1. x * TwoTo[n] = x * TwoTo[n] + 0 /\ 0 \in 0 .. TwoTo[n] - 1
      BY <1>1
    <3> QED
      BY <1>1, <3>1, DivUnique
  <2>3. ((x * TwoTo[n]) \div TwoTo[n]) \div TwoTo[b - n] = (x * TwoTo[n]) \div TwoTo[b]
    BY <1>1, <2>1, DivTwice
  <2> QED
    BY <1>2, <2>2, <2>3 DEF IsSet
<1>3. CASE b < n
  <2>1. TwoTo[n] = TwoTo[b] * TwoTo[n - b] /\ TwoTo[n - b] % 2 = 0 /\ n - b \in Nat
    BY <1>3, TwoToGrows
  <2>2. PICK e \in Nat : TwoTo[n - b] = 2 * e
    <3>1. TwoTo[n - b] \in Nat
      BY <2>1, TwoToFacts
    <3>2. TwoTo[n - b] = 2 * (TwoTo[n - b] \div 2) /\ TwoTo[n - b] \div 2 \in Nat
      BY <2>1, <3>1
    <3> QED
      BY <3>2
  <2>3. x * TwoTo[n] = (2 * (x * e)) * TwoTo[b] + 0 /\ 2 * (x * e) \in Nat
    BY <1>1, <2>1, <2>2
  <2>4. (x * TwoTo[n]) \div TwoTo[b] = 2 * (x * e)
    <3>1. 0 \in 0 .. TwoTo[b] - 1
      BY <1>1
    <3> QED
      BY <1>1, <2>3, <3>1, DivUnique
  <2>5. (2 * (x * e)) % 2 = 0
    <3>1. x * e \in Nat
      OBVIOUS
    <3> QED
      BY <3>1
  <2> QED
    BY <1>3, <2>4, <2>5 DEF IsSet
<1> QED
  BY <1>2, <1>3

\* What a word keeps of a number are its lowest bits.
LEMMA RemainderBits ==
  ASSUME NEW y \in Nat, NEW n \in Nat, NEW b \in Nat, b < n
  PROVE  IsSet(y % TwoTo[n], b) <=> IsSet(y, b)
<1> DEFINE k == y \div TwoTo[n]
           z == y % TwoTo[n]
           q == z \div TwoTo[b]
           r == z % TwoTo[b]
<1>1. TwoTo[n] \in Nat \ {0} /\ TwoTo[b] \in Nat \ {0}
  BY TwoToFacts
<1>2. k \in Nat /\ z \in Nat /\ y = k * TwoTo[n] + z
  <2>1. k \in Nat /\ z \in 0 .. TwoTo[n] - 1 /\ y = k * TwoTo[n] + z
    BY <1>1, DivMod
  <2> HIDE DEF k, z
  <2> QED
    BY <1>1, <2>1
<1>3. q \in Nat /\ r \in 0 .. TwoTo[b] - 1 /\ z = q * TwoTo[b] + r
  BY <1>1, <1>2, DivMod
<1>4. TwoTo[n] = TwoTo[b] * TwoTo[n - b] /\ TwoTo[n - b] % 2 = 0 /\ n - b \in Nat
  BY TwoToGrows
<1>5. PICK e \in Nat : TwoTo[n - b] = 2 * e
  <2>1. TwoTo[n - b] \in Nat
    BY <1>4, TwoToFacts
  <2>2. TwoTo[n - b] = 2 * (TwoTo[n - b] \div 2) /\ TwoTo[n - b] \div 2 \in Nat
    BY <1>4, <2>1
  <2> QED
    BY <2>2
<1> HIDE DEF k, z, q, r
<1>6. y = (2 * (k * e) + q) * TwoTo[b] + r /\ 2 * (k * e) + q \in Nat
  <2>1. k * TwoTo[n] = (2 * (k * e)) * TwoTo[b]
    BY <1>1, <1>2, <1>4, <1>5
  <2>2. 2 * (k * e) \in Nat
    BY <1>2
  <2> QED
    BY <1>1, <1>2, <1>3, <2>1, <2>2
<1>7. y \div TwoTo[b] = 2 * (k * e) + q
  BY <1>1, <1>3, <1>6, DivUnique
<1>8. (2 * (k * e) + q) % 2 = q % 2
  <2>1. k * e \in Nat
    BY <1>2
  <2> QED
    BY <1>3, <2>1
<1>9. IsSet(y, b) <=> q % 2 = 1
  BY <1>7, <1>8 DEF IsSet
<1> QED
  BY <1>9 DEF IsSet, q, z

LEMMA ShiftLeftFacts ==
  ASSUME NEW x \in Word, NEW n \in Bits
  PROVE  /\ ShiftLeft(x, n) = (x * TwoTo[n]) % TwoTo[BitsPerWord]
         /\ ShiftLeft(x, n) \in Word
         /\ BitsOf(ShiftLeft(x, n)) = {b \in Bits : b >= n /\ b - n \in BitsOf(x)}
<1>1. n \in Nat /\ n < BitsPerWord /\ BitsPerWord \in Nat \ {0} /\ x \in Nat
      /\ TwoTo[BitsPerWord] = NotZero + 1 /\ TwoTo[BitsPerWord] \in Nat \ {0}
  BY WidthFacts DEF Bits, Word
<1>2. n % BitsPerWord = n
  BY <1>1, DivSmall
<1>3. TwoTo[n] \in Nat /\ x * TwoTo[n] \in Nat
  BY <1>1, TwoToFacts
<1>4. ShiftLeft(x, n) = (x * TwoTo[n]) % TwoTo[BitsPerWord]
  BY <1>1, <1>2 DEF ShiftLeft
<1>5. ShiftLeft(x, n) \in Word
  <2>1. ShiftLeft(x, n) \in 0 .. TwoTo[BitsPerWord] - 1
    BY <1>1, <1>3, <1>4, DivMod
  <2> QED
    BY <1>1, <2>1, WidthFacts DEF Word
<1>6. ASSUME NEW b \in Bits
      PROVE  b \in BitsOf(ShiftLeft(x, n)) <=> b >= n /\ b - n \in BitsOf(x)
  <2>1. b \in Nat /\ b < BitsPerWord
    BY <1>1 DEF Bits
  <2>2. IsSet(ShiftLeft(x, n), b) <=> b >= n /\ IsSet(x, b - n)
    BY <1>1, <1>3, <1>4, <2>1, RemainderBits, ProductBits
  <2>3. b >= n => b - n \in Bits
    BY <1>1, <2>1 DEF Bits
  <2> QED
    BY <2>2, <2>3, BitsOfFacts
<1> QED
  BY <1>4, <1>5, <1>6, BitsOfFacts


\* 1 shifted by n is bit n.
LEMMA ShiftedOne ==
  ASSUME NEW n \in Bits
  PROVE  /\ ShiftLeft(1, n) = TwoTo[n] /\ ShiftLeft(1, n) \in Word
         /\ BitsOf(ShiftLeft(1, n)) = {n}
<1>1. n \in Nat /\ n + 1 \in Nat /\ n + 1 <= BitsPerWord /\ BitsPerWord \in Nat
  BY WidthFacts DEF Bits
<1>2. /\ ShiftLeft(1, n) = (1 * TwoTo[n]) % TwoTo[BitsPerWord] /\ ShiftLeft(1, n) \in Word
      /\ BitsOf(ShiftLeft(1, n)) = {b \in Bits : b >= n /\ b - n \in {0}}
  BY OneBit, ShiftLeftFacts
<1>3. TwoTo[n] \in Nat \ {0} /\ TwoTo[n + 1] = 2 * TwoTo[n]
      /\ TwoTo[n + 1] <= TwoTo[BitsPerWord] /\ TwoTo[BitsPerWord] \in Nat \ {0}
  BY <1>1, TwoToFacts, TwoToGrows
<1>4. 1 * TwoTo[n] = TwoTo[n] /\ TwoTo[n] \in 0 .. TwoTo[BitsPerWord] - 1
  BY <1>3
<1>5. TwoTo[n] % TwoTo[BitsPerWord] = TwoTo[n]
  BY <1>3, <1>4, DivSmall
<1>6. \A b \in Bits : b >= n /\ b - n \in {0} <=> b = n
  BY <1>1 DEF Bits
<1> QED
  BY <1>2, <1>4, <1>5, <1>6

\* The mask of the last word: 1 shifted by 1 and by n, minus 1.
LEMMA MaskUpTo ==
  ASSUME NEW n \in Bits
  PROVE  BitsOf(MinusOne(ShiftLeft(ShiftLeft(1, 1), n))) = {b \in Bits : b <= n}
<1>1. n \in Nat /\ n + 1 <= BitsPerWord /\ BitsPerWord \in Nat /\ 1 \in Bits
  BY WidthFacts DEF Bits
<1>2. ShiftLeft(1, 1) = 2 /\ 2 \in Word
  BY <1>1, ShiftedOne, TwoToFacts
<1>3. ShiftLeft(2, n) = (2 * TwoTo[n]) % TwoTo[BitsPerWord]
  BY <1>2, ShiftLeftFacts
<1>4. TwoTo[n + 1] = 2 * TwoTo[n] /\ TwoTo[n + 1] \in Nat \ {0}
      /\ TwoTo[BitsPerWord] \in Nat \ {0} /\ NotZero = TwoTo[BitsPerWord] - 1
  BY <1>1, TwoToFacts, WidthFacts
<1>5. MinusOne(ShiftLeft(2, n)) = TwoTo[n + 1] - 1
  <2>1. CASE n + 1 = BitsPerWord
    <3>1. TwoTo[BitsPerWord] = 1 * TwoTo[BitsPerWord] + 0 /\ 0 \in 0 .. TwoTo[BitsPerWord] - 1
      BY <1>4
    <3>2. TwoTo[BitsPerWord] % TwoTo[BitsPerWord] = 0
      BY <1>4, <3>1, DivUnique
    <3> QED
      BY <1>3, <1>4, <2>1, <3>2 DEF MinusOne
  <2>2. CASE n + 1 < BitsPerWord
    <3>1. (n + 1) + 1 <= BitsPerWord /\ n + 1 \in Nat /\ (n + 1) + 1 \in Nat
      BY <1>1, <2>2
    <3>2. TwoTo[(n + 1) + 1] = 2 * TwoTo[n + 1] /\ TwoTo[(n + 1) + 1] <= TwoTo[BitsPerWord]
      BY <1>1, <3>1, TwoToFacts, TwoToGrows
    <3>3. TwoTo[n + 1] \in 0 .. TwoTo[BitsPerWord] - 1
      BY <1>4, <3>2
    <3>4. TwoTo[n + 1] % TwoTo[BitsPerWord] = TwoTo[n + 1]
      BY <1>4, <3>3, DivSmall
    <3> QED
      BY <1>3, <1>4, <3>4 DEF MinusOne
  <2> QED
    BY <1>1, <2>1, <2>2
<1>6. n + 1 \in 0 .. BitsPerWord
  BY <1>1
<1>7. BitsOf(TwoTo[n + 1] - 1) = {b \in Bits : b < n + 1}
  BY <1>6, Mask
<1>8. \A b \in Bits : b < n + 1 <=> b <= n
  BY <1>1 DEF Bits
<1> QED
  BY <1>2, <1>5, <1>7, <1>8

\* The first n bits of all: 1 shifted by n, minus 1.
LEMMA MaskBelow ==
  ASSUME NEW n \in Bits
  PROVE  BitsOf(MinusOne(ShiftLeft(1, n))) = {b \in Bits : b < n}
<1>1. n \in 0 .. BitsPerWord /\ n \in Nat
  BY WidthFacts DEF Bits
<1>2. ShiftLeft(1, n) = TwoTo[n] /\ TwoTo[n] # 0
  BY <1>1, ShiftedOne, TwoToFacts
<1>3. MinusOne(ShiftLeft(1, n)) = TwoTo[n] - 1
  BY <1>2 DEF MinusOne
<1> QED
  BY <1>1, <1>3, Mask

\* All bits but the first n.
LEMMA MaskFrom ==
  ASSUME NEW n \in Bits
  PROVE  BitsOf(ShiftLeft(NotZero, n)) = {b \in Bits : b >= n}
<1>1. BitsOf(ShiftLeft(NotZero, n)) = {b \in Bits : b >= n /\ b - n \in Bits}
  BY AllBits, ShiftLeftFacts
<1>2. \A b \in Bits : b >= n => b - n \in Bits
  BY WidthFacts DEF Bits
<1> QED
  BY <1>1, <1>2

\* The word that begins n bits into left has these bits, of left and of right.
LEMMA ShiftBitsFacts ==
  ASSUME NEW left \in Word, NEW right \in Word, NEW n \in Bits
  PROVE  /\ ShiftBits(left, right, n) \in Word
         /\ BitsOf(ShiftBits(left, right, n))
              = {b \in Bits : IF b + n < BitsPerWord THEN b + n \in BitsOf(left)
                              ELSE b + n - BitsPerWord \in BitsOf(right)}
<1>1. n \in Nat /\ n < BitsPerWord /\ BitsPerWord \in Nat /\ 1 \in Bits
  BY WidthFacts DEF Bits
<1> DEFINE m == BitsPerWord - 1 - n
<1>2. m \in Bits /\ m \in Nat
  BY <1>1 DEF Bits
<1>3. BitsOf(ShiftRight(left, n)) = {b \in Bits : b + n \in BitsOf(left)}
  BY ShiftRightFacts
<1>4. /\ ShiftLeft(right, m) \in Word
      /\ BitsOf(ShiftLeft(right, m)) = {b \in Bits : b >= m /\ b - m \in BitsOf(right)}
  BY <1>2, ShiftLeftFacts
<1>5. BitsOf(ShiftLeft(ShiftLeft(right, m), 1))
        = {b \in Bits : b >= 1 /\ b - 1 \in BitsOf(ShiftLeft(right, m))}
  BY <1>1, <1>4, ShiftLeftFacts
<1>6. /\ ShiftBits(left, right, n) \in Word
      /\ BitsOf(ShiftBits(left, right, n))
           = BitsOf(ShiftRight(left, n)) \cup BitsOf(ShiftLeft(ShiftLeft(right, m), 1))
  BY OrFacts DEF ShiftBits
<1>7. ASSUME NEW b \in Bits
      PROVE  b \in BitsOf(ShiftBits(left, right, n)) <=>
               IF b + n < BitsPerWord THEN b + n \in BitsOf(left)
               ELSE b + n - BitsPerWord \in BitsOf(right)
  <2>1. b \in Nat /\ b < BitsPerWord
    BY <1>1 DEF Bits
  <2>2. BitsOf(left) \subseteq Bits /\ BitsOf(right) \subseteq Bits
    BY BitsOfFacts
  <2>3. b \in BitsOf(ShiftRight(left, n)) <=> b + n \in BitsOf(left)
    BY <1>3
  <2>4. b \in BitsOf(ShiftLeft(ShiftLeft(right, m), 1)) <=>
          b >= 1 /\ b - 1 \in Bits /\ b - 1 >= m /\ (b - 1) - m \in BitsOf(right)
    BY <1>4, <1>5
  <2>5. (b - 1) - m = b + n - BitsPerWord
    BY <1>1, <2>1
  <2>6. CASE b + n < BitsPerWord
    <3>1. ~(b - 1 >= m)
      BY <1>1, <2>1, <2>6
    <3> QED
      BY <1>6, <2>3, <2>4, <2>6, <3>1
  <2>7. CASE ~(b + n < BitsPerWord)
    <3>1. b >= 1 /\ b - 1 \in Bits /\ b - 1 >= m /\ b + n \notin Bits
      BY <1>1, <2>1, <2>7 DEF Bits
    <3> QED
      BY <1>6, <2>2, <2>3, <2>4, <2>5, <2>7, <3>1
  <2> QED
    BY <2>6, <2>7
<1> QED
  BY <1>6, <1>7, BitsOfFacts


-----------------------------------------------------------------------------
(* Spans *)

Span(m) == [0 .. m - 1 -> Word]

\* Where bit i is, and when it is before bit j.
LEMMA BitPlace ==
  ASSUME NEW i \in Nat
  PROVE  /\ i \div BitsPerWord \in Nat /\ i % BitsPerWord \in Bits
         /\ i = (i \div BitsPerWord) * BitsPerWord + (i % BitsPerWord)
BY WidthFacts, DivMod DEF Bits

LEMMA PlaceOf ==
  ASSUME NEW w \in Nat, NEW b \in Bits
  PROVE  /\ w * BitsPerWord + b \in Nat
         /\ (w * BitsPerWord + b) \div BitsPerWord = w
         /\ (w * BitsPerWord + b) % BitsPerWord = b
<1>1. BitsPerWord \in Nat \ {0} /\ b \in 0 .. BitsPerWord - 1
  BY WidthFacts DEF Bits
<1>2. w * BitsPerWord + b \in Nat
  BY <1>1
<1> QED
  BY <1>1, <1>2, DivUnique

\* An index of one word is below every index of a later one.
LEMMA LaterWord ==
  ASSUME NEW v \in Int, NEW w \in Int, NEW b \in Bits, NEW c \in Bits
  PROVE  v * BitsPerWord + b < w * BitsPerWord + c <=> v < w \/ (v = w /\ b < c)
<1>1. BitsPerWord \in Nat \ {0} /\ b \in Nat /\ c \in Nat /\ b < BitsPerWord /\ c < BitsPerWord
  BY WidthFacts DEF Bits
<1>2. CASE v < w
  <2>1. (v + 1) * BitsPerWord <= w * BitsPerWord
    BY <1>1, <1>2
  <2>2. (v + 1) * BitsPerWord = v * BitsPerWord + BitsPerWord
    BY <1>1
  <2> QED
    BY <1>1, <1>2, <2>1, <2>2
<1>3. CASE v > w
  <2>1. (w + 1) * BitsPerWord <= v * BitsPerWord
    BY <1>1, <1>3
  <2>2. (w + 1) * BitsPerWord = w * BitsPerWord + BitsPerWord
    BY <1>1
  <2> QED
    BY <1>1, <1>3, <2>1, <2>2
<1>4. CASE v = w
  BY <1>1, <1>4
<1> QED
  BY <1>2, <1>3, <1>4

LEMMA InSpan ==
  ASSUME NEW m \in Nat, NEW i \in 0 .. m * BitsPerWord - 1
  PROVE  i \in Nat /\ i \div BitsPerWord \in 0 .. m - 1
<1>1. m * BitsPerWord \in Nat /\ i \in Nat /\ 0 \in Bits
  BY WidthFacts DEF Bits
<1>2. /\ i \div BitsPerWord \in Nat /\ i % BitsPerWord \in Bits
      /\ i = (i \div BitsPerWord) * BitsPerWord + (i % BitsPerWord)
  BY <1>1, BitPlace
<1>3. i < m * BitsPerWord + 0
  BY <1>1
<1>4. i \div BitsPerWord < m
  <2> DEFINE v == i \div BitsPerWord
             b == i % BitsPerWord
  <2>1. v \in Nat /\ b \in Bits /\ v * BitsPerWord + b < m * BitsPerWord + 0
    BY <1>2, <1>3
  <2> HIDE DEF v, b
  <2>2. v < m \/ (v = m /\ b < 0)
    BY <1>1, <2>1, LaterWord
  <2>3. b \in Nat
    BY <2>1 DEF Bits
  <2>4. v < m
    BY <2>2, <2>3
  <2> QED
    BY <2>4 DEF v
<1> QED
  BY <1>1, <1>2, <1>4

LEMMA BitOrder ==
  ASSUME NEW i \in Nat, NEW j \in Nat
  PROVE  i < j <=> \/ i \div BitsPerWord < j \div BitsPerWord
                   \/ /\ i \div BitsPerWord = j \div BitsPerWord
                      /\ i % BitsPerWord < j % BitsPerWord
<1> DEFINE v == i \div BitsPerWord
           b == i % BitsPerWord
           w == j \div BitsPerWord
           c == j % BitsPerWord
<1>1. v \in Nat /\ b \in Bits /\ w \in Nat /\ c \in Bits
      /\ i = v * BitsPerWord + b /\ j = w * BitsPerWord + c
  BY BitPlace
<1> HIDE DEF v, b, w, c
<1>2. i < j <=> v < w \/ (v = w /\ b < c)
  BY <1>1, LaterWord
<1> QED
  BY <1>2 DEF v, b, w, c

LEMMA GetBitFacts ==
  ASSUME NEW a, NEW i \in Nat, a[i \div BitsPerWord] \in Word
  PROVE  GetBit(a, i) = 1 <=> HasBit(a, i)
<1> DEFINE b == i % BitsPerWord
           x == a[i \div BitsPerWord]
<1>1. b \in Bits /\ x \in Word
  BY BitPlace
<1> HIDE DEF b, x
<1>2. /\ And(ShiftRight(x, b), 1) \in Word
      /\ BitsOf(And(ShiftRight(x, b), 1)) = {c \in Bits : c + b \in BitsOf(x)} \cap {0}
  BY <1>1, AndFacts, ShiftRightFacts, OneBit
<1>3. 0 \in Bits /\ 0 + b = b
  BY <1>1, WidthFacts DEF Bits
<1>4. b \in BitsOf(x) <=> BitsOf(And(ShiftRight(x, b), 1)) = {0}
  BY <1>2, <1>3
<1>5. BitsOf(And(ShiftRight(x, b), 1)) = {0} <=> And(ShiftRight(x, b), 1) = 1
  BY <1>2, OneBit, SameWord
<1> QED
  BY <1>4, <1>5 DEF GetBit, HasBit, b, x

\* In the word of bit i the other bits are left alone.
LEMMA SetBitFacts ==
  ASSUME NEW m \in Nat, NEW a \in Span(m), NEW i \in 0 .. m * BitsPerWord - 1
  PROVE  /\ SetBit(a, i) \in Span(m)
         /\ \A j \in 0 .. m * BitsPerWord - 1 : HasBit(SetBit(a, i), j) <=> j = i \/ HasBit(a, j)
<1> DEFINE w == i \div BitsPerWord
           b == i % BitsPerWord
<1>1. i \in Nat /\ w \in 0 .. m - 1 /\ b \in Bits
  BY InSpan, BitPlace
<1>2. /\ Or(a[w], ShiftLeft(1, b)) \in Word
      /\ BitsOf(Or(a[w], ShiftLeft(1, b))) = BitsOf(a[w]) \cup {b}
  <2> HIDE DEF w, b
  <2> QED
    BY <1>1, OrFacts, ShiftedOne
<1>3. SetBit(a, i) = [a EXCEPT ![w] = Or(a[w], ShiftLeft(1, b))]
  BY DEF SetBit
<1> HIDE DEF w, b
<1>4. SetBit(a, i) \in Span(m)
  BY <1>1, <1>2, <1>3 DEF Span
<1>5. ASSUME NEW j \in 0 .. m * BitsPerWord - 1
      PROVE  HasBit(SetBit(a, i), j) <=> j = i \/ HasBit(a, j)
  <2> DEFINE v == j \div BitsPerWord
             c == j % BitsPerWord
  <2>1. j \in Nat /\ v \in 0 .. m - 1 /\ c \in Bits
    BY InSpan, BitPlace
  <2>2. j = i <=> v = w /\ c = b
    <3>1. j = v * BitsPerWord + c
      BY <2>1, BitPlace
    <3>2. i = w * BitsPerWord + b
      BY <1>1, BitPlace DEF w, b
    <3> QED
      BY <3>1, <3>2 DEF w, b
  <2> HIDE DEF v, c
  <2>3. SetBit(a, i)[v] = IF v = w THEN Or(a[w], ShiftLeft(1, b)) ELSE a[v]
    BY <1>1, <1>3, <2>1 DEF Span
  <2>4. c \in BitsOf(SetBit(a, i)[v]) <=> (v = w /\ c = b) \/ c \in BitsOf(a[v])
    BY <1>2, <2>3
  <2> QED
    BY <2>2, <2>4 DEF HasBit, v, c
<1> QED
  BY <1>4, <1>5

LEMMA ClearBitFacts ==
  ASSUME NEW m \in Nat, NEW a \in Span(m), NEW i \in 0 .. m * BitsPerWord - 1
  PROVE  /\ ClearBit(a, i) \in Span(m)
         /\ \A j \in 0 .. m * BitsPerWord - 1 : HasBit(ClearBit(a, i), j) <=> j # i /\ HasBit(a, j)
<1> DEFINE w == i \div BitsPerWord
           b == i % BitsPerWord
<1>1. i \in Nat /\ w \in 0 .. m - 1 /\ b \in Bits
  BY InSpan, BitPlace
<1>2. /\ And(a[w], Not(ShiftLeft(1, b))) \in Word
      /\ BitsOf(And(a[w], Not(ShiftLeft(1, b)))) = BitsOf(a[w]) \ {b}
  <2> HIDE DEF w, b
  <2>1. BitsOf(Not(ShiftLeft(1, b))) = Bits \ {b}
    BY <1>1, NotFacts, ShiftedOne
  <2> QED
    BY <2>1, AndFacts, BitsOfFacts
<1>3. ClearBit(a, i) = [a EXCEPT ![w] = And(a[w], Not(ShiftLeft(1, b)))]
  BY DEF ClearBit
<1> HIDE DEF w, b
<1>4. ClearBit(a, i) \in Span(m)
  BY <1>1, <1>2, <1>3 DEF Span
<1>5. ASSUME NEW j \in 0 .. m * BitsPerWord - 1
      PROVE  HasBit(ClearBit(a, i), j) <=> j # i /\ HasBit(a, j)
  <2> DEFINE v == j \div BitsPerWord
             c == j % BitsPerWord
  <2>1. j \in Nat /\ v \in 0 .. m - 1 /\ c \in Bits
    BY InSpan, BitPlace
  <2>2. j = i <=> v = w /\ c = b
    <3>1. j = v * BitsPerWord + c
      BY <2>1, BitPlace
    <3>2. i = w * BitsPerWord + b
      BY <1>1, BitPlace DEF w, b
    <3> QED
      BY <3>1, <3>2 DEF w, b
  <2> HIDE DEF v, c
  <2>3. ClearBit(a, i)[v] = IF v = w THEN And(a[w], Not(ShiftLeft(1, b))) ELSE a[v]
    BY <1>1, <1>3, <2>1 DEF Span
  <2>4. c \in BitsOf(ClearBit(a, i)[v]) <=> ~(v = w /\ c = b) /\ c \in BitsOf(a[v])
    BY <1>2, <2>3
  <2> QED
    BY <2>2, <2>4 DEF HasBit, v, c
<1> QED
  BY <1>4, <1>5


LEMMA ClearAllFacts ==
  ASSUME NEW m \in Nat, NEW a, DOMAIN a = 0 .. m - 1
  PROVE  /\ ClearAllBits(a) \in Span(m)
         /\ \A j \in 0 .. m * BitsPerWord - 1 : ~HasBit(ClearAllBits(a), j)
<1>1. ClearAllBits(a) \in Span(m)
  BY NoBits DEF ClearAllBits, Span
<1>2. ASSUME NEW j \in 0 .. m * BitsPerWord - 1
      PROVE  ~HasBit(ClearAllBits(a), j)
  <2>1. j \div BitsPerWord \in 0 .. m - 1
    BY InSpan
  <2>2. ClearAllBits(a)[j \div BitsPerWord] = 0
    BY <2>1 DEF ClearAllBits
  <2> QED
    BY <2>2, NoBits DEF HasBit
<1> QED
  BY <1>1, <1>2

LEMMA ClearLeftFacts ==
  ASSUME NEW m \in Nat, NEW a \in Span(m), NEW n \in Nat
  PROVE  /\ ClearLeftBits(a, n) \in Span(m)
         /\ \A j \in 0 .. m * BitsPerWord - 1 :
              HasBit(ClearLeftBits(a, n), j) <=> j >= n /\ HasBit(a, j)
<1> DEFINE words == n \div BitsPerWord
           rest == n % BitsPerWord
           Cleared(w) == IF w < words THEN 0
                         ELSE IF w = words /\ rest > 0 THEN And(a[w], ShiftLeft(NotZero, rest))
                         ELSE a[w]
<1>1. words \in Nat /\ rest \in Bits /\ rest \in Nat
  BY BitPlace DEF Bits
<1>2. DOMAIN a = 0 .. m - 1 /\ \A w \in 0 .. m - 1 : a[w] \in Word
  BY DEF Span
<1>3. ClearLeftBits(a, n) = [w \in 0 .. m - 1 |-> Cleared(w)]
  BY <1>2 DEF ClearLeftBits
<1>4. \A w \in 0 .. m - 1 : Cleared(w) \in Word
  BY <1>2, NoBits, AndFacts
<1>5. ASSUME NEW w \in 0 .. m - 1, NEW b \in Bits
      PROVE  b \in BitsOf(Cleared(w)) <=> ~(w < words \/ (w = words /\ b < rest)) /\ b \in BitsOf(a[w])
  <2> HIDE DEF words, rest
  <2>1. CASE w < words
    BY <2>1, NoBits
  <2>2. CASE w = words /\ rest > 0
    <3>1. BitsOf(Cleared(w)) = BitsOf(a[w]) \cap {c \in Bits : c >= rest}
      BY <1>1, <2>2, AndFacts, MaskFrom
    <3>2. b >= rest <=> ~(b < rest)
      BY <1>1 DEF Bits
    <3> QED
      BY <1>1, <2>2, <3>1, <3>2
  <2>3. CASE ~(w < words) /\ ~(w = words /\ rest > 0)
    <3>1. ~(w = words /\ b < rest)
      BY <1>1, <2>3 DEF Bits
    <3> QED
      BY <2>3, <3>1
  <2> QED
    BY <2>1, <2>2, <2>3
<1>6. ClearLeftBits(a, n) \in Span(m)
  <2> HIDE DEF Cleared
  <2> QED
    BY <1>3, <1>4 DEF Span
<1>7. ASSUME NEW j \in 0 .. m * BitsPerWord - 1
      PROVE  HasBit(ClearLeftBits(a, n), j) <=> j >= n /\ HasBit(a, j)
  <2>1. j \in Nat /\ j \div BitsPerWord \in 0 .. m - 1 /\ j % BitsPerWord \in Bits
    BY InSpan, BitPlace
  <2>2. j < n <=> \/ j \div BitsPerWord < words
                  \/ j \div BitsPerWord = words /\ j % BitsPerWord < rest
    BY <2>1, BitOrder
  <2>3. j >= n <=> ~(j < n)
    BY <2>1
  <2>4. ClearLeftBits(a, n)[j \div BitsPerWord] = Cleared(j \div BitsPerWord)
    <3> HIDE DEF Cleared
    <3> QED
      BY <1>3, <2>1
  <2> HIDE DEF Cleared, words, rest
  <2> QED
    BY <1>5, <2>1, <2>2, <2>3, <2>4 DEF HasBit
<1> QED
  BY <1>6, <1>7

LEMMA ClearRightFacts ==
  ASSUME NEW m \in Nat, NEW a \in Span(m), NEW n \in Nat
  PROVE  /\ ClearRightBits(a, n) \in Span(m)
         /\ \A j \in 0 .. m * BitsPerWord - 1 :
              HasBit(ClearRightBits(a, n), j) <=> j < m * BitsPerWord - n /\ HasBit(a, j)
<1> DEFINE words == n \div BitsPerWord
           rest == n % BitsPerWord
           Cleared(w) == IF w >= m - words THEN 0
                         ELSE IF w = m - words - 1 /\ rest > 0
                         THEN And(a[w], MinusOne(ShiftLeft(1, BitsPerWord - rest)))
                         ELSE a[w]
<1>1. words \in Nat /\ rest \in Bits /\ rest \in Nat /\ n = words * BitsPerWord + rest
      /\ BitsPerWord \in Nat /\ rest < BitsPerWord
  BY BitPlace, WidthFacts DEF Bits
<1>2. DOMAIN a = 0 .. m - 1 /\ \A w \in 0 .. m - 1 : a[w] \in Word
  BY DEF Span
<1>3. Cardinality(DOMAIN a) = m
  <2>1. Cardinality(0 .. m - 1) = m
    BY FS_Interval
  <2> QED
    BY <1>2, <2>1
<1>4. ClearRightBits(a, n) = [w \in 0 .. m - 1 |-> Cleared(w)]
  BY <1>2, <1>3 DEF ClearRightBits
<1>5. \A w \in 0 .. m - 1 : Cleared(w) \in Word
  BY <1>2, NoBits, AndFacts
<1>6. ASSUME NEW w \in 0 .. m - 1, NEW b \in Bits
      PROVE  b \in BitsOf(Cleared(w)) <=>
               w * BitsPerWord + b < m * BitsPerWord - n /\ b \in BitsOf(a[w])
  <2>1. b \in Nat /\ b < BitsPerWord /\ w \in Nat
    BY <1>1 DEF Bits
  <2> HIDE DEF words, rest
  <2>2. CASE rest = 0
    <3>1. m * BitsPerWord - n = (m - words) * BitsPerWord + 0 /\ m - words \in Int /\ 0 \in Bits
      BY <1>1, <2>2 DEF Bits
    <3>2. w * BitsPerWord + b < (m - words) * BitsPerWord + 0 <=>
            w < m - words \/ (w = m - words /\ b < 0)
      BY <2>1, <3>1, LaterWord
    <3>3. w * BitsPerWord + b < m * BitsPerWord - n <=> ~(w >= m - words)
      BY <2>1, <3>1, <3>2
    <3> QED
      BY <2>2, <3>3, NoBits
  <2>3. CASE rest > 0
    <3> DEFINE v == m - words - 1
               c == BitsPerWord - rest
    <3>1. v \in Int /\ c \in Bits /\ (w >= m - words <=> w > v) /\ (b < c => b \in Bits)
      BY <1>1, <2>1, <2>3 DEF Bits
    <3>2. m * BitsPerWord - n = v * BitsPerWord + c
      <4>1. v * BitsPerWord = m * BitsPerWord - words * BitsPerWord - BitsPerWord
        BY <1>1
      <4> HIDE DEF v
      <4> QED
        BY <1>1, <4>1
    <3> HIDE DEF v, c
    <3>3. w * BitsPerWord + b < m * BitsPerWord - n <=> w < v \/ (w = v /\ b < c)
      BY <2>1, <3>1, <3>2, LaterWord
    <3>4. Cleared(w) = IF w > v THEN 0
                       ELSE IF w = v THEN And(a[w], MinusOne(ShiftLeft(1, c))) ELSE a[w]
      BY <2>3, <3>1 DEF v, c
    <3>5. CASE w > v
      BY <2>1, <3>1, <3>3, <3>4, <3>5, NoBits
    <3>6. CASE w = v
      <4>1. BitsOf(Cleared(w)) = BitsOf(a[w]) \cap {e \in Bits : e < c}
        BY <2>1, <3>1, <3>4, <3>6, AndFacts, MaskBelow
      <4> QED
        BY <2>1, <3>1, <3>3, <3>6, <4>1
    <3>7. CASE w < v
      BY <2>1, <3>1, <3>3, <3>4, <3>7
    <3> QED
      BY <2>1, <3>1, <3>5, <3>6, <3>7
  <2> QED
    BY <1>1, <2>2, <2>3
<1>7. ClearRightBits(a, n) \in Span(m)
  <2> HIDE DEF Cleared
  <2> QED
    BY <1>4, <1>5 DEF Span
<1>8. ASSUME NEW j \in 0 .. m * BitsPerWord - 1
      PROVE  HasBit(ClearRightBits(a, n), j) <=> j < m * BitsPerWord - n /\ HasBit(a, j)
  <2>1. j \in Nat /\ j \div BitsPerWord \in 0 .. m - 1 /\ j % BitsPerWord \in Bits
        /\ j = (j \div BitsPerWord) * BitsPerWord + (j % BitsPerWord)
    BY InSpan, BitPlace
  <2>2. ClearRightBits(a, n)[j \div BitsPerWord] = Cleared(j \div BitsPerWord)
    <3> HIDE DEF Cleared
    <3> QED
      BY <1>4, <2>1
  <2> HIDE DEF Cleared, words, rest
  <2>3. j % BitsPerWord \in BitsOf(Cleared(j \div BitsPerWord)) <=>
          (j \div BitsPerWord) * BitsPerWord + (j % BitsPerWord) < m * BitsPerWord - n
            /\ j % BitsPerWord \in BitsOf(a[j \div BitsPerWord])
    BY <1>6, <2>1
  <2> QED
    BY <2>1, <2>2, <2>3 DEF HasBit
<1> QED
  BY <1>7, <1>8


-----------------------------------------------------------------------------
(* Folds and sums over finite sets *)

\* What holds of the empty set, and of a set if it holds of the sets with one
\* member less, holds of every finite set.
LEMMA SubsetInduction ==
  ASSUME NEW S, IsFiniteSet(S), NEW T, {} \in T,
         \A s \in SUBSET S : s # {} /\ (\A x \in s : s \ {x} \in T) => s \in T
  PROVE  \A s \in SUBSET S : s \in T
<1> DEFINE N == {n \in Nat : \A s \in SUBSET S : Cardinality(s) = n => s \in T}
<1>1. \A s \in SUBSET S : IsFiniteSet(s) /\ Cardinality(s) \in Nat
  BY FS_Subset, FS_CardinalityType
<1>2. 0 \in N
  <2>1. \A s \in SUBSET S : Cardinality(s) = 0 => s = {}
    BY <1>1, FS_EmptySet
  <2> QED
    BY <2>1
<1>3. ASSUME NEW n \in Nat, n \in N
      PROVE  n + 1 \in N
  <2> SUFFICES ASSUME NEW s \in SUBSET S, Cardinality(s) = n + 1
               PROVE  s \in T
    OBVIOUS
  <2>1. s # {}
    <3>1. Cardinality({}) = 0
      BY FS_EmptySet
    <3> QED
      BY <3>1
  <2>2. \A x \in s : s \ {x} \in T
    <3> TAKE x \in s
    <3>1. Cardinality(s \ {x}) = n
      <4>1. Cardinality(s \ {x}) = Cardinality(s) - 1
        BY <1>1, FS_RemoveElement
      <4> QED
        BY <4>1
    <3> QED
      BY <1>3, <3>1
  <2> QED
    BY <2>1, <2>2
<1> HIDE DEF N
<1>4. \A n \in Nat : n \in N
  BY <1>2, <1>3, Induction
<1> QED
  BY <1>1, <1>4 DEF N

\* A fold that takes the members of a set as c chooses them.
IsFold(f, S, V, base, g, c) ==
  /\ f \in [SUBSET S -> V]
  /\ \A s \in SUBSET S :
       f[s] = IF s = {} THEN base ELSE g[<<c[s], f[s \ {c[s]}]>>]

\* It is defined for every finite set.
LEMMA FoldExists ==
  ASSUME NEW S, IsFiniteSet(S), NEW V, NEW base \in V, NEW g, g \in [S \X V -> V],
         NEW c, DOMAIN c = SUBSET S, \A s \in SUBSET S : s # {} => c[s] \in s
  PROVE  \E f : IsFold(f, S, V, base, g, c)
<1> DEFINE Upto(n) == {s \in SUBSET S : Cardinality(s) <= n}
           Fold(f, n) ==
             /\ f \in [Upto(n) -> V]
             /\ \A s \in Upto(n) :
                  f[s] = IF s = {} THEN base ELSE g[<<c[s], f[s \ {c[s]}]>>]
           N == {n \in Nat : \E f : Fold(f, n)}
<1>1. \A s \in SUBSET S : IsFiniteSet(s) /\ Cardinality(s) \in Nat
  BY FS_Subset, FS_CardinalityType
<1>2. \A s \in SUBSET S : Cardinality(s) = 0 <=> s = {}
  BY <1>1, FS_EmptySet
<1>3. 0 \in N
  <2> DEFINE f == [s \in Upto(0) |-> base]
  <2>1. \A s \in Upto(0) : s = {}
    BY <1>1, <1>2
  <2>2. Fold(f, 0)
    BY <2>1
  <2> HIDE DEF Fold, f
  <2> QED
    BY <2>2
<1>4. ASSUME NEW n \in Nat, n \in N
      PROVE  n + 1 \in N
  <2>1. PICK f : Fold(f, n)
    BY <1>4
  <2> DEFINE Next(s) == IF s = {} THEN base ELSE g[<<c[s], f[s \ {c[s]}]>>]
             h == [s \in Upto(n + 1) |-> Next(s)]
  <2>2. ASSUME NEW s \in Upto(n + 1), s # {}
        PROVE  c[s] \in S /\ s \ {c[s]} \in Upto(n)
    <3>1. s \in SUBSET S /\ c[s] \in s /\ Cardinality(s) <= n + 1
      BY <2>2
    <3>2. Cardinality(s \ {c[s]}) = Cardinality(s) - 1
      BY <1>1, <3>1, FS_RemoveElement
    <3> QED
      BY <1>1, <3>1, <3>2
  <2>3. \A s \in Upto(n + 1) : Next(s) \in V
    BY <2>1, <2>2
  <2>4. \A s \in Upto(n) : s \in Upto(n + 1) /\ Next(s) = f[s]
    BY <1>1, <2>1
  <2>5. h \in [Upto(n + 1) -> V] /\ \A s \in Upto(n + 1) : h[s] = Next(s)
    <3> HIDE DEF Next, Upto
    <3> QED
      BY <2>3
  <2>6. \A s \in Upto(n) : h[s] = f[s]
    <3> HIDE DEF Next, Upto, h
    <3> QED
      BY <2>4, <2>5
  <2>7. \A s \in Upto(n + 1) : h[s] = IF s = {} THEN base ELSE g[<<c[s], h[s \ {c[s]}]>>]
    <3> HIDE DEF Upto, h
    <3> QED
      BY <2>2, <2>5, <2>6
  <2>8. Fold(h, n + 1)
    <3> HIDE DEF Upto, h
    <3> QED
      BY <2>5, <2>7
  <2> HIDE DEF Fold, h
  <2> QED
    BY <2>8
<1> HIDE DEF N
<1>5. Cardinality(S) \in N
  <2>1. Cardinality(S) \in Nat
    BY <1>1
  <2> QED
    BY <1>3, <1>4, <2>1, Induction
<1>6. PICK f : Fold(f, Cardinality(S))
  BY <1>5 DEF N
<1>7. \A s \in SUBSET S : Cardinality(s) <= Cardinality(S)
  BY FS_Subset
<1>8. Upto(Cardinality(S)) = SUBSET S
  BY <1>7
<1>9. IsFold(f, S, V, base, g, c)
  <2> HIDE DEF Upto
  <2> QED
    BY <1>6, <1>8 DEF IsFold
<1> QED
  BY <1>9


\* The members of all the sets that a function has on S, and the sum of their sizes.
AllOf(P, S) == UNION {P[x] : x \in S}

IsSizeSum(sum, S, P, c) ==
  /\ \A s \in SUBSET S : s # {} => c[s] \in s
  /\ \A s \in SUBSET S :
       sum[s] = IF s = {} THEN 0 ELSE Cardinality(P[c[s]]) + sum[s \ {c[s]}]

\* A sum of the sizes of disjoint sets is the size of their union.
LEMMA SumOfSizes ==
  ASSUME NEW S, IsFiniteSet(S), NEW P, NEW sum, NEW c, IsSizeSum(sum, S, P, c),
         \A x \in S : IsFiniteSet(P[x]),
         \A x, y \in S : x # y => P[x] \cap P[y] = {}
  PROVE  sum[S] = Cardinality(AllOf(P, S))
<1> DEFINE All(s) == UNION {P[x] : x \in s}
           T == {s \in SUBSET S : IsFiniteSet(All(s)) /\ sum[s] = Cardinality(All(s))}
<1>1. {} \in T
  <2>1. All({}) = {}
    OBVIOUS
  <2>2. IsFiniteSet({}) /\ Cardinality({}) = 0
    BY FS_EmptySet
  <2> QED
    BY <2>1, <2>2 DEF IsSizeSum
<1>2. ASSUME NEW s \in SUBSET S, s # {}, \A x \in s : s \ {x} \in T
      PROVE  s \in T
  <2>1. PICK x \in s : x = c[s]
    BY <1>2 DEF IsSizeSum
  <2>2. x \in S /\ s \ {x} \in T /\ s \ {x} \in SUBSET S
    BY <1>2, <2>1
  <2>3. All(s) = P[x] \cup All(s \ {x})
    BY <2>1
  <2>4. P[x] \cap All(s \ {x}) = {}
    <3> SUFFICES ASSUME NEW e \in P[x], e \in All(s \ {x})
                 PROVE  FALSE
      OBVIOUS
    <3>1. PICK y \in s \ {x} : e \in P[y]
      OBVIOUS
    <3> QED
      BY <2>2, <3>1
  <2>5. IsFiniteSet(P[x]) /\ IsFiniteSet(All(s \ {x}))
        /\ sum[s \ {x}] = Cardinality(All(s \ {x}))
    BY <2>2
  <2> HIDE DEF All
  <2>6. IsFiniteSet(All(s)) /\ Cardinality(All(s)) = Cardinality(P[x]) + Cardinality(All(s \ {x}))
    <3>1. /\ IsFiniteSet(P[x] \cup All(s \ {x}))
          /\ Cardinality(P[x] \cup All(s \ {x})) =
               Cardinality(P[x]) + Cardinality(All(s \ {x})) - Cardinality(P[x] \cap All(s \ {x}))
      BY <2>5, FS_Union
    <3>2. Cardinality(P[x] \cap All(s \ {x})) = 0
      BY <2>4, FS_EmptySet
    <3>3. Cardinality(P[x]) \in Nat /\ Cardinality(All(s \ {x})) \in Nat
      BY <2>5, FS_CardinalityType
    <3>4. /\ IsFiniteSet(All(s))
          /\ Cardinality(All(s)) = Cardinality(P[x]) + Cardinality(All(s \ {x})) - 0
      BY <2>3, <3>1, <3>2
    <3> QED
      BY <3>3, <3>4
  <2>7. sum[s] = Cardinality(P[x]) + sum[s \ {x}]
    BY <1>2, <2>1 DEF IsSizeSum
  <2> QED
    BY <2>5, <2>6, <2>7
<1> HIDE DEF T
<1>3. \A s \in SUBSET S : s # {} /\ (\A x \in s : s \ {x} \in T) => s \in T
  BY <1>2
<1>4. \A s \in SUBSET S : s \in T
  BY <1>1, <1>3, SubsetInduction
<1>5. S \in T
  BY <1>4
<1> QED
  BY <1>5 DEF T, AllOf

\* As many as there are are multiples of them.
LEMMA ScaledCopy ==
  ASSUME NEW X \in SUBSET Nat, IsFiniteSet(X), NEW a \in Int, NEW k \in Nat \ {0}
  PROVE  /\ IsFiniteSet({a + k * x : x \in X})
         /\ Cardinality({a + k * x : x \in X}) = Cardinality(X)
<1> DEFINE Y == {a + k * x : x \in X}
           f == [x \in X |-> a + k * x]
<1>1. \A x, y \in X : a + k * x = a + k * y => x = y
  <2> SUFFICES ASSUME NEW x \in X, NEW y \in X, a + k * x = a + k * y
               PROVE  x = y
    OBVIOUS
  <2>1. x \in Nat /\ y \in Nat /\ k * x = k * y
    OBVIOUS
  <2>2. (k * x) \div k = x /\ (k * y) \div k = y
    <3>1. k * x = x * k + 0 /\ k * y = y * k + 0 /\ 0 \in 0 .. k - 1 /\ k * x \in Nat /\ k * y \in Nat
      BY <2>1
    <3> QED
      BY <2>1, <3>1, DivUnique
  <2> QED
    BY <2>1, <2>2
<1>2. f \in Bijection(X, Y)
  <2>1. f \in [X -> Y] /\ \A y \in Y : \E x \in X : f[x] = y
    OBVIOUS
  <2>2. \A x, y \in X : f[x] = f[y] => x = y
    BY <1>1
  <2> HIDE DEF f, Y
  <2> QED
    BY <2>1, <2>2, Fun_IsBij
<1> HIDE DEF f
<1> QED
  BY <1>2, FS_Bijection DEF ExistsBijection


=============================================================================
