----------------------------- MODULE PrimesProofs -----------------------------
(***************************************************************************)
(* Lemmas about Primes that the proofs about both workers cite: what the   *)
(* iterator returns, that nothing lies between two of its primes, and that *)
(* 2 is the only even prime.  They rest on the least element of a set of   *)
(* naturals, which follows from the well-foundedness of <.                 *)
(***************************************************************************)
EXTENDS Primes, FiniteSetTheorems, TLAPS

\* A set of naturals that is not empty has a least element.
LEMMA LeastExists ==
  ASSUME NEW T \in SUBSET Nat, T # {}
  PROVE  \E x \in T : \A y \in T : x <= y
<1> DEFINE R == OpToRel(<, Nat)
<1>1. IsWellFoundedOn(R, Nat)
  BY NatLessThanWellFounded
<1>2. \A x, y \in Nat : x < y => <<x, y>> \in R
  BY DEF OpToRel
<1> HIDE DEF R
<1>3. PICK x \in T : \A y \in T : ~(<<y, x>> \in R)
  BY <1>1, WFMin
<1>4. T \subseteq Nat
  OBVIOUS
<1>5. \A y \in T : x <= y
  <2> SUFFICES ASSUME NEW y \in T PROVE x <= y
    OBVIOUS
  <2>1. x \in Nat /\ y \in Nat /\ ~(y < x)
    BY <1>2, <1>3, <1>4
  <2> QED
    BY <2>1
<1> QED
  BY <1>5

\* One that is bounded has a greatest element, too.
LEMMA GreatestExists ==
  ASSUME NEW T \in SUBSET Nat, T # {}, NEW n \in Nat, \A x \in T : x <= n
  PROVE  \E x \in T : \A y \in T : y <= x
<1> DEFINE D == {m \in Nat : n - m \in T}
<1>1. D # {}
  <2>1. PICK x \in T : TRUE
    OBVIOUS
  <2>2. x \in Nat /\ x <= n
    OBVIOUS
  <2>3. n - x \in Nat /\ n - (n - x) = x
    BY <2>2
  <2> QED
    BY <2>1, <2>3
<1>2. PICK m \in D : \A k \in D : m <= k
  BY <1>1, LeastExists
<1>3. \A y \in T : y <= n - m
  <2> SUFFICES ASSUME NEW y \in T PROVE y <= n - m
    OBVIOUS
  <2>1. y \in Nat /\ y <= n
    OBVIOUS
  <2>2. n - y \in D
    <3>1. n - y \in Nat /\ n - (n - y) = y
      BY <2>1
    <3> QED
      BY <3>1
  <2>3. m \in Nat /\ m <= n - y
    BY <1>2, <2>2
  <2> QED
    BY <2>1, <2>3
<1> QED
  BY <1>2, <1>3

-----------------------------------------------------------------------------
LEMMA PrimesAreFinite ==
  /\ Primes \subseteq Nat /\ \A p \in Primes : p >= 2 /\ p <= Horizon
  /\ IsFiniteSet(Primes)
<1>1. Primes \subseteq 2 .. Horizon
  BY DEF Primes
<1>2. IsFiniteSet(2 .. Horizon)
  BY HorizonAssumption, FS_Interval
<1>3. IsFiniteSet(Primes)
  BY <1>1, <1>2, FS_Subset
<1> QED
  BY <1>1, <1>3, HorizonAssumption

\* 2 is the only even prime: an even number past it is divided by it.
LEMMA OddPrimes ==
  ASSUME NEW p \in Primes, p % 2 = 0
  PROVE  p = 2
<1>1. p \in Nat /\ p >= 2 /\ \A k \in 2 .. p - 1 : p % k # 0
  BY HorizonAssumption DEF Primes
<1>2. p > 2 => 2 \in 2 .. p - 1
  BY <1>1
<1> QED
  BY <1>1, <1>2

\* The iterator returns the first prime from a value on, as long as there is one.
LEMMA PrimeFromFacts ==
  ASSUME NEW x \in Int, \E p \in Primes : p >= x
  PROVE  /\ PrimeFrom(x) \in Primes
         /\ PrimeFrom(x) >= x
         /\ \A q \in Primes : q >= x => PrimeFrom(x) <= q
<1> DEFINE T == {p \in Primes : p >= x}
<1>1. T \in SUBSET Nat /\ T # {}
  BY PrimesAreFinite
<1>2. PICK p \in T : \A q \in T : p <= q
  BY <1>1, LeastExists
<1>3. p \in Primes /\ p >= x /\ \A q \in Primes : q >= x => p <= q
  BY <1>2
<1> QED
  BY <1>3 DEF PrimeFrom

\* No prime lies between one and the next.
LEMMA NextPrimeFacts ==
  ASSUME NEW p \in Nat, \E q \in Primes : q > p
  PROVE  /\ NextPrime(p) \in Primes
         /\ NextPrime(p) > p
         /\ \A q \in Primes : q < NextPrime(p) => q <= p
<1>1. \E q \in Primes : q >= p + 1
  BY PrimesAreFinite
<1>2. /\ NextPrime(p) \in Primes /\ NextPrime(p) >= p + 1
      /\ \A q \in Primes : q >= p + 1 => NextPrime(p) <= q
  BY <1>1, PrimeFromFacts DEF NextPrime
<1>3. NextPrime(p) > p
  <2>1. NextPrime(p) \in Nat
    BY <1>2, PrimesAreFinite
  <2> QED
    BY <1>2, <2>1
<1>4. ASSUME NEW q \in Primes, q < NextPrime(p)
      PROVE  q <= p
  <2>1. q \in Nat /\ NextPrime(p) \in Nat
    BY <1>2, PrimesAreFinite
  <2>2. ~(q >= p + 1)
    BY <1>2, <1>4, <2>1
  <2> QED
    BY <2>1, <2>2
<1> QED
  BY <1>2, <1>3, <1>4
=============================================================================
