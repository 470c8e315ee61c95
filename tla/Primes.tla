-------------------------------- MODULE Primes --------------------------------
(***************************************************************************)
(* The primes up to a bound, and what primesieve::iterator gives of them.  *)
(***************************************************************************)
EXTENDS Integers, FiniteSets

CONSTANT Horizon  \* bound: the primes up to Horizon are known

ASSUME HorizonAssumption == Horizon \in Nat

Primes == {n \in 2 .. Horizon : \A k \in 2 .. n - 1 : n % k # 0}

\* it_.jump_to(x) followed by it_.next_prime(): the first prime from x on.
PrimeFrom(x) == CHOOSE p \in Primes : p >= x /\ \A q \in Primes : q >= x => p <= q

\* it_.next_prime() when the last prime was p.
NextPrime(p) == PrimeFrom(p + 1)

\* The reference: the pairs of primes p in [s, e) and p + d.
PairsCount(s, e, d) == Cardinality({p \in Primes : s <= p /\ p < e /\ p + d \in Primes})
=============================================================================
