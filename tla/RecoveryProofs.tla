---------------------------- MODULE RecoveryProofs ----------------------------
(***************************************************************************)
(* Proofs about Recovery: what the program takes from files that were cut  *)
(* anywhere, for any ranges, counts, bases of numbers and numbers of       *)
(* faults.                                                                 *)
(***************************************************************************)
EXTENDS Recovery, SequenceTheorems, NaturalsInduction, WellFoundedInduction, TLAPS

-----------------------------------------------------------------------------
(* The digits of numbers *)

\* A set of naturals that holds 0 and the successor of each of its members holds
\* all of them.
LEMMA Induction ==
  ASSUME NEW T, 0 \in T, \A n \in Nat : n \in T => n + 1 \in T
  PROVE  \A n \in Nat : n \in T
<1> DEFINE R == OpToRel(<, Nat)
           Outside == {n \in Nat : n \notin T}
<1>1. IsWellFoundedOn(R, Nat)
  BY NatLessThanWellFounded
<1>2. \A x, y \in Nat : x < y => <<x, y>> \in R
  BY DEF OpToRel
<1> HIDE DEF R
<1>3. Outside = {}
  <2> SUFFICES ASSUME Outside # {} PROVE FALSE
    OBVIOUS
  <2>1. PICK x \in Outside : \A y \in Outside : ~(<<y, x>> \in R)
    BY <1>1, WFMin
  <2>2. x \in Nat /\ x # 0 /\ x - 1 \in Nat /\ x - 1 < x /\ (x - 1) + 1 = x
    OBVIOUS
  <2>3. x - 1 \notin T
    BY <2>2
  <2> QED
    BY <1>2, <2>1, <2>2, <2>3
<1> QED
  BY <1>3

\* The powers up to any exponent exist: a function up to n is continued to n + 1.
LEMMA PowersUpTo ==
  ASSUME NEW n \in Nat
  PROVE  \E f \in [0 .. n -> Nat] :
           f[0] = 1 /\ \A k \in 1 .. n : f[k] = Base * f[k - 1]
<1> DEFINE Powers(f, m) ==
             /\ f \in [0 .. m -> Nat] /\ f[0] = 1
             /\ \A k \in 1 .. m : f[k] = Base * f[k - 1]
           T == {m \in Nat : \E f : Powers(f, m)}
<1>1. 0 \in T
  <2>1. Powers([k \in 0 .. 0 |-> 1], 0)
    OBVIOUS
  <2> QED
    BY <2>1
<1>2. ASSUME NEW m \in Nat, m \in T
      PROVE  m + 1 \in T
  <2>1. PICK f : Powers(f, m)
    BY <1>2
  <2> DEFINE g == [k \in 0 .. m + 1 |-> IF k = m + 1 THEN Base * f[m] ELSE f[k]]
  <2>2. Base * f[m] \in Nat
    BY <2>1, BaseAssumption
  <2>3. g \in [0 .. m + 1 -> Nat] /\ g[0] = 1
    BY <2>1, <2>2
  <2>4. \A k \in 1 .. m + 1 : g[k] = Base * g[k - 1]
    BY <2>1
  <2>5. Powers(g, m + 1)
    BY <2>3, <2>4
  <2>6. \E h : Powers(h, m + 1)
    <3> HIDE DEF Powers, g
    <3> QED
      BY <2>5
  <2> HIDE DEF Powers
  <2> QED
    BY <2>6
<1>3. n \in T
  <2> HIDE DEF T
  <2> QED
    BY <1>1, <1>2, Induction
<1> QED
  BY <1>3

\* There is only one such function, so that those for all n make up Power.
LEMMA PowerDefined ==
  Power = [k \in Nat |-> IF k = 0 THEN 1 ELSE Base * Power[k - 1]]
<1> DEFINE Powers(f, n) ==
             /\ f \in [0 .. n -> Nat] /\ f[0] = 1
             /\ \A k \in 1 .. n : f[k] = Base * f[k - 1]
           UpTo(n) == CHOOSE f : Powers(f, n)
           P == [k \in Nat |-> UpTo(k)[k]]
<1>1. \A n \in Nat : Powers(UpTo(n), n)
  <2> TAKE n \in Nat
  <2>1. \E f : Powers(f, n)
    BY PowersUpTo
  <2> HIDE DEF Powers
  <2> QED
    BY <2>1
<1>2. ASSUME NEW m \in Nat, NEW n \in Nat, m <= n
      PROVE  \A k \in Nat : k \in {j \in Nat : j <= m => UpTo(m)[j] = UpTo(n)[j]}
  <2> DEFINE T == {j \in Nat : j <= m => UpTo(m)[j] = UpTo(n)[j]}
  <2> HIDE DEF UpTo
  <2>1. 0 \in T
    BY <1>1
  <2>2. ASSUME NEW k \in Nat, k \in T
        PROVE  k + 1 \in T
    <3> SUFFICES ASSUME k + 1 <= m
                 PROVE  UpTo(m)[k + 1] = UpTo(n)[k + 1]
      OBVIOUS
    <3>1. k + 1 \in 1 .. m /\ k + 1 \in 1 .. n /\ (k + 1) - 1 = k
      BY <1>2
    <3>2. UpTo(m)[k + 1] = Base * UpTo(m)[k] /\ UpTo(n)[k + 1] = Base * UpTo(n)[k]
      BY <1>1, <3>1
    <3> QED
      BY <2>2, <3>2
  <2> HIDE DEF T
  <2>3. \A k \in Nat : k \in T
    BY <2>1, <2>2, Induction
  <2> QED
    BY <2>3 DEF T
<1>3. P = [k \in Nat |-> IF k = 0 THEN 1 ELSE Base * P[k - 1]]
  <2>1. \A k \in Nat : UpTo(k)[k] = IF k = 0 THEN 1 ELSE Base * UpTo(k - 1)[k - 1]
    <3> SUFFICES ASSUME NEW k \in Nat
                 PROVE  UpTo(k)[k] = IF k = 0 THEN 1 ELSE Base * UpTo(k - 1)[k - 1]
      OBVIOUS
    <3> HIDE DEF UpTo
    <3>1. CASE k = 0
      BY <1>1, <3>1
    <3>2. CASE k # 0
      <4>1. k - 1 \in Nat /\ k \in 1 .. k /\ k - 1 <= k
        BY <3>2
      <4>2. UpTo(k)[k] = Base * UpTo(k)[k - 1]
        BY <1>1, <4>1
      <4>3. UpTo(k - 1)[k - 1] = UpTo(k)[k - 1]
        BY <1>2, <4>1
      <4> QED
        BY <3>2, <4>2, <4>3
    <3> QED
      BY <3>1, <3>2
  <2> HIDE DEF UpTo
  <2>2. \A k \in Nat : k # 0 => k - 1 \in Nat
    OBVIOUS
  <2> QED
    BY <2>1, <2>2
<1>4. \E f : f = [k \in Nat |-> IF k = 0 THEN 1 ELSE Base * f[k - 1]]
  <2> HIDE DEF P
  <2> QED
    BY <1>3
<1> QED
  BY <1>4, Zenon DEF Power

LEMMA PowerFacts ==
  /\ Power[0] = 1
  /\ \A k \in Nat : Power[k] \in Nat /\ Power[k] > k /\ Power[k + 1] = Base * Power[k]
<1> DEFINE T == {k \in Nat : Power[k] \in Nat /\ Power[k] > k}
<1>1. Power[0] = 1
  BY PowerDefined
<1>2. ASSUME NEW k \in Nat
      PROVE  Power[k + 1] = Base * Power[k]
  <2>1. k + 1 \in Nat /\ k + 1 # 0 /\ (k + 1) - 1 = k
    OBVIOUS
  <2>2. \A m \in Nat : Power[m] = IF m = 0 THEN 1 ELSE Base * Power[m - 1]
    BY PowerDefined
  <2> QED
    BY <2>1, <2>2
<1>3. 0 \in T
  BY <1>1
<1>4. ASSUME NEW k \in Nat, k \in T
      PROVE  k + 1 \in T
  <2>1. \A b, p \in Nat : b >= 2 => b * p \in Nat /\ b * p >= p + p
    OBVIOUS
  <2>2. Base \in Nat /\ Base >= 2
    BY BaseAssumption
  <2> QED
    BY <1>2, <1>4, <2>1, <2>2
<1>5. \A k \in Nat : k \in T
  <2> HIDE DEF T
  <2> QED
    BY <1>3, <1>4, Induction
<1> QED
  BY <1>1, <1>2, <1>5

\* Every number has a width.
LEMMA WidthFacts ==
  ASSUME NEW n \in Nat
  PROVE  Width(n) \in 1 .. n + 1 /\ n < Power[Width(n)]
<1> DEFINE T == {k \in Nat : k >= 1 /\ n < Power[k]}
           Out == {j \in Nat : j \notin T}
<1>1. n + 1 \in T
  BY PowerFacts
<1>2. PICK k \in T : k = 1 \/ k - 1 \notin T
  <2> SUFFICES ASSUME \A k \in T : k # 1 /\ k - 1 \in T
               PROVE  FALSE
    OBVIOUS
  <2> DEFINE D == {j \in Nat : j <= n => n + 1 - j \in T}
  <2>1. 0 \in D
    BY <1>1
  <2>2. ASSUME NEW j \in Nat, j \in D PROVE j + 1 \in D
    <3>1. CASE j + 1 <= n
      <4>1. n + 1 - j \in T
        BY <2>2, <3>1
      <4>2. (n + 1 - j) - 1 \in T
        BY <4>1
      <4>3. (n + 1 - j) - 1 = n + 1 - (j + 1)
        OBVIOUS
      <4> HIDE DEF T
      <4> QED
        BY <4>2, <4>3
    <3> QED
      BY <3>1
  <2>3. n \in D
    <3> HIDE DEF D
    <3> QED
      BY <2>1, <2>2, Induction
  <2>4. 1 \in T
    <3>1. n + 1 - n = 1
      OBVIOUS
    <3> HIDE DEF T
    <3> QED
      BY <2>3, <3>1
  <2> QED
    BY <2>4
<1>3. k <= n + 1
  <2>1. CASE k = 1
    BY <2>1
  <2>2. CASE k # 1
    <3>1. k - 1 \in Nat /\ k - 1 >= 1 /\ Power[k - 1] <= n
      BY <1>2, <2>2, PowerFacts
    <3> QED
      BY <3>1, PowerFacts
  <2> QED
    BY <2>1, <2>2
<1>4. k \in 1 .. n + 1 /\ n < Power[k] /\ (k = 1 \/ Power[k - 1] <= n)
  <2>1. k # 1 => k - 1 \in Nat /\ k - 1 >= 1
    OBVIOUS
  <2> QED
    BY <1>2, <1>3, <2>1, PowerFacts
<1>5. \E j \in 1 .. n + 1 : n < Power[j] /\ (j = 1 \/ Power[j - 1] <= n)
  BY <1>4
<1> QED
  BY <1>5, Zenon DEF Width
-----------------------------------------------------------------------------
(* Cut fields, lists and files *)

LEMMA QuotientFacts ==
  ASSUME NEW a \in Nat, NEW b \in Nat, b >= 1
  PROVE  a \div b \in 0 .. a
<1> DEFINE q == a \div b
<1>1. q \in Int /\ b * q <= a /\ a < b * q + b
  OBVIOUS
<1>2. q >= 0
  <2> SUFFICES ASSUME q <= -1 PROVE FALSE
    BY <1>1
  <2>1. \A x \in Int : x <= -1 => b * x + b <= 0
    OBVIOUS
  <2> HIDE DEF q
  <2> QED
    BY <1>1, <2>1
<1>3. q <= a
  <2>1. \A x \in Nat : x <= b * x
    OBVIOUS
  <2> HIDE DEF q
  <2> QED
    BY <1>1, <1>2, <2>1
<1> QED
  BY <1>1, <1>2, <1>3

LEMMA PartsFit ==
  ASSUME NEW field \in Field, NEW part \in PartsOf(field)
  PROVE  part \in Field /\ part # Nothing /\ Rest(part, field)
<1>1. CASE field = Nothing
  BY <1>1 DEF PartsOf
<1>2. CASE field \in {Decimal, OutOfRange}
  <2>1. part \in Leading \cup {Decimal, field}
    BY <1>2, FieldAssumption DEF PartsOf
  <2> QED
    BY <1>2, <2>1, FieldAssumption, LeadingAssumption DEF Rest, Field
<1>3. CASE field \in Nat
  <2>1. PICK k \in 1 .. Width(field) - 1 : part = field \div Power[k]
    BY <1>3, FieldAssumption DEF PartsOf
  <2>2. Power[k] \in Nat /\ Power[k] >= 1
    <3>1. Width(field) \in Nat
      BY <1>3, WidthFacts
    <3>2. k \in Nat
      BY <3>1
    <3> QED
      BY <3>2, PowerFacts
  <2>3. part \in 0 .. field
    BY <1>3, <2>1, <2>2, QuotientFacts
  <2> QED
    BY <1>3, <2>3, FieldAssumption DEF Rest, Field
<1> QED
  BY <1>1, <1>2, <1>3 DEF Field

LEMMA RestTransitive ==
  ASSUME NEW part, NEW field, NEW whole, Rest(part, field), Rest(field, whole)
  PROVE  Rest(part, whole)
BY FieldAssumption DEF Rest

LEMMA CutsFit ==
  ASSUME NEW list \in Seq(Field), NEW text \in CutsOf(list)
  PROVE  text \in Seq(Field) \ {<<>>} /\ RestOfList(text, list)
<1>1. PICK i \in DOMAIN list :
        \E part \in PartsOf(list[i]) \cup {list[i]} \cup (IF i > 1 THEN {Nothing} ELSE {}) :
          text = Append(SubSeq(list, 1, i - 1), part)
  BY DEF CutsOf
<1>2. PICK part \in PartsOf(list[i]) \cup {list[i]} \cup (IF i > 1 THEN {Nothing} ELSE {}) :
          text = Append(SubSeq(list, 1, i - 1), part)
  BY <1>1
<1>3. i \in 1 .. Len(list) /\ list[i] \in Field
  OBVIOUS
<1>4. part \in Field /\ (Rest(part, list[i]) \/ (i > 1 /\ part = Nothing))
  <2>1. Rest(list[i], list[i])
    BY DEF Rest
  <2> QED
    BY <1>2, <1>3, <2>1, PartsFit DEF Field
<1>5. /\ SubSeq(list, 1, i - 1) \in Seq(Field) /\ Len(SubSeq(list, 1, i - 1)) = i - 1
      /\ \A j \in 1 .. i - 1 : SubSeq(list, 1, i - 1)[j] = list[j]
  BY <1>3, SubSeqProperties
<1>6. /\ text \in Seq(Field) /\ Len(text) = i /\ text[i] = part
      /\ \A j \in 1 .. i - 1 : text[j] = list[j]
  BY <1>2, <1>3, <1>4, <1>5, AppendProperties
<1> QED
  BY <1>3, <1>4, <1>6 DEF RestOfList

LEMMA RestOfListTransitive ==
  ASSUME NEW a \in Seq(Field), NEW b \in Seq(Field), NEW c \in Seq(Field),
         RestOfList(a, b), RestOfList(b, c)
  PROVE  RestOfList(a, c)
<1> SUFFICES ASSUME NEW i \in 1 .. Len(a)
             PROVE  \/ a[i] = c[i]
                    \/ i = Len(a) /\ (Rest(a[i], c[i]) \/ (i > 1 /\ a[i] = Nothing))
  BY DEF RestOfList
<1>1. /\ i \in 1 .. Len(b)
      /\ \/ a[i] = b[i]
         \/ i = Len(a) /\ (Rest(a[i], b[i]) \/ (i > 1 /\ a[i] = Nothing))
      /\ \/ b[i] = c[i]
         \/ i = Len(b) /\ (Rest(b[i], c[i]) \/ (i > 1 /\ b[i] = Nothing))
  BY DEF RestOfList
<1>2. CASE b[i] = c[i]
  BY <1>1, <1>2
<1>3. CASE i = Len(b) /\ Rest(b[i], c[i])
  <2>1. i = Len(a)
    BY <1>3 DEF RestOfList
  <2> QED
    BY <1>1, <1>3, <2>1, RestTransitive
<1>4. CASE i = Len(b) /\ i > 1 /\ b[i] = Nothing
  <2>1. i = Len(a)
    BY <1>4 DEF RestOfList
  <2>2. Rest(a[i], Nothing) => a[i] = Nothing
    BY FieldAssumption DEF Rest
  <2> QED
    BY <1>1, <1>4, <2>1, <2>2
<1> QED
  BY <1>1, <1>2, <1>3, <1>4
\* A file that is cut, and cut again, is what is left of the file.
LEMMA RestOfEntryTransitive ==
  ASSUME NEW a, NEW b, NEW c,
         a.list \in Seq(Field), b.list \in Seq(Field), c.list \in Seq(Field),
         RestOfEntry(a, b), RestOfEntry(b, c)
  PROVE  RestOfEntry(a, c)
<1>1. RestOfList(a.list, b.list) /\ b.list = <<>> => a.list = <<>>
  BY EmptySeq DEF RestOfList
<1>2. RestOfList(a.list, b.list) /\ RestOfList(b.list, c.list) => RestOfList(a.list, c.list)
  BY RestOfListTransitive
<1> QED
  BY <1>1, <1>2 DEF RestOfEntry

LEMMA EntryFacts ==
  ASSUME NEW key \in Keys, NEW list \in Seq(Field)
  PROVE  /\ Entry(key, list) \in EntrySet
         /\ Entry(key, list).key = key /\ Entry(key, list).list = list
BY DEF Entry, EntrySet

LEMMA EntryCutsFit ==
  ASSUME NEW entry \in EntrySet, NEW cut \in EntryCuts(entry)
  PROVE  cut \in EntrySet /\ RestOfEntry(cut, entry)
<1>1. CASE cut \in {Entry(CutKey, <<>>), Entry(entry.key, <<>>)}
  <2>1. entry.key \in Keys /\ CutKey \in Keys /\ <<>> \in Seq(Field)
    BY EmptySeq DEF EntrySet, Keys
  <2>2. \A key \in Keys : /\ Entry(key, <<>>) \in EntrySet
                          /\ Entry(key, <<>>).key = key /\ Entry(key, <<>>).list = <<>>
    BY <2>1, EntryFacts
  <2>3. cut \in EntrySet /\ cut.key \in {CutKey, entry.key} /\ cut.list = <<>>
    <3> DEFINE cutOff == Entry(CutKey, <<>>)
               noList == Entry(entry.key, <<>>)
    <3>1. /\ cutOff \in EntrySet /\ cutOff.key = CutKey /\ cutOff.list = <<>>
          /\ noList \in EntrySet /\ noList.key = entry.key /\ noList.list = <<>>
      BY <2>1, <2>2
    <3>2. cut = cutOff \/ cut = noList
      BY <1>1
    <3> HIDE DEF cutOff, noList
    <3> QED
      BY <3>1, <3>2
  <2> QED
    BY <2>3 DEF RestOfEntry
<1>2. CASE \E list \in CutsOf(entry.list) : cut = Entry(entry.key, list)
  <2>1. PICK list \in CutsOf(entry.list) : cut = Entry(entry.key, list)
    BY <1>2
  <2>2. entry.list \in Seq(Field) /\ entry.key \in Keys
    BY DEF EntrySet
  <2>3. list \in Seq(Field) /\ RestOfList(list, entry.list)
    BY <2>2, CutsFit
  <2> QED
    BY <2>1, <2>2, <2>3 DEF EntrySet, Entry, RestOfEntry
<1> QED
  BY <1>1, <1>2 DEF EntryCuts

LEMMA FileCutsFit ==
  ASSUME NEW text \in Seq(EntrySet), NEW whole \in Seq(EntrySet), RestOfFile(text, whole),
         NEW cut \in FileCuts(text)
  PROVE  cut \in Seq(EntrySet) /\ RestOfFile(cut, whole)
<1>1. CASE cut = <<>>
  <2>1. cut \in Seq(EntrySet) /\ Len(cut) = 0 /\ Len(whole) \in Nat
    BY <1>1, EmptySeq
  <2> QED
    BY <2>1 DEF RestOfFile
<1>2. CASE \E i \in DOMAIN text : \E entry \in EntryCuts(text[i]) :
             cut = Append(SubSeq(text, 1, i - 1), entry)
  <2>1. PICK i \in DOMAIN text : \E entry \in EntryCuts(text[i]) :
             cut = Append(SubSeq(text, 1, i - 1), entry)
    BY <1>2
  <2>2. PICK entry \in EntryCuts(text[i]) : cut = Append(SubSeq(text, 1, i - 1), entry)
    BY <2>1
  <2>3. i \in 1 .. Len(text) /\ text[i] \in EntrySet
    OBVIOUS
  <2>4. entry \in EntrySet /\ RestOfEntry(entry, text[i])
    BY <2>2, <2>3, EntryCutsFit
  <2>5. /\ SubSeq(text, 1, i - 1) \in Seq(EntrySet) /\ Len(SubSeq(text, 1, i - 1)) = i - 1
        /\ \A j \in 1 .. i - 1 : SubSeq(text, 1, i - 1)[j] = text[j]
    BY <2>3, SubSeqProperties
  <2>6. /\ cut \in Seq(EntrySet) /\ Len(cut) = i /\ cut[i] = entry
        /\ \A j \in 1 .. i - 1 : cut[j] = text[j]
    BY <2>2, <2>3, <2>4, <2>5, AppendProperties
  <2>7. \A j \in 1 .. i - 1 : cut[j] = whole[j]
    BY <2>3, <2>6 DEF RestOfFile
  <2>8. i \in 1 .. Len(whole) /\ Len(whole) \in Nat
    BY <2>3 DEF RestOfFile
  <2>9. RestOfEntry(cut[i], whole[i])
    <3>1. text[i] = whole[i] \/ RestOfEntry(text[i], whole[i])
      BY <2>3 DEF RestOfFile
    <3>2. whole[i] \in EntrySet
      BY <2>8
    <3>3. \A e \in EntrySet : e.list \in Seq(Field)
      BY DEF EntrySet
    <3> QED
      BY <2>3, <2>4, <2>6, <3>1, <3>2, <3>3, RestOfEntryTransitive
  <2> QED
    BY <2>3, <2>6, <2>7, <2>8, <2>9 DEF RestOfFile
<1> QED
  BY <1>1, <1>2 DEF FileCuts

-----------------------------------------------------------------------------
(* Records *)

LEMMA RangeFacts ==
  ASSUME NEW r \in Required
  PROVE  /\ r = <<r[1], r[2]>> /\ r[1] \in 0 .. MaxValue /\ r[2] \in 0 .. MaxValue /\ r[1] < r[2]
         /\ r[1] \in Nat /\ r[2] \in Nat /\ MaxValue \in Nat
         /\ r[1] \in Stops[r] /\ r[2] \in Stops[r]
         /\ \A pos \in Stops[r] : pos \in Nat /\ r[1] <= pos /\ pos <= r[2] /\ pos \in 0 .. MaxValue
         /\ \A q \in Required : q[1] = r[1] \/ q[2] = r[2] => q = r
<1>1. r \in (0 .. MaxValue) \X (0 .. MaxValue) /\ r[1] < r[2]
  BY RequiredAssumption
<1>2. MaxValue \in Nat
  BY BaseAssumption
<1>3. \A q \in Required : q[1] = r[1] \/ q[2] = r[2] => q = r
  <2> SUFFICES ASSUME NEW q \in Required, q[1] = r[1] \/ q[2] = r[2]
               PROVE  q = r
    OBVIOUS
  <2>1. q \in (0 .. MaxValue) \X (0 .. MaxValue) /\ q[1] < q[2]
    BY RequiredAssumption
  <2>2. q # r => q[2] <= r[1] \/ r[2] <= q[1]
    BY RequiredAssumption
  <2> QED
    BY <1>1, <1>2, <2>1, <2>2
<1>4. Stops[r] \subseteq r[1] .. r[2] /\ r[1] \in Stops[r] /\ r[2] \in Stops[r]
  BY StopsAssumption
<1> QED
  BY <1>1, <1>2, <1>3, <1>4

N == Len(Differences)

LEMMA DifferenceFacts ==
  /\ N \in Nat \ {0} /\ DOMAIN Differences = 1 .. N
  /\ \A i \in 1 .. N : Differences[i] \in 0 .. MaxValue /\ Differences[i] % 2 = 0
  /\ Differences \in Seq(Field)
<1>1. N \in Nat /\ DOMAIN Differences = 1 .. N
  BY DifferencesAssumption DEF N
<1>2. N # 0
  BY DifferencesAssumption DEF N
<1>3. \A i \in 1 .. N : Differences[i] \in 0 .. MaxValue /\ Differences[i] % 2 = 0
  <2>1. Differences \in [1 .. N -> 0 .. MaxValue]
    BY DifferencesAssumption, LenProperties DEF N
  <2>2. \A i \in 1 .. N : Differences[i] % 2 = 0
    BY <1>1, DifferencesAssumption
  <2> QED
    BY <2>1, <2>2
<1>4. 0 .. MaxValue \subseteq Field
  BY BaseAssumption DEF Field
<1>5. Differences \in Seq(Field)
  BY <1>4, DifferencesAssumption, SeqMonotonic
<1> QED
  BY <1>1, <1>2, <1>3, <1>5

LEMMA FunctionIsSequence ==
  ASSUME NEW n \in Nat, NEW S, NEW f \in [1 .. n -> S]
  PROVE  f \in Seq(S) /\ Len(f) = n
<1>1. f \in Seq(S)
  BY SeqDef
<1>2. DOMAIN f = 1 .. Len(f) /\ DOMAIN f = 1 .. n /\ Len(f) \in Nat
  BY <1>1, LenProperties
<1> QED
  BY <1>1, <1>2

LEMMA TruthFacts ==
  ASSUME NEW r \in Required, NEW pos \in Stops[r]
  PROVE  /\ Truth(r, pos) \in [1 .. N -> 0 .. MaxValue]
         /\ Truth(r, pos) \in Seq(0 .. MaxValue) /\ Len(Truth(r, pos)) = N
<1>1. Truth(r, pos) \in [1 .. N -> 0 .. MaxValue]
  BY TruthAssumption, DifferenceFacts
<1> QED
  BY <1>1, DifferenceFacts, FunctionIsSequence

\* The fields of a record, for counts that are right but for the last.
LEMMA RecordFields ==
  ASSUME NEW r \in Required, NEW counts \in [1 .. N -> 0 .. MaxValue]
  PROVE  LET record == Record(r, CpuTime(r), counts)
         IN  /\ record \in Seq(Field) \ {<<>>} /\ Len(record) = N + 3
             /\ record[1] = r[1] /\ record[2] = r[2] /\ record[3] = CpuTime(r)
             /\ \A i \in 4 .. N + 3 : record[i] = counts[i - 3]
<1> DEFINE head == <<r[1], r[2], CpuTime(r)>>
<1>1. head \in Seq(Field) /\ Len(head) = 3
  BY RangeFacts, CpuTimeAssumption DEF Field
<1>2. counts \in Seq(Field) /\ Len(counts) = N
  <2>1. N \in Nat /\ 0 .. MaxValue \subseteq Field
    BY DifferenceFacts, BaseAssumption DEF Field
  <2>2. counts \in [1 .. N -> Field]
    BY <2>1
  <2> QED
    BY <2>1, <2>2, FunctionIsSequence
<1>3. head[1] = r[1] /\ head[2] = r[2] /\ head[3] = CpuTime(r)
  OBVIOUS
<1>4. Record(r, CpuTime(r), counts) = head \o counts
  BY DEF Record
<1>5. N \in Nat
  BY DifferenceFacts
<1> HIDE DEF head
<1>6. /\ head \o counts \in Seq(Field) /\ Len(head \o counts) = N + 3
      /\ \A i \in 1 .. N + 3 : (head \o counts)[i] = IF i <= 3 THEN head[i] ELSE counts[i - 3]
  <2>1. /\ head \o counts \in Seq(Field)
        /\ Len(head \o counts) = Len(head) + Len(counts)
        /\ \A i \in 1 .. Len(head) + Len(counts) :
             (head \o counts)[i] = IF i <= Len(head) THEN head[i] ELSE counts[i - Len(head)]
    BY <1>1, <1>2, ConcatProperties
  <2>2. Len(head) = 3 /\ Len(counts) = N /\ Len(head) + Len(counts) = N + 3
    BY <1>1, <1>2, <1>5
  <2> QED
    BY <2>1, <2>2
<1>7. head \o counts # <<>>
  BY <1>5, <1>6
<1> QED
  BY <1>3, <1>4, <1>5, <1>6, <1>7

LEMMA TrueRecordFields ==
  ASSUME NEW r \in Required
  PROVE  /\ TrueRecord(r) \in Seq(Field) \ {<<>>} /\ Len(TrueRecord(r)) = N + 3
         /\ TrueRecord(r)[1] = r[1] /\ TrueRecord(r)[2] = r[2]
         /\ TrueRecord(r)[3] = CpuTime(r)
         /\ \A i \in 4 .. N + 3 : TrueRecord(r)[i] = Truth(r, r[2])[i - 3]
         /\ \A i \in 1 .. N + 3 : i # 3 => TrueRecord(r)[i] \in 0 .. MaxValue
<1>1. Truth(r, r[2]) \in [1 .. N -> 0 .. MaxValue]
  BY RangeFacts, TruthFacts
<1>2. /\ TrueRecord(r) \in Seq(Field) \ {<<>>} /\ Len(TrueRecord(r)) = N + 3
      /\ TrueRecord(r)[1] = r[1] /\ TrueRecord(r)[2] = r[2]
      /\ TrueRecord(r)[3] = CpuTime(r)
      /\ \A i \in 4 .. N + 3 : TrueRecord(r)[i] = Truth(r, r[2])[i - 3]
  BY <1>1, RecordFields DEF TrueRecord
<1>3. \A i \in 4 .. N + 3 : TrueRecord(r)[i] \in 0 .. MaxValue
  <2>1. \A i \in 4 .. N + 3 : i - 3 \in 1 .. N
    BY DifferenceFacts
  <2> QED
    BY <1>1, <1>2, <2>1
<1>4. \A i \in 1 .. N + 3 : i \in {1, 2, 3} \/ i \in 4 .. N + 3
  BY DifferenceFacts
<1> QED
  BY <1>2, <1>3, <1>4, RangeFacts

\* What a worker appends at the end of its range.
LEMMA RecordFits ==
  ASSUME NEW r \in Required, NEW counts \in [1 .. N -> 0 .. MaxValue],
         RightButLast(r, r[2], counts)
  PROVE  LET record == Record(r, CpuTime(r), counts)
         IN  /\ record \in Seq(Field) \ {<<>>} /\ Len(record) = N + 3
             /\ record[1] \in Nat
             /\ RestOfList(record, TrueRecord(r)) /\ EndsWith(record, r)
<1> DEFINE record == Record(r, CpuTime(r), counts)
           whole == TrueRecord(r)
<1>1. N \in Nat /\ N >= 1 /\ N + 3 >= 4
  BY DifferenceFacts
<1>2. /\ record \in Seq(Field) \ {<<>>} /\ Len(record) = N + 3
      /\ record[1] = r[1] /\ record[2] = r[2] /\ record[3] = CpuTime(r)
      /\ \A i \in 4 .. N + 3 : record[i] = counts[i - 3]
  BY RecordFields
<1>3. /\ whole \in Seq(Field) \ {<<>>} /\ Len(whole) = N + 3
      /\ whole[1] = r[1] /\ whole[2] = r[2] /\ whole[3] = CpuTime(r)
      /\ \A i \in 4 .. N + 3 : whole[i] = Truth(r, r[2])[i - 3]
      /\ \A i \in 1 .. N + 3 : i # 3 => whole[i] \in 0 .. MaxValue
  BY TrueRecordFields
<1>4. /\ \A i \in 1 .. N - 1 : counts[i] = Truth(r, r[2])[i]
      /\ counts[N] <= Truth(r, r[2])[N]
  BY DEF RightButLast, N
<1> HIDE DEF record, whole
<1>5. \A i \in 1 .. N + 2 : record[i] = whole[i]
  <2> TAKE i \in 1 .. N + 2
  <2>1. CASE i \in {1, 2, 3}
    BY <1>2, <1>3, <2>1
  <2>2. CASE i >= 4
    <3>1. i \in 4 .. N + 3 /\ i - 3 \in 1 .. N - 1
      BY <1>1, <2>2
    <3> QED
      BY <1>2, <1>3, <1>4, <3>1
  <2> QED
    BY <1>1, <2>1, <2>2
<1>6. record[N + 3] \in 0 .. whole[N + 3] /\ whole[N + 3] \in Nat
  <2>1. N + 3 \in 4 .. N + 3 /\ (N + 3) - 3 = N /\ N + 3 # 3 /\ N + 3 \in 1 .. N + 3 /\ N \in 1 .. N
    BY <1>1
  <2>2. record[N + 3] = counts[N] /\ whole[N + 3] = Truth(r, r[2])[N]
    BY <1>2, <1>3, <2>1
  <2>3. whole[N + 3] \in 0 .. MaxValue /\ counts[N] \in 0 .. MaxValue
    BY <1>3, <2>1
  <2> QED
    BY <1>4, <2>2, <2>3, BaseAssumption
<1>7. RestOfList(record, whole)
  <2>1. Rest(record[N + 3], whole[N + 3])
    BY <1>6 DEF Rest
  <2>2. \A i \in 1 .. N + 3 : i \in 1 .. N + 2 \/ i = N + 3
    BY <1>1
  <2> QED
    BY <1>1, <1>2, <1>3, <1>5, <2>1, <2>2 DEF RestOfList
<1>8. EndsWith(record, r)
  <2>1. Len(record) - Len(whole) = 0
    BY <1>1, <1>2, <1>3
  <2>2. \A i \in 2 .. N + 2 : record[0 + i] = whole[i]
    <3>1. \A i \in 2 .. N + 2 : 0 + i = i /\ i \in 1 .. N + 2
      BY <1>1
    <3> QED
      BY <1>5, <3>1
  <2>3. Len(whole) - 1 = N + 2
    BY <1>1, <1>3
  <2> QED
    BY <1>2, <1>3, <1>6, <2>1, <2>2, <2>3 DEF EndsWith, whole
<1> QED
  BY <1>2, <1>7, <1>8, RangeFacts DEF record, whole

-----------------------------------------------------------------------------
(* Reading a line *)

LEMMA FrontFacts ==
  ASSUME NEW S, NEW seq \in Seq(S), seq # <<>>
  PROVE  LET front == SubSeq(seq, 1, Len(seq) - 1)
         IN  /\ front \in Seq(S) /\ Len(front) = Len(seq) - 1
             /\ \A i \in 1 .. Len(seq) - 1 : front[i] = seq[i]
<1> DEFINE n == Len(seq) - 1
           front == SubSeq(seq, 1, n)
<1>1. n \in Nat /\ \A i \in 1 .. n : seq[i] \in S
  BY EmptySeq
<1> HIDE DEF n
<1>2. /\ front \in Seq(S)
      /\ Len(front) = IF 1 <= n THEN n - 1 + 1 ELSE 0
      /\ \A i \in 1 .. n - 1 + 1 : front[i] = seq[1 + i - 1]
  BY <1>1, SubSeqProperties
<1> HIDE DEF front
<1>3. Len(front) = n
  BY <1>1, <1>2
<1>4. \A i \in 1 .. n : i \in 1 .. n - 1 + 1 /\ 1 + i - 1 = i
  BY <1>1
<1>5. \A i \in 1 .. n : front[i] = seq[i]
  BY <1>2, <1>4
<1> QED
  BY <1>2, <1>3, <1>5 DEF front, n

LEMMA FieldsOfFacts ==
  ASSUME NEW text \in Seq(Field) \ {<<>>}
  PROVE  /\ FieldsOf(text) \in Seq(Field)
         /\ DOMAIN FieldsOf(text) = 1 .. Len(FieldsOf(text))
         /\ Len(text) \in Nat /\ Len(text) >= 1
         /\ text[Len(text)] # Nothing => FieldsOf(text) = text
         /\ text[Len(text)] = Nothing => Len(FieldsOf(text)) = Len(text) - 1
         /\ \A i \in 1 .. Len(FieldsOf(text)) :
              i \in 1 .. Len(text) /\ FieldsOf(text)[i] = text[i]
<1>1. Len(text) \in Nat /\ Len(text) >= 1
  BY EmptySeq
<1>2. CASE text[Len(text)] # Nothing
  BY <1>1, <1>2, LenProperties DEF FieldsOf
<1>3. CASE text[Len(text)] = Nothing
  <2> DEFINE f == SubSeq(text, 1, Len(text) - 1)
  <2>1. FieldsOf(text) = f
    BY <1>3 DEF FieldsOf
  <2>2. /\ f \in Seq(Field) /\ Len(f) = Len(text) - 1
        /\ \A i \in 1 .. Len(text) - 1 : f[i] = text[i]
    BY FrontFacts
  <2> HIDE DEF f
  <2> QED
    BY <1>1, <1>3, <2>1, <2>2
<1> QED
  BY <1>2, <1>3

\* What is left of a record is no reason to throw: every field of it is a number
\* that is not larger than the one it was, or the empty one nobody sees.
LEMMA RestDoesNotThrow ==
  ASSUME NEW r \in Required, NEW text \in Seq(Field) \ {<<>>}, RestOfList(text, TrueRecord(r))
  PROVE  Outcome(text) # "throws"
<1> DEFINE f == FieldsOf(text)
           whole == TrueRecord(r)
<1>1. /\ Len(whole) = N + 3 /\ N \in Nat
      /\ \A i \in 1 .. N + 3 : i # 3 => whole[i] \in 0 .. MaxValue
  BY TrueRecordFields, DifferenceFacts
<1>2. /\ Len(f) \in Nat /\ DOMAIN f = 1 .. Len(f)
      /\ Len(text) \in Nat /\ Len(text) >= 1
      /\ text[Len(text)] = Nothing => Len(f) = Len(text) - 1
      /\ \A i \in 1 .. Len(f) : i \in 1 .. Len(text) /\ f[i] = text[i]
  BY FieldsOfFacts
<1>3. /\ Len(text) <= N + 3
      /\ \A i \in 1 .. Len(text) :
           \/ text[i] = whole[i]
           \/ i = Len(text) /\ (Rest(text[i], whole[i]) \/ (i > 1 /\ text[i] = Nothing))
  BY <1>1 DEF RestOfList
<1>4. \A i \in 1 .. Len(f) : i # 3 => IsValue(f[i])
  <2> SUFFICES ASSUME NEW i \in 1 .. Len(f), i # 3
               PROVE  IsValue(f[i])
    OBVIOUS
  <2> HIDE DEF f, whole
  <2>1. i \in 1 .. Len(text) /\ f[i] = text[i] /\ i \in 1 .. N + 3
    BY <1>1, <1>2, <1>3
  <2>2. whole[i] \in 0 .. MaxValue /\ MaxValue \in Nat
    BY <1>1, <2>1, BaseAssumption
  <2>3. ~(i = Len(text) /\ text[i] = Nothing)
    BY <1>2
  <2>4. Rest(text[i], whole[i]) => text[i] \in 0 .. MaxValue
    BY <2>2, FieldAssumption DEF Rest
  <2> QED
    BY <1>3, <2>1, <2>2, <2>3, <2>4 DEF IsValue
<1> HIDE DEF f
<1>5. ~ \E i \in DOMAIN f : i <= 2 /\ ~IsValue(f[i])
  BY <1>2, <1>4
<1>6. ~ \E i \in DOMAIN f : i > 3 /\ ~IsValue(f[i])
  BY <1>2, <1>4
<1>7. ~(Len(f) < 3) => f[3] # OutOfRange
  <2> SUFFICES ASSUME ~(Len(f) < 3)
               PROVE  f[3] # OutOfRange
    OBVIOUS
  <2>1. 3 \in 1 .. Len(text) /\ f[3] = text[3]
    BY <1>2
  <2>2. whole[3] \in Nat \cup {Decimal}
    BY TrueRecordFields, CpuTimeAssumption
  <2> HIDE DEF whole
  <2>3. text[3] = whole[3] \/ Rest(text[3], whole[3]) \/ text[3] = Nothing
    BY <1>3, <2>1
  <2> QED
    BY <2>1, <2>2, <2>3, FieldAssumption DEF Rest
<1> QED
  BY <1>5, <1>6, <1>7 DEF Outcome, f

LEMMA AcceptedFacts ==
  ASSUME NEW text \in Seq(Field) \ {<<>>}, Outcome(text) = "accepted"
  PROVE  /\ Len(FieldsOf(text)) = N + 3
         /\ Len(text) \in Nat /\ Len(text) >= N + 3
         /\ RangeOf(text) \in Required
         /\ text[Len(text)] # Nothing => Len(text) = N + 3
<1> DEFINE f == FieldsOf(text)
<1>1. /\ Len(f) \in Nat /\ Len(text) \in Nat /\ Len(text) >= 1
      /\ \A i \in 1 .. Len(f) : i \in 1 .. Len(text) /\ f[i] = text[i]
      /\ text[Len(text)] # Nothing => f = text
      /\ text[Len(text)] = Nothing => Len(f) = Len(text) - 1
  BY FieldsOfFacts
<1>2. ~(Len(f) < 3) /\ <<f[1], f[2]>> \in Required /\ ~(Len(f) - 3 # Len(Differences))
  BY DEF Outcome
<1> HIDE DEF f
<1>3. Len(f) = N + 3
  BY <1>1, <1>2, DifferenceFacts DEF N
<1>4. 1 \in 1 .. Len(f) /\ 2 \in 1 .. Len(f)
  BY <1>1, <1>2
<1>5. f[1] = text[1] /\ f[2] = text[2]
  BY <1>1, <1>4
<1> QED
  BY <1>1, <1>2, <1>3, <1>5, DifferenceFacts DEF f, RangeOf

LEMMA CountsOfFacts ==
  ASSUME NEW text \in Seq(Field), Len(text) = N + 3
  PROVE  /\ Len(CountsOf(text)) = N
         /\ \A i \in 1 .. N : CountsOf(text)[i] = text[i + 3]
<1>1. N \in Nat /\ N >= 1
  BY DifferenceFacts
<1>2. \A i \in 4 .. N + 3 : text[i] \in Field
  BY <1>1
<1>3. CountsOf(text) = SubSeq(text, 4, N + 3)
  BY DEF CountsOf
<1>4. /\ Len(SubSeq(text, 4, N + 3)) = IF 4 <= N + 3 THEN N + 3 - 4 + 1 ELSE 0
      /\ \A i \in 1 .. N + 3 - 4 + 1 : SubSeq(text, 4, N + 3)[i] = text[4 + i - 1]
  BY <1>1, <1>2, SubSeqProperties
<1> QED
  BY <1>1, <1>3, <1>4

\* An accepted line that is what is left of a record has all fields of it.
LEMMA RestAccepted ==
  ASSUME NEW r \in Required, NEW text \in Seq(Field) \ {<<>>}, RestOfList(text, TrueRecord(r)),
         Outcome(text) = "accepted"
  PROVE  /\ RangeOf(text) = r
         /\ Len(text) = N + 3 /\ text[N + 3] # Nothing
         /\ RightButLast(r, r[2], CountsOf(text))
<1> DEFINE whole == TrueRecord(r)
<1>1. /\ Len(whole) = N + 3 /\ N \in Nat /\ N >= 1
      /\ whole[1] = r[1] /\ whole[2] = r[2]
      /\ \A i \in 4 .. N + 3 : whole[i] = Truth(r, r[2])[i - 3]
      /\ \A i \in 1 .. N + 3 : i # 3 => whole[i] \in 0 .. MaxValue
  BY TrueRecordFields, DifferenceFacts
<1>2. /\ Len(text) <= N + 3
      /\ \A i \in 1 .. Len(text) :
           \/ text[i] = whole[i]
           \/ i = Len(text) /\ (Rest(text[i], whole[i]) \/ (i > 1 /\ text[i] = Nothing))
  BY <1>1 DEF RestOfList
<1>3. Len(text) = N + 3 /\ text[N + 3] # Nothing
  <2>1. Len(FieldsOf(text)) = N + 3 /\ Len(text) \in Nat /\ Len(text) >= N + 3
    BY AcceptedFacts
  <2>2. text[Len(text)] = Nothing => Len(FieldsOf(text)) = Len(text) - 1
    BY FieldsOfFacts
  <2> QED
    BY <1>1, <1>2, <2>1, <2>2
<1> HIDE DEF whole
<1>4. \A i \in 1 .. N + 2 : text[i] = whole[i]
  BY <1>1, <1>2, <1>3
<1>5. RangeOf(text) = r
  <2>1. text[1] = r[1] /\ text[2] = r[2]
    BY <1>1, <1>4
  <2> QED
    BY <2>1, RangeFacts DEF RangeOf
<1>6. text[N + 3] <= Truth(r, r[2])[N]
  <2>1. N + 3 \in 4 .. N + 3 /\ N + 3 # 3 /\ (N + 3) - 3 = N /\ N + 3 \in 1 .. N + 3 /\ N + 3 \in 1 .. Len(text)
    BY <1>1, <1>3
  <2>2. whole[N + 3] = Truth(r, r[2])[N] /\ whole[N + 3] \in Nat
    BY <1>1, <2>1, BaseAssumption
  <2>3. text[N + 3] = whole[N + 3] \/ Rest(text[N + 3], whole[N + 3])
    BY <1>2, <1>3, <2>1
  <2> QED
    BY <2>2, <2>3, FieldAssumption DEF Rest
<1>7. /\ Len(CountsOf(text)) = N
      /\ \A i \in 1 .. N : CountsOf(text)[i] = text[i + 3]
  BY <1>3, CountsOfFacts
<1>8. \A i \in 1 .. N - 1 : CountsOf(text)[i] = Truth(r, r[2])[i]
  <2> TAKE i \in 1 .. N - 1
  <2>1. i \in 1 .. N /\ i + 3 \in 1 .. N + 2 /\ i + 3 \in 4 .. N + 3 /\ (i + 3) - 3 = i
    BY <1>1
  <2> QED
    BY <1>1, <1>4, <1>7, <2>1
<1>9. CountsOf(text)[N] <= Truth(r, r[2])[N]
  BY <1>1, <1>6, <1>7
<1> QED
  BY <1>3, <1>5, <1>7, <1>8, <1>9 DEF RightButLast, N

\* Conversely, a line that has all fields of a record is accepted.
LEMMA CompleteIsAccepted ==
  ASSUME NEW r \in Required, NEW text \in Seq(Field) \ {<<>>}, RestOfList(text, TrueRecord(r)),
         Len(text) = N + 3, text[N + 3] # Nothing
  PROVE  Outcome(text) = "accepted" /\ RangeOf(text) = r
<1>1. FieldsOf(text) = text /\ DOMAIN FieldsOf(text) = 1 .. N + 3
  BY FieldsOfFacts
<1>2. N \in Nat /\ N >= 1
  BY DifferenceFacts
<1>3. text[1] = r[1] /\ text[2] = r[2]
  <2>1. 1 \in 1 .. Len(text) /\ 2 \in 1 .. Len(text) /\ 1 # Len(text) /\ 2 # Len(text)
    BY <1>2
  <2> QED
    BY <2>1, TrueRecordFields DEF RestOfList
<1>4. <<text[1], text[2]>> = r
  BY <1>3, RangeFacts
<1>5. Outcome(text) # "throws"
  BY RestDoesNotThrow
<1>6. ~(Len(text) < 3) /\ ~(Len(text) - 3 # Len(Differences))
  BY <1>2 DEF N
<1> QED
  BY <1>1, <1>4, <1>5, <1>6 DEF Outcome, RangeOf

\* An accepted line that ends with a record is one of its range: there is nothing
\* before it that could make it one of another.
LEMMA EndAccepted ==
  ASSUME NEW r \in Required, NEW text \in Seq(Field) \ {<<>>}, EndsWith(text, r),
         Outcome(text) = "accepted"
  PROVE  RangeOf(text) = r /\ RightButLast(r, r[2], CountsOf(text))
<1> DEFINE whole == TrueRecord(r)
<1>1. /\ Len(whole) = N + 3 /\ N \in Nat /\ N >= 1
      /\ whole[1] = r[1] /\ whole[2] = r[2]
      /\ \A i \in 4 .. N + 3 : whole[i] = Truth(r, r[2])[i - 3]
      /\ \A i \in 1 .. N + 3 : i # 3 => whole[i] \in 0 .. MaxValue
  BY TrueRecordFields, DifferenceFacts
<1> HIDE DEF whole
<1>2. /\ \A i \in 2 .. N + 2 : text[(Len(text) - (N + 3)) + i] = whole[i]
      /\ text[Len(text)] \in 0 .. whole[N + 3]
  <2>1. Len(whole) - 1 = N + 2
    BY <1>1
  <2> QED
    BY <1>1, <2>1 DEF EndsWith, whole
<1>3. whole[N + 3] = Truth(r, r[2])[N] /\ whole[N + 3] \in Nat
  <2>1. N + 3 \in 4 .. N + 3 /\ N + 3 # 3 /\ (N + 3) - 3 = N /\ N + 3 \in 1 .. N + 3
    BY <1>1
  <2> QED
    BY <1>1, <2>1, BaseAssumption
<1>4. Len(text) = N + 3 /\ RangeOf(text) \in Required
  <2>1. text[Len(text)] # Nothing
    BY <1>2, <1>3, FieldAssumption
  <2> QED
    BY <2>1, AcceptedFacts
<1>5. \A i \in 2 .. N + 2 : text[i] = whole[i]
  <2>1. \A i \in 2 .. N + 2 : (Len(text) - (N + 3)) + i = i
    BY <1>1, <1>4
  <2> QED
    BY <1>2, <2>1
<1>6. RangeOf(text) = r
  <2>1. text[2] = r[2]
    BY <1>1, <1>5
  <2>2. RangeOf(text)[2] = r[2]
    BY <2>1 DEF RangeOf
  <2> QED
    BY <1>4, <2>2, RangeFacts
<1>7. /\ Len(CountsOf(text)) = N
      /\ \A i \in 1 .. N : CountsOf(text)[i] = text[i + 3]
  BY <1>4, CountsOfFacts
<1>8. \A i \in 1 .. N - 1 : CountsOf(text)[i] = Truth(r, r[2])[i]
  <2> TAKE i \in 1 .. N - 1
  <2>1. i \in 1 .. N /\ i + 3 \in 2 .. N + 2 /\ i + 3 \in 4 .. N + 3 /\ (i + 3) - 3 = i
    BY <1>1
  <2> QED
    BY <1>1, <1>5, <1>7, <2>1
<1>9. CountsOf(text)[N] <= Truth(r, r[2])[N]
  BY <1>1, <1>2, <1>3, <1>4, <1>7
<1> QED
  BY <1>6, <1>7, <1>8, <1>9 DEF RightButLast, N

-----------------------------------------------------------------------------
(* Cutting and glueing lines *)

\* A complete line that is left when a line is cut was complete before.
LEMMA CutAccepted ==
  ASSUME NEW r \in Required, NEW text \in Seq(Field) \ {<<>>}, RestOfList(text, TrueRecord(r)),
         NEW cut \in CutsOf(text), Outcome(cut) = "accepted"
  PROVE  /\ Outcome(text) = "accepted"
         /\ RangeOf(text) = r /\ RangeOf(cut) = r
<1>1. cut \in Seq(Field) \ {<<>>} /\ RestOfList(cut, text)
  BY CutsFit
<1>2. TrueRecord(r) \in Seq(Field) /\ Len(TrueRecord(r)) = N + 3
  BY TrueRecordFields
<1>3. RestOfList(cut, TrueRecord(r))
  BY <1>1, <1>2, RestOfListTransitive
<1>4. RangeOf(cut) = r /\ Len(cut) = N + 3 /\ cut[N + 3] # Nothing
  BY <1>1, <1>3, RestAccepted
<1>5. Len(text) = N + 3
  <2>1. Len(cut) <= Len(text) /\ Len(text) <= N + 3 /\ N \in Nat /\ Len(text) \in Nat
    BY <1>1, <1>2, DifferenceFacts DEF RestOfList
  <2> QED
    BY <1>4, <2>1
<1>6. text[N + 3] # Nothing
  <2>1. N + 3 \in 1 .. Len(cut)
    BY <1>4, DifferenceFacts
  <2>2. cut[N + 3] = text[N + 3] \/ Rest(cut[N + 3], text[N + 3])
    BY <1>1, <1>4, <2>1 DEF RestOfList
  <2> QED
    BY <1>4, <2>2, FieldAssumption DEF Rest
<1> QED
  BY <1>4, <1>5, <1>6, CompleteIsAccepted

LEMMA JoinedFacts ==
  ASSUME NEW left \in Field, NEW right \in Nat
  PROVE  Joined(left, right) \subseteq Field
<1>1. Width(right) \in 1 .. right + 1
  BY WidthFacts
<1>2. Width(right) \in Nat
  BY <1>1
<1>3. Power[Width(right)] \in Nat
  BY <1>2, PowerFacts
<1>4. \A a, b, c \in Nat : a * b + c \in Nat
  OBVIOUS
<1>5. left \in Nat => left * Power[Width(right)] + right \in Nat
  BY <1>3, <1>4
<1> QED
  BY <1>5 DEF Joined, Field

LEMMA GluedFacts ==
  ASSUME NEW left \in Seq(Field) \ {<<>>}, NEW right \in Seq(Field) \ {<<>>}, right[1] \in Nat,
         NEW line \in Glued(left, right)
  PROVE  /\ line \in Seq(Field) \ {<<>>}
         /\ Len(line) = Len(left) + Len(right) - 1
         /\ \A i \in 2 .. Len(right) : line[Len(left) - 1 + i] = right[i]
         /\ Len(left) > 1 => line[1] = left[1]
<1> DEFINE before == SubSeq(left, 1, Len(left) - 1)
<1>1. Len(left) \in Nat /\ Len(left) >= 1 /\ Len(right) \in Nat /\ Len(right) >= 1
  BY EmptySeq
<1>2. Head(right) = right[1] /\ left[Len(left)] \in Field
  BY <1>1
<1>3. PICK joint \in Joined(left[Len(left)], Head(right)) :
        line = (before \o <<joint>>) \o Tail(right)
  <2>1. left # <<>>
    OBVIOUS
  <2> QED
    BY <2>1 DEF Glued
<1>4. /\ before \in Seq(Field) /\ Len(before) = Len(left) - 1
  BY FrontFacts
<1>5. /\ Tail(right) \in Seq(Field) /\ Len(Tail(right)) = Len(right) - 1
      /\ \A i \in 1 .. Len(Tail(right)) : Tail(right)[i] = right[i + 1]
  BY HeadTailProperties
<1>6. joint \in Field
  BY <1>2, <1>3, JoinedFacts
<1> HIDE DEF before
<1>7. <<joint>> \in Seq(Field) /\ Len(<<joint>>) = 1
  BY <1>6
<1>8. /\ before \o <<joint>> \in Seq(Field)
      /\ Len(before \o <<joint>>) = Len(before) + Len(<<joint>>)
  BY <1>4, <1>7, ConcatProperties
<1>9. Len(before \o <<joint>>) = Len(left)
  BY <1>1, <1>4, <1>7, <1>8
<1> DEFINE front == before \o <<joint>>
           glued == front \o Tail(right)
<1>10. /\ glued \in Seq(Field)
       /\ Len(glued) = Len(left) + Len(Tail(right))
       /\ \A i \in 1 .. Len(left) + Len(Tail(right)) :
            glued[i] = IF i <= Len(left) THEN front[i] ELSE Tail(right)[i - Len(left)]
  <2>1. front \in Seq(Field) /\ Len(front) = Len(left)
    BY <1>8, <1>9
  <2> HIDE DEF front
  <2>2. /\ glued \in Seq(Field)
        /\ Len(glued) = Len(front) + Len(Tail(right))
        /\ \A i \in 1 .. Len(front) + Len(Tail(right)) :
             glued[i] = IF i <= Len(front) THEN front[i] ELSE Tail(right)[i - Len(front)]
    BY <1>5, <2>1, ConcatProperties
  <2> QED
    BY <2>1, <2>2
<1> HIDE DEF glued
<1>11. Len(glued) = Len(left) + Len(right) - 1 /\ glued # <<>>
  BY <1>1, <1>5, <1>10
<1>12. \A i \in 2 .. Len(right) : glued[Len(left) - 1 + i] = right[i]
  <2> TAKE i \in 2 .. Len(right)
  <2>1. /\ Len(left) - 1 + i \in 1 .. Len(left) + Len(Tail(right))
        /\ ~(Len(left) - 1 + i <= Len(left)) /\ (Len(left) - 1 + i) - Len(left) = i - 1
        /\ i - 1 \in 1 .. Len(Tail(right)) /\ (i - 1) + 1 = i
    BY <1>1, <1>5
  <2>2. glued[Len(left) - 1 + i] = Tail(right)[i - 1]
    BY <1>10, <2>1
  <2> QED
    BY <1>5, <2>1, <2>2
<1>13. ASSUME Len(left) > 1
       PROVE  glued[1] = left[1]
  <2>1. 1 \in 1 .. Len(left) + Len(Tail(right)) /\ 1 <= Len(left)
    BY <1>1, <1>5
  <2>2. glued[1] = front[1]
    BY <1>10, <2>1
  <2>3. 1 \in 1 .. Len(left) - 1
    BY <1>1, <1>13
  <2>4. before[1] = left[1]
    BY <2>3, FrontFacts DEF before
  <2>5. \A i \in 1 .. Len(before) + Len(<<joint>>) :
          front[i] = IF i <= Len(before) THEN before[i] ELSE <<joint>>[i - Len(before)]
    BY <1>4, <1>7, ConcatProperties
  <2>6. 1 <= Len(before) /\ 1 \in 1 .. Len(before) + Len(<<joint>>)
    BY <1>1, <1>4, <1>7, <2>3
  <2> QED
    BY <2>2, <2>4, <2>5, <2>6
<1> QED
  BY <1>3, <1>10, <1>11, <1>12, <1>13 DEF glued

\* A whole record stays at the end of the line it is written behind.
LEMMA GluedEndsWith ==
  ASSUME NEW r \in Required, NEW left \in Seq(Field) \ {<<>>},
         NEW record \in Seq(Field) \ {<<>>}, Len(record) = N + 3, record[1] \in Nat,
         EndsWith(record, r), NEW glued \in Glued(left, record)
  PROVE  EndsWith(glued, r)
<1> DEFINE whole == TrueRecord(r)
<1>1. Len(whole) = N + 3 /\ N \in Nat /\ N >= 1
  BY TrueRecordFields, DifferenceFacts
<1>2. Len(left) \in Nat /\ Len(left) >= 1
  BY EmptySeq
<1>3. /\ Len(glued) = Len(left) + (N + 3) - 1
      /\ \A i \in 2 .. N + 3 : glued[Len(left) - 1 + i] = record[i]
  <2>1. /\ Len(glued) = Len(left) + Len(record) - 1
        /\ \A i \in 2 .. Len(record) : glued[Len(left) - 1 + i] = record[i]
    BY GluedFacts
  <2> QED
    BY <2>1
<1> HIDE DEF whole
<1>4. /\ \A i \in 2 .. N + 2 : record[0 + i] = whole[i]
      /\ record[N + 3] \in 0 .. whole[N + 3]
  <2>1. Len(whole) - 1 = N + 2 /\ Len(record) - Len(whole) = 0
    BY <1>1
  <2> QED
    BY <1>1, <2>1 DEF EndsWith, whole
<1>5. Len(glued) - Len(whole) = Len(left) - 1 /\ Len(whole) - 1 = N + 2
      /\ Len(glued) = Len(left) - 1 + (N + 3) /\ N + 3 \in 2 .. N + 3 /\ Len(left) - 1 >= 0
  BY <1>1, <1>2, <1>3
<1>6. \A i \in 2 .. N + 2 : glued[Len(left) - 1 + i] = whole[i]
  <2>1. \A i \in 2 .. N + 2 : i \in 2 .. N + 3 /\ 0 + i = i
    BY <1>1
  <2> QED
    BY <1>3, <1>4, <2>1
<1>7. glued[Len(glued)] \in 0 .. whole[N + 3]
  BY <1>3, <1>4, <1>5
<1> QED
  BY <1>1, <1>5, <1>6, <1>7 DEF EndsWith, whole

-----------------------------------------------------------------------------
(* Reading a checkpoint file *)

LEMMA TrueFileEntries ==
  ASSUME NEW r \in Required, NEW pos \in Stops[r]
  PROVE  LET whole == TrueFile(r, pos)
         IN  /\ whole \in Seq(EntrySet) /\ Len(whole) = 7
             /\ whole[1] = Entry("start", <<r[1]>>) /\ whole[2] = Entry("end", <<r[2]>>)
             /\ whole[3] = Entry("differences", Differences)
             /\ whole[4] = Entry("current_position", <<pos>>)
             /\ whole[5] = Entry("current_counts", Truth(r, pos))
             /\ whole[6] = Entry("cpu_time", <<CpuTime(r)>>)
             /\ whole[7] = Entry("parameters", <<>>)
<1>1. /\ <<r[1]>> \in Seq(Field) /\ <<r[2]>> \in Seq(Field) /\ <<pos>> \in Seq(Field)
      /\ <<CpuTime(r)>> \in Seq(Field) /\ <<>> \in Seq(Field)
  BY RangeFacts, CpuTimeAssumption, EmptySeq DEF Field
<1>2. Truth(r, pos) \in Seq(Field)
  <2>1. 0 .. MaxValue \subseteq Field
    BY BaseAssumption DEF Field
  <2> QED
    BY <2>1, TruthFacts, SeqMonotonic
<1>3. /\ Entry("start", <<r[1]>>) \in EntrySet /\ Entry("end", <<r[2]>>) \in EntrySet
      /\ Entry("differences", Differences) \in EntrySet
      /\ Entry("current_position", <<pos>>) \in EntrySet
      /\ Entry("current_counts", Truth(r, pos)) \in EntrySet
      /\ Entry("cpu_time", <<CpuTime(r)>>) \in EntrySet
      /\ Entry("parameters", <<>>) \in EntrySet
  <2>1. {"start", "end", "differences", "current_position", "current_counts", "cpu_time",
         "parameters"} \subseteq Keys
    BY DEF Keys
  <2> QED
    BY <1>1, <1>2, <2>1, DifferenceFacts, EntryFacts
<1>4. \A e1, e2, e3, e4, e5, e6, e7 \in EntrySet :
        LET w == <<e1, e2, e3, e4, e5, e6, e7>>
        IN  /\ w \in Seq(EntrySet) /\ Len(w) = 7
            /\ w[1] = e1 /\ w[2] = e2 /\ w[3] = e3 /\ w[4] = e4 /\ w[5] = e5 /\ w[6] = e6
            /\ w[7] = e7
  OBVIOUS
<1> QED
  BY <1>3, <1>4 DEF TrueFile, FileText

LEMMA TrueFileKeys ==
  ASSUME NEW r \in Required, NEW pos \in Stops[r]
  PROVE  LET whole == TrueFile(r, pos)
         IN  /\ whole[1].key = "start" /\ whole[2].key = "end" /\ whole[3].key = "differences"
             /\ whole[4].key = "current_position" /\ whole[5].key = "current_counts"
             /\ whole[6].key = "cpu_time" /\ whole[7].key = "parameters"
             /\ \A i \in 1 .. 7 : whole[i].key # CutKey
             /\ \A i, j \in 1 .. 7 : whole[i].key = whole[j].key => i = j
<1> DEFINE whole == TrueFile(r, pos)
<1>0. /\ whole[1] = Entry("start", <<r[1]>>) /\ whole[2] = Entry("end", <<r[2]>>)
      /\ whole[3] = Entry("differences", Differences)
      /\ whole[4] = Entry("current_position", <<pos>>)
      /\ whole[5] = Entry("current_counts", Truth(r, pos))
      /\ whole[6] = Entry("cpu_time", <<CpuTime(r)>>)
      /\ whole[7] = Entry("parameters", <<>>)
  BY TrueFileEntries
<1> HIDE DEF whole
<1>1. /\ whole[1].key = "start" /\ whole[2].key = "end" /\ whole[3].key = "differences"
      /\ whole[4].key = "current_position" /\ whole[5].key = "current_counts"
      /\ whole[6].key = "cpu_time" /\ whole[7].key = "parameters"
  BY <1>0 DEF Entry
<1>2. \A i \in 1 .. 7 : i \in {1, 2, 3, 4, 5, 6, 7}
  OBVIOUS
<1>3. \A i \in 1 .. 7 : whole[i].key # CutKey
  BY <1>1, <1>2 DEF CutKey
<1>4. \A i, j \in 1 .. 7 : whole[i].key = whole[j].key => i = j
  BY <1>1, <1>2
<1> QED
  BY <1>1, <1>3, <1>4 DEF whole

\* No key is there twice: the list of a key is that of its entry.
LEMMA ListOfEntry ==
  ASSUME NEW text \in Seq(EntrySet), NEW i \in 1 .. Len(text),
         \A j \in 1 .. Len(text) : text[j].key = text[i].key => j = i
  PROVE  ListOf(text, text[i].key) = FieldsOf(text[i].list)
<1> DEFINE entries == {text[j] : j \in DOMAIN text}
           key == text[i].key
<1>1. DOMAIN text = 1 .. Len(text) /\ i \in DOMAIN text
  BY LenProperties
<1>2. text[i] \in entries
  BY <1>1
<1>3. \A entry \in entries : entry.key = key => entry = text[i]
  BY <1>1
<1>4. (CHOOSE entry \in entries : entry.key = key) = text[i]
  <2> HIDE DEF entries
  <2>1. \E entry \in entries : entry.key = key
    BY <1>2
  <2> QED
    BY <1>3, <2>1
<1>5. \E j \in DOMAIN text : text[j].key = key
  BY <1>1
<1> QED
  BY <1>4, <1>5 DEF ListOf

LEMMA PlainLists ==
  /\ FieldsOf(<<>>) = <<>>
  /\ \A n \in Nat : FieldsOf(<<n>>) = <<n>>
  /\ FieldsOf(Differences) = Differences
  /\ \A r \in Required : \A pos \in Stops[r] : FieldsOf(Truth(r, pos)) = Truth(r, pos)
<1>1. FieldsOf(<<>>) = <<>>
  BY DEF FieldsOf
<1>2. \A n \in Nat : FieldsOf(<<n>>) = <<n>>
  BY FieldAssumption DEF FieldsOf
<1>3. ASSUME NEW n \in Nat, NEW list \in [1 .. n -> 0 .. MaxValue], Len(list) = n
      PROVE  FieldsOf(list) = list
  <2>1. n # 0 => list[Len(list)] \in Nat
    BY <1>3, BaseAssumption
  <2>2. list # <<>> => n # 0
    BY <1>3
  <2> QED
    BY <2>1, <2>2, FieldAssumption DEF FieldsOf
<1>4. FieldsOf(Differences) = Differences
  BY <1>3, DifferencesAssumption, LenProperties
<1>5. \A r \in Required : \A pos \in Stops[r] : FieldsOf(Truth(r, pos)) = Truth(r, pos)
  BY <1>3, TruthFacts, DifferenceFacts
<1> QED
  BY <1>1, <1>2, <1>4, <1>5

\* A file that is there to its end is resumed from.
LEMMA TrueFileResumed ==
  ASSUME NEW r \in Required, NEW pos \in Stops[r]
  PROVE  LET text == TrueFile(r, pos)
         IN  /\ FileOutcome(text, r) = "resumed"
             /\ NumberOf(text, "current_position") = pos
             /\ ListOf(text, "current_counts") = Truth(r, pos)
<1> DEFINE text == TrueFile(r, pos)
<1>1. /\ text \in Seq(EntrySet) /\ Len(text) = 7 /\ DOMAIN text = 1 .. 7
      /\ text[1] = Entry("start", <<r[1]>>) /\ text[2] = Entry("end", <<r[2]>>)
      /\ text[3] = Entry("differences", Differences)
      /\ text[4] = Entry("current_position", <<pos>>)
      /\ text[5] = Entry("current_counts", Truth(r, pos))
      /\ text[6] = Entry("cpu_time", <<CpuTime(r)>>)
      /\ text[7] = Entry("parameters", <<>>)
  BY TrueFileEntries, LenProperties
<1>2. /\ text[1].key = "start" /\ text[2].key = "end" /\ text[3].key = "differences"
      /\ text[4].key = "current_position" /\ text[5].key = "current_counts"
      /\ text[6].key = "cpu_time" /\ text[7].key = "parameters"
      /\ \A i \in 1 .. 7 : text[i].key # CutKey
      /\ \A i, j \in 1 .. 7 : text[i].key = text[j].key => i = j
  BY TrueFileKeys
<1> HIDE DEF text
<1>3. /\ text[1].list = <<r[1]>> /\ text[2].list = <<r[2]>> /\ text[3].list = Differences
      /\ text[4].list = <<pos>> /\ text[5].list = Truth(r, pos)
      /\ text[6].list = <<CpuTime(r)>> /\ text[7].list = <<>>
  BY <1>1 DEF Entry
<1>4. /\ r[1] \in Nat /\ r[2] \in Nat /\ pos \in Nat
      /\ r[1] \in 0 .. MaxValue /\ r[2] \in 0 .. MaxValue /\ pos \in 0 .. MaxValue
      /\ r[1] < r[2] /\ r[1] <= pos /\ pos <= r[2] /\ r = <<r[1], r[2]>>
  BY RangeFacts
<1>5. /\ FieldsOf(text[1].list) = <<r[1]>> /\ FieldsOf(text[2].list) = <<r[2]>>
      /\ FieldsOf(text[3].list) = Differences /\ FieldsOf(text[4].list) = <<pos>>
      /\ FieldsOf(text[5].list) = Truth(r, pos) /\ FieldsOf(text[7].list) = <<>>
  BY <1>3, <1>4, PlainLists
<1>6. \A i \in 1 .. 7 : ListOf(text, text[i].key) = FieldsOf(text[i].list)
  BY <1>1, <1>2, ListOfEntry
<1>7. /\ ListOf(text, "start") = <<r[1]>> /\ ListOf(text, "end") = <<r[2]>>
      /\ ListOf(text, "differences") = Differences
      /\ ListOf(text, "current_position") = <<pos>>
      /\ ListOf(text, "current_counts") = Truth(r, pos)
  <2>1. 1 \in 1 .. 7 /\ 2 \in 1 .. 7 /\ 3 \in 1 .. 7 /\ 4 \in 1 .. 7 /\ 5 \in 1 .. 7
    OBVIOUS
  <2> QED
    BY <1>2, <1>5, <1>6, <2>1
<1>8. /\ NumberOf(text, "start") = r[1] /\ NumberOf(text, "end") = r[2]
      /\ NumberOf(text, "current_position") = pos
  BY <1>7 DEF NumberOf
<1>9. ~Terminates(text)
  <2> SUFFICES ASSUME NEW i \in 1 .. 7, text[i] = Entry("cpu_time", <<>>)
               PROVE  FALSE
    BY <1>1 DEF Terminates
  <2>1. text[i].key = "cpu_time" /\ text[i].list = <<>>
    BY DEF Entry
  <2>2. i = 6
    BY <1>2, <2>1
  <2>3. \A x : <<x>> # <<>>
    OBVIOUS
  <2> QED
    BY <1>3, <2>1, <2>2, <2>3
<1>10. ~Unparsable(text)
  <2> SUFFICES ASSUME NEW i \in 1 .. 7
               PROVE  LET f == FieldsOf(text[i].list)
                      IN  /\ text[i].key # CutKey
                          /\ text[i].key \in {"start", "end", "current_position"} => Len(f) = 1
                          /\ text[i].key # "cpu_time" => \A j \in DOMAIN f : IsValue(f[j])
    BY <1>1 DEF Unparsable
  <2>1. text[i].key # CutKey
    BY <1>2
  <2>2. text[i].key \in {"start", "end", "current_position"} => i \in {1, 2, 4}
    BY <1>2
  <2>3. i \in {1, 2, 4} => /\ Len(FieldsOf(text[i].list)) = 1
                           /\ DOMAIN FieldsOf(text[i].list) = 1 .. 1
                           /\ FieldsOf(text[i].list)[1] \in 0 .. MaxValue
    BY <1>4, <1>5
  <2>4. i \in {3, 5, 7} => \A j \in DOMAIN FieldsOf(text[i].list) :
                             FieldsOf(text[i].list)[j] \in 0 .. MaxValue
    <3>1. Differences \in [1 .. N -> 0 .. MaxValue]
      BY DifferencesAssumption, LenProperties DEF N
    <3>2. Truth(r, pos) \in [1 .. N -> 0 .. MaxValue]
      BY TruthFacts
    <3>3. \A j \in DOMAIN <<>> : <<>>[j] \in 0 .. MaxValue
      OBVIOUS
    <3>4. CASE i = 3
      BY <1>5, <3>1, <3>4
    <3>5. CASE i = 5
      BY <1>5, <3>2, <3>5
    <3>6. CASE i = 7
      BY <1>5, <3>3, <3>6
    <3> QED
      BY <3>4, <3>5, <3>6
  <2>5. i \in {1, 2, 3, 4, 5, 7} \/ text[i].key = "cpu_time"
    <3>1. i \in {1, 2, 3, 4, 5, 6, 7}
      OBVIOUS
    <3> QED
      BY <1>2, <3>1
  <2> QED
    BY <2>1, <2>2, <2>3, <2>4, <2>5 DEF IsValue
<1>11. Valid(text)
  <2>1. Len(Truth(r, pos)) = Len(Differences)
    BY TruthFacts DEF N
  <2>2. Differences # <<>> /\ \A i \in DOMAIN Differences : Differences[i] % 2 = 0
    BY DifferencesAssumption
  <2>3. pos \in r[1] .. r[2]
    BY <1>4
  <2> QED
    BY <1>4, <1>7, <1>8, <2>1, <2>2, <2>3 DEF Valid
<1>12. Matches(text, r)
  BY <1>4, <1>7, <1>8 DEF Matches
<1> QED
  BY <1>7, <1>8, <1>9, <1>10, <1>11, <1>12 DEF FileOutcome, text

\* The list of counts of a file that is resumed from is there, and what is left of
\* it is right but for its last count.
LEMMA RestOfCounts ==
  ASSUME NEW r \in Required, NEW pos \in Stops[r], NEW list \in Seq(Field),
         list = <<>> \/ RestOfList(list, Truth(r, pos)), Len(FieldsOf(list)) = N
  PROVE  /\ FieldsOf(list) \in [1 .. N -> 0 .. MaxValue]
         /\ RightButLast(r, pos, FieldsOf(list))
<1> DEFINE whole == Truth(r, pos)
<1>1. N \in Nat /\ N >= 1 /\ MaxValue \in Nat
  BY DifferenceFacts, BaseAssumption
<1>2. whole \in [1 .. N -> 0 .. MaxValue] /\ Len(whole) = N
  BY TruthFacts
<1>3. list # <<>>
  BY <1>1, PlainLists, EmptySeq
<1>4. /\ Len(list) \in Nat /\ Len(list) <= N
      /\ \A i \in 1 .. Len(list) :
           \/ list[i] = whole[i]
           \/ i = Len(list) /\ (Rest(list[i], whole[i]) \/ (i > 1 /\ list[i] = Nothing))
  BY <1>2, <1>3 DEF RestOfList
<1> HIDE DEF whole
<1>5. Len(list) = N /\ list[N] # Nothing /\ FieldsOf(list) = list
  <2>1. /\ list[Len(list)] # Nothing => FieldsOf(list) = list
        /\ list[Len(list)] = Nothing => Len(FieldsOf(list)) = Len(list) - 1
    BY <1>3, FieldsOfFacts
  <2> QED
    BY <1>1, <1>4, <2>1
<1>6. \A i \in 1 .. N - 1 : list[i] = whole[i]
  BY <1>1, <1>4, <1>5
<1>7. list[N] \in 0 .. whole[N] /\ whole[N] \in 0 .. MaxValue
  <2>1. N \in 1 .. N
    BY <1>1
  <2>2. whole[N] \in 0 .. MaxValue
    BY <1>2, <2>1
  <2>3. list[N] = whole[N] \/ Rest(list[N], whole[N])
    BY <1>4, <1>5, <2>1
  <2> QED
    BY <1>1, <2>2, <2>3, FieldAssumption DEF Rest
<1>8. list \in [1 .. N -> 0 .. MaxValue]
  <2>1. list \in [1 .. N -> Field]
    BY <1>5, LenProperties
  <2>2. \A i \in 1 .. N : list[i] \in 0 .. MaxValue
    <3> TAKE i \in 1 .. N
    <3>1. i \in 1 .. N - 1 \/ i = N
      BY <1>1
    <3>2. list[N] \in 0 .. MaxValue
      BY <1>1, <1>7
    <3> QED
      BY <1>2, <1>6, <3>1, <3>2
  <2> QED
    BY <2>1, <2>2
<1>9. list[N] <= whole[N]
  BY <1>1, <1>7
<1> QED
  BY <1>5, <1>6, <1>8, <1>9 DEF RightButLast, N, whole

LEMMA RestOfFileResumed ==
  ASSUME NEW r \in Required, NEW pos \in Stops[r], NEW text \in Seq(EntrySet),
         RestOfFile(text, TrueFile(r, pos)), FileOutcome(text, r) = "resumed"
  PROVE  /\ NumberOf(text, "current_position") = pos
         /\ ListOf(text, "current_counts") \in [1 .. N -> 0 .. MaxValue]
         /\ RightButLast(r, pos, ListOf(text, "current_counts"))
<1> DEFINE whole == TrueFile(r, pos)
<1>1. /\ whole \in Seq(EntrySet) /\ Len(whole) = 7
      /\ whole[4] = Entry("current_position", <<pos>>)
      /\ whole[5] = Entry("current_counts", Truth(r, pos))
      /\ whole[3] = Entry("differences", Differences)
  BY TrueFileEntries
<1>2. /\ whole[3].key = "differences" /\ whole[4].key = "current_position"
      /\ whole[5].key = "current_counts"
      /\ \A i, j \in 1 .. 7 : whole[i].key = whole[j].key => i = j
  BY TrueFileKeys
<1>3. /\ Len(text) \in Nat /\ Len(text) <= 7 /\ DOMAIN text = 1 .. Len(text)
      /\ \A i \in 1 .. Len(text) :
           text[i] = whole[i] \/ (i = Len(text) /\ RestOfEntry(text[i], whole[i]))
  BY <1>1, LenProperties DEF RestOfFile
<1> HIDE DEF whole
<1>a. \A n \in Nat : /\ n <= 7 => \A i \in 1 .. n : i \in 1 .. 7
                     /\ n >= 5 => /\ 3 \in 1 .. n /\ 4 \in 1 .. n /\ 5 \in 1 .. n
                                  /\ 3 # n /\ 4 # n
  OBVIOUS
<1>b. \A i \in 1 .. Len(text) : i \in 1 .. 7 /\ text[i].list \in Seq(Field)
  <2> TAKE i \in 1 .. Len(text)
  <2>1. text[i] \in EntrySet
    BY ElementOfSeq
  <2> QED
    BY <1>3, <1>a, <2>1 DEF EntrySet
<1>4. ~Unparsable(text) /\ Valid(text)
  BY DEF FileOutcome
<1>5. \A i \in 1 .. Len(text) : text[i].key = whole[i].key
  <2> TAKE i \in 1 .. Len(text)
  <2>1. text[i].key # CutKey
    BY <1>3, <1>4 DEF Unparsable
  <2> QED
    BY <1>3, <2>1 DEF RestOfEntry
<1>6. \A i \in 1 .. Len(text) : ListOf(text, whole[i].key) = FieldsOf(text[i].list)
  <2> TAKE i \in 1 .. Len(text)
  <2>1. \A j \in 1 .. Len(text) : text[j].key = text[i].key => j = i
    BY <1>2, <1>b, <1>5
  <2> QED
    BY <1>5, <2>1, ListOfEntry
<1>7. /\ ListOf(text, "differences") # <<>>
      /\ Len(ListOf(text, "differences")) = Len(ListOf(text, "current_counts"))
  BY <1>4 DEF Valid
<1>8. Len(text) >= 5
  <2> SUFFICES ASSUME ~(Len(text) >= 5)
               PROVE  FALSE
    OBVIOUS
  <2>1. \A i \in DOMAIN text : text[i].key # "current_counts"
    <3> SUFFICES ASSUME NEW i \in 1 .. Len(text), text[i].key = "current_counts"
                 PROVE  FALSE
      BY <1>3
    <3>1. i \in 1 .. 7 /\ 5 \in 1 .. 7 /\ i # 5
      <4>1. \A n \in Nat : n < 5 => \A k \in 1 .. n : k # 5
        OBVIOUS
      <4>2. Len(text) \in Nat /\ Len(text) < 5
        <5>1. Len(text) \in Nat
          BY <1>3
        <5>2. \A n \in Nat : ~(n >= 5) => n < 5
          OBVIOUS
        <5> QED
          BY <5>1, <5>2
      <4>3. i # 5
        BY <4>1, <4>2
      <4>4. i \in 1 .. 7
        BY <1>b
      <4> QED
        BY <4>3, <4>4
    <3> QED
      BY <1>2, <1>5, <3>1
  <2>2. ListOf(text, "current_counts") = <<>>
    BY <2>1 DEF ListOf
  <2>3. Len(ListOf(text, "differences")) = 0
    BY <1>7, <2>2
  <2>4. ListOf(text, "differences") = <<>>
    <3>1. CASE 3 \in 1 .. Len(text)
      <4>1. text[3].list \in Seq(Field)
        BY <1>b, <3>1
      <4>2. ListOf(text, "differences") = FieldsOf(text[3].list)
        BY <1>2, <1>6, <3>1
      <4>3. FieldsOf(text[3].list) \in Seq(Field)
        BY <4>1, PlainLists, FieldsOfFacts
      <4> QED
        BY <2>3, <4>2, <4>3, EmptySeq
    <3>2. CASE 3 \notin 1 .. Len(text)
      <4>1. \A i \in DOMAIN text : text[i].key # "differences"
        <5> SUFFICES ASSUME NEW i \in 1 .. Len(text), text[i].key = "differences"
                     PROVE  FALSE
          BY <1>3
        <5>1. i \in 1 .. 7 /\ 3 \in 1 .. 7 /\ i # 3
          BY <1>b, <3>2
        <5> QED
          BY <1>2, <1>5, <5>1
      <4> QED
        BY <4>1 DEF ListOf
    <3> QED
      BY <3>1, <3>2
  <2> QED
    BY <1>7, <2>4
<1>9. 3 \in 1 .. Len(text) /\ 4 \in 1 .. Len(text) /\ 5 \in 1 .. Len(text)
      /\ 3 # Len(text) /\ 4 # Len(text)
  BY <1>3, <1>8, <1>a
<1>10. text[3] = whole[3] /\ text[4] = whole[4]
  BY <1>3, <1>9
<1>11. text[3].list = Differences /\ text[4].list = <<pos>>
  BY <1>1, <1>10 DEF Entry
<1>12. NumberOf(text, "current_position") = pos
  <2>1. ListOf(text, "current_position") = FieldsOf(<<pos>>)
    BY <1>2, <1>6, <1>9, <1>11
  <2>2. FieldsOf(<<pos>>) = <<pos>>
    BY RangeFacts, PlainLists
  <2> QED
    BY <2>1, <2>2 DEF NumberOf
<1>13. ListOf(text, "current_counts") = FieldsOf(text[5].list)
  BY <1>2, <1>6, <1>9
<1>14. Len(FieldsOf(text[5].list)) = N
  <2>1. ListOf(text, "differences") = Differences
    BY <1>2, <1>6, <1>9, <1>11, PlainLists
  <2> QED
    BY <1>7, <1>13, <2>1 DEF N
<1>15. text[5].list = <<>> \/ RestOfList(text[5].list, Truth(r, pos))
  <2>1. whole[5].list = Truth(r, pos)
    BY <1>1 DEF Entry
  <2>2. text[5] = whole[5] \/ RestOfEntry(text[5], whole[5])
    BY <1>3, <1>9
  <2>3. RestOfList(Truth(r, pos), Truth(r, pos))
    BY TruthFacts, DifferenceFacts DEF RestOfList
  <2> QED
    BY <2>1, <2>2, <2>3 DEF RestOfEntry
<1>16. text[5].list \in Seq(Field)
  BY <1>9, <1>b
<1> QED
  BY <1>12, <1>13, <1>14, <1>15, <1>16, RestOfCounts

-----------------------------------------------------------------------------
(* The journal after a step *)

\* The first k lines are kept, and there is at most one line behind them.
Kept(k) ==
  /\ k \in 0 .. Len(journal)
  /\ journal' \in Seq(LineSet) /\ Len(journal') \in {k, k + 1}
  /\ \A i \in 1 .. k : journal'[i] = journal[i]
  /\ Len(journal') = k + 1 => \A i \in 1 .. k : journal[i].ended

LEMMA LineFacts ==
  ASSUME NEW l \in LineSet
  PROVE  /\ l.text \in Seq(Field) \ {<<>>} /\ l.ended \in BOOLEAN
         /\ l.pieces \in Nat /\ l.pieces >= 1
BY DEF LineSet

LEMMA JournalFacts ==
  ASSUME IInv
  PROVE  /\ journal \in Seq(LineSet) /\ Len(journal) \in Nat /\ DOMAIN journal = 1 .. Len(journal)
         /\ \A i \in 1 .. Len(journal) : /\ journal[i] \in LineSet /\ LineOK(journal[i])
                                         /\ journal[i].ended \/ i = Len(journal)
         /\ Lines = {journal[i] : i \in 1 .. Len(journal)}
<1>1. journal \in Seq(LineSet)
  BY DEF IInv, LinesOK
<1>2. Len(journal) \in Nat /\ DOMAIN journal = 1 .. Len(journal)
  BY <1>1, LenProperties
<1>3. \A i \in 1 .. Len(journal) : journal[i] \in LineSet
  BY <1>1, ElementOfSeq
<1>4. \A i \in 1 .. Len(journal) : journal[i].ended \/ i = Len(journal)
  BY <1>2 DEF IInv, TypeOK
<1>5. \A i \in 1 .. Len(journal) : LineOK(journal[i])
  BY <1>2 DEF IInv, LinesOK
<1>6. Lines = {journal[i] : i \in 1 .. Len(journal)}
  BY <1>2 DEF Lines
<1> QED
  BY <1>1, <1>2, <1>3, <1>4, <1>5, <1>6

LEMMA SoundIndices ==
  ASSUME IInv
  PROVE  \A j \in Sound : j \in Nat
<1> SUFFICES ASSUME NEW j \in Sound
             PROVE  j \in Nat
  OBVIOUS
<1>1. j \in DOMAIN journal
  BY DEF Sound, MatchingLines
<1>2. Len(journal) \in Nat /\ j \in 1 .. Len(journal)
  BY <1>1, JournalFacts
<1> QED
  BY <1>2

LEMMA LineOKAfter ==
  ASSUME NEW l \in LineSet, LineOK(l), tears \in Nat, tears' \in Nat, tears <= tears'
  PROVE  LineOK(l)'
<1>1. l.pieces <= (IF l.ended THEN tears' + 1 ELSE tears')
  <2>1. l.pieces \in Nat
    BY LineFacts
  <2>2. l.pieces <= (IF l.ended THEN tears + 1 ELSE tears)
    BY DEF LineOK
  <2> QED
    BY <2>1, <2>2
<1>2. /\ l.pieces = 1 => \E r \in Required : RestOfList(l.text, TrueRecord(r))
      /\ l.ended => \E r \in Required : EndsWith(l.text, r)
  BY DEF LineOK
<1> QED
  BY <1>1, <1>2 DEF LineOK

LEMMA SoundFacts ==
  ASSUME DOMAIN journal = 1 .. Len(journal)
  PROVE  \A i : i \in Sound <=> /\ i \in 1 .. Len(journal)
                                /\ Outcome(journal[i].text) = "accepted"
                                /\ SoundLine(journal[i])
BY DEF Sound, MatchingLines

\* What has to be said of the line behind the kept ones.
LEMMA KeptLines ==
  ASSUME IInv, NEW k, Kept(k), tears' \in Nat, tears <= tears', NEW l, 
         Len(journal') = k + 1 =>
           /\ journal'[k + 1] = l
           /\ LineOK(l)'
           /\ tears' = 0 => \E r \in Required : l.text = TrueRecord(r)
           /\ Outcome(l.text) = "accepted" /\ SoundLine(l) =>
                \A i \in Sound : i <= k => RangeOf(journal[i].text) # RangeOf(l.text)
  PROVE  /\ LinesOK' /\ OneSoundLine'
         /\ \A i \in DOMAIN journal' : /\ journal'[i].pieces \in Nat \ {0}
                                       /\ journal'[i].ended \/ i = Len(journal')
<1>1. /\ journal \in Seq(LineSet) /\ Len(journal) \in Nat /\ DOMAIN journal = 1 .. Len(journal)
      /\ \A i \in 1 .. Len(journal) : /\ journal[i] \in LineSet /\ LineOK(journal[i])
                                      /\ journal[i].ended \/ i = Len(journal)
  BY JournalFacts
<1>2. /\ journal' \in Seq(LineSet) /\ DOMAIN journal' = 1 .. Len(journal')
      /\ \A i \in 1 .. Len(journal') : journal'[i] \in LineSet
  BY LenProperties, ElementOfSeq DEF Kept
<1>3. k \in Nat /\ k <= Len(journal) /\ (Len(journal') = k \/ Len(journal') = k + 1)
  <2>1. k \in 0 .. Len(journal) /\ Len(journal') \in {k, k + 1}
    BY DEF Kept
  <2>2. Len(journal) \in Nat
    BY <1>1
  <2> QED
    BY <2>1, <2>2
<1>4. \A i \in 1 .. Len(journal') :
        \/ i \in 1 .. k /\ i \in 1 .. Len(journal) /\ journal'[i] = journal[i]
        \/ i = k + 1 /\ Len(journal') = k + 1 /\ journal'[i] = l
  <2> TAKE i \in 1 .. Len(journal')
  <2>1. \/ i \in 1 .. k /\ i \in 1 .. Len(journal)
        \/ i = k + 1 /\ Len(journal') = k + 1
    <3>1. \A n, m, j \in Nat : n <= m /\ (j = n \/ j = n + 1) =>
            \A x \in 1 .. j : (x \in 1 .. n /\ x \in 1 .. m) \/ (x = n + 1 /\ j = n + 1)
      OBVIOUS
    <3>2. k \in Nat /\ Len(journal) \in Nat /\ Len(journal') \in Nat
      <4>1. Len(journal') \in Nat
        BY <1>2, LenProperties
      <4>2. k \in Nat
        BY <1>3
      <4>3. Len(journal) \in Nat
        BY <1>1
      <4> QED
        BY <4>1, <4>2, <4>3
    <3> QED
      BY <1>3, <3>1, <3>2
  <2> QED
    BY <2>1 DEF Kept
<1>5. tears \in Nat
  BY DEF IInv, TypeOK
<1>6. \A i \in DOMAIN journal' : /\ journal'[i].pieces \in Nat \ {0}
                                 /\ journal'[i].ended \/ i = Len(journal')
  <2> SUFFICES ASSUME NEW i \in 1 .. Len(journal')
               PROVE  journal'[i].pieces \in Nat \ {0} /\ (journal'[i].ended \/ i = Len(journal'))
    BY <1>2
  <2>1. journal'[i].pieces \in Nat \ {0}
    <3>1. journal'[i] \in LineSet
      BY <1>2
    <3>2. journal'[i].pieces \in Nat /\ journal'[i].pieces >= 1
      BY <3>1, LineFacts
    <3> QED
      BY <3>2
  <2>2. CASE Len(journal') = k + 1
    <3>1. \A j \in 1 .. k : journal'[j].ended
      BY <2>2 DEF Kept
    <3> QED
      BY <1>4, <2>1, <2>2, <3>1
  <2>3. CASE Len(journal') = k
    <3>1. i \in 1 .. k
      BY <2>3
    <3>2. i # k => i # Len(journal) /\ i \in 1 .. Len(journal)
      BY <1>3, <3>1
    <3>3. journal'[i] = journal[i]
      BY <3>1 DEF Kept
    <3> QED
      BY <1>1, <2>1, <2>3, <3>2, <3>3
  <2> QED
    BY <1>3, <2>2, <2>3
<1>7. LinesOK'
  <2>1. \A i \in DOMAIN journal' : LineOK(journal[i])'
    <3> SUFFICES ASSUME NEW i \in 1 .. Len(journal')
                 PROVE  LineOK(journal[i])'
      BY <1>2
    <3>1. CASE i \in 1 .. Len(journal) /\ journal'[i] = journal[i]
      <4>1. PICK line : line = journal[i]
        OBVIOUS
      <4>2. line \in LineSet /\ LineOK(line)
        BY <1>1, <3>1, <4>1
      <4>3. LineOK(line)'
        BY <1>5, <4>2, LineOKAfter
      <4> QED
        BY <3>1, <4>1, <4>3
    <3>2. CASE Len(journal') = k + 1 /\ journal'[i] = l
      BY <3>2
    <3> QED
      BY <1>4, <3>1, <3>2
  <2>2. \A i \in DOMAIN journal' :
          tears' = 0 => \E r \in Required : journal'[i].text = TrueRecord(r)
    <3> SUFFICES ASSUME NEW i \in 1 .. Len(journal'), tears' = 0
                 PROVE  \E r \in Required : journal'[i].text = TrueRecord(r)
      BY <1>2
    <3>1. tears = 0
      BY <1>5
    <3>2. \A j \in 1 .. Len(journal) : \E r \in Required : journal[j].text = TrueRecord(r)
      BY <1>1, <3>1 DEF IInv, LinesOK
    <3> QED
      BY <1>4, <3>2
  <2> QED
    BY <1>2, <2>1, <2>2 DEF LinesOK
<1>8. OneSoundLine'
  <2>1. \A i : i \in Sound' <=> /\ i \in 1 .. Len(journal')
                                /\ Outcome(journal'[i].text) = "accepted"
                                /\ SoundLine(journal'[i])
    BY <1>2 DEF Sound, MatchingLines, SoundLine
  <2>2. \A i \in Sound' : \/ i \in Sound /\ i <= k /\ journal'[i] = journal[i]
                          \/ /\ i = k + 1 /\ Len(journal') = k + 1 /\ journal'[i] = l
                             /\ Outcome(l.text) = "accepted" /\ SoundLine(l)
    BY <1>1, <1>3, <1>4, <2>1, SoundFacts
  <2>3. \A i, j \in Sound : RangeOf(journal[i].text) = RangeOf(journal[j].text) => i = j
    BY DEF IInv, OneSoundLine
  <2> SUFFICES ASSUME NEW i \in Sound', NEW j \in Sound',
                      RangeOf(journal'[i].text) = RangeOf(journal'[j].text)
               PROVE  i = j
    BY DEF OneSoundLine
  <2> QED
    BY <2>2, <2>3
<1> QED
  BY <1>6, <1>7, <1>8

LEMMA NewLine ==
  ASSUME NEW text \in Seq(Field) \ {<<>>}, NEW ended \in BOOLEAN, NEW pieces \in Nat \ {0}
  PROVE  LET l == Line(text, ended, pieces)
         IN  l \in LineSet /\ l.text = text /\ l.ended = ended /\ l.pieces = pieces
BY DEF Line, LineSet

\* A line that is not behind an unfinished one, or is glued to it.
Alone(l, k, text) == k = Len(journal) /\ l.text = text /\ l.pieces = 1

GluedTo(left, l, k, text) ==
  /\ k = Len(journal) - 1 /\ left = journal[k + 1] /\ k + 1 \in 1 .. Len(journal)
  /\ ~left.ended /\ left.pieces <= tears
  /\ l.text \in Glued(left.text, text) /\ l.pieces = left.pieces + 1

LEMMA AppendedFacts ==
  ASSUME IInv, NEW text \in Seq(Field) \ {<<>>}, text[1] \in Nat, NEW ended \in BOOLEAN,
         journal' \in Appended(text, ended)
  PROVE  \E k : \E l \in LineSet :
           /\ Kept(k) /\ Len(journal') = k + 1 /\ journal'[k + 1] = l /\ l.ended = ended
           /\ Alone(l, k, text) \/ \E left \in LineSet : GluedTo(left, l, k, text)
<1> DEFINE last == journal[Len(journal)]
<1>1. /\ journal \in Seq(LineSet) /\ Len(journal) \in Nat
      /\ \A i \in 1 .. Len(journal) : /\ journal[i] \in LineSet /\ LineOK(journal[i])
                                      /\ journal[i].ended \/ i = Len(journal)
  BY JournalFacts
<1>2. CASE journal # <<>> /\ ~last.ended
  <2>1. Len(journal) \in 1 .. Len(journal) /\ Len(journal) >= 1
    BY <1>1, <1>2, EmptySeq
  <2>2. PICK left \in LineSet : left = last /\ LineOK(left) /\ ~left.ended
    BY <1>1, <1>2, <2>1
  <2>3. left.text \in Seq(Field) \ {<<>>} /\ left.pieces \in Nat /\ left.pieces >= 1
    BY LineFacts
  <2>4. left.pieces <= tears
    BY <2>2 DEF LineOK
  <2> DEFINE k == Len(journal) - 1
             before == SubSeq(journal, 1, k)
  <2>5. Unended = left /\ EndedLines = before
    BY <1>2, <2>2 DEF Unended, EndedLines
  <2>line. PICK line \in Glued(left.text, text) :
           journal' = Append(before, Line(line, ended, left.pieces + 1))
    BY <2>5 DEF Appended
  <2> DEFINE l == Line(line, ended, left.pieces + 1)
  <2>6. journal' = Append(before, l)
    BY <2>line
  <2>7. /\ l \in LineSet /\ l.text \in Glued(left.text, text) /\ l.ended = ended
        /\ l.pieces = left.pieces + 1
    <3>1. line \in Seq(Field) \ {<<>>}
      BY <2>3, GluedFacts
    <3>2. left.pieces + 1 \in Nat \ {0}
      BY <2>3
    <3> QED
      BY <3>1, <3>2, NewLine
  <2>8. before \in Seq(LineSet) /\ Len(before) = k /\ \A i \in 1 .. k : before[i] = journal[i]
    BY <1>1, <1>2, FrontFacts
  <2>9. k \in Nat /\ k + 1 = Len(journal) /\ k \in 0 .. Len(journal)
    BY <1>1, <2>1
  <2> HIDE DEF before, l, k
  <2>10. /\ journal' \in Seq(LineSet) /\ Len(journal') = k + 1 /\ journal'[k + 1] = l
         /\ \A i \in 1 .. k : journal'[i] = journal[i]
    BY <2>6, <2>7, <2>8, <2>9, AppendProperties
  <2>11. \A i \in 1 .. k : journal[i].ended
    BY <1>1, <2>9
  <2>12. Kept(k)
    BY <2>9, <2>10, <2>11 DEF Kept
  <2>13. GluedTo(left, l, k, text)
    BY <2>1, <2>2, <2>4, <2>7, <2>9 DEF GluedTo, k
  <2> QED
    BY <2>7, <2>10, <2>12, <2>13
<1>3. CASE ~(journal # <<>> /\ ~last.ended)
  <2> DEFINE k == Len(journal)
             l == Line(text, ended, 1)
  <2>1. EndedLines = journal
    BY <1>3 DEF EndedLines
  <2>2. journal' = Append(journal, l)
    <3>1. Unended = Line(<<>>, FALSE, 0)
      BY <1>3 DEF Unended
    <3>2. Unended.text = <<>> /\ Unended.pieces = 0
      BY <3>1 DEF Line
    <3>3. Glued(Unended.text, text) = {text}
      BY <3>2 DEF Glued
    <3>4. Unended.pieces + 1 = 1
      BY <3>2
    <3> QED
      BY <2>1, <3>3, <3>4 DEF Appended
  <2>3. l \in LineSet /\ l.text = text /\ l.ended = ended /\ l.pieces = 1
    BY NewLine
  <2>4. k \in Nat /\ k \in 0 .. Len(journal)
    BY <1>1
  <2>5. \A i \in 1 .. k : journal[i].ended
    <3> SUFFICES ASSUME NEW i \in 1 .. k
                 PROVE  journal[i].ended
      OBVIOUS
    <3>1. journal # <<>>
      BY <1>1, EmptySeq
    <3> QED
      BY <1>1, <1>3, <3>1
  <2> HIDE DEF l, k
  <2>6. /\ journal' \in Seq(LineSet) /\ Len(journal') = k + 1 /\ journal'[k + 1] = l
        /\ \A i \in 1 .. k : journal'[i] = journal[i]
    BY <1>1, <2>2, <2>3, AppendProperties DEF k
  <2>7. Kept(k)
    BY <2>4, <2>5, <2>6 DEF Kept
  <2>8. Alone(l, k, text)
    BY <2>3 DEF Alone, k
  <2> QED
    BY <2>3, <2>6, <2>7, <2>8
<1> QED
  BY <1>2, <1>3

LEMMA JournalCutsFacts ==
  ASSUME IInv, journal' \in JournalCuts
  PROVE  \E k \in Nat :
           /\ Kept(k)
           /\ k + 1 \in 1 .. Len(journal)
           /\ Len(journal') = k + 1 =>
                \E cut \in CutsOf(journal[k + 1].text) :
                  journal'[k + 1] = Line(cut, FALSE, journal[k + 1].pieces)
<1>1. /\ journal \in Seq(LineSet) /\ Len(journal) \in Nat /\ DOMAIN journal = 1 .. Len(journal)
      /\ \A i \in 1 .. Len(journal) : /\ journal[i] \in LineSet
                                      /\ journal[i].ended \/ i = Len(journal)
  BY JournalFacts
<1>2. PICK i \in 1 .. Len(journal) :
        \/ journal' = SubSeq(journal, 1, i - 1)
        \/ \E cut \in CutsOf(journal[i].text) :
             journal' = Append(SubSeq(journal, 1, i - 1), Line(cut, FALSE, journal[i].pieces))
  BY <1>1 DEF JournalCuts
<1> DEFINE k == i - 1
           before == SubSeq(journal, 1, k)
<1>3. /\ k \in Nat /\ k + 1 = i /\ k \in 0 .. Len(journal) /\ k + 1 \in 1 .. Len(journal)
      /\ \A j \in 1 .. k : j \in 1 .. Len(journal) /\ j # Len(journal)
  <2>1. \A n \in Nat : \A x \in 1 .. n :
          /\ x - 1 \in Nat /\ (x - 1) + 1 = x /\ x - 1 \in 0 .. n /\ (x - 1) + 1 \in 1 .. n
          /\ \A j \in 1 .. x - 1 : j \in 1 .. n /\ j # n
    OBVIOUS
  <2>2. Len(journal) \in Nat
    BY <1>1
  <2> QED
    BY <1>2, <2>1, <2>2
<1>4. /\ before \in Seq(LineSet) /\ Len(before) = k /\ \A j \in 1 .. k : before[j] = journal[j]
  <2>1. \A j \in 1 .. k : journal[j] \in LineSet
    BY <1>1, <1>3
  <2> HIDE DEF k
  <2>2. /\ before \in Seq(LineSet)
        /\ Len(before) = IF 1 <= k THEN k - 1 + 1 ELSE 0
        /\ \A j \in 1 .. k - 1 + 1 : before[j] = journal[1 + j - 1]
    BY <1>3, <2>1, SubSeqProperties
  <2> HIDE DEF before
  <2>3. Len(before) = k
    BY <1>3, <2>2
  <2>4. \A j \in 1 .. k : j \in 1 .. k - 1 + 1 /\ 1 + j - 1 = j
    BY <1>3
  <2> QED
    BY <2>2, <2>3, <2>4
<1>5. \A j \in 1 .. k : journal[j].ended
  BY <1>1, <1>3
<1> HIDE DEF k, before
<1>6. CASE journal' = before
  <2>1. Len(journal') = k /\ k # k + 1
    BY <1>3, <1>4, <1>6
  <2>2. Kept(k)
    BY <1>3, <1>4, <1>6, <2>1 DEF Kept
  <2> QED
    BY <1>3, <2>1, <2>2
<1>7. CASE \E cut \in CutsOf(journal[i].text) :
             journal' = Append(before, Line(cut, FALSE, journal[i].pieces))
  <2>1. PICK cut \in CutsOf(journal[i].text) :
          journal' = Append(before, Line(cut, FALSE, journal[i].pieces))
    BY <1>7
  <2> DEFINE l == Line(cut, FALSE, journal[i].pieces)
  <2>2. l \in LineSet
    <3>1. journal[i] \in LineSet
      BY <1>1, <1>2
    <3>2. /\ journal[i].text \in Seq(Field) \ {<<>>}
          /\ journal[i].pieces \in Nat /\ journal[i].pieces >= 1
      BY <3>1, LineFacts
    <3>3. cut \in Seq(Field) \ {<<>>}
      BY <2>1, <3>2, CutsFit
    <3>4. journal[i].pieces \in Nat \ {0}
      BY <3>2
    <3> QED
      BY <3>3, <3>4, NewLine
  <2> HIDE DEF l
  <2>3. /\ journal' \in Seq(LineSet) /\ Len(journal') = k + 1 /\ journal'[k + 1] = l
        /\ \A j \in 1 .. k : journal'[j] = journal[j]
    <3>1. journal' = Append(before, l)
      BY <2>1 DEF l
    <3> QED
      BY <1>3, <1>4, <2>2, <3>1, AppendProperties
  <2>4. Kept(k)
    BY <1>3, <1>5, <2>3 DEF Kept
  <2> QED
    BY <1>3, <2>1, <2>3, <2>4 DEF l
<1> QED
  BY <1>2, <1>6, <1>7 DEF before, k

\* What follows from the kept lines for those of no worker's range, and for those
\* that are known.
LEMMA KeptSound ==
  ASSUME IInv, NEW k, Kept(k), NEW q, \A i \in Sound : RangeOf(journal[i].text) # q,
         Len(journal') = k + 1 /\ Outcome(journal'[k + 1].text) = "accepted"
           /\ SoundLine(journal'[k + 1]) => RangeOf(journal'[k + 1].text) # q
  PROVE  \A i \in Sound' : RangeOf(journal'[i].text) # q
<1>1. /\ Len(journal) \in Nat /\ DOMAIN journal = 1 .. Len(journal)
      /\ DOMAIN journal' = 1 .. Len(journal') /\ Len(journal') \in Nat
  BY JournalFacts, LenProperties DEF Kept
<1>2. k \in 0 .. Len(journal) /\ Len(journal') \in {k, k + 1}
      /\ \A i \in 1 .. k : journal'[i] = journal[i]
  BY DEF Kept
<1>3. \A n, m, j \in Nat : n <= m /\ (j = n \/ j = n + 1) =>
        \A x \in 1 .. j : (x \in 1 .. n /\ x \in 1 .. m) \/ (x = n + 1 /\ j = n + 1)
  OBVIOUS
<1>4. k \in Nat /\ k <= Len(journal) /\ (Len(journal') = k \/ Len(journal') = k + 1)
  <2>1. k \in 0 .. Len(journal) /\ Len(journal') \in {k, k + 1}
    BY <1>2
  <2>2. Len(journal) \in Nat
    BY <1>1
  <2> QED
    BY <2>1, <2>2
<1> SUFFICES ASSUME NEW i \in Sound'
             PROVE  RangeOf(journal'[i].text) # q
  OBVIOUS
<1>5. /\ i \in 1 .. Len(journal')
      /\ Outcome(journal'[i].text) = "accepted" /\ SoundLine(journal'[i])
  BY <1>1 DEF Sound, MatchingLines, SoundLine
<1>6. (i \in 1 .. k /\ i \in 1 .. Len(journal)) \/ (i = k + 1 /\ Len(journal') = k + 1)
  BY <1>1, <1>3, <1>4, <1>5
<1>7. CASE i \in 1 .. k /\ i \in 1 .. Len(journal)
  <2>1. journal'[i] = journal[i]
    BY <1>2, <1>7
  <2>2. i \in Sound
    BY <1>1, <1>5, <1>7, <2>1, SoundFacts
  <2> QED
    BY <2>1, <2>2
<1>8. CASE i = k + 1 /\ Len(journal') = k + 1
  BY <1>5, <1>8
<1> QED
  BY <1>6, <1>7, <1>8

\* The origins of the kept lines do not change.
LEMMA KeptOrigins ==
  ASSUME IInv, NEW k, Kept(k),
         Len(journal') = k + 1 =>
           \E r1, r2 \in Required :
             /\ Origin(journal'[k + 1], r1, r2)
             /\ \A j \in Sound : j <= k => RangeOf(journal[j].text) \notin {r1, r2}
  PROVE  OriginsOK'
<1>1. /\ Len(journal) \in Nat /\ DOMAIN journal = 1 .. Len(journal)
      /\ DOMAIN journal' = 1 .. Len(journal') /\ Len(journal') \in Nat
  BY JournalFacts, LenProperties DEF Kept
<1>2. k \in 0 .. Len(journal) /\ Len(journal') \in {k, k + 1}
      /\ \A i \in 1 .. k : journal'[i] = journal[i]
  BY DEF Kept
<1>3. k \in Nat /\ k <= Len(journal) /\ (Len(journal') = k \/ Len(journal') = k + 1)
  <2>1. k \in 0 .. Len(journal) /\ Len(journal') \in {k, k + 1}
    BY <1>2
  <2>2. Len(journal) \in Nat
    BY <1>1
  <2> QED
    BY <2>1, <2>2
<1>4. \A i \in 1 .. Len(journal') :
        (i \in 1 .. k /\ i \in 1 .. Len(journal)) \/ (i = k + 1 /\ Len(journal') = k + 1)
  <2>1. \A n, m, j \in Nat : n <= m /\ (j = n \/ j = n + 1) =>
          \A x \in 1 .. j : (x \in 1 .. n /\ x \in 1 .. m) \/ (x = n + 1 /\ j = n + 1)
    OBVIOUS
  <2> QED
    BY <1>1, <1>3, <2>1
<1>5. \A j \in Sound' : j <= k => j \in Sound /\ journal'[j] = journal[j]
  <2> SUFFICES ASSUME NEW j \in Sound', j <= k
               PROVE  j \in Sound /\ journal'[j] = journal[j]
    OBVIOUS
  <2>1. j \in 1 .. Len(journal') /\ Outcome(journal'[j].text) = "accepted"
        /\ SoundLine(journal'[j])
    BY <1>1 DEF Sound, MatchingLines, SoundLine
  <2>2. ~(k + 1 <= k)
    BY <1>3
  <2>3. j \in 1 .. k /\ j \in 1 .. Len(journal)
    BY <1>4, <2>1, <2>2
  <2>4. journal'[j] = journal[j]
    BY <1>2, <2>3
  <2> QED
    BY <1>1, <2>1, <2>3, <2>4, SoundFacts
<1> SUFFICES ASSUME NEW i \in 1 .. Len(journal')
             PROVE  \E r1, r2 \in Required : /\ Origin(journal'[i], r1, r2)
                                             /\ NoneBefore(i, r1)' /\ NoneBefore(i, r2)'
  BY <1>1 DEF OriginsOK, Origin
<1>6. \A j \in Sound' : j \in 1 .. Len(journal')
  BY <1>1 DEF Sound, MatchingLines
<1>7. CASE i \in 1 .. k /\ i \in 1 .. Len(journal)
  <2>1. PICK r1, r2 \in Required :
          Origin(journal[i], r1, r2) /\ NoneBefore(i, r1) /\ NoneBefore(i, r2)
    BY <1>1, <1>7 DEF IInv, OriginsOK
  <2>2. journal'[i] = journal[i]
    BY <1>2, <1>7
  <2>3. \A j \in 1 .. Len(journal') : j < i => j <= k
    <3>1. \A n, m \in Nat : \A x \in 1 .. n : \A y \in 1 .. m : y < x => y <= n
      OBVIOUS
    <3> QED
      BY <1>1, <1>3, <1>7, <3>1
  <2>4. ASSUME NEW r, NoneBefore(i, r)
        PROVE  NoneBefore(i, r)'
    BY <1>5, <1>6, <2>3, <2>4 DEF NoneBefore
  <2> QED
    BY <2>1, <2>2, <2>4
<1>8. CASE i = k + 1 /\ Len(journal') = k + 1
  <2>1. PICK r1, r2 \in Required :
          /\ Origin(journal'[k + 1], r1, r2)
          /\ \A j \in Sound : j <= k => RangeOf(journal[j].text) \notin {r1, r2}
    BY <1>8
  <2>2. \A j \in 1 .. Len(journal') : j < k + 1 => j <= k
    <3>1. \A n, m \in Nat : \A y \in 1 .. m : y < n + 1 => y <= n
      OBVIOUS
    <3> QED
      BY <1>1, <1>3, <3>1
  <2>3. NoneBefore(k + 1, r1)' /\ NoneBefore(k + 1, r2)'
    BY <1>5, <1>6, <2>1, <2>2 DEF NoneBefore
  <2> QED
    BY <1>8, <2>1, <2>3
<1> QED
  BY <1>4, <1>7, <1>8

LEMMA FirstField ==
  ASSUME NEW r \in Required, NEW text \in Seq(Field) \ {<<>>}, RestOfList(text, TrueRecord(r))
  PROVE  text[1] \in Nat
<1>1. 1 \in 1 .. Len(text)
  BY EmptySeq
<1>2. text[1] = TrueRecord(r)[1] \/ Rest(text[1], TrueRecord(r)[1])
  BY <1>1 DEF RestOfList
<1>3. TrueRecord(r)[1] \in Nat
  BY TrueRecordFields, RangeFacts
<1> QED
  BY <1>2, <1>3, FieldAssumption DEF Rest

LEMMA FirstTwo ==
  \A n \in Nat : /\ n >= 1 => n > 1 \/ n = 1
                 /\ n > 1 => 1 \in 1 .. n /\ 1 # n
                 /\ n > 2 => /\ 1 \in 1 .. n /\ 1 # n
                            /\ 2 \in 1 .. n /\ 2 \in 2 .. n /\ 2 # n
OBVIOUS

\* A record glued to what is left of one: the line begins as the first does, or its
\* second field is that of the second.
LEMMA GluedOrigin ==
  ASSUME NEW r1 \in Required, NEW r2 \in Required, NEW r \in Required, NEW left \in LineSet,
         Origin(left, r1, r2), NEW text \in Seq(Field) \ {<<>>}, RestOfList(text, TrueRecord(r)),
         NEW l, l.text \in Glued(left.text, text), l.pieces = left.pieces + 1
  PROVE  Origin(l, r1, r)
<1>1. left.text \in Seq(Field) \ {<<>>} /\ left.pieces \in Nat /\ left.pieces >= 1
  BY LineFacts
<1>2. l.pieces # 1 /\ (l.pieces = 2 => left.pieces = 1)
  BY <1>1
<1> SUFFICES ASSUME left.pieces = 1, Len(l.text) > 2
             PROVE  l.text[1] = r1[1] \/ l.text[2] = r[2]
  BY <1>2 DEF Origin
<1>3. RestOfList(left.text, TrueRecord(r1))
  BY DEF Origin
<1>4. PICK a : a = left.text
  OBVIOUS
<1>5. a \in Seq(Field) \ {<<>>} /\ RestOfList(a, TrueRecord(r1)) /\ l.text \in Glued(a, text)
  BY <1>1, <1>3, <1>4
<1>6. text[1] \in Nat
  BY FirstField
<1>7. /\ Len(l.text) = Len(a) + Len(text) - 1
      /\ \A i \in 2 .. Len(text) : l.text[Len(a) - 1 + i] = text[i]
      /\ Len(a) > 1 => l.text[1] = a[1]
  BY <1>5, <1>6, GluedFacts
<1>8. Len(a) \in Nat /\ Len(a) >= 1 /\ Len(text) \in Nat
  BY <1>5, EmptySeq
<1>9. CASE Len(a) > 1
  <2>1. 1 \in 1 .. Len(a) /\ 1 # Len(a)
    BY <1>8, <1>9, FirstTwo
  <2>2. a[1] = TrueRecord(r1)[1]
    BY <1>5, <2>1 DEF RestOfList
  <2> QED
    BY <1>5, <1>7, <1>9, <2>2, TrueRecordFields
<1>10. CASE Len(a) = 1
  <2>1. Len(text) > 2
    BY <1>5, <1>7, <1>8, <1>10
  <2>2. 2 \in 2 .. Len(text) /\ 2 \in 1 .. Len(text) /\ 2 # Len(text) /\ Len(a) - 1 + 2 = 2
    <3>1. Len(a) - 1 + 2 = 2
      BY <1>10
    <3> QED
      BY <1>8, <2>1, <3>1, FirstTwo
  <2>3. l.text[2] = text[2]
    BY <1>5, <1>7, <2>2
  <2>4. text[2] = TrueRecord(r)[2]
    BY <2>2 DEF RestOfList
  <2> QED
    BY <2>3, <2>4, TrueRecordFields
<1> QED
  BY <1>8, <1>9, <1>10, FirstTwo

\* The journal after an append, whole or cut, of the worker of a range of which
\* there is no line yet.
LEMMA AppendStep ==
  ASSUME IInv, NEW r \in Required, \A i \in Sound : RangeOf(journal[i].text) # r,
         NEW text \in Seq(Field) \ {<<>>}, RestOfList(text, TrueRecord(r)), NEW ended \in BOOLEAN,
         ended => /\ Len(text) = N + 3 /\ EndsWith(text, r)
                  /\ tears = 0 => text = TrueRecord(r),
         tears' = IF ended THEN tears ELSE tears + 1,
         journal' \in Appended(text, ended)
  PROVE  /\ LinesOK' /\ OneSoundLine' /\ OriginsOK'
         /\ \A i \in DOMAIN journal' : /\ journal'[i].pieces \in Nat \ {0}
                                       /\ journal'[i].ended \/ i = Len(journal')
         /\ \A q : q # r /\ (\A i \in Sound : RangeOf(journal[i].text) # q) =>
                     \A i \in Sound' : RangeOf(journal'[i].text) # q
         /\ \A q : q \in Accepted \/ Glueing => q \in Accepted' \/ Glueing'
         /\ ended => r \in Accepted' \/ Glueing'
<1>0. PICK k : \E l \in LineSet :
        /\ Kept(k) /\ Len(journal') = k + 1 /\ journal'[k + 1] = l /\ l.ended = ended
        /\ Alone(l, k, text) \/ \E left \in LineSet : GluedTo(left, l, k, text)
  <2>1. text[1] \in Nat
    BY FirstField
  <2> QED
    BY <2>1, AppendedFacts
<1>1. PICK l \in LineSet :
        /\ Kept(k) /\ Len(journal') = k + 1 /\ journal'[k + 1] = l /\ l.ended = ended
        /\ Alone(l, k, text) \/ \E left \in LineSet : GluedTo(left, l, k, text)
  BY <1>0
<1>2. tears \in Nat /\ tears' \in Nat /\ tears <= tears' /\ (~ended => tears' = tears + 1)
      /\ (ended => tears' = tears)
  BY DEF IInv, TypeOK
<1>3. l.text \in Seq(Field) \ {<<>>} /\ l.ended \in BOOLEAN /\ l.pieces \in Nat /\ l.pieces >= 1
  BY LineFacts
<1>4. ASSUME ended
      PROVE  EndsWith(l.text, r)
  <2>1. CASE Alone(l, k, text)
    BY <1>4, <2>1 DEF Alone
  <2>2. CASE \E left \in LineSet : GluedTo(left, l, k, text)
    <3>1. PICK left \in LineSet : GluedTo(left, l, k, text)
      BY <2>2
    <3>2. left.text \in Seq(Field) \ {<<>>} /\ text[1] \in Nat
      BY LineFacts, FirstField
    <3>3. l.text \in Glued(left.text, text)
      BY <3>1 DEF GluedTo
    <3> QED
      BY <1>4, <3>2, <3>3, GluedEndsWith
  <2> QED
    BY <1>1, <2>1, <2>2
<1>5. l.pieces = 1 => l.text = text
  <2>1. ASSUME NEW left \in LineSet, GluedTo(left, l, k, text)
        PROVE  l.pieces # 1
    BY <2>1, LineFacts DEF GluedTo
  <2> QED
    BY <1>1, <2>1 DEF Alone
<1>6. LineOK(l)'
  <2>1. l.pieces <= (IF l.ended THEN tears' + 1 ELSE tears')
    <3>1. CASE Alone(l, k, text)
      BY <1>1, <1>2, <3>1 DEF Alone
    <3>2. ASSUME NEW left \in LineSet, GluedTo(left, l, k, text)
          PROVE  l.pieces <= (IF l.ended THEN tears' + 1 ELSE tears')
      <4>1. l.pieces = left.pieces + 1 /\ left.pieces <= tears /\ left.pieces \in Nat
        BY <3>2, LineFacts DEF GluedTo
      <4> QED
        BY <1>1, <1>2, <4>1
    <3> QED
      BY <1>1, <3>1, <3>2
  <2>2. l.pieces = 1 => \E q \in Required : RestOfList(l.text, TrueRecord(q))
    BY <1>5
  <2>3. l.ended => \E q \in Required : EndsWith(l.text, q)
    BY <1>1, <1>4
  <2> QED
    BY <2>1, <2>2, <2>3 DEF LineOK
<1>7. tears' = 0 => \E q \in Required : l.text = TrueRecord(q)
  <2> SUFFICES ASSUME tears' = 0
               PROVE  l.text = TrueRecord(r)
    OBVIOUS
  <2>1. ended /\ tears = 0
    BY <1>2
  <2>2. \A left \in LineSet : ~GluedTo(left, l, k, text)
    BY <2>1, LineFacts DEF GluedTo
  <2>3. l.text = text
    BY <1>1, <2>2 DEF Alone
  <2> QED
    BY <2>1, <2>3
<1>8. Outcome(l.text) = "accepted" /\ SoundLine(l) => RangeOf(l.text) = r
  <2> SUFFICES ASSUME Outcome(l.text) = "accepted", SoundLine(l)
               PROVE  RangeOf(l.text) = r
    OBVIOUS
  <2>1. CASE ended
    BY <1>3, <1>4, <2>1, EndAccepted
  <2>2. CASE ~ended
    <3>1. l.pieces = 1
      BY <1>1, <2>2 DEF SoundLine
    <3> QED
      BY <1>5, <3>1, RestAccepted
  <2> QED
    BY <2>1, <2>2
<1>9. /\ LinesOK' /\ OneSoundLine'
      /\ \A i \in DOMAIN journal' : /\ journal'[i].pieces \in Nat \ {0}
                                    /\ journal'[i].ended \/ i = Len(journal')
  BY <1>1, <1>2, <1>6, <1>7, <1>8, KeptLines
<1>15. OriginsOK'
  <2>1. CASE Alone(l, k, text)
    <3>1. Origin(l, r, r)
      BY <2>1 DEF Alone, Origin
    <3> QED
      BY <1>1, <3>1, KeptOrigins
  <2>2. CASE \E left \in LineSet : GluedTo(left, l, k, text)
    <3>1. PICK left \in LineSet : GluedTo(left, l, k, text)
      BY <2>2
    <3>2. /\ left = journal[k + 1] /\ k + 1 \in 1 .. Len(journal)
          /\ l.text \in Glued(left.text, text) /\ l.pieces = left.pieces + 1
      BY <3>1 DEF GluedTo
    <3>3. PICK r1, r2 \in Required :
            Origin(left, r1, r2) /\ NoneBefore(k + 1, r1) /\ NoneBefore(k + 1, r2)
      BY <3>2, JournalFacts DEF IInv, OriginsOK
    <3>4. Origin(l, r1, r)
      BY <3>2, <3>3, GluedOrigin
    <3>5. \A j \in Sound : j <= k => RangeOf(journal[j].text) \notin {r1, r}
      <4>1. k \in Nat
        <5>1. k \in 0 .. Len(journal)
          BY <1>1 DEF Kept
        <5>2. Len(journal) \in Nat
          BY JournalFacts
        <5> QED
          BY <5>1, <5>2
      <4>2. \A j \in Sound : j \in Nat
        BY SoundIndices
      <4>3. \A j \in Sound : j <= k => j < k + 1
        BY <4>1, <4>2
      <4> QED
        BY <3>3, <4>3 DEF NoneBefore
    <3> QED
      BY <1>1, <3>4, <3>5, KeptOrigins
  <2> QED
    BY <1>1, <2>1, <2>2
<1>10. ASSUME NEW q, q # r, \A i \in Sound : RangeOf(journal[i].text) # q
       PROVE  \A i \in Sound' : RangeOf(journal'[i].text) # q
  BY <1>1, <1>8, <1>10, KeptSound
<1>11. DOMAIN journal = 1 .. Len(journal) /\ Len(journal) \in Nat
       /\ DOMAIN journal' = 1 .. Len(journal')
  BY <1>1, JournalFacts, LenProperties DEF Kept
<1>12. l \in Lines' /\ k \in 0 .. Len(journal) /\ \A i \in 1 .. k : journal[i] \in Lines'
  <2>1. k \in 0 .. Len(journal) /\ \A i \in 1 .. k : journal'[i] = journal[i]
    BY <1>1 DEF Kept
  <2>2. k + 1 \in 1 .. Len(journal') /\ \A i \in 1 .. k : i \in 1 .. Len(journal')
    BY <1>1, <1>11, <2>1
  <2> QED
    BY <1>1, <1>11, <2>1, <2>2 DEF Lines
<1>13. CASE Alone(l, k, text)
  <2>1. Lines \subseteq Lines'
    BY <1>11, <1>12, <1>13 DEF Lines, Alone
  <2>2. \A q : q \in Accepted \/ Glueing => q \in Accepted' \/ Glueing'
    BY <2>1 DEF Accepted, Glueing
  <2>3. ended => r \in Accepted'
    <3> SUFFICES ASSUME ended
                 PROVE  r \in Accepted'
      OBVIOUS
    <3>1. text[N + 3] # Nothing
      <4>1. text[N + 3] \in 0 .. TrueRecord(r)[N + 3]
        BY TrueRecordFields DEF EndsWith
      <4> QED
        BY <4>1, FieldAssumption
    <3>2. Outcome(text) = "accepted" /\ RangeOf(text) = r
      BY <3>1, CompleteIsAccepted
    <3>3. l.text = text
      BY <1>13 DEF Alone
    <3> QED
      BY <1>12, <3>2, <3>3 DEF Accepted
  <2> QED
    BY <1>9, <1>15, <1>10, <2>2, <2>3
<1>14. CASE \E left \in LineSet : GluedTo(left, l, k, text)
  <2>1. l.pieces > 1
    BY <1>14, LineFacts DEF GluedTo
  <2>2. Glueing'
    BY <1>12, <2>1 DEF Glueing
  <2> QED
    BY <1>9, <1>15, <1>10, <2>2
<1> QED
  BY <1>1, <1>13, <1>14

-----------------------------------------------------------------------------
(* The rest of the state after a step *)

\* There is no line of q that stands for its range.
NoLineOf(q) == \A i \in Sound : RangeOf(journal[i].text) # q

JournalTyped ==
  \A i \in DOMAIN journal : /\ journal[i].pieces \in Nat \ {0}
                            /\ journal[i].ended \/ i = Len(journal)

WorkersTyped ==
  /\ DOMAIN workers \subseteq Required
  /\ \A r \in DOMAIN workers : /\ workers[r].pos \in Stops[r]
                               /\ workers[r].stage \in {"works", "written", "over"}

LEMMA SameJournal ==
  ASSUME IInv, journal' = journal, tears' \in Nat, tears <= tears'
  PROVE  /\ LinesOK' /\ OneSoundLine' /\ OriginsOK' /\ JournalTyped'
         /\ Accepted' = Accepted /\ (Glueing' <=> Glueing)
         /\ \A q : NoLineOf(q)' <=> NoLineOf(q)
<1>1. journal \in Seq(LineSet) /\ Len(journal) \in Nat
  BY JournalFacts
<1>2. PICK k \in Nat : k = Len(journal)
  BY <1>1
<1>3. k \in 0 .. k /\ k # k + 1
  BY <1>2
<1>4. Len(journal') = k /\ journal' \in Seq(LineSet)
  BY <1>1, <1>2
<1>5. Kept(k)
  BY <1>2, <1>3, <1>4 DEF Kept
<1>6. PICK l : l = 0
  OBVIOUS
<1>7. LinesOK' /\ OneSoundLine' /\ JournalTyped'
  <2>1. /\ LinesOK' /\ OneSoundLine'
        /\ \A i \in DOMAIN journal' : /\ journal'[i].pieces \in Nat \ {0}
                                      /\ journal'[i].ended \/ i = Len(journal')
    BY <1>3, <1>4, <1>5, KeptLines
  <2> QED
    BY <2>1 DEF JournalTyped
<1>8. Lines' = Lines
  BY DEF Lines
<1>9. Accepted' = Accepted /\ (Glueing' <=> Glueing)
  BY <1>8 DEF Accepted, Glueing
<1>10. Sound' = Sound
  BY DEF Sound, MatchingLines, SoundLine
<1>11. \A q : NoLineOf(q)' <=> NoLineOf(q)
  BY <1>10 DEF NoLineOf
<1>12. OriginsOK'
  BY <1>3, <1>4, <1>5, KeptOrigins
<1> QED
  BY <1>7, <1>9, <1>11, <1>12

LEMMA FileFacts ==
  ASSUME IInv
  PROVE  /\ files \in [DOMAIN files -> Seq(EntrySet)] /\ DOMAIN files \subseteq Required
         /\ \A r \in DOMAIN files : \E pos \in Stops[r] :
              /\ RestOfFile(files[r], TrueFile(r, pos))
              /\ tears = 0 => files[r] = TrueFile(r, pos)
BY DEF IInv, FilesOK, TypeOK

\* Some of the files, or all.
LEMMA FewerFiles ==
  ASSUME IInv, NEW kept \in SUBSET DOMAIN files, files' = [q \in kept |-> files[q]],
         tears \in Nat, tears' \in Nat, tears <= tears'
  PROVE  FilesOK' /\ DOMAIN files' \subseteq Required
<1>1. /\ files \in [DOMAIN files -> Seq(EntrySet)] /\ DOMAIN files \subseteq Required
      /\ \A r \in DOMAIN files : \E pos \in Stops[r] :
           /\ RestOfFile(files[r], TrueFile(r, pos))
           /\ tears = 0 => files[r] = TrueFile(r, pos)
  BY FileFacts
<1>2. files' \in [DOMAIN files' -> Seq(EntrySet)] /\ DOMAIN files' = kept
  BY <1>1
<1>3. tears' = 0 => tears = 0
  OBVIOUS
<1>4. \A r \in kept : files'[r] = files[r]
  OBVIOUS
<1>5. \A r \in DOMAIN files' : \E pos \in Stops[r] :
           /\ RestOfFile(files'[r], TrueFile(r, pos))
           /\ tears' = 0 => files'[r] = TrueFile(r, pos)
  BY <1>1, <1>2, <1>3, <1>4
<1> QED
  BY <1>1, <1>2, <1>5 DEF FilesOK

LEMMA SameFiles ==
  ASSUME IInv, files' = files, tears \in Nat, tears' \in Nat, tears <= tears'
  PROVE  FilesOK' /\ DOMAIN files' \subseteq Required
<1>1. files \in [DOMAIN files -> Seq(EntrySet)]
  BY FileFacts
<1>2. files' = [q \in DOMAIN files |-> files[q]]
  BY <1>1
<1> QED
  BY <1>2, FewerFiles

LEMMA FileHeld ==
  ASSUME IInv, NEW r \in Required, NEW pos \in Stops[r], NEW text \in Seq(EntrySet),
         RestOfFile(text, TrueFile(r, pos)), files' = Holds(r, text),
         tears \in Nat, tears' \in Nat, tears <= tears', tears' = 0 => text = TrueFile(r, pos)
  PROVE  /\ FilesOK' /\ DOMAIN files' \subseteq Required
         /\ DOMAIN files' = DOMAIN files \cup {r} /\ files'[r] = text
         /\ \A q \in DOMAIN files : q # r => files'[q] = files[q]
<1>1. /\ files \in [DOMAIN files -> Seq(EntrySet)] /\ DOMAIN files \subseteq Required
      /\ \A q \in DOMAIN files : \E at \in Stops[q] :
           /\ RestOfFile(files[q], TrueFile(q, at))
           /\ tears = 0 => files[q] = TrueFile(q, at)
  BY FileFacts
<1>2. /\ DOMAIN files' = DOMAIN files \cup {r} /\ files'[r] = text
      /\ \A q \in DOMAIN files : q # r => files'[q] = files[q]
  BY DEF Holds
<1>3. files' \in [DOMAIN files' -> Seq(EntrySet)]
  BY <1>1 DEF Holds
<1>4. tears' = 0 => tears = 0
  OBVIOUS
<1>5. \A q \in DOMAIN files' : \E at \in Stops[q] :
           /\ RestOfFile(files'[q], TrueFile(q, at))
           /\ tears' = 0 => files'[q] = TrueFile(q, at)
  <2> SUFFICES ASSUME NEW q \in DOMAIN files'
               PROVE  \E at \in Stops[q] : /\ RestOfFile(files'[q], TrueFile(q, at))
                                           /\ tears' = 0 => files'[q] = TrueFile(q, at)
    OBVIOUS
  <2>1. CASE q = r
    BY <1>2, <2>1
  <2>2. CASE q # r
    BY <1>1, <1>2, <1>4, <2>2
  <2> QED
    BY <2>1, <2>2
<1> QED
  BY <1>1, <1>2, <1>3, <1>5 DEF FilesOK

LEMMA WorkerFacts ==
  ASSUME IInv, NEW r \in DOMAIN workers
  PROVE  /\ r \in Required /\ workers[r] \in WorkerSet /\ workers[r].pos \in Stops[r]
         /\ workers[r].counts \in [1 .. N -> 0 .. MaxValue] /\ workers[r].saves \in BOOLEAN
         /\ RightButLast(r, workers[r].pos, workers[r].counts)
         /\ workers[r].saves \/ tears = 0 => workers[r].counts = Truth(r, workers[r].pos)
         /\ workers[r].stage = "works" => NoLineOf(r)
         /\ workers[r].stage = "written" => r \in Accepted \/ Glueing
<1>1. r \in Required /\ workers[r].pos \in Stops[r]
  BY DEF IInv, TypeOK
<1>2. workers[r] \in WorkerSet /\ WorkerOK(r)
  BY DEF IInv, WorkersOK
<1>3. workers[r].counts \in [1 .. N -> 0 .. MaxValue] /\ workers[r].saves \in BOOLEAN
  BY <1>2, DifferenceFacts DEF WorkerSet
<1> QED
  BY <1>1, <1>2, <1>3 DEF WorkerOK, NoLineOf

LEMMA NoWorkers ==
  ASSUME workers' = [r \in {} |-> 0]
  PROVE  WorkersOK' /\ WorkersTyped' /\ DOMAIN workers' = {}
BY DEF WorkersOK, WorkersTyped

\* One worker goes on, or none does.
LEMMA WorkersAfter ==
  ASSUME IInv, NEW r \in DOMAIN workers, NEW w \in WorkerSet,
         workers' = [workers EXCEPT ![r] = w], tears \in Nat, tears' \in Nat, tears <= tears',
         w.pos \in Stops[r], RightButLast(r, w.pos, w.counts),
         w.saves \/ tears' = 0 => w.counts = Truth(r, w.pos),
         w.stage = "works" => NoLineOf(r)',
         w.stage = "written" => r \in Accepted' \/ Glueing',
         \A q : q # r /\ NoLineOf(q) => NoLineOf(q)',
         \A q : q # r /\ (q \in Accepted \/ Glueing) => q \in Accepted' \/ Glueing'
  PROVE  WorkersOK' /\ WorkersTyped'
<1>1. \A q \in DOMAIN workers :
        /\ q \in Required /\ workers[q] \in WorkerSet /\ workers[q].pos \in Stops[q]
        /\ RightButLast(q, workers[q].pos, workers[q].counts)
        /\ workers[q].saves \/ tears = 0 => workers[q].counts = Truth(q, workers[q].pos)
        /\ workers[q].stage = "works" => NoLineOf(q)
        /\ workers[q].stage = "written" => q \in Accepted \/ Glueing
  BY WorkerFacts
<1>2. workers \in [DOMAIN workers -> WorkerSet]
  BY DEF IInv, WorkersOK
<1>3. /\ DOMAIN workers' = DOMAIN workers /\ workers'[r] = w
      /\ \A q \in DOMAIN workers : q # r => workers'[q] = workers[q]
      /\ workers' \in [DOMAIN workers' -> WorkerSet]
  BY <1>2
<1>4. tears' = 0 => tears = 0
  OBVIOUS
<1>5. \A q \in DOMAIN workers' : WorkerOK(q)'
  <2> SUFFICES ASSUME NEW q \in DOMAIN workers'
               PROVE  WorkerOK(q)'
    OBVIOUS
  <2>1. CASE q = r
    BY <1>3, <2>1 DEF WorkerOK, NoLineOf, RightButLast
  <2>2. CASE q # r
    <3>1. workers'[q] = workers[q] /\ q \in DOMAIN workers
      BY <1>3, <2>2
    <3> QED
      BY <1>1, <1>4, <2>2, <3>1 DEF WorkerOK, NoLineOf, RightButLast
  <2> QED
    BY <2>1, <2>2
<1>6. WorkersTyped'
  <2>1. w.stage \in {"works", "written", "over"}
    BY DEF WorkerSet
  <2>2. \A q \in DOMAIN workers : workers[q].stage \in {"works", "written", "over"}
    BY <1>1 DEF WorkerSet
  <2> QED
    BY <1>1, <1>3, <2>1, <2>2 DEF WorkersTyped
<1> QED
  BY <1>3, <1>5, <1>6 DEF WorkersOK

LEMMA SameWorkers ==
  ASSUME IInv, workers' = workers, tears \in Nat, tears' \in Nat, tears <= tears',
         \A q : NoLineOf(q) => NoLineOf(q)',
         \A q : q \in Accepted \/ Glueing => q \in Accepted' \/ Glueing'
  PROVE  WorkersOK' /\ WorkersTyped'
<1>1. \A q \in DOMAIN workers :
        /\ q \in Required /\ workers[q] \in WorkerSet /\ workers[q].pos \in Stops[q]
        /\ RightButLast(q, workers[q].pos, workers[q].counts)
        /\ workers[q].saves \/ tears = 0 => workers[q].counts = Truth(q, workers[q].pos)
        /\ workers[q].stage = "works" => NoLineOf(q)
        /\ workers[q].stage = "written" => q \in Accepted \/ Glueing
  BY WorkerFacts
<1>2. tears' = 0 => tears = 0
  OBVIOUS
<1>3. \A q \in DOMAIN workers' : WorkerOK(q)'
  BY <1>1, <1>2 DEF WorkerOK, NoLineOf, RightButLast
<1>4. workers' \in [DOMAIN workers' -> WorkerSet]
  BY DEF IInv, WorkersOK
<1>5. WorkersTyped'
  BY <1>1 DEF WorkersTyped, WorkerSet
<1> QED
  BY <1>3, <1>4, <1>5 DEF WorkersOK

\* The invariant, put together again.
LEMMA Together ==
  ASSUME process' \in {"stopped", "running", "aborted", "reported"},
         tears' \in Nat, kills' \in Nat, tears' + kills' <= MaxFaults,
         LinesOK', OneSoundLine', OriginsOK', JournalTyped', FilesOK', DOMAIN files' \subseteq Required,
         WorkersOK', WorkersTyped', tears' = 0 => process' # "aborted"
  PROVE  IInv'
<1>1. TypeOK'
  BY DEF TypeOK, JournalTyped, WorkersTyped
<1> QED
  BY <1>1 DEF IInv

LEMMA FaultFacts ==
  ASSUME IInv
  PROVE  /\ tears \in Nat /\ kills \in Nat /\ MaxFaults \in Nat /\ tears + kills <= MaxFaults
         /\ tears <= tears /\ tears <= tears + 1 /\ tears + 1 \in Nat /\ kills + 1 \in Nat
         /\ tears + 1 # 0
         /\ tears + kills < MaxFaults => /\ (tears + 1) + kills <= MaxFaults
                                         /\ tears + (kills + 1) <= MaxFaults
         /\ process \in {"stopped", "running", "aborted", "reported"}
         /\ tears = 0 => process # "aborted"
<1>1. tears \in Nat /\ kills \in Nat /\ MaxFaults \in Nat /\ tears + kills <= MaxFaults
  BY BoundAssumption DEF IInv, TypeOK
<1>2. /\ process \in {"stopped", "running", "aborted", "reported"}
      /\ tears = 0 => process # "aborted"
  BY DEF IInv, TypeOK
<1> QED
  BY <1>1, <1>2

-----------------------------------------------------------------------------
(* What an invocation makes of its files *)

LEMMA TruthIsRight ==
  ASSUME NEW r \in Required, NEW pos \in Stops[r]
  PROVE  RightButLast(r, pos, Truth(r, pos))
<1>1. Truth(r, pos) \in [1 .. N -> 0 .. MaxValue] /\ Len(Truth(r, pos)) = N
  BY TruthFacts
<1>2. N \in 1 .. N /\ MaxValue \in Nat
  BY DifferenceFacts, BaseAssumption
<1>3. Truth(r, pos)[N] <= Truth(r, pos)[N]
  BY <1>1, <1>2
<1> QED
  BY <1>1, <1>3 DEF RightButLast, N

LEMMA TrueRecordAccepted ==
  ASSUME NEW r \in Required
  PROVE  /\ Outcome(TrueRecord(r)) = "accepted" /\ RangeOf(TrueRecord(r)) = r
         /\ CountsOf(TrueRecord(r)) = Truth(r, r[2])
<1> DEFINE whole == TrueRecord(r)
<1>1. /\ whole \in Seq(Field) \ {<<>>} /\ Len(whole) = N + 3
      /\ \A i \in 4 .. N + 3 : whole[i] = Truth(r, r[2])[i - 3]
      /\ \A i \in 1 .. N + 3 : i # 3 => whole[i] \in 0 .. MaxValue
  BY TrueRecordFields
<1>2. N \in Nat /\ N >= 1 /\ N + 3 \in 1 .. N + 3 /\ N + 3 # 3
  BY DifferenceFacts
<1>3. RestOfList(whole, whole)
  BY <1>1, <1>2 DEF RestOfList
<1>4. whole[N + 3] # Nothing
  <2>1. whole[N + 3] \in 0 .. MaxValue
    BY <1>1, <1>2
  <2> QED
    BY <2>1, FieldAssumption
<1>5. Outcome(whole) = "accepted" /\ RangeOf(whole) = r
  BY <1>1, <1>3, <1>4, CompleteIsAccepted
<1>6. CountsOf(whole) = Truth(r, r[2])
  <2>1. Len(CountsOf(whole)) = N /\ \A i \in 1 .. N : CountsOf(whole)[i] = whole[i + 3]
    BY <1>1, CountsOfFacts
  <2>2. \A i \in 1 .. N : whole[i + 3] = Truth(r, r[2])[i]
    <3>1. \A i \in 1 .. N : i + 3 \in 4 .. N + 3 /\ (i + 3) - 3 = i
      BY <1>2
    <3> QED
      BY <1>1, <3>1
  <2>3. Truth(r, r[2]) \in Seq(0 .. MaxValue) /\ Len(Truth(r, r[2])) = N
    BY TruthFacts, RangeFacts
  <2>4. CountsOf(whole) \in Seq(Field)
    <3>1. CountsOf(whole) = SubSeq(whole, 4, N + 3)
      BY <1>1 DEF CountsOf
    <3>2. \A i \in 4 .. N + 3 : whole[i] \in Field
      BY <1>1, <1>2, ElementOfSeq
    <3> QED
      BY <1>2, <3>1, <3>2, SubSeqProperties
  <2>5. DOMAIN CountsOf(whole) = 1 .. N /\ DOMAIN Truth(r, r[2]) = 1 .. N
    BY <2>1, <2>3, <2>4, LenProperties
  <2> QED
    BY <2>1, <2>2, <2>3, <2>4, <2>5, SeqEqual
<1> QED
  BY <1>5, <1>6

\* Nothing keeps the program from starting when no write was damaged.
LEMMA StartsUpUntorn ==
  ASSUME IInv, tears = 0
  PROVE  StartsUp
<1>1. \A l \in Lines : Outcome(l.text) # "throws"
  <2>1. \A l \in Lines : \E r \in Required : l.text = TrueRecord(r)
    BY DEF IInv, LinesOK, Lines
  <2> QED
    BY <2>1, TrueRecordAccepted
<1>2. \A r \in DOMAIN files : ~Terminates(files[r])
  <2> SUFFICES ASSUME NEW r \in DOMAIN files
               PROVE  ~Terminates(files[r])
    OBVIOUS
  <2>1. r \in Required /\ \E pos \in Stops[r] : files[r] = TrueFile(r, pos)
    BY FileFacts
  <2>2. FileOutcome(files[r], r) = "resumed"
    BY <2>1, TrueFileResumed
  <2> QED
    BY <2>2 DEF FileOutcome
<1> QED
  BY <1>1, <1>2 DEF StartsUp

LEMMA Loaded ==
  ASSUME IInv, NEW r \in Required
  PROVE  LET w == LoadWorker(r)
         IN  /\ w \in WorkerSet /\ w.pos \in Stops[r] /\ RightButLast(r, w.pos, w.counts)
             /\ w.saves \/ tears = 0 => w.counts = Truth(r, w.pos)
             /\ w.stage # "written"
<1> DEFINE w == LoadWorker(r)
<1>1. CASE r \in DOMAIN files /\ FileOutcome(files[r], r) = "resumed"
  <2> DEFINE text == files[r]
             pos == NumberOf(text, "current_position")
             counts == ListOf(text, "current_counts")
  <2>1. text \in Seq(EntrySet)
    BY <1>1, FileFacts
  <2>2. PICK at \in Stops[r] : /\ RestOfFile(text, TrueFile(r, at))
                               /\ tears = 0 => text = TrueFile(r, at)
    BY <1>1, FileFacts
  <2>3. pos = at /\ counts \in [1 .. N -> 0 .. MaxValue] /\ RightButLast(r, at, counts)
    BY <1>1, <2>1, <2>2, RestOfFileResumed
  <2>4. tears = 0 => counts = Truth(r, at)
    BY <2>2, TrueFileResumed
  <2>5. w = Worker(pos, counts, FALSE, IF pos < r[2] THEN "works" ELSE "over")
    BY <1>1 DEF LoadWorker, ResumedWorker
  <2> HIDE DEF pos, counts, text
  <2>6. at \in Nat
    BY RangeFacts
  <2>7. counts \in [DOMAIN Differences -> 0 .. MaxValue]
    BY <2>3, DifferenceFacts
  <2> QED
    BY <2>3, <2>4, <2>5, <2>6, <2>7 DEF Worker, WorkerSet
<1>2. CASE ~(r \in DOMAIN files /\ FileOutcome(files[r], r) = "resumed")
  <2>1. w = Worker(r[1], Truth(r, r[1]), TRUE, "works")
    <3>1. r[1] \in Stops[r]
      BY RangeFacts
    <3>2. [i \in DOMAIN Differences |-> 0] = Truth(r, r[1])
      BY <3>1, TruthAssumption
    <3> QED
      BY <1>2, <3>2 DEF LoadWorker, FreshWorker
  <2>2. r[1] \in Nat /\ r[1] \in Stops[r]
    BY RangeFacts
  <2>3. Truth(r, r[1]) \in [DOMAIN Differences -> 0 .. MaxValue]
    BY <2>2, TruthAssumption
  <2>4. RightButLast(r, r[1], Truth(r, r[1]))
    BY <2>2, TruthIsRight
  <2> QED
    BY <2>1, <2>2, <2>3, <2>4 DEF Worker, WorkerSet
<1> QED
  BY <1>1, <1>2

LEMMA NoLineToDo ==
  ASSUME NEW r, r \notin Accepted
  PROVE  NoLineOf(r)
BY DEF NoLineOf, Sound, MatchingLines, Accepted, Lines

-----------------------------------------------------------------------------
(* Every step keeps the invariant *)

LEMMA Launches ==
  ASSUME IInv, Launch
  PROVE  IInv'
<1>1. /\ tears \in Nat /\ tears' = tears /\ kills' = kills /\ kills \in Nat
      /\ tears <= tears /\ tears + kills <= MaxFaults
  BY FaultFacts DEF Launch, bounds
<1>2. journal' = journal /\ files' = files
  BY DEF Launch
<1>3. /\ LinesOK' /\ OneSoundLine' /\ OriginsOK' /\ JournalTyped'
      /\ Accepted' = Accepted /\ (Glueing' <=> Glueing)
      /\ \A q : NoLineOf(q)' <=> NoLineOf(q)
  BY <1>1, <1>2, SameJournal
<1>4. FilesOK' /\ DOMAIN files' \subseteq Required
  BY <1>1, <1>2, SameFiles
<1>5. CASE StartsUp
  <2>1. process' = "running" /\ workers' = [r \in ToDo |-> LoadWorker(r)]
    BY <1>5 DEF Launch
  <2>2. \A r \in ToDo : r \in Required /\ NoLineOf(r)
    BY NoLineToDo DEF ToDo
  <2>3. \A r \in ToDo :
          LET w == LoadWorker(r)
          IN  /\ w \in WorkerSet /\ w.pos \in Stops[r] /\ RightButLast(r, w.pos, w.counts)
              /\ w.saves \/ tears = 0 => w.counts = Truth(r, w.pos)
              /\ w.stage # "written"
    BY <2>2, Loaded
  <2>4. /\ DOMAIN workers' = ToDo /\ workers' \in [DOMAIN workers' -> WorkerSet]
        /\ \A r \in ToDo : workers'[r] = LoadWorker(r)
    BY <2>1, <2>3
  <2>5. \A r \in DOMAIN workers' : WorkerOK(r)'
    <3> SUFFICES ASSUME NEW r \in ToDo
                 PROVE  WorkerOK(r)'
      BY <2>4
    <3>1. PICK w : /\ w = LoadWorker(r) /\ RightButLast(r, w.pos, w.counts)
                   /\ w.saves \/ tears = 0 => w.counts = Truth(r, w.pos)
                   /\ w.stage # "written"
      BY <2>3
    <3>2. workers'[r] = w
      BY <2>4, <3>1
    <3>3. NoLineOf(r)'
      BY <1>3, <2>2
    <3> QED
      BY <1>1, <3>1, <3>2, <3>3 DEF WorkerOK, NoLineOf, RightButLast
  <2>6. WorkersOK' /\ WorkersTyped'
    BY <2>2, <2>3, <2>4, <2>5 DEF WorkersOK, WorkersTyped, WorkerSet
  <2> QED
    BY <1>1, <1>3, <1>4, <2>1, <2>6, Together
<1>6. CASE ~StartsUp
  <2>1. process' = "aborted" /\ workers' = workers
    BY <1>6 DEF Launch
  <2>2. tears # 0
    BY <1>6, StartsUpUntorn
  <2>3. WorkersOK' /\ WorkersTyped'
    BY <1>1, <1>3, <2>1, SameWorkers
  <2> QED
    BY <1>1, <1>3, <1>4, <2>1, <2>2, <2>3, Together
<1> QED
  BY <1>5, <1>6

LEMMA SameFunction ==
  ASSUME NEW S, NEW T, NEW f \in [S -> T], NEW g \in [S -> T], \A x \in S : f[x] = g[x]
  PROVE  f = g
OBVIOUS

\* The counts after the segments between two stops.
LEMMA CountedIsRight ==
  ASSUME IInv, NEW r \in DOMAIN workers, NEW to \in Stops[r], workers[r].pos < to
  PROVE  LET counts == Counted(r, workers[r].pos, to)
         IN  /\ counts \in [1 .. N -> 0 .. MaxValue]
             /\ RightButLast(r, to, counts)
             /\ workers[r].counts = Truth(r, workers[r].pos) => counts = Truth(r, to)
<1> DEFINE from == workers[r].pos
           was == workers[r].counts
           counts == Counted(r, from, to)
<1>1. /\ r \in Required /\ from \in Stops[r] /\ was \in [1 .. N -> 0 .. MaxValue]
      /\ RightButLast(r, from, was)
  BY WorkerFacts
<1>2. /\ N \in Nat /\ N >= 1 /\ MaxValue \in Nat /\ DOMAIN Differences = 1 .. N
      /\ N \in 1 .. N
  BY DifferenceFacts, BaseAssumption
<1>3. /\ Truth(r, from) \in [1 .. N -> 0 .. MaxValue] /\ Truth(r, to) \in [1 .. N -> 0 .. MaxValue]
  BY <1>1, TruthFacts
<1>4. \A i \in 1 .. N : Truth(r, from)[i] <= Truth(r, to)[i]
  <2>1. from <= to
    <3>1. from \in Nat /\ to \in Nat
      BY <1>1, RangeFacts
    <3> QED
      BY <3>1
  <2> QED
    BY <1>1, <1>2, <2>1, TruthAssumption
<1>5. \A i \in 1 .. N : was[i] <= Truth(r, from)[i]
  <2>1. /\ \A i \in 1 .. N - 1 : was[i] = Truth(r, from)[i]
        /\ was[N] <= Truth(r, from)[N]
    BY <1>1 DEF RightButLast, N
  <2>2. \A i \in 1 .. N : i \in 1 .. N - 1 \/ i = N
    BY <1>2
  <2>3. \A i \in 1 .. N : Truth(r, from)[i] <= Truth(r, from)[i]
    BY <1>2, <1>3
  <2> QED
    BY <2>1, <2>2, <2>3
<1>6. \A i \in 1 .. N : counts[i] = was[i] + Truth(r, to)[i] - Truth(r, from)[i]
  BY <1>2 DEF Counted
<1>7. \A i \in 1 .. N : counts[i] \in 0 .. MaxValue /\ counts[i] <= Truth(r, to)[i]
  <2> TAKE i \in 1 .. N
  <2>1. /\ was[i] \in 0 .. MaxValue /\ Truth(r, from)[i] \in 0 .. MaxValue
        /\ Truth(r, to)[i] \in 0 .. MaxValue
    BY <1>1, <1>3
  <2> QED
    BY <1>2, <1>4, <1>5, <1>6, <2>1
<1>8. DOMAIN counts = 1 .. N
  BY <1>2 DEF Counted
<1>9. counts \in [1 .. N -> 0 .. MaxValue]
  BY <1>7, <1>8 DEF Counted
<1>10. \A i \in 1 .. N : was[i] = Truth(r, from)[i] => counts[i] = Truth(r, to)[i]
  <2> TAKE i \in 1 .. N
  <2>1. Truth(r, from)[i] \in 0 .. MaxValue /\ Truth(r, to)[i] \in 0 .. MaxValue
    BY <1>3
  <2> QED
    BY <1>2, <1>6, <2>1
<1> HIDE DEF counts
<1>11. Len(counts) = N
  BY <1>2, <1>9, FunctionIsSequence
<1>12. \A i \in 1 .. N - 1 : counts[i] = Truth(r, to)[i]
  <2>1. \A i \in 1 .. N - 1 : was[i] = Truth(r, from)[i] /\ i \in 1 .. N
    BY <1>1, <1>2 DEF RightButLast, N
  <2> QED
    BY <1>10, <2>1
<1>13. RightButLast(r, to, counts)
  BY <1>2, <1>7, <1>11, <1>12 DEF RightButLast, N
<1>14. ASSUME was = Truth(r, from)
       PROVE  counts = Truth(r, to)
  <2>1. \A i \in 1 .. N : counts[i] = Truth(r, to)[i]
    BY <1>10, <1>14
  <2>2. counts \in [1 .. N -> 0 .. MaxValue] /\ Truth(r, to) \in [1 .. N -> 0 .. MaxValue]
    BY <1>3, <1>9
  <2>3. PICK t : t = Truth(r, to)
    OBVIOUS
  <2>4. t \in [1 .. N -> 0 .. MaxValue] /\ \A i \in 1 .. N : counts[i] = t[i]
    BY <2>1, <2>2, <2>3
  <2>5. PICK c : c = counts
    OBVIOUS
  <2>6. \A S, T : \A f, g \in [S -> T] : (\A x \in S : f[x] = g[x]) => f = g
    BY SameFunction
  <2>7. PICK S : S = 1 .. N
    OBVIOUS
  <2>8. c \in [S -> 0 .. MaxValue] /\ t \in [S -> 0 .. MaxValue] /\ \A i \in S : c[i] = t[i]
    BY <2>2, <2>4, <2>5, <2>7
  <2>9. c = t
    BY <2>6, <2>8
  <2> QED
    BY <2>3, <2>5, <2>9
<1> QED
  BY <1>9, <1>13, <1>14 DEF counts

LEMMA WorkKeeps ==
  ASSUME IInv, NEW r \in Required, Work(r)
  PROVE  IInv'
<1>1. /\ tears \in Nat /\ tears' = tears /\ kills' = kills /\ kills \in Nat
      /\ tears <= tears /\ tears + kills <= MaxFaults
  BY FaultFacts DEF Work, bounds
<1>2. /\ journal' = journal /\ files' = files /\ process' = process /\ process = "running"
      /\ r \in DOMAIN workers /\ workers[r].stage = "works"
  BY DEF Work, At
<1>3. /\ LinesOK' /\ OneSoundLine' /\ OriginsOK' /\ JournalTyped'
      /\ Accepted' = Accepted /\ (Glueing' <=> Glueing)
      /\ \A q : NoLineOf(q)' <=> NoLineOf(q)
  BY <1>1, <1>2, SameJournal
<1>4. FilesOK' /\ DOMAIN files' \subseteq Required
  BY <1>1, <1>2, SameFiles
<1>5. PICK to \in Stops[r] :
        /\ workers[r].pos < to
        /\ workers' = [workers EXCEPT ![r].pos = to,
                                      ![r].counts = Counted(r, workers[r].pos, to)]
  BY DEF Work
<1>6. PICK counts : counts = Counted(r, workers[r].pos, to)
  OBVIOUS
<1>7. /\ counts \in [1 .. N -> 0 .. MaxValue] /\ RightButLast(r, to, counts)
      /\ workers[r].counts = Truth(r, workers[r].pos) => counts = Truth(r, to)
  BY <1>2, <1>5, <1>6, CountedIsRight
<1>8. /\ workers[r] \in WorkerSet /\ NoLineOf(r)
      /\ workers[r].saves \/ tears = 0 => workers[r].counts = Truth(r, workers[r].pos)
  BY <1>2, WorkerFacts
<1>9. PICK w : w = [workers[r] EXCEPT !.pos = to, !.counts = counts]
  OBVIOUS
<1>10. workers' = [workers EXCEPT ![r] = w]
  <2>1. workers \in [DOMAIN workers -> WorkerSet]
    BY DEF IInv, WorkersOK
  <2> QED
    BY <1>2, <1>5, <1>6, <1>8, <1>9, <2>1 DEF WorkerSet
<1>11. /\ w \in WorkerSet /\ w.pos = to /\ w.counts = counts /\ w.stage = "works"
       /\ w.saves = workers[r].saves
  <2>1. to \in Nat /\ counts \in [DOMAIN Differences -> 0 .. MaxValue]
    BY <1>2, <1>7, RangeFacts, DifferenceFacts
  <2> QED
    BY <1>2, <1>8, <1>9, <2>1 DEF WorkerSet
<1>12. WorkersOK' /\ WorkersTyped'
  BY <1>1, <1>2, <1>3, <1>7, <1>8, <1>10, <1>11, WorkersAfter
<1> QED
  BY <1>1, <1>2, <1>3, <1>4, <1>12, Together

\* What a worker writes that saves.
LEMMA SavedText ==
  ASSUME IInv, NEW r \in DOMAIN workers, workers[r].saves
  PROVE  /\ TextOf(r) = TrueFile(r, workers[r].pos)
         /\ r \in Required /\ workers[r].pos \in Stops[r]
         /\ TextOf(r) \in Seq(EntrySet)
         /\ RestOfFile(TextOf(r), TrueFile(r, workers[r].pos))
<1>1. /\ r \in Required /\ workers[r].pos \in Stops[r]
      /\ workers[r].counts = Truth(r, workers[r].pos)
  BY WorkerFacts
<1>2. TextOf(r) = TrueFile(r, workers[r].pos)
  BY <1>1 DEF TextOf, TrueFile
<1>3. TextOf(r) \in Seq(EntrySet) /\ Len(TextOf(r)) = 7
  <2>1. PICK pos \in Stops[r] : pos = workers[r].pos
    BY <1>1
  <2>2. TrueFile(r, pos) \in Seq(EntrySet) /\ Len(TrueFile(r, pos)) = 7
    BY <1>1, TrueFileEntries
  <2> QED
    BY <1>2, <2>1, <2>2
<1>4. RestOfFile(TextOf(r), TrueFile(r, workers[r].pos))
  BY <1>2, <1>3 DEF RestOfFile
<1> QED
  BY <1>1, <1>2, <1>3, <1>4

LEMMA SaveKeeps ==
  ASSUME IInv, NEW r \in Required, Save(r)
  PROVE  IInv'
<1>1. /\ tears \in Nat /\ tears' = tears /\ kills' = kills /\ kills \in Nat
      /\ tears <= tears /\ tears + kills <= MaxFaults
  BY FaultFacts DEF Save, bounds
<1>2. /\ journal' = journal /\ workers' = workers /\ process' = process /\ process = "running"
      /\ r \in DOMAIN workers /\ workers[r].saves /\ files' = Holds(r, TextOf(r))
  BY DEF Save, At
<1>3. /\ LinesOK' /\ OneSoundLine' /\ OriginsOK' /\ JournalTyped'
      /\ Accepted' = Accepted /\ (Glueing' <=> Glueing)
      /\ \A q : NoLineOf(q)' <=> NoLineOf(q)
  BY <1>1, <1>2, SameJournal
<1>4. FilesOK' /\ DOMAIN files' \subseteq Required
  BY <1>1, <1>2, SavedText, FileHeld
<1>5. WorkersOK' /\ WorkersTyped'
  BY <1>1, <1>2, <1>3, SameWorkers
<1> QED
  BY <1>1, <1>2, <1>3, <1>4, <1>5, Together

LEMMA SaveTornKeeps ==
  ASSUME IInv, NEW r \in Required, SaveTorn(r)
  PROVE  IInv'
<1>1. /\ tears \in Nat /\ tears' = tears + 1 /\ kills' = kills /\ kills \in Nat
      /\ tears <= tears' /\ tears' + kills' <= MaxFaults /\ tears' \in Nat /\ tears' # 0
  <2>1. tears + kills < MaxFaults /\ tears' = tears + 1 /\ kills' = kills
    BY DEF SaveTorn, Tear, Fault
  <2> QED
    BY <2>1, FaultFacts
<1>2. /\ journal' = journal /\ workers' = workers /\ process' = process /\ process = "running"
      /\ r \in DOMAIN workers /\ workers[r].saves
      /\ \E text \in FileCuts(TextOf(r)) : files' = Holds(r, text)
  BY DEF SaveTorn, At
<1>3. /\ LinesOK' /\ OneSoundLine' /\ OriginsOK' /\ JournalTyped'
      /\ Accepted' = Accepted /\ (Glueing' <=> Glueing)
      /\ \A q : NoLineOf(q)' <=> NoLineOf(q)
  BY <1>1, <1>2, SameJournal
<1>4. FilesOK' /\ DOMAIN files' \subseteq Required
  <2>1. PICK text \in FileCuts(TextOf(r)) : files' = Holds(r, text)
    BY <1>2
  <2>2. PICK pos \in Stops[r] : /\ TextOf(r) = TrueFile(r, pos) /\ TextOf(r) \in Seq(EntrySet)
                                /\ RestOfFile(TextOf(r), TrueFile(r, pos))
    BY <1>2, SavedText
  <2>3. text \in Seq(EntrySet) /\ RestOfFile(text, TrueFile(r, pos))
    BY <2>1, <2>2, FileCutsFit
  <2> QED
    BY <1>1, <2>1, <2>3, FileHeld
<1>5. WorkersOK' /\ WorkersTyped'
  BY <1>1, <1>2, <1>3, SameWorkers
<1> QED
  BY <1>1, <1>2, <1>3, <1>4, <1>5, Together

\* A worker at another stage.
LEMMA StageFacts ==
  ASSUME IInv, NEW r \in DOMAIN workers, NEW stage \in {"written", "over"}, GoTo(r, stage)
  PROVE  \E w \in WorkerSet :
           /\ workers' = [workers EXCEPT ![r] = w] /\ w.stage = stage
           /\ w.pos = workers[r].pos /\ w.counts = workers[r].counts
           /\ w.saves = workers[r].saves
<1>1. workers \in [DOMAIN workers -> WorkerSet] /\ workers[r] \in WorkerSet
  BY DEF IInv, WorkersOK
<1>2. PICK w : w = [workers[r] EXCEPT !.stage = stage]
  OBVIOUS
<1>3. workers' = [workers EXCEPT ![r] = w]
  BY <1>1, <1>2 DEF GoTo, WorkerSet
<1>4. /\ w \in WorkerSet /\ w.stage = stage /\ w.pos = workers[r].pos
      /\ w.counts = workers[r].counts /\ w.saves = workers[r].saves
  BY <1>1, <1>2 DEF WorkerSet
<1> QED
  BY <1>3, <1>4

LEMMA GoesTo ==
  ASSUME IInv, NEW r \in DOMAIN workers, NEW stage \in {"written", "over"}, GoTo(r, stage),
         tears \in Nat, tears' \in Nat, tears <= tears',
         stage = "written" => r \in Accepted' \/ Glueing',
         \A q : q # r /\ NoLineOf(q) => NoLineOf(q)',
         \A q : q # r /\ (q \in Accepted \/ Glueing) => q \in Accepted' \/ Glueing'
  PROVE  WorkersOK' /\ WorkersTyped'
<1>1. PICK w \in WorkerSet :
           /\ workers' = [workers EXCEPT ![r] = w] /\ w.stage = stage
           /\ w.pos = workers[r].pos /\ w.counts = workers[r].counts
           /\ w.saves = workers[r].saves
  BY StageFacts
<1>2. /\ workers[r].pos \in Stops[r] /\ RightButLast(r, workers[r].pos, workers[r].counts)
      /\ workers[r].saves \/ tears = 0 => workers[r].counts = Truth(r, workers[r].pos)
  BY WorkerFacts
<1>3. (tears' = 0 => tears = 0) /\ w.stage # "works"
  BY <1>1
<1>4. w.saves \/ tears' = 0 => w.counts = Truth(r, w.pos)
  BY <1>1, <1>2, <1>3
<1>5. w.pos \in Stops[r] /\ RightButLast(r, w.pos, w.counts)
  BY <1>1, <1>2
<1>6. w.stage = "written" => r \in Accepted' \/ Glueing'
  BY <1>1
<1> QED
  BY <1>1, <1>3, <1>4, <1>5, <1>6, WorkersAfter

\* The record of a worker at the end of its range.
LEMMA RecordOfFacts ==
  ASSUME IInv, NEW r \in DOMAIN workers, AtEnd(r)
  PROVE  /\ RecordOf(r) \in Seq(Field) \ {<<>>} /\ Len(RecordOf(r)) = N + 3
         /\ RestOfList(RecordOf(r), TrueRecord(r)) /\ EndsWith(RecordOf(r), r)
         /\ tears = 0 => RecordOf(r) = TrueRecord(r)
<1>1. /\ r \in Required /\ workers[r].pos \in Stops[r]
      /\ workers[r].counts \in [1 .. N -> 0 .. MaxValue]
      /\ RightButLast(r, workers[r].pos, workers[r].counts)
      /\ tears = 0 => workers[r].counts = Truth(r, workers[r].pos)
  BY WorkerFacts
<1>2. workers[r].pos = r[2]
  <2>1. workers[r].pos \in Nat /\ workers[r].pos <= r[2] /\ r[2] \in Nat
    BY <1>1, RangeFacts
  <2> QED
    BY <2>1 DEF AtEnd
<1>3. PICK counts : counts = workers[r].counts
  OBVIOUS
<1>4. RecordOf(r) = Record(r, CpuTime(r), counts)
  BY <1>3 DEF RecordOf
<1>5. tears = 0 => RecordOf(r) = TrueRecord(r)
  BY <1>1, <1>2, <1>3, <1>4 DEF TrueRecord
<1> QED
  BY <1>1, <1>2, <1>3, <1>4, <1>5, RecordFits

LEMMA AppendKeeps ==
  ASSUME IInv, NEW r \in Required, AppendRecord(r)
  PROVE  IInv' /\ \A q : q \in Accepted => q \in Accepted' \/ Glueing'
<1>1. /\ tears \in Nat /\ tears' = tears /\ kills' = kills /\ kills \in Nat
      /\ tears <= tears /\ tears + kills <= MaxFaults
  BY FaultFacts DEF AppendRecord, bounds
<1>2. /\ journal' \in Appended(RecordOf(r), TRUE) /\ files' = files
      /\ process' = process /\ process = "running"
      /\ r \in DOMAIN workers /\ workers[r].stage = "works" /\ AtEnd(r) /\ GoTo(r, "written")
  BY DEF AppendRecord, At
<1>3. NoLineOf(r)
  BY <1>2, WorkerFacts
<1>4. /\ RecordOf(r) \in Seq(Field) \ {<<>>} /\ Len(RecordOf(r)) = N + 3
      /\ RestOfList(RecordOf(r), TrueRecord(r)) /\ EndsWith(RecordOf(r), r)
      /\ tears = 0 => RecordOf(r) = TrueRecord(r)
  BY <1>2, RecordOfFacts
<1>5. /\ LinesOK' /\ OneSoundLine' /\ OriginsOK'
      /\ \A i \in DOMAIN journal' : /\ journal'[i].pieces \in Nat \ {0}
                                    /\ journal'[i].ended \/ i = Len(journal')
      /\ \A q : q # r /\ (\A i \in Sound : RangeOf(journal[i].text) # q) =>
                  \A i \in Sound' : RangeOf(journal'[i].text) # q
      /\ \A q : q \in Accepted \/ Glueing => q \in Accepted' \/ Glueing'
      /\ r \in Accepted' \/ Glueing'
  <2>1. PICK text : text = RecordOf(r)
    OBVIOUS
  <2>2. PICK ended \in BOOLEAN : ended
    OBVIOUS
  <2>3. journal' \in Appended(text, ended)
    BY <1>2, <2>1, <2>2
  <2>4. tears' = IF ended THEN tears ELSE tears + 1
    BY <1>1, <2>2
  <2>5. \A i \in Sound : RangeOf(journal[i].text) # r
    BY <1>3 DEF NoLineOf
  <2> QED
    BY <1>4, <2>1, <2>2, <2>3, <2>4, <2>5, AppendStep
<1>6. JournalTyped' /\ \A q : q # r /\ NoLineOf(q) => NoLineOf(q)'
  BY <1>5 DEF JournalTyped, NoLineOf
<1>7. FilesOK' /\ DOMAIN files' \subseteq Required
  BY <1>1, <1>2, SameFiles
<1>8. WorkersOK' /\ WorkersTyped'
  BY <1>1, <1>2, <1>5, <1>6, GoesTo
<1> QED
  BY <1>1, <1>2, <1>5, <1>6, <1>7, <1>8, Together

LEMMA AppendTornKeeps ==
  ASSUME IInv, NEW r \in Required, AppendTorn(r)
  PROVE  IInv'
<1>1. /\ tears \in Nat /\ tears' = tears + 1 /\ kills' = kills /\ kills \in Nat
      /\ tears <= tears' /\ tears' + kills' <= MaxFaults /\ tears' \in Nat /\ tears' # 0
  <2>1. tears + kills < MaxFaults /\ tears' = tears + 1 /\ kills' = kills
    BY DEF AppendTorn, Tear, Fault
  <2> QED
    BY <2>1, FaultFacts
<1>2. /\ files' = files /\ process' = process /\ process = "running"
      /\ r \in DOMAIN workers /\ workers[r].stage = "works" /\ AtEnd(r) /\ GoTo(r, "over")
  BY DEF AppendTorn, At, GivesUp
<1>3. FilesOK' /\ DOMAIN files' \subseteq Required
  BY <1>1, <1>2, SameFiles
<1>4. CASE journal' = journal
  <2>1. /\ LinesOK' /\ OneSoundLine' /\ OriginsOK' /\ JournalTyped'
        /\ Accepted' = Accepted /\ (Glueing' <=> Glueing)
        /\ \A q : NoLineOf(q)' <=> NoLineOf(q)
    BY <1>1, <1>4, SameJournal
  <2>2. WorkersOK' /\ WorkersTyped'
    BY <1>1, <1>2, <2>1, GoesTo
  <2> QED
    BY <1>1, <1>2, <1>3, <1>4, <2>1, <2>2, Together
<1>5. CASE \E text \in CutsOf(RecordOf(r)) : journal' \in Appended(text, FALSE)
  <2>1. PICK text \in CutsOf(RecordOf(r)) : journal' \in Appended(text, FALSE)
    BY <1>5
  <2>2. NoLineOf(r)
    BY <1>2, WorkerFacts
  <2>3. RecordOf(r) \in Seq(Field) /\ RestOfList(RecordOf(r), TrueRecord(r))
    BY <1>2, RecordOfFacts
  <2>4. text \in Seq(Field) \ {<<>>} /\ RestOfList(text, TrueRecord(r))
    <3>1. text \in Seq(Field) \ {<<>>} /\ RestOfList(text, RecordOf(r))
      BY <2>1, <2>3, CutsFit
    <3>2. TrueRecord(r) \in Seq(Field)
      BY TrueRecordFields
    <3> QED
      BY <2>3, <3>1, <3>2, RestOfListTransitive
  <2>5. /\ LinesOK' /\ OneSoundLine' /\ OriginsOK'
        /\ \A i \in DOMAIN journal' : /\ journal'[i].pieces \in Nat \ {0}
                                      /\ journal'[i].ended \/ i = Len(journal')
        /\ \A q : q # r /\ (\A i \in Sound : RangeOf(journal[i].text) # q) =>
                    \A i \in Sound' : RangeOf(journal'[i].text) # q
        /\ \A q : q \in Accepted \/ Glueing => q \in Accepted' \/ Glueing'
    <3>1. PICK ended \in BOOLEAN : ~ended
      OBVIOUS
    <3>2. journal' \in Appended(text, ended)
      BY <2>1, <3>1
    <3>3. tears' = IF ended THEN tears ELSE tears + 1
      BY <1>1, <3>1
    <3>4. \A i \in Sound : RangeOf(journal[i].text) # r
      BY <2>2 DEF NoLineOf
    <3> QED
      BY <2>4, <3>1, <3>2, <3>3, <3>4, AppendStep
  <2>6. JournalTyped' /\ \A q : q # r /\ NoLineOf(q) => NoLineOf(q)'
    BY <2>5 DEF JournalTyped, NoLineOf
  <2>7. WorkersOK' /\ WorkersTyped'
    BY <1>1, <1>2, <2>5, <2>6, GoesTo
  <2> QED
    BY <1>1, <1>2, <1>3, <2>5, <2>6, <2>7, Together
<1> QED
  BY <1>4, <1>5 DEF AppendTorn

LEMMA RemoveKeeps ==
  ASSUME IInv, NEW r \in Required, RemoveFile(r)
  PROVE  IInv'
<1>1. /\ tears \in Nat /\ tears' = tears /\ kills' = kills /\ kills \in Nat
      /\ tears <= tears /\ tears + kills <= MaxFaults
  BY FaultFacts DEF RemoveFile, bounds
<1>2. /\ journal' = journal /\ files' = [q \in DOMAIN files \ {r} |-> files[q]]
      /\ process' = process /\ process = "running"
      /\ r \in DOMAIN workers /\ GoTo(r, "over")
  BY DEF RemoveFile, At
<1>3. /\ LinesOK' /\ OneSoundLine' /\ OriginsOK' /\ JournalTyped'
      /\ Accepted' = Accepted /\ (Glueing' <=> Glueing)
      /\ \A q : NoLineOf(q)' <=> NoLineOf(q)
  BY <1>1, <1>2, SameJournal
<1>4. FilesOK' /\ DOMAIN files' \subseteq Required
  <2>1. DOMAIN files \ {r} \in SUBSET DOMAIN files
    OBVIOUS
  <2> QED
    BY <1>1, <1>2, <2>1, FewerFiles
<1>5. WorkersOK' /\ WorkersTyped'
  BY <1>1, <1>2, <1>3, GoesTo
<1> QED
  BY <1>1, <1>2, <1>3, <1>4, <1>5, Together

\* The end of an invocation, whether it is finished or killed.
LEMMA EndKeeps ==
  ASSUME IInv, journal' = journal, files' = files, workers' = [r \in {} |-> 0], tears' = tears,
         kills' \in Nat, tears + kills' <= MaxFaults, process' \in {"stopped", "reported"}
  PROVE  IInv'
<1>1. tears \in Nat /\ tears <= tears /\ tears' \in Nat
  BY FaultFacts
<1>2. /\ LinesOK' /\ OneSoundLine' /\ OriginsOK' /\ JournalTyped'
  BY <1>1, SameJournal
<1>3. FilesOK' /\ DOMAIN files' \subseteq Required
  BY <1>1, SameFiles
<1>4. WorkersOK' /\ WorkersTyped'
  BY NoWorkers
<1> QED
  BY <1>1, <1>2, <1>3, <1>4, Together

LEMMA FinishKeeps ==
  ASSUME IInv, Finish
  PROVE  IInv'
<1>1. tears \in Nat /\ tears' = tears /\ kills' = kills /\ kills \in Nat /\ tears + kills <= MaxFaults
  BY FaultFacts DEF Finish, bounds
<1>2. /\ journal' = journal /\ files' = files /\ workers' = [r \in {} |-> 0]
      /\ process' \in {"stopped", "reported"}
  BY DEF Finish
<1> QED
  BY <1>1, <1>2, EndKeeps

LEMMA KillKeeps ==
  ASSUME IInv, Kill
  PROVE  IInv'
<1>1. tears' = tears /\ kills' = kills + 1 /\ kills' \in Nat /\ tears + kills' <= MaxFaults
  BY FaultFacts DEF Kill, Fault
<1>2. /\ journal' = journal /\ files' = files /\ workers' = [r \in {} |-> 0]
      /\ process' \in {"stopped", "reported"}
  BY DEF Kill
<1> QED
  BY <1>1, <1>2, EndKeeps

\* A line that is cut: what is left of it is one of the same range, or none.
LEMMA CutLine ==
  ASSUME IInv, tears' = tears + 1, NEW k \in Nat, k + 1 \in 1 .. Len(journal),
         NEW cut \in CutsOf(journal[k + 1].text),
         NEW l, l.text = cut, ~l.ended, l.pieces = journal[k + 1].pieces
  PROVE  /\ LineOK(l)'
         /\ Outcome(l.text) = "accepted" /\ SoundLine(l) =>
              \A i \in Sound : i <= k => RangeOf(journal[i].text) # RangeOf(l.text)
         /\ \E r1, r2 \in Required :
              /\ Origin(l, r1, r2)
              /\ \A j \in Sound : j <= k => RangeOf(journal[j].text) \notin {r1, r2}
<1>1. PICK old \in LineSet : old = journal[k + 1] /\ LineOK(old)
  BY JournalFacts
<1>2. old.text \in Seq(Field) \ {<<>>} /\ old.pieces \in Nat /\ old.pieces >= 1
  BY LineFacts
<1>3. cut \in Seq(Field) \ {<<>>} /\ RestOfList(cut, old.text)
  BY <1>1, <1>2, CutsFit
<1>4. l.text = cut /\ ~l.ended /\ l.pieces = old.pieces
  BY <1>1
<1>5. /\ old.pieces = 1 => \E r \in Required : RestOfList(old.text, TrueRecord(r))
      /\ old.pieces <= (IF old.ended THEN tears + 1 ELSE tears)
  BY <1>1 DEF LineOK
<1>6. LineOK(l)'
  <2>1. l.pieces <= (IF l.ended THEN tears' + 1 ELSE tears')
    <3>1. tears \in Nat
      BY FaultFacts
    <3>2. old.pieces <= tears + 1 \/ old.pieces <= tears
      BY <1>5
    <3>3. l.pieces <= tears'
      <4>1. l.pieces = old.pieces /\ old.pieces \in Nat
        BY <1>2, <1>4
      <4> QED
        BY <3>1, <3>2, <4>1
    <3> QED
      BY <1>4, <3>3
  <2>2. l.pieces = 1 => \E r \in Required : RestOfList(l.text, TrueRecord(r))
    <3> SUFFICES ASSUME l.pieces = 1
                 PROVE  \E r \in Required : RestOfList(cut, TrueRecord(r))
      BY <1>4
    <3>1. PICK r \in Required : RestOfList(old.text, TrueRecord(r))
      BY <1>4, <1>5
    <3>2. TrueRecord(r) \in Seq(Field)
      BY TrueRecordFields
    <3> QED
      BY <1>2, <1>3, <3>1, <3>2, RestOfListTransitive
  <2> QED
    BY <1>4, <2>1, <2>2 DEF LineOK
<1>7. ASSUME Outcome(l.text) = "accepted", SoundLine(l)
      PROVE  \A i \in Sound : i <= k => RangeOf(journal[i].text) # RangeOf(l.text)
  <2>1. l.pieces = 1
    BY <1>4, <1>7 DEF SoundLine
  <2>2. PICK r \in Required : RestOfList(old.text, TrueRecord(r))
    BY <1>4, <1>5, <2>1
  <2>3. Outcome(old.text) = "accepted" /\ RangeOf(old.text) = r /\ RangeOf(cut) = r
    <3>1. cut \in CutsOf(old.text) /\ Outcome(cut) = "accepted"
      BY <1>1, <1>4, <1>7
    <3> QED
      BY <1>2, <2>2, <3>1, CutAccepted
  <2>4. k + 1 \in Sound
    <3>1. SoundLine(journal[k + 1])
      BY <1>1, <1>4, <2>1 DEF SoundLine
    <3>2. DOMAIN journal = 1 .. Len(journal)
      BY JournalFacts
    <3> QED
      BY <1>1, <2>3, <3>1, <3>2, SoundFacts
  <2>5. \A i \in Sound : RangeOf(journal[i].text) = r => i = k + 1
    BY <1>1, <2>3, <2>4 DEF IInv, OneSoundLine
  <2>6. ~(k + 1 <= k)
    OBVIOUS
  <2> QED
    BY <1>4, <2>3, <2>5, <2>6
<1>8. PICK r1, r2 \in Required :
        Origin(old, r1, r2) /\ NoneBefore(k + 1, r1) /\ NoneBefore(k + 1, r2)
  BY <1>1, JournalFacts DEF IInv, OriginsOK
<1>9. Origin(l, r1, r2)
  <2>1. ASSUME l.pieces = 1
        PROVE  r1 = r2 /\ RestOfList(l.text, TrueRecord(r1))
    <3>1. r1 = r2 /\ RestOfList(old.text, TrueRecord(r1))
      BY <1>4, <1>8, <2>1 DEF Origin
    <3>2. TrueRecord(r1) \in Seq(Field)
      BY TrueRecordFields
    <3> QED
      BY <1>2, <1>3, <1>4, <3>1, <3>2, RestOfListTransitive
  <2>2. ASSUME l.pieces = 2, Len(l.text) > 2
        PROVE  l.text[1] = r1[1] \/ l.text[2] = r2[2]
    <3>1. /\ Len(cut) \in Nat /\ Len(cut) > 2 /\ Len(old.text) \in Nat
          /\ Len(cut) <= Len(old.text)
      BY <1>2, <1>3, <1>4, <2>2 DEF RestOfList
    <3>2. /\ 1 \in 1 .. Len(cut) /\ 2 \in 1 .. Len(cut) /\ 1 # Len(cut) /\ 2 # Len(cut)
          /\ Len(old.text) > 2
      <4>1. \A n, m \in Nat : n > 2 /\ n <= m => m > 2
        OBVIOUS
      <4> QED
        BY <3>1, <4>1, FirstTwo
    <3>3. cut[1] = old.text[1] /\ cut[2] = old.text[2]
      BY <1>3, <3>2 DEF RestOfList
    <3>4. old.text[1] = r1[1] \/ old.text[2] = r2[2]
      BY <1>4, <1>8, <2>2, <3>2 DEF Origin
    <3> QED
      BY <1>4, <3>3, <3>4
  <2> QED
    BY <2>1, <2>2 DEF Origin
<1>10. \A j \in Sound : j <= k => RangeOf(journal[j].text) \notin {r1, r2}
  <2>1. \A j \in Sound : j \in Nat
    <3>1. Sound \subseteq 1 .. Len(journal)
      BY JournalFacts, SoundFacts
    <3> QED
      BY <3>1
  <2>2. \A j \in Sound : j <= k => j < k + 1
    BY <2>1
  <2> QED
    BY <1>8, <2>2 DEF NoneBefore
<1> QED
  BY <1>6, <1>7, <1>9, <1>10

LEMMA PowerFailsKeeps ==
  ASSUME IInv, PowerFails
  PROVE  IInv'
<1>1. /\ tears \in Nat /\ tears' = tears + 1 /\ kills' = kills /\ kills \in Nat
      /\ tears <= tears' /\ tears' + kills' <= MaxFaults /\ tears' \in Nat /\ tears' # 0
  <2>1. tears + kills < MaxFaults /\ tears' = tears + 1 /\ kills' = kills
    BY DEF PowerFails, Tear, Fault
  <2> QED
    BY <2>1, FaultFacts
<1>2. process' = "stopped" /\ workers' = [r \in {} |-> 0]
  BY DEF PowerFails
<1>3. WorkersOK' /\ WorkersTyped'
  BY <1>2, NoWorkers
<1>4. CASE journal' \in JournalCuts /\ files' = files
  <2>1. FilesOK' /\ DOMAIN files' \subseteq Required
    BY <1>1, <1>4, SameFiles
  <2>2. PICK k \in Nat :
          /\ Kept(k)
          /\ k + 1 \in 1 .. Len(journal)
          /\ Len(journal') = k + 1 =>
               \E cut \in CutsOf(journal[k + 1].text) :
                 journal'[k + 1] = Line(cut, FALSE, journal[k + 1].pieces)
    BY <1>4, JournalCutsFacts
  <2>3. PICK l : l = journal'[k + 1]
    OBVIOUS
  <2>4. Len(journal') = k + 1 =>
          /\ journal'[k + 1] = l
          /\ LineOK(l)'
          /\ Outcome(l.text) = "accepted" /\ SoundLine(l) =>
               \A i \in Sound : i <= k => RangeOf(journal[i].text) # RangeOf(l.text)
    <3> SUFFICES ASSUME Len(journal') = k + 1
                 PROVE  /\ LineOK(l)'
                        /\ Outcome(l.text) = "accepted" /\ SoundLine(l) =>
                             \A i \in Sound : i <= k => RangeOf(journal[i].text) # RangeOf(l.text)
      BY <2>3
    <3>1. PICK cut \in CutsOf(journal[k + 1].text) : l = Line(cut, FALSE, journal[k + 1].pieces)
      BY <2>2, <2>3
    <3>2. l.text = cut /\ ~l.ended /\ l.pieces = journal[k + 1].pieces
      BY <3>1 DEF Line
    <3> QED
      BY <1>1, <2>2, <3>2, CutLine
  <2>5. /\ LinesOK' /\ OneSoundLine'
        /\ \A i \in DOMAIN journal' : /\ journal'[i].pieces \in Nat \ {0}
                                      /\ journal'[i].ended \/ i = Len(journal')
    BY <1>1, <2>2, <2>4, KeptLines
  <2>6. JournalTyped'
    BY <2>5 DEF JournalTyped
  <2>7. OriginsOK'
    <3>1. ASSUME Len(journal') = k + 1
          PROVE  \E r1, r2 \in Required :
                   /\ Origin(l, r1, r2)
                   /\ \A j \in Sound : j <= k => RangeOf(journal[j].text) \notin {r1, r2}
      <4>1. PICK cut \in CutsOf(journal[k + 1].text) : l = Line(cut, FALSE, journal[k + 1].pieces)
        BY <2>2, <2>3, <3>1
      <4>2. l.text = cut /\ ~l.ended /\ l.pieces = journal[k + 1].pieces
        BY <4>1 DEF Line
      <4> QED
        BY <1>1, <2>2, <4>2, CutLine
    <3> QED
      BY <2>2, <2>3, <3>1, KeptOrigins
  <2> QED
    BY <1>1, <1>2, <1>3, <2>1, <2>5, <2>6, <2>7, Together
<1>5. CASE /\ \E r \in DOMAIN files : \E text \in FileCuts(files[r]) : files' = Holds(r, text)
           /\ journal' = journal
  <2>1. LinesOK' /\ OneSoundLine' /\ OriginsOK' /\ JournalTyped'
    BY <1>1, <1>5, SameJournal
  <2>2. PICK r \in DOMAIN files : \E text \in FileCuts(files[r]) : files' = Holds(r, text)
    BY <1>5
  <2>3. PICK text \in FileCuts(files[r]) : files' = Holds(r, text)
    BY <2>2
  <2>4. r \in Required /\ files[r] \in Seq(EntrySet)
    BY FileFacts
  <2>5. PICK pos \in Stops[r] : RestOfFile(files[r], TrueFile(r, pos))
    BY FileFacts
  <2>6. TrueFile(r, pos) \in Seq(EntrySet)
    BY <2>4, TrueFileEntries
  <2>7. text \in Seq(EntrySet) /\ RestOfFile(text, TrueFile(r, pos))
    BY <2>4, <2>5, <2>6, FileCutsFit
  <2>8. FilesOK' /\ DOMAIN files' \subseteq Required
    BY <1>1, <2>3, <2>4, <2>7, FileHeld
  <2> QED
    BY <1>1, <1>2, <1>3, <2>1, <2>8, Together
<1> QED
  BY <1>4, <1>5 DEF PowerFails

-----------------------------------------------------------------------------
(* The theorems *)

LEMMA InitHolds ==
  ASSUME Init
  PROVE  IInv
<1>1. /\ process = "stopped" /\ journal = <<>> /\ tears = 0 /\ kills = 0
      /\ workers = [r \in {} |-> 0] /\ files = [r \in {} |-> 0]
  BY DEF Init
<1>2. journal \in Seq(LineSet) /\ DOMAIN journal = {}
  BY <1>1, EmptySeq
<1>3. TypeOK
  BY <1>1, <1>2, BoundAssumption DEF TypeOK
<1>4. LinesOK /\ OriginsOK
  BY <1>2 DEF LinesOK, OriginsOK
<1>5. OneSoundLine
  BY <1>2 DEF OneSoundLine, Sound, MatchingLines
<1>6. FilesOK /\ WorkersOK
  BY <1>1 DEF FilesOK, WorkersOK
<1> QED
  BY <1>1, <1>3, <1>4, <1>5, <1>6 DEF IInv

LEMMA NextKeeps ==
  ASSUME IInv, [Next]_vars
  PROVE  IInv'
<1>1. CASE UNCHANGED vars
  <2>1. tears \in Nat /\ kills \in Nat /\ tears + kills <= MaxFaults /\ tears <= tears
        /\ process \in {"stopped", "running", "aborted", "reported"}
        /\ (tears = 0 => process # "aborted")
    BY FaultFacts
  <2>2. /\ journal' = journal /\ files' = files /\ workers' = workers /\ process' = process
        /\ tears' = tears /\ kills' = kills
    BY <1>1 DEF vars
  <2>3. /\ LinesOK' /\ OneSoundLine' /\ OriginsOK' /\ JournalTyped'
        /\ Accepted' = Accepted /\ (Glueing' <=> Glueing)
        /\ \A q : NoLineOf(q)' <=> NoLineOf(q)
    BY <2>1, <2>2, SameJournal
  <2>4. FilesOK' /\ DOMAIN files' \subseteq Required
    BY <2>1, <2>2, SameFiles
  <2>5. WorkersOK' /\ WorkersTyped'
    BY <2>1, <2>2, <2>3, SameWorkers
  <2> QED
    BY <2>1, <2>2, <2>3, <2>4, <2>5, Together
<1>2. CASE Launch
  BY <1>2, Launches
<1>3. ASSUME NEW r \in Required,
             \/ Work(r) \/ Save(r) \/ AppendRecord(r) \/ RemoveFile(r)
             \/ SaveTorn(r) \/ AppendTorn(r)
      PROVE  IInv'
  BY <1>3, WorkKeeps, SaveKeeps, AppendKeeps, RemoveKeeps, SaveTornKeeps, AppendTornKeeps
<1>4. CASE Finish
  BY <1>4, FinishKeeps
<1>5. CASE Kill
  BY <1>5, KillKeeps
<1>6. CASE PowerFails
  BY <1>6, PowerFailsKeeps
<1> QED
  BY <1>1, <1>2, <1>3, <1>4, <1>5, <1>6 DEF Next

\* The invariant all the others follow from.
THEOREM Invariance == Spec => []IInv
<1>1. Init => IInv
  BY InitHolds
<1>2. IInv /\ [Next]_vars => IInv'
  BY NextKeeps
<1> QED
  BY <1>1, <1>2, PTL DEF Spec

\* Every variable has its type, however often the writes are damaged.
THEOREM TypeCorrect == Spec => []TypeOK
<1>1. IInv => TypeOK
  BY DEF IInv
<1> QED
  BY <1>1, Invariance, PTL

LEMMA LinesSaid ==
  ASSUME IInv, NEW l \in Lines
  PROVE  /\ l \in LineSet /\ l.text \in Seq(Field) \ {<<>>}
         /\ l.pieces \in Nat /\ l.pieces >= 1 /\ LineOK(l)
         /\ tears = 0 => \E r \in Required : l.text = TrueRecord(r)
<1>1. l \in LineSet /\ LineOK(l)
  BY JournalFacts
<1>2. tears = 0 => \E r \in Required : l.text = TrueRecord(r)
  BY DEF IInv, LinesOK, Lines
<1> QED
  BY <1>1, <1>2, LineFacts

LEMMA CountsRightButLast ==
  ASSUME IInv
  PROVE  OnlyLastCountDamaged
<1>1. \A r \in DOMAIN workers : RightButLast(r, workers[r].pos, workers[r].counts)
  BY WorkerFacts
<1>2. ASSUME NEW l \in Lines, Outcome(l.text) = "accepted", l.ended \/ l.pieces = 1
      PROVE  RightButLast(RangeOf(l.text), RangeOf(l.text)[2], CountsOf(l.text))
  <2>1. l.text \in Seq(Field) \ {<<>>}
    BY LinesSaid
  <2>2. CASE l.ended
    <3>1. PICK r \in Required : EndsWith(l.text, r)
      BY <2>2, LinesSaid DEF LineOK
    <3>2. RangeOf(l.text) = r /\ RightButLast(r, r[2], CountsOf(l.text))
      BY <1>2, <2>1, <3>1, EndAccepted
    <3> QED
      BY <3>2
  <2>3. CASE l.pieces = 1
    <3>1. PICK r \in Required : RestOfList(l.text, TrueRecord(r))
      BY <2>3, LinesSaid DEF LineOK
    <3>2. RangeOf(l.text) = r /\ RightButLast(r, r[2], CountsOf(l.text))
      BY <1>2, <2>1, <3>1, RestAccepted
    <3> QED
      BY <3>2
  <2> QED
    BY <1>2, <2>2, <2>3
<1> QED
  BY <1>1, <1>2 DEF OnlyLastCountDamaged

\* What the program takes from damaged files as counts of a range is right but for
\* the last count, which may be too small: of a file cut anywhere, and of a line
\* that is cut, or has a whole record behind anything.
THEOREM DamageShows == Spec => []OnlyLastCountDamaged
<1>1. IInv => OnlyLastCountDamaged
  BY CountsRightButLast
<1> QED
  BY <1>1, Invariance, PTL

LEMMA UntornIsRead ==
  ASSUME IInv
  PROVE  ReadsWhatItWrote
<1> SUFFICES ASSUME tears = 0
             PROVE  /\ process # "aborted"
                    /\ \A l \in Lines :
                         /\ Outcome(l.text) = "accepted"
                         /\ CountsOf(l.text) = Truth(RangeOf(l.text), RangeOf(l.text)[2])
                    /\ \A r \in DOMAIN files :
                         /\ FileOutcome(files[r], r) = "resumed"
                         /\ ListOf(files[r], "current_counts")
                              = Truth(r, NumberOf(files[r], "current_position"))
  BY DEF ReadsWhatItWrote
<1>1. process # "aborted"
  BY FaultFacts
<1>2. ASSUME NEW l \in Lines
      PROVE  /\ Outcome(l.text) = "accepted"
             /\ CountsOf(l.text) = Truth(RangeOf(l.text), RangeOf(l.text)[2])
  <2>1. PICK r \in Required : l.text = TrueRecord(r)
    BY LinesSaid
  <2> QED
    BY <2>1, TrueRecordAccepted
<1>3. ASSUME NEW r \in DOMAIN files
      PROVE  /\ FileOutcome(files[r], r) = "resumed"
             /\ ListOf(files[r], "current_counts")
                  = Truth(r, NumberOf(files[r], "current_position"))
  <2>1. r \in Required /\ \E pos \in Stops[r] : files[r] = TrueFile(r, pos)
    BY FileFacts
  <2> QED
    BY <2>1, TrueFileResumed
<1> QED
  BY <1>1, <1>2, <1>3

\* As long as no write was damaged, every line is read as the record of its range,
\* every file as the state to go on from, and every start-up succeeds.
THEOREM WholeWritesAreRead == Spec => []ReadsWhatItWrote
<1>1. IInv => ReadsWhatItWrote
  BY UntornIsRead
<1> QED
  BY <1>1, Invariance, PTL

LEMMA ThrowingIsGlued ==
  ASSUME IInv
  PROVE  ThrowsOnlyGlued
<1> SUFFICES ASSUME NEW l \in Lines, Outcome(l.text) = "throws"
             PROVE  l.pieces > 1
  BY DEF ThrowsOnlyGlued
<1>1. l.text \in Seq(Field) \ {<<>>} /\ l.pieces \in Nat /\ l.pieces >= 1
  BY LinesSaid
<1>2. l.pieces # 1
  <2> SUFFICES ASSUME l.pieces = 1
               PROVE  FALSE
    OBVIOUS
  <2>1. PICK r \in Required : RestOfList(l.text, TrueRecord(r))
    BY LinesSaid DEF LineOK
  <2> QED
    BY <1>1, <2>1, RestDoesNotThrow
<1> QED
  BY <1>1, <1>2

\* A line that keeps the program from starting was written by more than one append.
THEOREM OneAppendDoesNotThrow == Spec => []ThrowsOnlyGlued
<1>1. IInv => ThrowsOnlyGlued
  BY ThrowingIsGlued
<1> QED
  BY <1>1, Invariance, PTL

\* However many writes are damaged, no two lines are accepted for one range among
\* those whose last append was whole, or is the only one.
THEOREM SoundLinesAreUnique == Spec => []OneSoundLine
<1>1. IInv => OneSoundLine
  BY DEF IInv
<1> QED
  BY <1>1, Invariance, PTL

\* An accepted line of two appends is of the range of one of them.
LEMMA OriginAccepted ==
  ASSUME NEW l, NEW r1 \in Required, NEW r2 \in Required, Origin(l, r1, r2), l.pieces = 2,
         l.text \in Seq(Field) \ {<<>>}, Outcome(l.text) = "accepted"
  PROVE  RangeOf(l.text) \in {r1, r2}
<1>1. PICK text : text = l.text
  OBVIOUS
<1>2. RangeOf(text) \in Required /\ Len(text) \in Nat /\ Len(text) >= N + 3
  BY <1>1, AcceptedFacts
<1>3. Len(text) > 2
  BY <1>2, DifferenceFacts
<1>4. text[1] = r1[1] \/ text[2] = r2[2]
  BY <1>1, <1>3 DEF Origin
<1>5. RangeOf(text)[1] = text[1] /\ RangeOf(text)[2] = text[2]
  BY DEF RangeOf
<1>6. PICK q \in Required : q = RangeOf(text)
  BY <1>2
<1>7. q[1] = r1[1] \/ q[2] = r2[2]
  BY <1>4, <1>5, <1>6
<1>8. q = r1 \/ q = r2
  BY <1>7, RangeFacts
<1> QED
  BY <1>1, <1>6, <1>8

LEMMA OneLineOfRange ==
  ASSUME IInv, tears <= 2
  PROVE  OneLinePerRange
<1>1. /\ Len(journal) \in Nat /\ DOMAIN journal = 1 .. Len(journal)
      /\ \A i \in 1 .. Len(journal) : /\ journal[i] \in LineSet /\ LineOK(journal[i])
                                      /\ journal[i].ended \/ i = Len(journal)
  BY JournalFacts
<1>2. \A i, j \in Sound : RangeOf(journal[i].text) = RangeOf(journal[j].text) => i = j
  BY DEF IInv, OneSoundLine
<1>3. \A i \in MatchingLines : i \in 1 .. Len(journal) /\ Outcome(journal[i].text) = "accepted"
  BY <1>1 DEF MatchingLines
<1>4. ASSUME NEW i \in MatchingLines, NEW j \in MatchingLines, i < j,
             RangeOf(journal[i].text) = RangeOf(journal[j].text)
      PROVE  FALSE
  <2>1. i \in Sound
    <3>1. i # Len(journal)
      <4>1. \A n \in Nat : \A x, y \in 1 .. n : x < y => x # n
        OBVIOUS
      <4> QED
        BY <1>1, <1>3, <1>4, <4>1
    <3>2. journal[i].ended
      BY <1>1, <1>3, <3>1
    <3> QED
      BY <3>2 DEF Sound, SoundLine
  <2>2. PICK l \in LineSet : l = journal[j] /\ LineOK(l)
    BY <1>1, <1>3
  <2>3. l.text \in Seq(Field) \ {<<>>} /\ l.pieces \in Nat /\ l.pieces >= 1
    BY LineFacts
  <2>4. CASE SoundLine(l)
    <3>1. j \in Sound
      BY <2>2, <2>4 DEF Sound
    <3>2. i = j
      BY <1>2, <1>4, <2>1, <3>1
    <3>3. \A n \in Nat : \A x, y \in 1 .. n : x < y => x # y
      OBVIOUS
    <3> QED
      BY <1>1, <1>3, <1>4, <3>2, <3>3
  <2>5. CASE ~SoundLine(l)
    <3>1. l.pieces <= tears /\ l.pieces # 1
      BY <2>2, <2>5 DEF LineOK, SoundLine
    <3>2. l.pieces = 2
      BY <2>3, <3>1, FaultFacts
    <3>3. PICK r1, r2 \in Required : Origin(l, r1, r2) /\ NoneBefore(j, r1) /\ NoneBefore(j, r2)
      BY <1>1, <1>3, <2>2 DEF IInv, OriginsOK
    <3>4. RangeOf(l.text) \in {r1, r2}
      BY <1>3, <2>2, <2>3, <3>2, <3>3, OriginAccepted
    <3> QED
      BY <1>4, <2>1, <2>2, <3>3, <3>4 DEF NoneBefore
  <2> QED
    BY <2>4, <2>5
<1>5. \A i, j \in MatchingLines : i = j \/ i < j \/ j < i
  <2>1. \A n \in Nat : \A i, j \in 1 .. n : i = j \/ i < j \/ j < i
    OBVIOUS
  <2> QED
    BY <1>1, <1>3, <2>1
<1> QED
  BY <1>4, <1>5 DEF OneLinePerRange

\* There is at most one line of a range that is accepted, so the report does not add
\* a range up twice, unless more than two writes were damaged.
THEOREM OneLineUnlessThreeDamaged == Spec => [](tears <= 2 => OneLinePerRange)
<1>1. IInv => (tears <= 2 => OneLinePerRange)
  BY OneLineOfRange
<1> QED
  BY <1>1, Invariance, PTL

\* What is known of a range stays known in a step that damages nothing.
LEMMA KnownAfter ==
  ASSUME IInv, Next, NEW q \in Known
  PROVE  q \in Known' \/ tears' > tears \/ Glueing'
<1>1. q \in Accepted \/ (q \in DOMAIN files /\ FileOutcome(files[q], q) = "resumed")
  BY DEF Known
<1>2. ASSUME journal' = journal, files' = files
      PROVE  q \in Known'
  BY <1>2 DEF Known, Accepted, Lines
<1>3. Launch \/ Finish \/ Kill => q \in Known'
  BY <1>2 DEF Launch, Finish, Kill
<1>4. PowerFails => tears' > tears
  BY FaultFacts DEF PowerFails, Tear
<1>5. ASSUME NEW r \in Required, SaveTorn(r) \/ AppendTorn(r)
      PROVE  tears' > tears
  <2>1. tears' = tears + 1
    BY <1>5 DEF SaveTorn, AppendTorn, Tear
  <2>2. tears \in Nat
    BY FaultFacts
  <2> QED
    BY <2>1, <2>2
<1>6. ASSUME NEW r \in Required, Work(r)
      PROVE  q \in Known'
  BY <1>2, <1>6 DEF Work
<1>7. ASSUME NEW r \in Required, Save(r)
      PROVE  q \in Known'
  <2>1. /\ journal' = journal /\ files' = Holds(r, TextOf(r))
        /\ r \in DOMAIN workers /\ workers[r].saves
    BY <1>7 DEF Save, At
  <2>2. Accepted' = Accepted
    BY <2>1 DEF Accepted, Lines
  <2>3. /\ DOMAIN files' = DOMAIN files \cup {r} /\ files'[r] = TextOf(r)
        /\ q \in DOMAIN files /\ q # r => files'[q] = files[q]
    BY <2>1 DEF Holds
  <2>4. FileOutcome(TextOf(r), r) = "resumed"
    <3>1. PICK pos \in Stops[r] : TextOf(r) = TrueFile(r, pos)
      BY <2>1, SavedText
    <3> QED
      BY <3>1, TrueFileResumed
  <2>5. CASE q = r
    BY <2>3, <2>4, <2>5 DEF Known
  <2>6. CASE q # r
    BY <1>1, <2>2, <2>3, <2>6 DEF Known
  <2> QED
    BY <2>5, <2>6
<1>8. ASSUME NEW r \in Required, AppendRecord(r)
      PROVE  q \in Known' \/ Glueing'
  <2>1. files' = files
    BY <1>8 DEF AppendRecord
  <2>2. q \in Accepted => q \in Accepted' \/ Glueing'
    BY <1>8, AppendKeeps
  <2> QED
    BY <1>1, <2>1, <2>2 DEF Known
<1>9. ASSUME NEW r \in Required, RemoveFile(r)
      PROVE  q \in Known' \/ Glueing'
  <2>1. /\ journal' = journal /\ files' = [p \in DOMAIN files \ {r} |-> files[p]]
        /\ r \in DOMAIN workers /\ workers[r].stage = "written"
    BY <1>9 DEF RemoveFile, At
  <2>2. Accepted' = Accepted /\ (Glueing' <=> Glueing)
    BY <2>1 DEF Accepted, Glueing, Lines
  <2>3. r \in Accepted \/ Glueing
    BY <2>1, WorkerFacts
  <2>4. q \in DOMAIN files /\ q # r => q \in DOMAIN files' /\ files'[q] = files[q]
    BY <2>1
  <2> QED
    BY <1>1, <2>2, <2>3, <2>4 DEF Known
<1> QED
  BY <1>3, <1>4, <1>5, <1>6, <1>7, <1>8, <1>9 DEF Next

\* Nothing that is known of a range is forgotten, but by a write that is damaged or a
\* record written behind what a damaged one has left.
THEOREM KnownIsKept == Spec => KnownUnlessDamaged
<1>1. IInv /\ Next => \A q \in Known : q \in Known' \/ tears' > tears \/ Glueing'
  BY KnownAfter
<1>2. IInv /\ [Next]_vars => [\A r \in Known : r \in Known' \/ tears' > tears \/ Glueing']_vars
  BY <1>1
<1> QED
  BY <1>2, Invariance, PTL DEF Spec, KnownUnlessDamaged

=============================================================================
