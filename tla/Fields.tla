-------------------------------- MODULE Fields --------------------------------
(***************************************************************************)
(* The text of a comma separated list as the journal and the checkpoint    *)
(* files hold it, and what is left of it when its writing is cut short.    *)
(*                                                                         *)
(* A list is a sequence of fields.  A field is a number, printed in Base;  *)
(* or Decimal, a number with a point or an exponent; or OutOfRange, one    *)
(* whose exponent is beyond a double; or Nothing, the empty text after a   *)
(* comma.                                                                  *)
(***************************************************************************)
EXTENDS Integers, Sequences

CONSTANTS
  Base, MaxValue,    \* of the digits, and of value_type
  Decimal, OutOfRange, Nothing,  \* model values
  Leading,           \* the numbers before the point or the exponent of a CPU time
  Differences        \* the differences (-d), as a sequence

ASSUME BaseAssumption == Base \in Nat \ {0, 1} /\ MaxValue \in Nat

\* A field is one of the four.
ASSUME FieldAssumption ==
  /\ {Decimal, OutOfRange, Nothing} \cap Nat = {}
  /\ Decimal # OutOfRange /\ Decimal # Nothing /\ OutOfRange # Nothing

ASSUME LeadingAssumption == Leading \subseteq Nat

\* Invocations that differ in them have other files.  No worker accepts an odd one.
ASSUME DifferencesAssumption ==
  /\ Differences \in Seq(0 .. MaxValue) /\ Differences # <<>>
  /\ \A i \in DOMAIN Differences : Differences[i] % 2 = 0

Field == Nat \cup {Decimal, OutOfRange, Nothing}

\* parse_value_type takes a field; anything else makes it throw.
IsValue(field) == field \in 0 .. MaxValue

Power[k \in Nat] == IF k = 0 THEN 1 ELSE Base * Power[k - 1]

\* How many digits a number has.
Width(n) == CHOOSE k \in 1 .. n + 1 : n < Power[k] /\ (k = 1 \/ Power[k - 1] <= n)

\* The first characters of a field.
PartsOf(field) ==
  IF field = Nothing THEN {}
  ELSE IF field \in {Decimal, OutOfRange} THEN Leading \cup {Decimal, field}
  ELSE {field \div Power[k] : k \in 1 .. Width(field) - 1}

\* What a list is when it is cut after one of its characters, be it the last.
CutsOf(list) ==
  UNION {{Append(SubSeq(list, 1, i - 1), part) :
            part \in PartsOf(list[i]) \cup {list[i]} \cup (IF i > 1 THEN {Nothing} ELSE {})}
         : i \in DOMAIN list}

\* Mutant: there is a field behind every comma.
FieldsOfTrailing(list) == list

\* The fields std::getline finds: at the end of the text it finds no empty one.
FieldsOf(list) ==
  IF list # <<>> /\ list[Len(list)] = Nothing THEN SubSeq(list, 1, Len(list) - 1) ELSE list

\* What two fields without a comma between them may be.  Digits behind an exponent
\* go on with it.
Joined(left, right) ==
  IF left = Nothing THEN {right}
  ELSE IF {left, right} \subseteq Nat THEN {left * Power[Width(right)] + right}
  ELSE {Decimal, OutOfRange}

\* What a list written right behind another may be.
Glued(left, right) ==
  IF left = <<>> THEN {right}
  ELSE {SubSeq(left, 1, Len(left) - 1) \o <<joint>> \o Tail(right) :
          joint \in Joined(left[Len(left)], Head(right))}
=============================================================================
