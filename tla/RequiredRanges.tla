---------------------------- MODULE RequiredRanges ----------------------------
(***************************************************************************)
(* How a command line is cut into ranges: the checks parse_args makes of   *)
(* the numbers it is given, and the loop of get_required_ranges, in        *)
(* unsigned arithmetic that wraps around after MaxValue.                   *)
(*                                                                         *)
(* parse_args sorts the report levels and drops duplicates, so they are a  *)
(* set here and the loop takes the least level that is left.               *)
(***************************************************************************)
EXTENDS Integers, Sequences, FiniteSets

CONSTANTS
  MaxValue,     \* std::numeric_limits<value_type>::max()
  Differences,  \* the largest differences that may be asked for (-d)
  Pools         \* the numbers of threads and of tasks per thread (-t, -k)

ASSUME MaxAssumption == MaxValue \in Nat \ {0}
ASSUME InputAssumption == Differences \subseteq Nat /\ Pools \subseteq Nat \X Nat

Values == 0 .. MaxValue

VARIABLES
  start, levels,     \* -s and -l
  difference, pool,  \* the largest difference; <<threads, tasks per thread>>
  pc,                \* "args", "begin", "loop", "done", "rejected", "thrown"
  taskSize,          \* task_size
  current,           \* where the next range begins
  pending,           \* the report levels the outer loop has not finished
  result             \* the ranges, as they are pushed back

args == <<start, levels, difference, pool>>
vars == <<args, pc, taskSize, current, pending, result>>

\* Unsigned arithmetic.
Wrap(x) == x % (MaxValue + 1)

IsLeast(S, x) == x \in S /\ \A y \in S : x <= y
IsGreatest(S, x) == x \in S /\ \A y \in S : y <= x

Init ==
  /\ start \in Values
  /\ levels \in (SUBSET Values) \ {{}}
  /\ difference \in Differences
  /\ pool \in Pools
  /\ pc = "args"
  /\ taskSize = 0
  /\ current = 0
  /\ pending = {}
  /\ result = <<>>

\* Mutant: the product of threads and tasks may wrap around.
ValidArgsUnbounded ==
  \E last \in levels :
    /\ IsGreatest(levels, last)
    /\ last < MaxValue
    /\ start <= last
    /\ MaxValue - difference > last
    /\ pool[1] # 0
    /\ pool[2] # 0

\* What parse_args insists on.
ValidArgs ==
  \E last \in levels :
    /\ IsGreatest(levels, last)
    /\ last < MaxValue
    /\ start <= last
    /\ MaxValue - difference > last
    /\ pool[1] # 0
    /\ pool[2] # 0
    /\ MaxValue \div pool[1] >= pool[2]

ParseArgs ==
  /\ pc = "args"
  /\ pc' = IF ValidArgs THEN "begin" ELSE "rejected"
  /\ UNCHANGED <<args, taskSize, current, pending, result>>

\* get_required_ranges up to its loop.
Begin ==
  /\ pc = "begin"
  /\ LET totalTasks == Wrap(pool[1] * pool[2])
     IN  IF totalTasks = 0
         THEN /\ pc' = "thrown"
              /\ UNCHANGED <<taskSize, current, pending>>
         ELSE /\ pc' = "loop"
              /\ \E last \in levels :
                   /\ IsGreatest(levels, last)
                   /\ taskSize' = Wrap(1 + Wrap(last - start) \div totalTasks)
              /\ current' = start
              /\ pending' = levels
  /\ UNCHANGED <<args, result>>

\* Mutant: the sum wraps around.
SoftLimitWraps == Wrap(current + taskSize)

\* Mutant: a task has one value more.
SoftLimitOneMore ==
  IF Wrap(MaxValue - taskSize) > current THEN Wrap(current + taskSize + 1) ELSE MaxValue

\* The end of a full task, or the last value if that would wrap around.
SoftLimit ==
  IF Wrap(MaxValue - taskSize) > current THEN Wrap(current + taskSize) ELSE MaxValue

\* Mutant: no upper bound, a range reaches over the level.
ClampLow(x, low, high) == IF x < low THEN low ELSE x

\* Mutant: the end of a range taken for its last value.
ClampOneMore(x, low, high) == IF high <= x THEN high + 1 ELSE x

\* std::clamp(x, low, high)
Clamp(x, low, high) == IF x < low THEN low ELSE IF high < x THEN high ELSE x

\* Mutant: the next range begins one value after the end of the last.
CutAfterEnd ==
  /\ pc = "loop"
  /\ \E level \in pending :
       /\ IsLeast(pending, level)
       /\ current <= level
       /\ LET limit == Clamp(SoftLimit, 1, Wrap(level + 1))
          IN  /\ result' = Append(result, <<current, limit>>)
              /\ current' = limit + 1
  /\ UNCHANGED <<args, pc, taskSize, pending>>

\* The body of the inner loop: a range ends with the task or after the level.
Cut ==
  /\ pc = "loop"
  /\ \E level \in pending :
       /\ IsLeast(pending, level)
       /\ current <= level
       /\ LET limit == Clamp(SoftLimit, 1, Wrap(level + 1))
          IN  /\ result' = Append(result, <<current, limit>>)
              /\ current' = limit
  /\ UNCHANGED <<args, pc, taskSize, pending>>

\* Mutant: a level is done only when current is well past it.
NextLevelLate ==
  /\ pc = "loop"
  /\ \E level \in pending :
       /\ IsLeast(pending, level)
       /\ current > level + 1
       /\ pending' = pending \ {level}
  /\ UNCHANGED <<args, pc, taskSize, current, result>>

NextLevel ==
  /\ pc = "loop"
  /\ \E level \in pending :
       /\ IsLeast(pending, level)
       /\ current > level
       /\ pending' = pending \ {level}
  /\ UNCHANGED <<args, pc, taskSize, current, result>>

Return ==
  /\ pc = "loop"
  /\ pending = {}
  /\ pc' = "done"
  /\ UNCHANGED <<args, taskSize, current, pending, result>>

Next == ParseArgs \/ Begin \/ Cut \/ NextLevel \/ Return

Spec == Init /\ [][Next]_vars

\* One thread, and nothing it waits for.
-----------------------------------------------------------------------------
TypeOK ==
  /\ start \in Values
  /\ levels \in (SUBSET Values) \ {{}}
  /\ difference \in Differences
  /\ pool \in Pools
  /\ pc \in {"args", "begin", "loop", "done", "rejected", "thrown"}
  /\ taskSize \in Values
  /\ current \in Values
  /\ pending \in SUBSET levels
  /\ result \in Seq(Values \X Values)

\* No range is empty, although limits are clamped and sums may wrap around: an
\* empty one would never end the loop.
NoEmptyRange == \A i \in DOMAIN result : result[i][1] < result[i][2]

\* The ranges follow one another from start without a gap or an overlap, which
\* is what resuming by range and adding up the records of a report rely on.
Contiguous ==
  /\ result # <<>> => result[1][1] = start /\ result[Len(result)][2] = current
  /\ \A i \in 1 .. Len(result) - 1 : result[i][2] = result[i + 1][1]

\* Both: what is to be counted is cut into parts.
Partition == NoEmptyRange /\ Contiguous

\* No range reaches across a report level: the report adds up whole ranges, and
\* can only give a count at the end of one.
LevelsRespected ==
  \A i \in DOMAIN result : \A level \in levels :
    ~(result[i][1] <= level /\ level + 1 < result[i][2])

\* When the loop is over, the ranges end right after the last report level.
EndsAfterLastLevel ==
  pc = "done" => /\ result # <<>>
                 /\ \A last \in levels : IsGreatest(levels, last) => current = last + 1

\* The product of threads and tasks is checked before it is made: it does not
\* wrap around to zero.
NeverThrown == pc # "thrown"

\* Tasks are equally large, but for those a report level cuts short.
EqualShares ==
  \A i \in DOMAIN result :
    \/ result[i][2] - result[i][1] = taskSize
    \/ /\ result[i][2] - result[i][1] < taskSize
       /\ \E level \in levels : level + 1 = result[i][2]

-----------------------------------------------------------------------------
(* The inductive invariant *)

\* Nothing is cut before the arguments have been checked.
BeforeLoop ==
  /\ pc \in {"args", "begin", "rejected", "thrown"} => result = <<>>
  /\ pc = "begin" => ValidArgs

\* In the loop, current is past the levels that are done and not past those that
\* are pending, unless they lie before start.
InLoop ==
  pc \in {"loop", "done"} =>
    \E last \in levels :
      /\ IsGreatest(levels, last) /\ last < MaxValue
      /\ start <= last /\ start <= current /\ current <= last + 1
      /\ taskSize >= 1
      /\ \A level \in levels \ pending : level < current
      /\ \A level \in pending : start <= level => current <= level + 1
      /\ result = <<>> => current = start
      /\ pc = "done" => pending = {}

IInv ==
  /\ TypeOK /\ BeforeLoop /\ InLoop
  /\ NoEmptyRange /\ Contiguous /\ LevelsRespected /\ EqualShares

=============================================================================
