---------------------------- MODULE BaselineWorker ----------------------------
(***************************************************************************)
(* Worker_baseline, the reference implementation: it goes through the      *)
(* primes one by one, keeps those that are near enough to be paired with a *)
(* later one, and moves its counts to the worker_state at a checkpoint.    *)
(* The module follows one range over the invocations that work on it: a    *)
(* run may be told to stop or be killed, and the range is loaded again     *)
(* from its checkpoint file.  Unsigned differences wrap around below 0.    *)
(***************************************************************************)
EXTENDS Primes, Sequences

CONSTANTS
  MaxValue,        \* std::numeric_limits<value_type>::max()
  Starts, Ends,    \* the ranges
  DifferenceSets,  \* the sorted even differences (-d)
  MaxStops         \* bound: how often the run is told to stop, or is killed

ASSUME BaselineAssumption ==
  /\ MaxValue \in Nat /\ MaxValue >= 3 /\ MaxStops \in Nat
  /\ Starts \subseteq 0 .. MaxValue /\ Ends \subseteq 0 .. MaxValue
  /\ \A D \in DifferenceSets : D # {} /\ \A d \in D : d \in Nat /\ d % 2 = 0

\* What parse_args insists on: the larger prime of a pair is a value, too.
ASSUME DifferenceAssumption ==
  \A e \in Ends : \A D \in DifferenceSets : \A d \in D : e + d <= MaxValue

ASSUME HorizonIsEnough == \E p \in Primes : p > MaxValue

Wrap(x) == x % (MaxValue + 1)
Least(S) == CHOOSE x \in S : \A y \in S : x <= y
Greatest(S) == CHOOSE x \in S : \A y \in S : y <= x

VARIABLES
  start, end, differences,          \* of the worker_state, which never change
  position, counts, checkpointing,  \* current_position, current_counts, and is
                                    \* checkpoint_frequency > 0?
  pc,                               \* "start", "loop", "counted", "final",
                                    \* "stopped", "journalled"
  history, tallies, prime,          \* history_, counts_ and prime_
  keepRunning,                      \* KEEP_RUNNING
  file,                             \* the checkpoint file: none or one
  stops,                            \* how often the run was stopped
  resumed                           \* did this run take over a checkpoint file?

rangeVars == <<start, end, differences>>
stateVars == <<position, counts, checkpointing>>
workerVars == <<history, tallies, prime>>
vars == <<rangeVars, stateVars, pc, workerVars, keepRunning, file, stops, resumed>>

MaxGap == Greatest(differences)
Zero == [d \in differences |-> 0]
NoFile == {}
Saved == {[position |-> position, counts |-> counts]}

Init ==
  /\ start \in Starts
  /\ end \in {e \in Ends : e > start}
  /\ differences \in DifferenceSets
  /\ position = start /\ counts = Zero /\ checkpointing \in BOOLEAN
  /\ pc = "start"
  /\ history = {} /\ tallies = Zero /\ prime = 0
  /\ keepRunning = TRUE
  /\ file = NoFile
  /\ stops = 0
  /\ resumed = FALSE

-----------------------------------------------------------------------------
\* start() returns at once if the program has been told to stop.
NotStarted ==
  /\ pc = "start" /\ ~keepRunning
  /\ pc' = "stopped"
  /\ UNCHANGED <<rangeVars, stateVars, workerVars, keepRunning, file, stops, resumed>>

\* run() up to its loop: the first prime, and the prime 2.
Start ==
  /\ pc = "start" /\ keepRunning
  /\ LET first == PrimeFrom(position)
     IN  IF first = 2
         THEN /\ counts' = IF 0 \in differences /\ end > 2
                           THEN [counts EXCEPT ![0] = @ + 1] ELSE counts
              /\ position' = Least({end, 3})
              /\ prime' = 3
         ELSE prime' = first /\ UNCHANGED <<counts, position>>
  /\ pc' = "loop"
  /\ UNCHANGED <<rangeVars, checkpointing, history, tallies, keepRunning, file, stops,
                 resumed>>

\* Mutant: the gap is compared with the index of the largest difference.
NearHalf(known) == {p \in known : prime - p <= MaxGap \div 2}

\* The primes that are not too far away to be paired with this one.
Near(known) == {p \in known : prime - p <= MaxGap}

\* Mutant: the primes after the range are not looked at.
LastLookedAt == end

\* Where the loop ends.
LoopEnd == end + MaxGap

\* The body of the loop up to the checkpoint.
CountPrime ==
  /\ pc = "loop" /\ keepRunning
  /\ prime < LoopEnd
  /\ LET known == IF prime < end THEN history \cup {prime} ELSE history
         near == Near(known)
     IN  /\ history' = near
         /\ tallies' = [d \in differences |->
                          IF prime - d \in near THEN tallies[d] + 1 ELSE tallies[d]]
  /\ pc' = "counted"
  /\ UNCHANGED <<rangeVars, stateVars, prime, keepRunning, file, stops, resumed>>

\* Mutant: the counts that were moved stay, and are moved again.
MoveCountsAgain ==
  /\ counts' = [d \in differences |-> counts[d] + tallies[d]]
  /\ tallies' = tallies
  /\ position' = Least({end, Wrap(prime - MaxGap + 1)})

\* Mutant: the position is not kept in the range.
MoveCountsBeyond ==
  /\ counts' = [d \in differences |-> counts[d] + tallies[d]]
  /\ tallies' = Zero
  /\ position' = Wrap(prime - MaxGap + 1)

\* Moves the counts to the worker_state.
MoveCounts ==
  /\ counts' = [d \in differences |-> counts[d] + tallies[d]]
  /\ tallies' = Zero
  /\ position' = Least({end, Wrap(prime - MaxGap + 1)})

NotDue ==
  /\ pc = "counted"
  /\ prime' = NextPrime(prime)
  /\ pc' = "loop"
  /\ UNCHANGED <<rangeVars, stateVars, history, tallies, keepRunning, file, stops,
                 resumed>>

\* output_progress() writes the worker_state, and then the counts are moved to it.
Checkpoint ==
  /\ pc = "counted" /\ checkpointing
  /\ file' = Saved
  /\ MoveCounts
  /\ prime' = NextPrime(prime)
  /\ pc' = "loop"
  /\ UNCHANGED <<rangeVars, checkpointing, history, keepRunning, stops, resumed>>

\* The end of run(), where the counts are moved whatever ended the loop.
LeaveLoop ==
  /\ pc = "loop"
  /\ prime >= LoopEnd \/ ~keepRunning
  /\ MoveCounts
  /\ pc' = "final"
  /\ UNCHANGED <<rangeVars, checkpointing, history, prime, keepRunning, file, stops,
                 resumed>>

\* The end of start(): a forced checkpoint; a range that is done is journalled
\* and its file removed.
Finalise ==
  /\ pc = "final"
  /\ IF position >= end
     THEN pc' = "journalled" /\ file' = NoFile
     ELSE pc' = "stopped" /\ file' = IF checkpointing THEN Saved ELSE file
  /\ UNCHANGED <<rangeVars, stateVars, workerVars, keepRunning, stops, resumed>>

-----------------------------------------------------------------------------
\* signal_handler.
Interrupt ==
  /\ pc \in {"start", "loop", "counted"} /\ keepRunning
  /\ stops < MaxStops /\ stops' = stops + 1
  /\ keepRunning' = FALSE
  /\ UNCHANGED <<rangeVars, stateVars, pc, workerVars, file, resumed>>

\* A kill: the file survives.  (One between the final checkpoint and the journal
\* is the business of ResumableCount.)
Crash ==
  /\ pc \in {"start", "loop", "counted", "final"}
  /\ stops < MaxStops /\ stops' = stops + 1
  /\ pc' = "stopped"
  /\ UNCHANGED <<rangeVars, stateVars, workerVars, keepRunning, file, resumed>>

\* get_worker_states and run_worker of the next invocation.  The checkpoint file
\* is taken over (with no checkpoint frequency) if its position is in the range;
\* a range that is at its end already is not worked on.
Valid(saved) == start <= saved.position /\ saved.position <= end

Resume ==
  /\ pc = "stopped"
  /\ \/ \E saved \in file :
          /\ Valid(saved)
          /\ saved.position < end
          /\ position' = saved.position /\ counts' = saved.counts
          /\ checkpointing' = FALSE
          /\ resumed' = TRUE
     \/ /\ ~\E saved \in file : Valid(saved)
        /\ position' = start /\ counts' = Zero
        /\ checkpointing' \in BOOLEAN
        /\ resumed' = FALSE
  /\ pc' = "start"
  /\ history' = {} /\ tallies' = Zero /\ prime' = 0
  /\ keepRunning' = TRUE
  /\ UNCHANGED <<rangeVars, file, stops>>

Next ==
  \/ NotStarted \/ Start \/ CountPrime \/ NotDue \/ Checkpoint \/ LeaveLoop \/ Finalise
  \/ Interrupt \/ Crash \/ Resume

Spec == Init /\ [][Next]_vars

-----------------------------------------------------------------------------
TypeOK ==
  /\ start \in Starts /\ end \in Ends /\ differences \in DifferenceSets
  /\ position \in 0 .. end
  /\ counts \in [differences -> Nat] /\ tallies \in [differences -> Nat]
  /\ checkpointing \in BOOLEAN /\ keepRunning \in BOOLEAN /\ resumed \in BOOLEAN
  /\ pc \in {"start", "loop", "counted", "final", "stopped", "journalled"}
  /\ history \subseteq Primes /\ prime \in Primes \cup {0}
  /\ Cardinality(file) <= 1
  /\ \A saved \in file : saved.position \in 0 .. end /\ saved.counts \in [differences -> Nat]
  /\ stops \in 0 .. MaxStops

\* At the head of the loop the history holds every prime of the range (but 2)
\* that the current prime can be paired with: dropping one too early, or keeping
\* too few over a long gap between primes, loses a pair.
HistoryComplete ==
  pc = "loop" /\ ~resumed =>
    {p \in Primes : 2 < p /\ start <= p /\ p < prime /\ p < end /\ prime - p <= MaxGap}
      \subseteq history

\* In a run from the start of the range, the counts moved to the worker_state and
\* those not moved yet are together the pairs of the range whose larger prime
\* has been reached, however often a checkpoint has moved some of them.
SeenPairs(d, bound) ==
  {p \in Primes : start <= p /\ p < end /\ p + d \in Primes /\ p + d < bound}

SeenPairsCounted ==
  pc = "loop" /\ ~resumed =>
    \A d \in differences : counts[d] + tallies[d] = Cardinality(SeenPairs(d, prime))

\* A run from the start of the range that is not told to stop journals the exact
\* counts, checkpoints or not.
WholeRunExact ==
  pc = "journalled" /\ keepRunning /\ ~resumed =>
    \A d \in differences : counts[d] = PairsCount(start, end, d)

-----------------------------------------------------------------------------
(* The inductive invariant *)

\* A range is not empty.  A run begins without a history, and one that resumes
\* nothing begins at the start.
Begins ==
  /\ start < end
  /\ pc = "start" => /\ history = {} /\ tallies = Zero
                     /\ ~resumed => position = start /\ counts = Zero

\* In the loop 2 has been dealt with, and the larger prime of a pair is a value.
InLoop ==
  /\ pc \in {"loop", "counted"} => prime >= 3 /\ (~resumed => prime >= start)
  /\ pc = "counted" => prime < LoopEnd

\* The primes before this one have been reached, and it when it has been counted.
Reached == IF pc = "counted" THEN prime + 1 ELSE prime

\* The history and the counts, at the head of the loop and before the checkpoint.
InRange(p) == p \in Primes /\ 2 < p /\ start <= p /\ p < end /\ p < Reached

HistoryExact ==
  pc \in {"loop", "counted"} /\ ~resumed =>
    /\ \A p \in history : InRange(p)
    /\ \A p \in Primes : InRange(p) /\ prime - p <= MaxGap => p \in history

CountsSeen ==
  pc \in {"loop", "counted"} /\ ~resumed =>
    \A d \in differences : counts[d] + tallies[d] = Cardinality(SeenPairs(d, Reached))

\* What the loop has counted when it was not told to stop.
FinalExact ==
  pc = "final" /\ keepRunning /\ ~resumed =>
    \A d \in differences : counts[d] = PairsCount(start, end, d)

IInv ==
  TypeOK /\ Begins /\ InLoop /\ HistoryExact /\ CountsSeen /\ FinalExact /\ WholeRunExact

-----------------------------------------------------------------------------
(* What the comments say *)

\* types.hpp: current_counts are "Running totals of difference counts found in
\* the range [start, current_position)", and "On resume, work begins at
\* current_position".  So a checkpoint file and a journal record have the counts
\* of their position.
KeptCountsExact ==
  /\ \A saved \in file : \A d \in differences :
       saved.counts[d] = PairsCount(start, saved.position, d)
  /\ pc = "journalled" =>
       \A d \in differences : counts[d] = PairsCount(start, position, d)
=============================================================================
