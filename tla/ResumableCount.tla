---------------------------- MODULE ResumableCount ----------------------------
(***************************************************************************)
(* The core of the program: an invocation loads the journal and the        *)
(* checkpoint files, a pool of threads works through the ranges that are   *)
(* not in the journal yet, each range is checkpointed while it runs and    *)
(* journalled when it is done, and a report is made from the journal once  *)
(* every task is finished.  SIGINT, a kill, a failing append to the        *)
(* journal and failing operations on the checkpoint files may come at any  *)
(* step, and the user repeats the command.                                 *)
(*                                                                         *)
(* A range [s, e) is the pair <<s, e>>.  The difference counts are         *)
(* abstracted to the number of times each position's pairs have been       *)
(* added, which tells apart what the properties are about: pairs lost,     *)
(* counted twice, or counted outside the range.  Which pairs a segment     *)
(* adds is the subject of OptimizedWorker and BaselineWorker; how a plan   *)
(* is cut into ranges, of RequiredRanges.                                  *)
(*                                                                         *)
(* A definition introduced by "Mutant:" is a mistake in the definition     *)
(* after it, which one of the properties finds; nothing else uses it.      *)
(***************************************************************************)
EXTENDS Integers, Sequences, FiniteSets

CONSTANTS
  Threads,          \* the pool (-t)
  Plans,            \* the sets of ranges a command line asks for (-s -l -t -k)
  Limit,            \* no range ends after it
  SegmentSize,      \* segment_size_ of the worker
  CheckpointModes,  \* subset of BOOLEAN: may an invocation checkpoint (-c > 0)?
  Unjournalled,     \* the plans that are counted without a journal (-j "")
  Faults,           \* the faults that may happen
  MaxFaults         \* bound: how many of them in a behaviour

FaultKinds == {"sigint", "crash", "journal", "workfile"}

Positions == 0 .. Limit - 1
Ranges == UNION Plans

ASSUME LimitAssumption == Limit \in Nat
ASSUME SegmentAssumption == SegmentSize \in Nat \ {0}
ASSUME ModeAssumption == /\ CheckpointModes \subseteq BOOLEAN
                         /\ CheckpointModes # {}
ASSUME FaultAssumption == Faults \subseteq FaultKinds /\ MaxFaults \in Nat

\* What get_required_ranges delivers (theorems of RequiredRanges): finitely many
\* non-empty ranges, no two of which overlap.
ASSUME PlanAssumption ==
  \A plan \in Plans :
    /\ IsFiniteSet(plan) /\ plan # {}
    /\ plan \subseteq {r \in (0 .. Limit) \X (0 .. Limit) : r[1] < r[2]}
    /\ \A q, r \in plan : q # r => q[2] <= r[1] \/ r[2] <= q[1]

\* The checkpoint files are named after the journal: without one a range has other
\* files, and counts as another range here. (The names are also padded to the
\* digits of the last level: all plans here have last levels of equal length.)
ASSUME JournalAssumption ==
  /\ Unjournalled \subseteq Plans
  /\ \A p \in Unjournalled, q \in Plans \ Unjournalled : p \cap q = {}

\* NoTask is what the task of an idle thread is.
NoTask == <<Limit, Limit>>

VARIABLES
  process,     \* "running", or how the last invocation ended
  plan,        \* the ranges the last invocation asked for
  keepRunning, \* KEEP_RUNNING
  workers,     \* state.workers: the worker_state of each range to be done
  dispatched,  \* the tasks next_task_index has passed
  pc, task,    \* where each thread is, and on which task
  journal,     \* the journal file
  workfile,    \* the checkpoint files, by range
  faults       \* how many faults have happened

threadVars == <<workers, dispatched, pc, task>>
fileVars == <<journal, workfile>>
vars == <<process, plan, keepRunning, threadVars, fileVars, faults>>

Outcomes == {"none", "killed", "incomplete", "unreported", "mismatch", "reported"}
Places == {"fetch", "start", "run", "progress", "final", "append", "remove", "done"}
Idle == {"fetch", "done"}

-----------------------------------------------------------------------------
(* Counts *)

NoCounts == [x \in Positions |-> 0]

\* The counts of [s, e): every position's pairs once, and no other's.
Exact(s, e) == [x \in Positions |-> IF s <= x /\ x < e THEN 1 ELSE 0]

\* Mutant: the position moves one too far.
AdvanceTooFar(w, to) ==
  [w EXCEPT !.pos = to + 1,
            !.counts = [x \in Positions |->
                          IF w.pos <= x /\ x < to THEN w.counts[x] + 1
                                                  ELSE w.counts[x]]]

\* Mutant: what was counted before the position is counted again.
AdvanceFromStart(w, to) ==
  [w EXCEPT !.pos = to,
            !.counts = [x \in Positions |->
                          IF x < to THEN w.counts[x] + 1 ELSE w.counts[x]]]

\* Adds the pairs of the positions up to `to' and moves there.
Advance(w, to) ==
  [w EXCEPT !.pos = to,
            !.counts = [x \in Positions |->
                          IF w.pos <= x /\ x < to THEN w.counts[x] + 1
                                                  ELSE w.counts[x]]]

AtMost(x, y) == IF x <= y THEN x ELSE y

\* Segments are aligned: the one a position lies in ends at the next multiple.
IsSegmentEnd(x, y) == y \in x + 1 .. x + SegmentSize /\ y % SegmentSize = 0

-----------------------------------------------------------------------------
(* Files *)

\* Does the invocation have a journal?
Journalling == plan \notin Unjournalled

Journalled == {journal[i].range : i \in DOMAIN journal}

\* load_journal_entries: the records of the ranges that are asked for.
Matching(p) == {i \in DOMAIN journal : journal[i].range \in p}

\* Mutant: the journal is not looked at.
CompletedNone(p) == {}

\* get_completed_ranges; with no journal the file named "" cannot be opened.
Completed(p) ==
  IF p \in Unjournalled THEN {} ELSE {journal[i].range : i \in Matching(p)}

\* Mutant: only the position of the checkpoint file is taken over.
LoadPositionOnly(r, checkpointing) ==
  [pos |-> IF r \in DOMAIN workfile THEN workfile[r].pos ELSE r[1],
   counts |-> NoCounts, ckpt |-> checkpointing]

\* Mutant: the checkpoint file is not taken over.
LoadNothing(r, checkpointing) ==
  [pos |-> r[1], counts |-> NoCounts, ckpt |-> checkpointing]

\* The worker_state of a range as get_worker_states builds it.  A checkpoint
\* file is taken over whole, and it does not hold the checkpoint frequency:
\* the parser leaves that at 0.
Load(r, checkpointing) ==
  IF r \in DOMAIN workfile
  THEN [pos |-> workfile[r].pos, counts |-> workfile[r].counts, ckpt |-> FALSE]
  ELSE [pos |-> r[1], counts |-> NoCounts, ckpt |-> checkpointing]

\* save_worker_state: a temporary file renamed over the checkpoint file.
Saved(r) ==
  [q \in DOMAIN workfile \cup {r} |->
     IF q = r THEN [pos |-> workers[r].pos, counts |-> workers[r].counts]
              ELSE workfile[q]]

Without(r) == [q \in DOMAIN workfile \ {r} |-> workfile[q]]

-----------------------------------------------------------------------------
Init ==
  /\ process = "none"
  /\ plan = {}
  /\ keepRunning = FALSE
  /\ workers = [r \in {} |-> 0]
  /\ dispatched = {}
  /\ pc = [t \in Threads |-> "done"]
  /\ task = [t \in Threads |-> NoTask]
  /\ journal = <<>>
  /\ workfile = [r \in {} |-> 0]
  /\ faults = 0

\* main: KEEP_RUNNING is set, the arguments are parsed, the journal and the
\* checkpoint files are read, and the pool is launched.
Launch(p) ==
  /\ process # "running"
  /\ process' = "running"
  /\ plan' = p
  /\ keepRunning' = TRUE
  /\ \E checkpointing \in CheckpointModes :
       workers' = [r \in p \ Completed(p) |-> Load(r, checkpointing)]
  /\ dispatched' = {}
  /\ pc' = [t \in Threads |-> "fetch"]
  /\ task' = [t \in Threads |-> NoTask]
  /\ UNCHANGED <<fileVars, faults>>

-----------------------------------------------------------------------------
(* A thread of the pool *)

At(t, place) == process = "running" /\ pc[t] = place

GoTo(t, place) == pc' = [pc EXCEPT ![t] = place]

\* Mutant: the task is taken up again.
NextTaskRetries(t) == GoTo(t, "start") /\ UNCHANGED task

\* run_worker returns, or catches what the worker threw: on to the next task.
NextTask(t) == GoTo(t, "fetch") /\ task' = [task EXCEPT ![t] = NoTask]

processVars == <<process, plan, keepRunning>>

\* Mutant: a task is free as long as it is not finished.
WaitingUnfinished == {r \in DOMAIN workers : workers[r].pos < r[2]}

Waiting == DOMAIN workers \ dispatched

\* next_task_index.fetch_add; the tasks are in the order of their ranges.
\* run_worker has nothing to do for a task that is already at its end.
FetchTask(t) ==
  /\ At(t, "fetch")
  /\ \E r \in Waiting :
       /\ \A q \in Waiting : r[1] <= q[1]
       /\ dispatched' = dispatched \cup {r}
       /\ IF workers[r].pos < r[2]
          THEN GoTo(t, "start") /\ task' = [task EXCEPT ![t] = r]
          ELSE UNCHANGED <<pc, task>>
  /\ UNCHANGED <<processVars, workers, fileVars, faults>>

FetchNone(t) ==
  /\ At(t, "fetch")
  /\ Waiting = {}
  /\ GoTo(t, "done")
  /\ UNCHANGED <<processVars, workers, dispatched, task, fileVars, faults>>

\* The constructor of the worker deals with the prime 2; start() then returns
\* at once, saving nothing, if the program has been told to stop.
Start(t) ==
  /\ At(t, "start")
  /\ LET r == task[t]
         w == workers[r]
     IN  workers' = [workers EXCEPT ![r] =
                       IF w.pos <= 2 THEN Advance(w, AtMost(r[2], 3)) ELSE w]
  /\ IF keepRunning THEN GoTo(t, "run") /\ UNCHANGED task ELSE NextTask(t)
  /\ UNCHANGED <<processVars, dispatched, fileVars, faults>>

\* The head of the loop in run(): the end is reached, or it is time to stop.
LeaveLoop(t) ==
  /\ At(t, "run")
  /\ workers[task[t]].pos >= task[t][2] \/ ~keepRunning
  /\ GoTo(t, "final")
  /\ UNCHANGED <<processVars, workers, dispatched, task, fileVars, faults>>

ProcessSegment(t) ==
  /\ At(t, "run")
  /\ keepRunning
  /\ LET r == task[t]
         w == workers[r]
     IN  /\ w.pos < r[2]
         /\ \E y \in w.pos + 1 .. w.pos + SegmentSize :
              /\ IsSegmentEnd(w.pos, y)
              /\ workers' = [workers EXCEPT ![r] = Advance(w, AtMost(y, r[2]))]
  /\ GoTo(t, "progress")
  /\ UNCHANGED <<processVars, dispatched, task, fileVars, faults>>

\* output_progress, when no checkpoint is due (never, with frequency 0).
NotDue(t) ==
  /\ At(t, "progress")
  /\ GoTo(t, "run")
  /\ UNCHANGED <<processVars, workers, dispatched, task, fileVars, faults>>

Checkpoint(t) ==
  /\ At(t, "progress")
  /\ workers[task[t]].ckpt
  /\ workfile' = Saved(task[t])
  /\ GoTo(t, "run")
  /\ UNCHANGED <<processVars, workers, dispatched, task, journal, faults>>

\* Mutant: an interrupted task is journalled, too.
AfterFinalAlways(t) == GoTo(t, "append") /\ UNCHANGED task

\* Mutant: a task that is exactly at its end is not journalled.
AfterFinalStrict(t) ==
  IF workers[task[t]].pos > task[t][2]
  THEN GoTo(t, "append") /\ UNCHANGED task
  ELSE NextTask(t)

\* The checkpoint start() forces when run() is over, finished or not.
AfterFinal(t) ==
  IF workers[task[t]].pos >= task[t][2]
  THEN GoTo(t, "append") /\ UNCHANGED task
  ELSE NextTask(t)

FinalCheckpoint(t) ==
  /\ At(t, "final")
  /\ workfile' = IF workers[task[t]].ckpt THEN Saved(task[t]) ELSE workfile
  /\ AfterFinal(t)
  /\ UNCHANGED <<processVars, workers, dispatched, journal, faults>>

\* append_completion_record, which does nothing when there is no journal.
AppendRecord(t) ==
  /\ At(t, "append")
  /\ journal' = IF Journalling
                THEN Append(journal, [range |-> task[t],
                                      counts |-> workers[task[t]].counts])
                ELSE journal
  /\ GoTo(t, "remove")
  /\ UNCHANGED <<processVars, workers, dispatched, task, workfile, faults>>

RemoveFile(t) ==
  /\ At(t, "remove")
  /\ workfile' = Without(task[t])
  /\ NextTask(t)
  /\ UNCHANGED <<processVars, workers, dispatched, journal, faults>>

ThreadStep(t) ==
  \/ FetchTask(t) \/ FetchNone(t) \/ Start(t)
  \/ LeaveLoop(t) \/ ProcessSegment(t) \/ NotDue(t) \/ Checkpoint(t)
  \/ FinalCheckpoint(t) \/ AppendRecord(t) \/ RemoveFile(t)

-----------------------------------------------------------------------------
(* Faults *)

Fault(kind) ==
  /\ kind \in Faults
  /\ faults < MaxFaults
  /\ faults' = faults + 1

\* signal_handler.
Interrupt ==
  /\ process = "running" /\ keepRunning
  /\ Fault("sigint")
  /\ keepRunning' = FALSE
  /\ UNCHANGED <<process, plan, threadVars, fileVars>>

\* A kill or std::terminate: only the files survive.
Crash ==
  /\ process = "running"
  /\ Fault("crash")
  /\ process' = "killed"
  /\ workers' = [r \in {} |-> 0]
  /\ dispatched' = {}
  /\ pc' = [t \in Threads |-> "done"]
  /\ task' = [t \in Threads |-> NoTask]
  /\ UNCHANGED <<plan, keepRunning, fileVars>>

\* output_to_file cannot open or write the temporary file and throws a
\* runtime_error, which only run_worker catches: the task is given up.
SaveFails(t) ==
  /\ At(t, "progress") \/ At(t, "final")
  /\ workers[task[t]].ckpt
  /\ Fault("workfile")
  /\ NextTask(t)
  /\ UNCHANGED <<processVars, workers, dispatched, fileVars>>

\* rename throws a filesystem_error: save_worker_state warns and goes on.
RenameFails(t) ==
  /\ At(t, "progress") \/ At(t, "final")
  /\ workers[task[t]].ckpt
  /\ Fault("workfile")
  /\ IF pc[t] = "progress" THEN GoTo(t, "run") /\ UNCHANGED task
                           ELSE AfterFinal(t)
  /\ UNCHANGED <<processVars, workers, dispatched, fileVars>>

\* Mutant: the file is removed all the same.
AppendFailsUnseen(t) ==
  /\ At(t, "append")
  /\ Journalling
  /\ Fault("journal")
  /\ GoTo(t, "remove")
  /\ UNCHANGED <<processVars, workers, dispatched, task, fileVars>>

\* append_completion_record throws: nothing is removed.
AppendFails(t) ==
  /\ At(t, "append")
  /\ Journalling
  /\ Fault("journal")
  /\ NextTask(t)
  /\ UNCHANGED <<processVars, workers, dispatched, fileVars>>

\* exists or remove throws, the record being written.
RemoveFails(t) ==
  /\ At(t, "remove")
  /\ Fault("workfile")
  /\ NextTask(t)
  /\ UNCHANGED <<processVars, workers, dispatched, fileVars>>

ThreadFault(t) == RenameFails(t) \/ AppendFails(t) \/ RemoveFails(t)

-----------------------------------------------------------------------------
(* The end of an invocation *)

Joined == process = "running" /\ \A t \in Threads : pc[t] = "done"

\* Mutant: a task that is exactly at its end is not completed.
AllCompletedStrict == \A r \in DOMAIN workers : workers[r].pos > r[2]

AllCompleted == \A r \in DOMAIN workers : workers[r].pos >= r[2]

End(outcome) ==
  /\ process' = outcome
  /\ UNCHANGED <<plan, keepRunning, threadVars, fileVars, faults>>

FinishIncomplete == Joined /\ ~AllCompleted /\ End("incomplete")

FinishUnreported == Joined /\ AllCompleted /\ ~Journalling /\ End("unreported")

\* Mutant: the numbers are not compared.
ReportUnchecked ==
  /\ Joined /\ AllCompleted /\ Journalling
  /\ End("reported")

\* get_report_string compares the number of matching records with the number
\* of ranges, and adds them all up.
Report ==
  /\ Joined /\ AllCompleted /\ Journalling
  /\ Cardinality(Matching(plan)) = Cardinality(plan)
  /\ End("reported")

ReportThrows ==
  /\ Joined /\ AllCompleted /\ Journalling
  /\ Cardinality(Matching(plan)) # Cardinality(plan)
  /\ End("mismatch")

Finish == FinishIncomplete \/ FinishUnreported \/ Report \/ ReportThrows

Next ==
  \/ \E p \in Plans : Launch(p)
  \/ \E t \in Threads : ThreadStep(t) \/ SaveFails(t) \/ ThreadFault(t)
  \/ Interrupt
  \/ Crash
  \/ Finish

Spec == Init /\ [][Next]_vars

\* The operating system runs every thread, main is one of them, and the user
\* repeats the command.
Fairness ==
  /\ \A t \in Threads : WF_vars(ThreadStep(t))
  /\ WF_vars(Finish)
  /\ WF_vars(\E p \in Plans : Launch(p))

FairSpec == Spec /\ Fairness
-----------------------------------------------------------------------------
(* Safety *)

Counts == [Positions -> Nat]
Worker == [pos : 0 .. Limit, counts : Counts, ckpt : BOOLEAN]
File == [pos : 0 .. Limit, counts : Counts]
Record == [range : Ranges, counts : Counts]

\* The type of every variable; the tasks of busy threads are among the workers.
TypeOK ==
  /\ process \in Outcomes \cup {"running"}
  /\ plan \in Plans \cup {{}}
  /\ keepRunning \in BOOLEAN
  /\ DOMAIN workers \subseteq plan
  /\ workers \in [DOMAIN workers -> Worker]
  /\ dispatched \subseteq DOMAIN workers
  /\ pc \in [Threads -> Places]
  /\ task \in [Threads -> dispatched \cup {NoTask}]
  /\ \A t \in Threads : pc[t] \notin Idle => task[t] \in dispatched
  /\ journal \in Seq(Record)
  /\ DOMAIN workfile \subseteq Ranges
  /\ workfile \in [DOMAIN workfile -> File]
  /\ faults \in Nat

\* Wherever a count is kept, in memory (types.hpp: "totals of difference counts
\* found in the range [start, current_position)") or in a checkpoint file, it
\* holds the pairs of exactly the positions it claims to have passed: nothing
\* is lost or added twice however often the range was stopped and resumed.
ProgressExact ==
  /\ \A r \in DOMAIN workers :
       /\ workers[r].pos \in r[1] .. r[2]
       /\ workers[r].counts = Exact(r[1], workers[r].pos)
  /\ \A r \in DOMAIN workfile :
       /\ workfile[r].pos \in r[1] .. r[2]
       /\ workfile[r].counts = Exact(r[1], workfile[r].pos)

\* A journal record holds the counts of the whole of its range.
JournalExact ==
  \A i \in DOMAIN journal :
    journal[i].counts = Exact(journal[i].range[1], journal[i].range[2])

\* Both: no count is wrong, wherever it is kept.
AllCountsExact == ProgressExact /\ JournalExact

\* No range is journalled twice, by whichever threads and invocations: the
\* report adds up all the records it finds and would count the range twice.
OneRecordPerRange ==
  \A i, j \in DOMAIN journal : journal[i].range = journal[j].range => i = j

\* Two threads never work on one task: they share its worker_state unlocked.
OneThreadPerTask ==
  \A t, u \in Threads :
    pc[t] \notin Idle /\ pc[u] \notin Idle /\ task[t] = task[u] => t = u

\* A range that is in the journal is not calculated again.
NothingRecalculated ==
  \A t \in Threads :
    pc[t] \notin Idle \cup {"remove"} => task[t] \notin Journalled

\* Every position below the last level is counted exactly once in a report:
\* one of the records added up has its pairs, once, and no other has them.
\* (get_report_string only compares two sizes.)
ReportExact ==
  process = "reported" =>
    \A r \in plan : \A x \in r[1] .. r[2] - 1 :
      \E i \in Matching(plan) :
        /\ journal[i].counts[x] = 1
        /\ \A j \in Matching(plan) \ {i} : journal[j].counts[x] = 0

\* The inductive invariant adds: only whole ranges are appended, a task nobody
\* has fetched is not in the journal, only plans with a journal put ranges into it,
\* a file is removed after its record has been written, and no checkpoint file is
\* ahead of the worker that will overwrite it.
AppendsWholeRange ==
  \A t \in Threads : pc[t] = "append" => workers[task[t]].pos = task[t][2]

FetchedBeforeJournalled ==
  \A r \in DOMAIN workers : r \in Journalled => r \in dispatched

JournalUsed == Journalled \subseteq UNION (Plans \ Unjournalled)

RemovesJournalled ==
  \A t \in Threads : pc[t] = "remove" /\ Journalling => task[t] \in Journalled

WorkersAhead ==
  \A r \in DOMAIN workers \cap DOMAIN workfile :
    workfile[r].pos <= workers[r].pos

IInv ==
  /\ TypeOK
  /\ ProgressExact /\ JournalExact /\ AppendsWholeRange
  /\ OneRecordPerRange /\ OneThreadPerTask /\ NothingRecalculated
  /\ FetchedBeforeJournalled /\ JournalUsed
  /\ RemovesJournalled /\ WorkersAhead
  /\ ReportExact

\* With a journal, a checkpoint file goes away only when its range has been
\* journalled: until then it is all there is of the work done.
WorkOutlivesFile ==
  [][Journalling =>
       \A r \in DOMAIN workfile \ DOMAIN workfile' : r \in Journalled]_vars

\* A checkpoint file is never overwritten by an earlier state of its range.
CheckpointsAdvance ==
  [][\A r \in DOMAIN workfile \cap DOMAIN workfile' :
       workfile[r].pos <= workfile'[r].pos]_vars

-----------------------------------------------------------------------------
(* ResumableCount implements ExactLedger: the ledger is the journal, with a  *)
(* record of anything but the exact counts shown as NoTask, which no plan    *)
(* holds; a report publishes the plan it was made for.                       *)

Ledger ==
  [i \in DOMAIN journal |->
     IF journal[i].counts = Exact(journal[i].range[1], journal[i].range[2])
     THEN journal[i].range ELSE NoTask]

Published == IF process = "reported" THEN plan ELSE {}

Abstract == INSTANCE ExactLedger
              WITH NoReport <- {}, ledger <- Ledger, published <- Published

\* Every step of the program is a step of the exact ledger or leaves it alone.
ImplementsLedger == Abstract!LedgerSpec

-----------------------------------------------------------------------------
(* Liveness *)

\* Whoever keeps repeating the command gets the report in the end.
EventuallyReported == []<>(process = "reported")

\* The ranges whose file says that they are finished, while the journal does not
\* have them.
Stranded == {r \in DOMAIN workfile : workfile[r].pos = r[2] /\ r \notin Journalled}

\* Whoever keeps repeating commands gets reports (without a journal: everything
\* counted) again and again, whatever failed before; such ranges, left over for
\* good, are the only obstacle.
DoneUnlessStranded ==
  \/ []<>(process \in {"reported", "unreported"})
  \/ <>[](Journalling /\ Stranded \cap plan # {})

\* A finished range whose file says so is journalled by the thread that finished
\* it, told to stop or not, unless a kill or a failing file comes in between.
OnlyFaultsStrand ==
  [][\A r \in Stranded' :
       \/ r \in Stranded /\ \A t \in Threads : task[t] # r
       \/ \E t \in Threads : task'[t] = r
       \/ faults' > faults]_vars

\* An invocation that has been told to stop stops.
InterruptStops == (process = "running" /\ ~keepRunning) ~> (process # "running")

-----------------------------------------------------------------------------
(* What the comments say *)

\* main.cpp: told to stop, "workers finish (and checkpoint) their current work".
\* So what an interrupted invocation leaves of a range it has resumed is in the
\* checkpoint file of the range.
ResumedWorkIsCheckpointed ==
  process = "incomplete" =>
    \A r \in DOMAIN workers \cap DOMAIN workfile :
      workfile[r].pos = workers[r].pos

\* state.cpp, of a checkpoint that cannot be written: "Failure is annoying, but
\* not fatal to calculations".  So after an attempt to save in the middle of a
\* range its thread goes on with the range.
CalculationsSurviveSaveFailure ==
  [][\A t \in Threads :
       At(t, "progress") /\ ~At(t, "progress")' =>
         At(t, "run")' \/ process' = "killed"]_vars
=============================================================================
