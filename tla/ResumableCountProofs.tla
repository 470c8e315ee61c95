------------------------- MODULE ResumableCountProofs -------------------------
(***************************************************************************)
(* Proofs about ResumableCount, for any pool of threads, any plans, any    *)
(* segment size and any number of faults: the inductive invariant IInv and *)
(* what follows from it.                                                   *)
(***************************************************************************)
EXTENDS ResumableCount, FiniteSetTheorems, FunctionTheorems, SequenceTheorems, TLAPS

-----------------------------------------------------------------------------
(* Ranges and counts *)

\* What PlanAssumption says of one range.
LEMMA RangeFacts ==
  ASSUME NEW r \in Ranges
  PROVE  /\ r \in (0 .. Limit) \X (0 .. Limit)
         /\ r[1] \in 0 .. Limit /\ r[2] \in 0 .. Limit
         /\ r[1] < r[2]
         /\ r # NoTask
<1>1. PICK plan0 \in Plans : r \in plan0
  BY DEF Ranges
<1>2. r \in (0 .. Limit) \X (0 .. Limit) /\ r[1] < r[2]
  BY <1>1, PlanAssumption
<1>3. r # NoTask
  BY <1>2, LimitAssumption DEF NoTask
<1> QED
  BY <1>2, <1>3

\* An empty range has no counts.
LEMMA ExactEmpty ==
  ASSUME NEW s \in Int
  PROVE  NoCounts = Exact(s, s)
BY LimitAssumption DEF NoCounts, Exact, Positions

\* Exact counts are counts.
LEMMA ExactType ==
  ASSUME NEW s \in Int, NEW e \in Int
  PROVE  Exact(s, e) \in Counts
BY DEF Exact, Counts

\* Advancing a worker keeps its type.
LEMMA AdvanceType ==
  ASSUME NEW w \in Worker, NEW to \in 0 .. Limit
  PROVE  Advance(w, to) \in Worker
<1>1. \A x \in Positions : w.counts[x] \in Nat /\ w.counts[x] + 1 \in Nat
  BY DEF Worker, Counts
<1>2. [x \in Positions |-> IF w.pos <= x /\ x < to THEN w.counts[x] + 1
                                                  ELSE w.counts[x]] \in Counts
  BY <1>1 DEF Counts
<1> QED
  BY <1>2 DEF Advance, Worker

\* Advancing a worker that has counted [s, pos) makes it one that has counted
\* [s, to).
LEMMA AdvanceExact ==
  ASSUME NEW w \in Worker, NEW s \in Int, NEW to \in 0 .. Limit,
         s <= w.pos, w.pos <= to, w.counts = Exact(s, w.pos)
  PROVE  /\ Advance(w, to).pos = to
         /\ Advance(w, to).counts = Exact(s, to)
<1>1. w.pos \in Int
  BY LimitAssumption DEF Worker
<1>2. \A x \in Positions :
        (IF w.pos <= x /\ x < to THEN w.counts[x] + 1 ELSE w.counts[x])
          = (IF s <= x /\ x < to THEN 1 ELSE 0)
  <2> TAKE x \in Positions
  <2>1. x \in Int
    BY LimitAssumption DEF Positions
  <2>2. w.counts[x] = IF s <= x /\ x < w.pos THEN 1 ELSE 0
    BY DEF Exact
  <2> QED
    BY <1>1, <2>1, <2>2, LimitAssumption
<1>3. Advance(w, to).counts =
        [x \in Positions |-> IF w.pos <= x /\ x < to THEN w.counts[x] + 1
                                                    ELSE w.counts[x]]
  BY DEF Advance, Worker
<1>4. Advance(w, to).pos = to
  BY DEF Advance, Worker
<1> QED
  BY <1>2, <1>3, <1>4 DEF Exact
-----------------------------------------------------------------------------
(* Types *)

\* What TypeOK says of a busy thread.
LEMMA BusyFacts ==
  ASSUME TypeOK, NEW t \in Threads, pc[t] \notin Idle
  PROVE  /\ task[t] \in dispatched
         /\ task[t] \in DOMAIN workers
         /\ task[t] \in Ranges
         /\ workers[task[t]] \in Worker
<1>1. task[t] \in dispatched /\ task[t] \in DOMAIN workers
  BY DEF TypeOK
<1>2. plan \subseteq Ranges
  BY DEF TypeOK, Ranges
<1> QED
  BY <1>1, <1>2 DEF TypeOK

\* Each way a thread may move keeps the types of pc and task.
LEMMA MoveType ==
  ASSUME TypeOK, NEW t \in Threads, NEW place \in Places \ Idle,
         pc[t] \notin Idle, GoTo(t, place), UNCHANGED <<task, dispatched>>
  PROVE  /\ pc' \in [Threads -> Places]
         /\ task' \in [Threads -> dispatched' \cup {NoTask}]
         /\ \A u \in Threads : pc'[u] \notin Idle => task'[u] \in dispatched'
BY DEF TypeOK, GoTo

LEMMA NextTaskType ==
  ASSUME TypeOK, NEW t \in Threads, NextTask(t), UNCHANGED dispatched
  PROVE  /\ pc' \in [Threads -> Places]
         /\ task' \in [Threads -> dispatched' \cup {NoTask}]
         /\ \A u \in Threads : pc'[u] \notin Idle => task'[u] \in dispatched'
BY DEF TypeOK, NextTask, GoTo, Places, Idle

\* A worker of its range may be replaced by any worker.
LEMMA WorkersType ==
  ASSUME TypeOK, NEW r \in DOMAIN workers, NEW w \in Worker,
         workers' = [workers EXCEPT ![r] = w], UNCHANGED plan
  PROVE  /\ DOMAIN workers' = DOMAIN workers
         /\ DOMAIN workers' \subseteq plan'
         /\ workers' \in [DOMAIN workers' -> Worker]
BY DEF TypeOK

\* Saving a worker keeps the checkpoint files checkpoint files.
LEMMA SavedType ==
  ASSUME TypeOK, NEW r \in DOMAIN workers, workfile' = Saved(r)
  PROVE  DOMAIN workfile' \subseteq Ranges /\ workfile' \in [DOMAIN workfile' -> File]
<1>1. r \in Ranges
  BY DEF TypeOK, Ranges
<1>2. [pos |-> workers[r].pos, counts |-> workers[r].counts] \in File
  BY DEF TypeOK, Worker, File
<1> QED
  BY <1>1, <1>2 DEF TypeOK, Saved

LEMMA TypeInit == Init => TypeOK
<1> SUFFICES ASSUME Init PROVE TypeOK
  OBVIOUS
<1>1. journal \in Seq(Record)
  BY DEF Init
<1>2. /\ workers \in [DOMAIN workers -> Worker] /\ DOMAIN workers = {}
      /\ workfile \in [DOMAIN workfile -> File] /\ DOMAIN workfile = {}
  BY DEF Init
<1>3. /\ pc \in [Threads -> Places]
      /\ task \in [Threads -> dispatched \cup {NoTask}]
      /\ \A t \in Threads : pc[t] \in Idle
  BY DEF Init, Places, Idle
<1> QED
  BY <1>1, <1>2, <1>3 DEF Init, TypeOK, Outcomes

LEMMA TypeLaunch ==
  ASSUME TypeOK, NEW p \in Plans, Launch(p)
  PROVE  TypeOK'
<1>1. PICK checkpointing \in CheckpointModes :
        workers' = [r \in p \ Completed(p) |-> Load(r, checkpointing)]
  BY DEF Launch
<1>2. checkpointing \in BOOLEAN
  BY ModeAssumption
<1>3. NoCounts \in Counts
  BY DEF NoCounts, Counts
<1>4. \A r \in p : Load(r, checkpointing) \in Worker
  <2> TAKE r \in p
  <2>1. r[1] \in 0 .. Limit
    BY RangeFacts DEF Ranges
  <2> QED
    BY <1>2, <1>3, <2>1 DEF Load, TypeOK, Worker, File
<1>5. workers' \in [DOMAIN workers' -> Worker] /\ DOMAIN workers' \subseteq p
  BY <1>1, <1>4
<1> QED
  BY <1>5 DEF Launch, TypeOK, Places, Idle, fileVars

LEMMA TypeThreadStep ==
  ASSUME TypeOK, NEW t \in Threads,
         ThreadStep(t) \/ SaveFails(t) \/ ThreadFault(t)
  PROVE  TypeOK'
<1> USE DEF fileVars, processVars
<1>1. CASE FetchTask(t)
  <2>1. PICK r \in Waiting :
          /\ dispatched' = dispatched \cup {r}
          /\ IF workers[r].pos < r[2]
             THEN GoTo(t, "start") /\ task' = [task EXCEPT ![t] = r]
             ELSE UNCHANGED <<pc, task>>
    BY <1>1 DEF FetchTask
  <2>2. r \in DOMAIN workers
    BY <2>1 DEF Waiting
  <2>3. /\ pc' \in [Threads -> Places]
        /\ task' \in [Threads -> dispatched' \cup {NoTask}]
        /\ \A u \in Threads : pc'[u] \notin Idle => task'[u] \in dispatched'
    BY <2>1 DEF TypeOK, GoTo, Places
  <2> QED
    BY <1>1, <2>1, <2>2, <2>3 DEF FetchTask, TypeOK
<1>2. CASE FetchNone(t)
  <2>1. /\ pc' \in [Threads -> Places]
        /\ \A u \in Threads : pc'[u] \notin Idle => task[u] \in dispatched
    BY <1>2 DEF FetchNone, TypeOK, GoTo, Places, Idle
  <2> QED
    BY <1>2, <2>1 DEF FetchNone, TypeOK
<1>3. CASE Start(t)
  <2>1. pc[t] \notin Idle
    BY <1>3 DEF Start, At, Idle
  <2> DEFINE r == task[t]
  <2>2. r \in DOMAIN workers /\ r \in Ranges /\ workers[r] \in Worker
    BY <2>1, BusyFacts
  <2>3. AtMost(r[2], 3) \in 0 .. Limit
    BY <2>2, RangeFacts, LimitAssumption DEF AtMost
  <2>4. (IF workers[r].pos <= 2 THEN Advance(workers[r], AtMost(r[2], 3))
                                ELSE workers[r]) \in Worker
    BY <2>2, <2>3, AdvanceType
  <2>5. /\ DOMAIN workers' = DOMAIN workers
        /\ DOMAIN workers' \subseteq plan'
        /\ workers' \in [DOMAIN workers' -> Worker]
    BY <1>3, <2>2, <2>4, WorkersType DEF Start
  <2>6. /\ pc' \in [Threads -> Places]
        /\ task' \in [Threads -> dispatched' \cup {NoTask}]
        /\ \A u \in Threads : pc'[u] \notin Idle => task'[u] \in dispatched'
    BY <1>3, <2>1, MoveType, NextTaskType DEF Start, Places, Idle
  <2> QED
    BY <1>3, <2>5, <2>6 DEF Start, TypeOK
<1>4. CASE LeaveLoop(t)
  <2>1. pc[t] \notin Idle
    BY <1>4 DEF LeaveLoop, At, Idle
  <2>2. /\ pc' \in [Threads -> Places]
        /\ \A u \in Threads : pc'[u] \notin Idle => task'[u] \in dispatched'
    BY <1>4, <2>1, MoveType DEF LeaveLoop, Places, Idle
  <2> QED
    BY <1>4, <2>2 DEF LeaveLoop, TypeOK
<1>5. CASE ProcessSegment(t)
  <2>1. pc[t] \notin Idle
    BY <1>5 DEF ProcessSegment, At, Idle
  <2> DEFINE r == task[t]
  <2>2. r \in DOMAIN workers /\ r \in Ranges /\ workers[r] \in Worker
    BY <2>1, BusyFacts
  <2>3. PICK y \in workers[r].pos + 1 .. workers[r].pos + SegmentSize :
          workers' = [workers EXCEPT ![r] = Advance(workers[r], AtMost(y, r[2]))]
    BY <1>5 DEF ProcessSegment
  <2>4. AtMost(y, r[2]) \in 0 .. Limit
    BY <2>2, RangeFacts, LimitAssumption, SegmentAssumption DEF AtMost, Worker
  <2>5. /\ DOMAIN workers' = DOMAIN workers
        /\ DOMAIN workers' \subseteq plan'
        /\ workers' \in [DOMAIN workers' -> Worker]
    BY <1>5, <2>2, <2>3, <2>4, AdvanceType, WorkersType DEF ProcessSegment
  <2>6. /\ pc' \in [Threads -> Places]
        /\ \A u \in Threads : pc'[u] \notin Idle => task'[u] \in dispatched'
    BY <1>5, <2>1, MoveType DEF ProcessSegment, Places, Idle
  <2> QED
    BY <1>5, <2>5, <2>6 DEF ProcessSegment, TypeOK
<1>6. CASE NotDue(t)
  <2>1. pc[t] \notin Idle
    BY <1>6 DEF NotDue, At, Idle
  <2>2. /\ pc' \in [Threads -> Places]
        /\ \A u \in Threads : pc'[u] \notin Idle => task'[u] \in dispatched'
    BY <1>6, <2>1, MoveType DEF NotDue, Places, Idle
  <2> QED
    BY <1>6, <2>2 DEF NotDue, TypeOK
<1>7. CASE Checkpoint(t)
  <2>1. pc[t] \notin Idle
    BY <1>7 DEF Checkpoint, At, Idle
  <2>2. /\ pc' \in [Threads -> Places]
        /\ \A u \in Threads : pc'[u] \notin Idle => task'[u] \in dispatched'
    BY <1>7, <2>1, MoveType DEF Checkpoint, Places, Idle
  <2>3. DOMAIN workfile' \subseteq Ranges /\ workfile' \in [DOMAIN workfile' -> File]
    BY <1>7, <2>1, BusyFacts, SavedType DEF Checkpoint
  <2> QED
    BY <1>7, <2>2, <2>3 DEF Checkpoint, TypeOK
<1>8. CASE FinalCheckpoint(t)
  <2>1. pc[t] \notin Idle
    BY <1>8 DEF FinalCheckpoint, At, Idle
  <2>2. /\ pc' \in [Threads -> Places]
        /\ task' \in [Threads -> dispatched' \cup {NoTask}]
        /\ \A u \in Threads : pc'[u] \notin Idle => task'[u] \in dispatched'
    BY <1>8, <2>1, MoveType, NextTaskType DEF FinalCheckpoint, AfterFinal, Places, Idle
  <2>3. DOMAIN workfile' \subseteq Ranges /\ workfile' \in [DOMAIN workfile' -> File]
    <3>1. CASE workers[task[t]].ckpt
      BY <1>8, <2>1, <3>1, BusyFacts, SavedType DEF FinalCheckpoint
    <3>2. CASE ~workers[task[t]].ckpt
      BY <1>8, <3>2 DEF FinalCheckpoint, TypeOK
    <3> QED
      BY <3>1, <3>2
  <2> QED
    BY <1>8, <2>2, <2>3 DEF FinalCheckpoint, TypeOK
<1>9. CASE AppendRecord(t)
  <2>1. pc[t] \notin Idle
    BY <1>9 DEF AppendRecord, At, Idle
  <2>2. /\ pc' \in [Threads -> Places]
        /\ \A u \in Threads : pc'[u] \notin Idle => task'[u] \in dispatched'
    BY <1>9, <2>1, MoveType DEF AppendRecord, Places, Idle
  <2>3. [range |-> task[t], counts |-> workers[task[t]].counts] \in Record
    BY <2>1, BusyFacts DEF Record, Worker
  <2>4. journal' \in Seq(Record)
    BY <1>9, <2>3 DEF AppendRecord, TypeOK
  <2> QED
    BY <1>9, <2>2, <2>4 DEF AppendRecord, TypeOK
<1>10. CASE RemoveFile(t)
  <2>1. /\ pc' \in [Threads -> Places]
        /\ task' \in [Threads -> dispatched' \cup {NoTask}]
        /\ \A u \in Threads : pc'[u] \notin Idle => task'[u] \in dispatched'
    BY <1>10, NextTaskType DEF RemoveFile
  <2>2. DOMAIN workfile' \subseteq Ranges /\ workfile' \in [DOMAIN workfile' -> File]
    BY <1>10 DEF RemoveFile, Without, TypeOK
  <2> QED
    BY <1>10, <2>1, <2>2 DEF RemoveFile, TypeOK
<1>11. CASE SaveFails(t) \/ AppendFails(t) \/ RemoveFails(t)
  <2>1. /\ pc' \in [Threads -> Places]
        /\ task' \in [Threads -> dispatched' \cup {NoTask}]
        /\ \A u \in Threads : pc'[u] \notin Idle => task'[u] \in dispatched'
    BY <1>11, NextTaskType DEF SaveFails, AppendFails, RemoveFails
  <2> QED
    BY <1>11, <2>1 DEF SaveFails, AppendFails, RemoveFails, Fault, TypeOK
<1>12. CASE RenameFails(t)
  <2>1. pc[t] \notin Idle
    BY <1>12 DEF RenameFails, At, Idle
  <2>2. /\ pc' \in [Threads -> Places]
        /\ task' \in [Threads -> dispatched' \cup {NoTask}]
        /\ \A u \in Threads : pc'[u] \notin Idle => task'[u] \in dispatched'
    BY <1>12, <2>1, MoveType, NextTaskType DEF RenameFails, AfterFinal, Places, Idle
  <2> QED
    BY <1>12, <2>2 DEF RenameFails, Fault, TypeOK
<1> QED
  BY <1>1, <1>2, <1>3, <1>4, <1>5, <1>6, <1>7, <1>8, <1>9, <1>10, <1>11, <1>12
  DEF ThreadStep, ThreadFault

\* Every step keeps the types.
LEMMA TypeStep == TypeOK /\ [Next]_vars => TypeOK'
<1> SUFFICES ASSUME TypeOK, [Next]_vars PROVE TypeOK'
  OBVIOUS
<1>1. CASE \E p \in Plans : Launch(p)
  BY <1>1, TypeLaunch
<1>2. CASE \E t \in Threads : ThreadStep(t) \/ SaveFails(t) \/ ThreadFault(t)
  BY <1>2, TypeThreadStep
<1>3. CASE Interrupt
  <2>1. keepRunning' \in BOOLEAN
    BY <1>3 DEF Interrupt
  <2>2. faults' \in Nat
    BY <1>3 DEF Interrupt, Fault, TypeOK
  <2>3. UNCHANGED <<process, plan, workers, dispatched, pc, task, journal, workfile>>
    BY <1>3 DEF Interrupt, threadVars, fileVars
  <2> QED
    BY <2>1, <2>2, <2>3 DEF TypeOK
<1>4. CASE Crash
  <2>1. /\ DOMAIN workers' = {} /\ workers' \in [DOMAIN workers' -> Worker]
        /\ pc' \in [Threads -> Places]
        /\ task' \in [Threads -> dispatched' \cup {NoTask}]
        /\ \A t \in Threads : pc'[t] \in Idle
    BY <1>4 DEF Crash, Places, Idle
  <2> QED
    BY <1>4, <2>1 DEF Crash, Fault, TypeOK, fileVars, Outcomes
<1>5. CASE Finish
  BY <1>5 DEF Finish, FinishIncomplete, FinishUnreported, Report, ReportThrows,
              End, TypeOK, threadVars, fileVars, Outcomes
<1>6. CASE UNCHANGED vars
  BY <1>6 DEF vars, threadVars, fileVars, TypeOK
<1> QED
  BY <1>1, <1>2, <1>3, <1>4, <1>5, <1>6 DEF Next

\* Every variable keeps its type, and the tasks of busy threads are among the
\* workers that have been fetched.
THEOREM TypeCorrect == Spec => []TypeOK
<1>1. Init => TypeOK
  BY TypeInit
<1>2. TypeOK /\ [Next]_vars => TypeOK'
  BY TypeStep
<1> QED
  BY <1>1, <1>2, PTL DEF Spec

-----------------------------------------------------------------------------
(* Counts *)

\* Advancing the worker of a range within the range keeps every count exact.
LEMMA ProgressAdvanced ==
  ASSUME TypeOK, ProgressExact, NEW r \in DOMAIN workers, r \in Ranges,
         NEW to \in Int, workers[r].pos <= to, to <= r[2],
         workers' = [workers EXCEPT ![r] = Advance(workers[r], to)],
         UNCHANGED workfile
  PROVE  ProgressExact'
<1>1. workers[r] \in Worker
  BY DEF TypeOK
<1>2. r[1] \in Int /\ r[2] \in 0 .. Limit
  BY RangeFacts, LimitAssumption
<1>3. /\ r[1] <= workers[r].pos /\ workers[r].pos \in Int
      /\ workers[r].counts = Exact(r[1], workers[r].pos)
  BY <1>2 DEF ProgressExact
<1>4. to \in 0 .. Limit
  BY <1>1, <1>2, LimitAssumption DEF Worker
<1>5. /\ Advance(workers[r], to).pos = to
      /\ Advance(workers[r], to).counts = Exact(r[1], to)
  BY <1>1, <1>2, <1>3, <1>4, AdvanceExact
<1>6. to \in r[1] .. r[2]
  BY <1>2, <1>3
<1>7. \A q \in DOMAIN workers' :
        /\ workers'[q].pos \in q[1] .. q[2]
        /\ workers'[q].counts = Exact(q[1], workers'[q].pos)
  <2> TAKE q \in DOMAIN workers'
  <2>1. q \in DOMAIN workers
    OBVIOUS
  <2>2. CASE q = r
    BY <1>5, <1>6, <2>1, <2>2
  <2>3. CASE q # r
    BY <2>1, <2>3 DEF ProgressExact
  <2> QED
    BY <2>2, <2>3
<1> QED
  BY <1>7 DEF ProgressExact

\* Saving an exact worker leaves exact checkpoint files.
LEMMA ProgressSaved ==
  ASSUME ProgressExact, NEW r \in DOMAIN workers, workfile' = Saved(r),
         UNCHANGED workers
  PROVE  ProgressExact'
BY DEF ProgressExact, Saved

LEMMA ProgressLaunch ==
  ASSUME TypeOK, ProgressExact, NEW p \in Plans, Launch(p)
  PROVE  ProgressExact'
<1>1. PICK checkpointing \in CheckpointModes :
        workers' = [r \in p \ Completed(p) |-> Load(r, checkpointing)]
  BY DEF Launch
<1>2. \A r \in p : /\ Load(r, checkpointing).pos \in r[1] .. r[2]
                   /\ Load(r, checkpointing).counts
                        = Exact(r[1], Load(r, checkpointing).pos)
  <2> TAKE r \in p
  <2>1. r[1] \in Int /\ r[2] \in Int /\ r[1] < r[2]
    BY RangeFacts, LimitAssumption DEF Ranges
  <2>2. CASE r \in DOMAIN workfile
    BY <2>2 DEF Load, ProgressExact
  <2>3. CASE r \notin DOMAIN workfile
    BY <2>1, <2>3, ExactEmpty DEF Load
  <2> QED
    BY <2>2, <2>3
<1> QED
  BY <1>1, <1>2 DEF Launch, ProgressExact, fileVars

\* Every step keeps what is in memory and in the checkpoint files exact.
LEMMA ProgressStep ==
  ASSUME TypeOK, ProgressExact, [Next]_vars
  PROVE  ProgressExact'
<1> USE DEF fileVars, processVars, threadVars
<1>1. CASE \E p \in Plans : Launch(p)
  BY <1>1, ProgressLaunch
<1>2. ASSUME NEW t \in Threads, Start(t)
      PROVE  ProgressExact'
  <2> DEFINE r == task[t]
  <2>1. r \in DOMAIN workers /\ r \in Ranges
    BY <1>2, BusyFacts DEF Start, At, Idle
  <2>2. /\ workers[r].pos \in Int /\ r[2] \in Int /\ workers[r].pos <= r[2]
    BY <2>1, RangeFacts, LimitAssumption DEF ProgressExact
  <2>3. CASE workers[r].pos <= 2
    <3>1. /\ AtMost(r[2], 3) \in Int
          /\ workers[r].pos <= AtMost(r[2], 3) /\ AtMost(r[2], 3) <= r[2]
      BY <2>2, <2>3 DEF AtMost
    <3>2. workers' = [workers EXCEPT ![r] = Advance(workers[r], AtMost(r[2], 3))]
      BY <1>2, <2>3 DEF Start
    <3> QED
      BY <1>2, <2>1, <3>1, <3>2, ProgressAdvanced DEF Start
  <2>4. CASE ~(workers[r].pos <= 2)
    <3>1. UNCHANGED <<workers, workfile>>
      BY <1>2, <2>1, <2>4 DEF Start, TypeOK
    <3> QED
      BY <3>1 DEF ProgressExact
  <2> QED
    BY <2>3, <2>4
<1>3. ASSUME NEW t \in Threads, ProcessSegment(t)
      PROVE  ProgressExact'
  <2> DEFINE r == task[t]
  <2>1. r \in DOMAIN workers /\ r \in Ranges
    BY <1>3, BusyFacts DEF ProcessSegment, At, Idle
  <2>2. /\ workers[r].pos \in Int /\ r[2] \in Int /\ workers[r].pos <= r[2]
    BY <2>1, RangeFacts, LimitAssumption DEF ProgressExact
  <2>3. PICK y \in workers[r].pos + 1 .. workers[r].pos + SegmentSize :
          workers' = [workers EXCEPT ![r] = Advance(workers[r], AtMost(y, r[2]))]
    BY <1>3 DEF ProcessSegment
  <2>4. /\ AtMost(y, r[2]) \in Int
        /\ workers[r].pos <= AtMost(y, r[2]) /\ AtMost(y, r[2]) <= r[2]
    BY <2>2, SegmentAssumption DEF AtMost
  <2> QED
    BY <1>3, <2>1, <2>3, <2>4, ProgressAdvanced DEF ProcessSegment
<1>4. ASSUME NEW t \in Threads, Checkpoint(t) \/ FinalCheckpoint(t)
      PROVE  ProgressExact'
  <2>1. task[t] \in DOMAIN workers
    BY <1>4, BusyFacts DEF Checkpoint, FinalCheckpoint, At, Idle
  <2>2. workfile' = Saved(task[t]) \/ workfile' = workfile
    BY <1>4 DEF Checkpoint, FinalCheckpoint
  <2>3. UNCHANGED workers
    BY <1>4 DEF Checkpoint, FinalCheckpoint
  <2> QED
    BY <2>1, <2>2, <2>3, ProgressSaved DEF ProgressExact
<1>5. ASSUME NEW t \in Threads, RemoveFile(t)
      PROVE  ProgressExact'
  BY <1>5 DEF RemoveFile, Without, ProgressExact
<1>6. ASSUME NEW t \in Threads,
             \/ FetchTask(t) \/ FetchNone(t) \/ LeaveLoop(t) \/ NotDue(t)
             \/ AppendRecord(t) \/ SaveFails(t) \/ ThreadFault(t)
      PROVE  ProgressExact'
  <2>1. UNCHANGED <<workers, workfile>>
    BY <1>6 DEF FetchTask, FetchNone, LeaveLoop, NotDue, AppendRecord, SaveFails,
                ThreadFault, RenameFails, AppendFails, RemoveFails
  <2> QED
    BY <2>1 DEF ProgressExact
<1>7. CASE Crash
  BY <1>7 DEF Crash, ProgressExact
<1>8. CASE Interrupt \/ Finish \/ UNCHANGED vars
  <2>1. UNCHANGED <<workers, workfile>>
    BY <1>8 DEF Interrupt, Finish, FinishIncomplete, FinishUnreported, Report,
                ReportThrows, End, vars
  <2> QED
    BY <2>1 DEF ProgressExact
<1> QED
  BY <1>1, <1>2, <1>3, <1>4, <1>5, <1>6, <1>7, <1>8 DEF Next, ThreadStep

\* At most one thread works on a worker_state, and what it is about to append
\* is complete: every step keeps that.
LEMMA AppendStep ==
  ASSUME TypeOK, ProgressExact, OneThreadPerTask, AppendsWholeRange, [Next]_vars
  PROVE  AppendsWholeRange'
<1> USE DEF fileVars, processVars, threadVars
<1> SUFFICES ASSUME NEW u \in Threads, pc'[u] = "append"
             PROVE  workers'[task'[u]].pos = task'[u][2]
  BY DEF AppendsWholeRange
<1>1. CASE \E p \in Plans : Launch(p)
  BY <1>1 DEF Launch
<1>2. ASSUME NEW t \in Threads, t = u, ThreadStep(t) \/ SaveFails(t) \/ ThreadFault(t)
      PROVE  workers'[task'[u]].pos = task'[u][2]
  <2>1. pc[t] \in Places
    BY DEF TypeOK
  <2>2. CASE FetchTask(t)
    BY <1>2, <2>2 DEF FetchTask, GoTo, TypeOK, At
  <2>3. CASE \/ FetchNone(t) \/ Start(t) \/ LeaveLoop(t) \/ ProcessSegment(t)
             \/ NotDue(t) \/ Checkpoint(t) \/ AppendRecord(t) \/ RemoveFile(t)
             \/ SaveFails(t) \/ AppendFails(t) \/ RemoveFails(t)
    <3>1. pc'[t] # "append"
      BY <2>3 DEF FetchNone, Start, LeaveLoop, ProcessSegment, NotDue, Checkpoint,
                  AppendRecord, RemoveFile, SaveFails, AppendFails, RemoveFails,
                  GoTo, NextTask, TypeOK
    <3> QED
      BY <1>2, <3>1
  <2>4. CASE FinalCheckpoint(t) \/ RenameFails(t)
    <3>1. /\ AfterFinal(t) /\ pc[t] \notin Idle /\ UNCHANGED workers
      BY <1>2, <2>4 DEF FinalCheckpoint, RenameFails, GoTo, TypeOK, At, Idle
    <3>2. workers[task[t]].pos >= task[t][2] /\ UNCHANGED task
      BY <1>2, <3>1 DEF AfterFinal, NextTask, GoTo, TypeOK
    <3>3. task[t] \in DOMAIN workers /\ task[t] \in Ranges
      BY <3>1, BusyFacts
    <3>4. workers[task[t]].pos \in task[t][1] .. task[t][2]
      BY <3>3 DEF ProgressExact
    <3>5. task[t][1] \in Int /\ task[t][2] \in Int
      BY <3>3, RangeFacts, LimitAssumption
    <3>6. workers[task[t]].pos = task[t][2]
      BY <3>2, <3>4, <3>5
    <3> QED
      BY <1>2, <3>1, <3>2, <3>6
  <2> QED
    BY <1>2, <2>2, <2>3, <2>4 DEF ThreadStep, ThreadFault
<1>3. ASSUME NEW t \in Threads, t # u, ThreadStep(t) \/ SaveFails(t) \/ ThreadFault(t)
      PROVE  workers'[task'[u]].pos = task'[u][2]
  <2>1. pc'[u] = pc[u] /\ task'[u] = task[u]
    BY <1>3 DEF ThreadStep, ThreadFault, FetchTask, FetchNone, Start, LeaveLoop,
                ProcessSegment, NotDue, Checkpoint, FinalCheckpoint, AfterFinal,
                AppendRecord, RemoveFile, SaveFails, RenameFails, AppendFails,
                RemoveFails, GoTo, NextTask, TypeOK
  <2>2. task[u] \in DOMAIN workers
    BY <2>1, BusyFacts DEF Idle
  <2>3. workers'[task[u]] = workers[task[u]]
    <3>1. CASE Start(t) \/ ProcessSegment(t)
      <4>1. pc[t] \notin Idle /\ pc[u] \notin Idle
        BY <2>1, <3>1 DEF Start, ProcessSegment, At, Idle
      <4>2. task[t] # task[u]
        BY <1>3, <4>1 DEF OneThreadPerTask
      <4> QED
        BY <2>2, <3>1, <4>2 DEF Start, ProcessSegment, TypeOK
    <3>2. CASE ~(Start(t) \/ ProcessSegment(t))
      BY <1>3, <3>2 DEF ThreadStep, ThreadFault, FetchTask, FetchNone, LeaveLoop,
                NotDue, Checkpoint, FinalCheckpoint,
                AppendRecord, RemoveFile, SaveFails, RenameFails, AppendFails,
                RemoveFails
    <3> QED
      BY <3>1, <3>2
  <2> QED
    BY <2>1, <2>3 DEF AppendsWholeRange
<1>4. CASE Crash
  BY <1>4 DEF Crash
<1>5. CASE Interrupt \/ Finish \/ UNCHANGED vars
  BY <1>5 DEF Interrupt, Finish, FinishIncomplete, FinishUnreported, Report,
              ReportThrows, End, vars, AppendsWholeRange
<1> QED
  BY <1>1, <1>2, <1>3, <1>4, <1>5 DEF Next

-----------------------------------------------------------------------------
(* The journal *)

\* A step changes the journal only by appending one record, and only in
\* AppendRecord with a journal.
LEMMA JournalStep ==
  ASSUME TypeOK, [Next]_vars
  PROVE  \/ UNCHANGED journal
         \/ \E t \in Threads :
              /\ AppendRecord(t) /\ Journalling
              /\ journal' = Append(journal, [range |-> task[t],
                                             counts |-> workers[task[t]].counts])
BY DEF Next, Launch, ThreadStep, ThreadFault, FetchTask, FetchNone, Start,
       LeaveLoop, ProcessSegment, NotDue, Checkpoint, FinalCheckpoint,
       AppendRecord, RemoveFile, SaveFails, RenameFails, AppendFails, RemoveFails,
       Interrupt, Crash, Finish, FinishIncomplete, FinishUnreported, Report,
       ReportThrows, End, vars, fileVars

\* What appending a record does to the journal.
LEMMA AppendFacts ==
  ASSUME TypeOK, NEW rec \in Record, journal' = Append(journal, rec)
  PROVE  /\ DOMAIN journal = 1 .. Len(journal)
         /\ Len(journal) \in Nat
         /\ DOMAIN journal' = 1 .. Len(journal) + 1
         /\ \A i \in DOMAIN journal : journal'[i] = journal[i]
         /\ journal'[Len(journal) + 1] = rec
         /\ Journalled' = Journalled \cup {rec.range}
<1>1. journal \in Seq(Record)
  BY DEF TypeOK
<1>2. /\ DOMAIN journal = 1 .. Len(journal)
      /\ Len(journal) \in Nat
      /\ DOMAIN journal' = 1 .. Len(journal) + 1
      /\ \A i \in DOMAIN journal : journal'[i] = journal[i]
      /\ journal'[Len(journal) + 1] = rec
  BY <1>1
<1>3. Journalled' = Journalled \cup {rec.range}
  BY <1>2 DEF Journalled
<1> QED
  BY <1>2, <1>3

\* Only whole ranges are appended, so every record is exact.
LEMMA JournalExactStep ==
  ASSUME TypeOK, ProgressExact, AppendsWholeRange, JournalExact, [Next]_vars
  PROVE  JournalExact'
<1>1. CASE UNCHANGED journal
  BY <1>1 DEF JournalExact
<1>2. ASSUME NEW t \in Threads, AppendRecord(t),
             journal' = Append(journal, [range |-> task[t],
                                         counts |-> workers[task[t]].counts])
      PROVE  JournalExact'
  <2> DEFINE r == task[t]
             rec == [range |-> r, counts |-> workers[r].counts]
  <2>1. pc[t] = "append"
    BY <1>2 DEF AppendRecord, At
  <2>2. r \in DOMAIN workers /\ r \in Ranges /\ workers[r] \in Worker
    BY <2>1, BusyFacts DEF Idle
  <2>3. rec \in Record
    BY <2>2 DEF Record, Worker
  <2>4. rec.counts = Exact(rec.range[1], rec.range[2])
    BY <2>1, <2>2 DEF AppendsWholeRange, ProgressExact
  <2> HIDE DEF rec
  <2>5. journal' = Append(journal, rec)
    BY <1>2 DEF rec
  <2> QED
    BY <2>3, <2>4, <2>5, AppendFacts DEF JournalExact
<1> QED
  BY <1>1, <1>2, JournalStep

-----------------------------------------------------------------------------
(* Who works on what *)

\* The part of the invariant that is about tasks and records.
TasksOK ==
  /\ OneRecordPerRange /\ OneThreadPerTask /\ NothingRecalculated
  /\ FetchedBeforeJournalled /\ JournalUsed

\* Threads that stay where they are, or go on with the task they have, or give
\* it up, cannot upset TasksOK when no task is fetched or appended.
LEMMA TasksKept ==
  ASSUME TypeOK, TasksOK, NEW t \in Threads,
         UNCHANGED <<journal, dispatched>>, DOMAIN workers' = DOMAIN workers,
         \A u \in Threads \ {t} : pc'[u] = pc[u] /\ task'[u] = task[u],
         \/ pc'[t] \in Idle
         \/ /\ pc[t] \notin Idle /\ task'[t] = task[t]
            /\ pc[t] = "remove" => pc'[t] = "remove"
  PROVE  TasksOK'
<1>1. OneThreadPerTask'
  BY DEF TasksOK, OneThreadPerTask
<1>2. NothingRecalculated'
  BY DEF TasksOK, NothingRecalculated, Journalled
<1>3. OneRecordPerRange' /\ JournalUsed' /\ FetchedBeforeJournalled'
  BY DEF TasksOK, OneRecordPerRange, JournalUsed, FetchedBeforeJournalled, Journalled
<1> QED
  BY <1>1, <1>2, <1>3 DEF TasksOK

LEMMA TasksLaunch ==
  ASSUME TypeOK, TasksOK, NEW p \in Plans, Launch(p)
  PROVE  TasksOK'
<1>1. UNCHANGED journal /\ \A t \in Threads : pc'[t] \in Idle
  BY DEF Launch, fileVars, Idle
<1>2. \A r \in DOMAIN workers' : r \notin Journalled
  <2> TAKE r \in DOMAIN workers'
  <2>1. r \in p \ Completed(p)
    BY DEF Launch
  <2>2. CASE p \notin Unjournalled
    BY <2>1, <2>2 DEF Completed, Matching, Journalled
  <2>3. CASE p \in Unjournalled
    BY <2>1, <2>3, JournalAssumption DEF TasksOK, JournalUsed
  <2> QED
    BY <2>2, <2>3
<1> QED
  BY <1>1, <1>2 DEF TasksOK, OneRecordPerRange, OneThreadPerTask,
     NothingRecalculated, FetchedBeforeJournalled, JournalUsed, Journalled

\* The task fetched is one that no thread has had and no record is of.
LEMMA TasksFetch ==
  ASSUME TypeOK, TasksOK, NEW t \in Threads, FetchTask(t)
  PROVE  TasksOK'
<1>1. PICK r \in Waiting :
        /\ dispatched' = dispatched \cup {r}
        /\ IF workers[r].pos < r[2]
           THEN GoTo(t, "start") /\ task' = [task EXCEPT ![t] = r]
           ELSE UNCHANGED <<pc, task>>
  BY DEF FetchTask
<1>2. r \in DOMAIN workers /\ r \notin dispatched
  BY <1>1 DEF Waiting
<1>3. r \notin Journalled
  BY <1>2 DEF TasksOK, FetchedBeforeJournalled
<1>4. UNCHANGED <<journal, workers>>
  BY DEF FetchTask, fileVars
<1>5. /\ \A u \in Threads \ {t} : pc'[u] = pc[u] /\ task'[u] = task[u]
      /\ pc[t] \in Idle
      /\ pc'[t] \notin Idle => task'[t] = r
  BY <1>1 DEF GoTo, TypeOK, FetchTask, At, Idle
<1>6. \A u \in Threads : pc[u] \notin Idle => task[u] # r
  BY <1>2, BusyFacts
<1>7. OneThreadPerTask'
  BY <1>5, <1>6 DEF TasksOK, OneThreadPerTask
<1>8. NothingRecalculated'
  BY <1>3, <1>4, <1>5 DEF TasksOK, NothingRecalculated, Journalled
<1>9. OneRecordPerRange' /\ JournalUsed' /\ FetchedBeforeJournalled'
  BY <1>1, <1>4 DEF TasksOK, OneRecordPerRange, JournalUsed,
                    FetchedBeforeJournalled, Journalled
<1> QED
  BY <1>7, <1>8, <1>9 DEF TasksOK

\* The range appended was not in the journal, and its task has been fetched.
LEMMA TasksAppend ==
  ASSUME TypeOK, TasksOK, NEW t \in Threads, AppendRecord(t), Journalling,
         journal' = Append(journal, [range |-> task[t],
                                     counts |-> workers[task[t]].counts])
  PROVE  TasksOK'
<1> DEFINE r == task[t]
           rec == [range |-> r, counts |-> workers[r].counts]
<1>1. pc[t] = "append"
  BY DEF AppendRecord, At
<1>2. r \in dispatched /\ r \in Ranges /\ workers[r] \in Worker
  BY <1>1, BusyFacts DEF Idle
<1>3. rec \in Record /\ rec.range = r
  BY <1>2 DEF Record, Worker
<1>4. r \notin Journalled
  BY <1>1 DEF TasksOK, NothingRecalculated, Idle
<1> HIDE DEF rec
<1>5. journal' = Append(journal, rec)
  BY DEF rec
<1>6. /\ DOMAIN journal = 1 .. Len(journal)
      /\ Len(journal) \in Nat
      /\ DOMAIN journal' = 1 .. Len(journal) + 1
      /\ \A i \in DOMAIN journal : journal'[i] = journal[i]
      /\ journal'[Len(journal) + 1] = rec
      /\ Journalled' = Journalled \cup {r}
  BY <1>3, <1>5, AppendFacts
<1>7. /\ pc' = [pc EXCEPT ![t] = "remove"]
      /\ UNCHANGED <<workers, dispatched, task>>
  BY DEF AppendRecord, GoTo
<1>8. OneRecordPerRange'
  <2> SUFFICES ASSUME NEW i \in DOMAIN journal', NEW j \in DOMAIN journal',
                      journal'[i].range = journal'[j].range
               PROVE  i = j
    BY DEF OneRecordPerRange
  <2>1. \A k \in DOMAIN journal : journal'[k].range # r
    BY <1>4, <1>6 DEF Journalled
  <2>2. CASE i \in DOMAIN journal /\ j \in DOMAIN journal
    BY <1>6, <2>2 DEF TasksOK, OneRecordPerRange
  <2>3. CASE ~(i \in DOMAIN journal /\ j \in DOMAIN journal)
    BY <1>3, <1>6, <2>1, <2>3
  <2> QED
    BY <2>2, <2>3
<1>9. OneThreadPerTask'
  BY <1>1, <1>7 DEF TasksOK, OneThreadPerTask, TypeOK, Idle
<1>10. NothingRecalculated'
  <2> SUFFICES ASSUME NEW u \in Threads, pc'[u] \notin Idle \cup {"remove"}
               PROVE  task'[u] \notin Journalled'
    BY DEF NothingRecalculated
  <2>1. u # t /\ pc[u] \notin Idle \cup {"remove"}
    BY <1>7 DEF TypeOK
  <2>2. task[u] # r
    BY <1>1, <2>1 DEF TasksOK, OneThreadPerTask, Idle
  <2> QED
    BY <1>6, <1>7, <2>1, <2>2 DEF TasksOK, NothingRecalculated
<1>11. FetchedBeforeJournalled'
  BY <1>2, <1>6, <1>7 DEF TasksOK, FetchedBeforeJournalled
<1>12. JournalUsed'
  <2>1. plan \in Plans /\ r \in plan
    BY <1>2 DEF TypeOK
  <2>2. r \in UNION (Plans \ Unjournalled)
    BY <2>1 DEF Journalling
  <2> QED
    BY <1>6, <2>2 DEF TasksOK, JournalUsed
<1> QED
  BY <1>8, <1>9, <1>10, <1>11, <1>12 DEF TasksOK

\* Every step keeps threads on tasks of their own, none of them journalled.
LEMMA TasksStep ==
  ASSUME TypeOK, TasksOK, [Next]_vars
  PROVE  TasksOK'
<1>1. CASE \E p \in Plans : Launch(p)
  BY <1>1, TasksLaunch
<1>2. ASSUME NEW t \in Threads, ThreadStep(t) \/ SaveFails(t) \/ ThreadFault(t)
      PROVE  TasksOK'
  <2>1. CASE FetchTask(t)
    BY <2>1, TasksFetch
  <2>2. CASE AppendRecord(t) /\ Journalling
    BY <2>2, TasksAppend DEF AppendRecord
  <2>3. CASE ~FetchTask(t) /\ ~(AppendRecord(t) /\ Journalling)
    <3>1. UNCHANGED <<journal, dispatched>>
      BY <1>2, <2>3 DEF ThreadStep, ThreadFault, FetchNone, Start, LeaveLoop,
           ProcessSegment, NotDue, Checkpoint, FinalCheckpoint, AppendRecord,
           RemoveFile, SaveFails, RenameFails, AppendFails, RemoveFails, fileVars
    <3>2. DOMAIN workers' = DOMAIN workers
      BY <1>2, <2>3 DEF ThreadStep, ThreadFault, FetchNone, Start, LeaveLoop,
           ProcessSegment, NotDue, Checkpoint, FinalCheckpoint, AppendRecord,
           RemoveFile, SaveFails, RenameFails, AppendFails, RemoveFails, TypeOK
    <3>3. /\ \A u \in Threads \ {t} : pc'[u] = pc[u] /\ task'[u] = task[u]
          /\ \/ pc'[t] \in Idle
             \/ /\ pc[t] \notin Idle /\ task'[t] = task[t]
                /\ pc[t] = "remove" => pc'[t] = "remove"
      BY <1>2, <2>3 DEF ThreadStep, ThreadFault, FetchNone, Start, LeaveLoop,
           ProcessSegment, NotDue, Checkpoint, FinalCheckpoint, AfterFinal,
           AppendRecord, RemoveFile, SaveFails, RenameFails, AppendFails,
           RemoveFails, GoTo, NextTask, At, TypeOK, Idle
    <3> QED
      BY <3>1, <3>2, <3>3, TasksKept
  <2> QED
    BY <2>1, <2>2, <2>3
<1>3. CASE Crash
  <2>1. /\ UNCHANGED journal /\ DOMAIN workers' = {}
        /\ \A t \in Threads : pc'[t] \in Idle
    BY <1>3 DEF Crash, fileVars, Idle
  <2> QED
    BY <2>1 DEF TasksOK, OneRecordPerRange, OneThreadPerTask,
       NothingRecalculated, FetchedBeforeJournalled, JournalUsed, Journalled
<1>4. CASE Interrupt \/ Finish \/ UNCHANGED vars
  <2>1. UNCHANGED <<journal, workers, dispatched, pc, task>>
    BY <1>4 DEF Interrupt, Finish, FinishIncomplete, FinishUnreported, Report,
                ReportThrows, End, vars, threadVars, fileVars
  <2> QED
    BY <2>1 DEF TasksOK, OneRecordPerRange, OneThreadPerTask,
       NothingRecalculated, FetchedBeforeJournalled, JournalUsed, Journalled
<1> QED
  BY <1>1, <1>2, <1>3, <1>4 DEF Next

-----------------------------------------------------------------------------
(* The report *)

\* As many matching records as ranges, no two of one range: every range has one.
LEMMA EveryRangeHasARecord ==
  ASSUME TypeOK, OneRecordPerRange, plan \in Plans,
         Cardinality(Matching(plan)) = Cardinality(plan)
  PROVE  \A r \in plan : \E i \in Matching(plan) : journal[i].range = r
<1> DEFINE M == Matching(plan)
           Held == {journal[i].range : i \in M}
           f == [i \in M |-> journal[i].range]
<1>1. DOMAIN journal = 1 .. Len(journal) /\ Len(journal) \in Nat
  BY DEF TypeOK
<1>2. IsFiniteSet(DOMAIN journal)
  BY <1>1, FS_Interval
<1>3. IsFiniteSet(M)
  BY <1>2, FS_Subset DEF Matching
<1>4. IsFiniteSet(plan)
  BY PlanAssumption
<1>5. f \in Bijection(M, Held)
  <2>1. f \in [M -> Held]
    OBVIOUS
  <2>2. \A i, j \in M : f[i] = f[j] => i = j
    BY DEF OneRecordPerRange, Matching
  <2>3. \A r \in Held : \E i \in M : f[i] = r
    OBVIOUS
  <2> QED
    BY <2>1, <2>2, <2>3, Fun_IsBij
<1>6. ExistsBijection(M, Held)
  BY <1>5 DEF ExistsBijection
<1>7. IsFiniteSet(Held) /\ Cardinality(Held) = Cardinality(M)
  BY <1>3, <1>6, FS_Bijection
<1>8. Held \subseteq plan
  BY DEF Matching
<1>9. Held = plan
  BY <1>4, <1>7, <1>8, FS_Subset
<1> QED
  BY <1>9

\* The step that makes the report: the sizes agree, so every range has a record,
\* and the ranges do not overlap, so no position is in two of them.
LEMMA ReportMade ==
  ASSUME TypeOK, JournalExact, OneRecordPerRange, Report
  PROVE  ReportExact'
<1>1. UNCHANGED <<journal, plan>> /\ Cardinality(Matching(plan)) = Cardinality(plan)
  BY DEF Report, End, fileVars
<1>2. ASSUME NEW r \in plan, NEW x \in r[1] .. r[2] - 1
      PROVE  \E i \in Matching(plan) :
               /\ journal[i].counts[x] = 1
               /\ \A j \in Matching(plan) \ {i} : journal[j].counts[x] = 0
  <2>0. plan \in Plans
    BY <1>2 DEF TypeOK
  <2>1. PICK i \in Matching(plan) : journal[i].range = r
    BY <1>1, <2>0, EveryRangeHasARecord
  <2>2. /\ r \in Ranges
        /\ r[1] \in Int /\ r[2] \in Int /\ r[1] >= 0 /\ r[2] <= Limit
    BY <2>0, RangeFacts, LimitAssumption DEF Ranges
  <2>3. x \in Positions /\ x \in Int /\ r[1] <= x /\ x < r[2]
    BY <2>2, LimitAssumption DEF Positions
  <2>4. journal[i].counts[x] = 1
    BY <2>1, <2>3 DEF JournalExact, Matching, Exact
  <2>5. ASSUME NEW j \in Matching(plan) \ {i}
        PROVE  journal[j].counts[x] = 0
    <3> DEFINE q == journal[j].range
    <3>1. q \in plan /\ q # r
      BY <2>1, <2>5 DEF Matching, OneRecordPerRange
    <3>2. q[1] \in Int /\ q[2] \in Int
      BY <2>0, <3>1, RangeFacts, LimitAssumption DEF Ranges
    <3>3. q[2] <= r[1] \/ r[2] <= q[1]
      BY <2>0, <3>1, PlanAssumption
    <3>4. ~(q[1] <= x /\ x < q[2])
      BY <2>2, <2>3, <3>2, <3>3
    <3>5. journal[j].counts = Exact(q[1], q[2])
      BY <2>5 DEF JournalExact, Matching
    <3> QED
      BY <2>3, <3>4, <3>5 DEF Exact
  <2> QED
    BY <2>1, <2>4, <2>5
<1>3. \A r \in plan : \A x \in r[1] .. r[2] - 1 :
        \E i \in Matching(plan) :
          /\ journal[i].counts[x] = 1
          /\ \A j \in Matching(plan) \ {i} : journal[j].counts[x] = 0
  BY <1>2
<1> QED
  BY <1>1, <1>3 DEF ReportExact, Matching

\* Nothing happens to the journal between a report and the next invocation.
LEMMA ReportStep ==
  ASSUME TypeOK, JournalExact, OneRecordPerRange, ReportExact, [Next]_vars
  PROVE  ReportExact'
<1>1. CASE Report
  BY <1>1, ReportMade
<1>2. CASE process' # "reported"
  BY <1>2 DEF ReportExact
<1>3. CASE ~Report /\ process' = "reported"
  <2>1. ~(\E p \in Plans : Launch(p))
    BY <1>3 DEF Launch
  <2>2. ~Crash
    BY <1>3 DEF Crash
  <2>3. ~Finish
    BY <1>3 DEF Finish, FinishIncomplete, FinishUnreported, ReportThrows, End
  <2>4. ~Interrupt
    BY <1>3 DEF Interrupt
  <2>5. ~(\E t \in Threads : ThreadStep(t) \/ SaveFails(t) \/ ThreadFault(t))
    BY <1>3 DEF ThreadStep, ThreadFault, FetchTask, FetchNone, Start, LeaveLoop,
       ProcessSegment, NotDue, Checkpoint, FinalCheckpoint, AppendRecord,
       RemoveFile, SaveFails, RenameFails, AppendFails, RemoveFails, At, processVars
  <2>6. UNCHANGED <<process, plan, journal>>
    BY <2>1, <2>2, <2>3, <2>4, <2>5 DEF Next, vars, fileVars
  <2> QED
    BY <2>6 DEF ReportExact, Matching
<1> QED
  BY <1>1, <1>2, <1>3

-----------------------------------------------------------------------------
(* The checkpoint files *)

\* What a step may do to the checkpoint files.
LEMMA FileStep ==
  ASSUME [Next]_vars
  PROVE  \/ workfile' = workfile
         \/ \E t \in Threads : /\ pc[t] = "remove"
                               /\ workfile' = Without(task[t])
                               /\ UNCHANGED workers
         \/ \E t \in Threads : /\ pc[t] \notin Idle
                               /\ workfile' = Saved(task[t])
                               /\ UNCHANGED workers
BY DEF Next, Launch, ThreadStep, ThreadFault, FetchTask, FetchNone, Start,
       LeaveLoop, ProcessSegment, NotDue, Checkpoint, FinalCheckpoint,
       AppendRecord, RemoveFile, SaveFails, RenameFails, AppendFails, RemoveFails,
       Interrupt, Crash, Finish, FinishIncomplete, FinishUnreported, Report,
       ReportThrows, End, vars, fileVars, At, Idle

\* A worker only ever moves forward.
LEMMA WorkerMovesForward ==
  ASSUME TypeOK, ProgressExact, NEW t \in Threads, Start(t) \/ ProcessSegment(t)
  PROVE  /\ DOMAIN workers' = DOMAIN workers
         /\ \A r \in DOMAIN workers : workers[r].pos <= workers'[r].pos
<1> DEFINE q == task[t]
<1>1. q \in DOMAIN workers /\ q \in Ranges /\ workers[q] \in Worker
  BY BusyFacts DEF Start, ProcessSegment, At, Idle
<1>2. /\ workers[q].pos \in Int /\ q[2] \in Int /\ workers[q].pos <= q[2]
  BY <1>1, RangeFacts, LimitAssumption DEF ProgressExact
<1>3. \A r \in DOMAIN workers : workers[r].pos \in Int
  BY LimitAssumption DEF TypeOK, Worker
<1>4. \A to \in Int : Advance(workers[q], to).pos = to
  BY <1>1 DEF Advance, Worker
<1>5. CASE Start(t)
  <2>1. CASE workers[q].pos <= 2
    <3>1. workers[q].pos <= AtMost(q[2], 3) /\ AtMost(q[2], 3) \in Int
      BY <1>2, <2>1 DEF AtMost
    <3>2. workers' = [workers EXCEPT ![q] = Advance(workers[q], AtMost(q[2], 3))]
      BY <1>5, <2>1 DEF Start
    <3> QED
      BY <1>3, <1>4, <3>1, <3>2 DEF TypeOK
  <2>2. CASE ~(workers[q].pos <= 2)
    BY <1>1, <1>3, <1>5, <2>2 DEF Start, TypeOK
  <2> QED
    BY <2>1, <2>2
<1>6. CASE ProcessSegment(t)
  <2>1. PICK y \in workers[q].pos + 1 .. workers[q].pos + SegmentSize :
          workers' = [workers EXCEPT ![q] = Advance(workers[q], AtMost(y, q[2]))]
    BY <1>6 DEF ProcessSegment
  <2>2. workers[q].pos <= AtMost(y, q[2]) /\ AtMost(y, q[2]) \in Int
    BY <1>2, SegmentAssumption DEF AtMost
  <2> QED
    BY <1>3, <1>4, <2>1, <2>2 DEF TypeOK
<1> QED
  BY <1>5, <1>6

\* No step lets a worker fall behind its checkpoint file.
LEMMA AheadStep ==
  ASSUME TypeOK, ProgressExact, WorkersAhead, [Next]_vars
  PROVE  WorkersAhead'
<1>1. \A r \in DOMAIN workfile : workfile[r].pos \in Int
  BY LimitAssumption DEF TypeOK, File
<1>2. \A r \in DOMAIN workers : workers[r].pos \in Int
  BY LimitAssumption DEF TypeOK, Worker
<1>3. CASE \E p \in Plans : Launch(p)
  <2>1. PICK p \in Plans : Launch(p)
    BY <1>3
  <2>2. PICK checkpointing \in CheckpointModes :
          workers' = [r \in p \ Completed(p) |-> Load(r, checkpointing)]
    BY <2>1 DEF Launch
  <2>3. UNCHANGED workfile
    BY <2>1 DEF Launch, fileVars
  <2>4. \A r \in DOMAIN workfile : Load(r, checkpointing).pos = workfile[r].pos
    BY DEF Load
  <2> QED
    BY <1>1, <2>2, <2>3, <2>4 DEF WorkersAhead
<1>4. ASSUME NEW t \in Threads, Start(t) \/ ProcessSegment(t)
      PROVE  WorkersAhead'
  <2>1. UNCHANGED workfile
    BY <1>4 DEF Start, ProcessSegment, fileVars
  <2>2. /\ DOMAIN workers' = DOMAIN workers
        /\ \A r \in DOMAIN workers : workers[r].pos <= workers'[r].pos
    BY <1>4, WorkerMovesForward
  <2>3. \A r \in DOMAIN workers : workers'[r].pos \in Int
    BY <2>2, TypeStep, LimitAssumption DEF TypeOK, Worker
  <2> QED
    BY <1>1, <1>2, <2>1, <2>2, <2>3 DEF WorkersAhead
<1>5. CASE Crash
  BY <1>5 DEF Crash, WorkersAhead
<1>6. CASE UNCHANGED workers
  <2>1. CASE workfile' = workfile
    BY <1>6, <2>1 DEF WorkersAhead
  <2>2. CASE \E t \in Threads : workfile' = Without(task[t])
    BY <1>6, <2>2 DEF WorkersAhead, Without
  <2>3. CASE \E t \in Threads : pc[t] \notin Idle /\ workfile' = Saved(task[t])
    <3>1. PICK t \in Threads : pc[t] \notin Idle /\ workfile' = Saved(task[t])
      BY <2>3
    <3>2. task[t] \in DOMAIN workers
      BY <3>1, BusyFacts
    <3> QED
      BY <1>2, <1>6, <3>1, <3>2 DEF WorkersAhead, Saved
  <2> QED
    BY <2>1, <2>2, <2>3, FileStep
<1>7. \/ \E p \in Plans : Launch(p)
      \/ \E t \in Threads : Start(t) \/ ProcessSegment(t)
      \/ Crash
      \/ UNCHANGED workers
  BY DEF Next, ThreadStep, ThreadFault, FetchTask, FetchNone, LeaveLoop, NotDue,
     Checkpoint, FinalCheckpoint, AppendRecord, RemoveFile, SaveFails, RenameFails,
     AppendFails, RemoveFails, Interrupt, Finish, FinishIncomplete,
     FinishUnreported, Report, ReportThrows, End, vars, threadVars
<1> QED
  BY <1>3, <1>4, <1>5, <1>6, <1>7

\* A thread gets to "remove" only by appending, and the journal does not shrink.
LEMMA RemoveStep ==
  ASSUME TypeOK, RemovesJournalled, [Next]_vars
  PROVE  RemovesJournalled'
<1> SUFFICES ASSUME NEW u \in Threads, pc'[u] = "remove", Journalling'
             PROVE  task'[u] \in Journalled'
  BY DEF RemovesJournalled
<1>0. Journalling
  <2>1. ~(\E p \in Plans : Launch(p))
    BY DEF Launch
  <2>2. plan' = plan
    BY <2>1 DEF Next, ThreadStep, ThreadFault, FetchTask, FetchNone, Start,
       LeaveLoop, ProcessSegment, NotDue, Checkpoint, FinalCheckpoint,
       AppendRecord, RemoveFile, SaveFails, RenameFails, AppendFails, RemoveFails,
       Interrupt, Crash, Finish, FinishIncomplete, FinishUnreported, Report,
       ReportThrows, End, vars, processVars
  <2> QED
    BY <2>2 DEF Journalling
<1>1. CASE \E t \in Threads : AppendRecord(t)
  <2>1. PICK t \in Threads : AppendRecord(t)
    BY <1>1
  <2> DEFINE rec == [range |-> task[t], counts |-> workers[task[t]].counts]
  <2>2. rec \in Record /\ rec.range = task[t]
    BY <2>1, BusyFacts DEF AppendRecord, At, Idle, Record, Worker
  <2> HIDE DEF rec
  <2>3. journal' = Append(journal, rec)
    BY <1>0, <2>1 DEF AppendRecord, rec
  <2>4. Journalled' = Journalled \cup {task[t]}
    BY <2>2, <2>3, AppendFacts
  <2>5. UNCHANGED task /\ (u = t \/ pc[u] = "remove")
    BY <2>1 DEF AppendRecord, GoTo, TypeOK
  <2> QED
    BY <1>0, <2>4, <2>5 DEF RemovesJournalled
<1>2. CASE ~(\E t \in Threads : AppendRecord(t))
  <2>1. UNCHANGED journal
    BY <1>2, JournalStep
  <2>2. pc[u] = "remove" /\ task'[u] = task[u]
    BY <1>2 DEF Next, Launch, ThreadStep, ThreadFault, FetchTask, FetchNone, Start,
       LeaveLoop, ProcessSegment, NotDue, Checkpoint, FinalCheckpoint, AfterFinal,
       RemoveFile, SaveFails, RenameFails, AppendFails, RemoveFails, GoTo, NextTask,
       Interrupt, Crash, Finish, FinishIncomplete, FinishUnreported, Report,
       ReportThrows, End, vars, threadVars, TypeOK, At
  <2> QED
    BY <1>0, <2>1, <2>2 DEF RemovesJournalled, Journalled
<1> QED
  BY <1>1, <1>2

-----------------------------------------------------------------------------
(* The invariant *)

LEMMA InvInit == Init => IInv
<1> SUFFICES ASSUME Init PROVE IInv
  OBVIOUS
<1>1. TypeOK
  BY TypeInit
<1>2. ProgressExact /\ JournalExact /\ OneRecordPerRange
  BY DEF Init, ProgressExact, JournalExact, OneRecordPerRange
<1>3. AppendsWholeRange /\ OneThreadPerTask /\ NothingRecalculated
  BY DEF Init, AppendsWholeRange, OneThreadPerTask, NothingRecalculated, Idle
<1>4. FetchedBeforeJournalled /\ JournalUsed /\ ReportExact
  BY DEF Init, FetchedBeforeJournalled, JournalUsed, Journalled, ReportExact
<1>5. RemovesJournalled /\ WorkersAhead
  BY DEF Init, RemovesJournalled, WorkersAhead
<1> QED
  BY <1>1, <1>2, <1>3, <1>4, <1>5 DEF IInv

LEMMA InvStep == IInv /\ [Next]_vars => IInv'
<1> SUFFICES ASSUME IInv, [Next]_vars PROVE IInv'
  OBVIOUS
<1>1. TypeOK'
  BY TypeStep DEF IInv
<1>2. ProgressExact'
  BY ProgressStep DEF IInv
<1>3. AppendsWholeRange'
  BY AppendStep DEF IInv
<1>4. JournalExact'
  BY JournalExactStep DEF IInv
<1>5. TasksOK'
  BY TasksStep DEF IInv, TasksOK
<1>6. ReportExact'
  BY ReportStep DEF IInv
<1>7. RemovesJournalled' /\ WorkersAhead'
  BY RemoveStep, AheadStep DEF IInv
<1> QED
  BY <1>1, <1>2, <1>3, <1>4, <1>5, <1>6, <1>7 DEF IInv, TasksOK

\* The inductive invariant holds: what every safety theorem below rests on.
THEOREM Invariance == Spec => []IInv
BY InvInit, InvStep, PTL DEF Spec

\* Counts in memory and in checkpoint files are those of exactly the positions
\* they have passed, and those in the journal of whole ranges, after any faults
\* and any number of invocations.
THEOREM CountsAreExact == Spec => []AllCountsExact
<1>1. IInv => AllCountsExact
  BY DEF IInv, AllCountsExact
<1> QED
  BY <1>1, Invariance, PTL

\* No range is journalled twice.
THEOREM JournalledOnce == Spec => []OneRecordPerRange
<1>1. IInv => OneRecordPerRange
  BY DEF IInv
<1> QED
  BY <1>1, Invariance, PTL

\* No range that is in the journal is worked on.
THEOREM CalculatedOnce == Spec => []NothingRecalculated
<1>1. IInv => NothingRecalculated
  BY DEF IInv
<1> QED
  BY <1>1, Invariance, PTL

\* The threads of the pool never share a worker_state.
THEOREM ThreadsApart == Spec => []OneThreadPerTask
<1>1. IInv => OneThreadPerTask
  BY DEF IInv
<1> QED
  BY <1>1, Invariance, PTL

\* A report counts every position of its ranges exactly once, although
\* get_report_string compares nothing but the number of records.
THEOREM ReportsAreExact == Spec => []ReportExact
<1>1. IInv => ReportExact
  BY DEF IInv
<1> QED
  BY <1>1, Invariance, PTL

-----------------------------------------------------------------------------
(* What a step may not do *)

\* With a journal, a checkpoint file disappears only after its range has been
\* journalled, whatever fails.
THEOREM FilesOutlived == Spec => WorkOutlivesFile
<1>1. ASSUME IInv, [Next]_vars, Journalling,
             NEW r \in DOMAIN workfile \ DOMAIN workfile'
      PROVE  r \in Journalled
  <2>1. PICK t \in Threads : pc[t] = "remove" /\ workfile' = Without(task[t])
    BY <1>1, FileStep DEF Saved
  <2>2. r = task[t]
    BY <1>1, <2>1 DEF Without
  <2> QED
    BY <1>1, <2>1, <2>2 DEF IInv, RemovesJournalled
<1>2. IInv /\ [Next]_vars =>
        [Journalling => \A r \in DOMAIN workfile \ DOMAIN workfile' : r \in Journalled]_vars
  BY <1>1
<1> QED
  BY <1>2, Invariance, PTL DEF Spec, WorkOutlivesFile

\* A checkpoint file is only ever replaced by a later state of its range, by
\* whichever invocation.
THEOREM CheckpointsOnlyAdvance == Spec => CheckpointsAdvance
<1>1. ASSUME IInv, [Next]_vars, NEW r \in DOMAIN workfile \cap DOMAIN workfile'
      PROVE  workfile[r].pos <= workfile'[r].pos
  <2>1. workfile[r].pos \in Int
    BY <1>1, LimitAssumption DEF IInv, TypeOK, File
  <2>2. CASE workfile' = workfile
    BY <2>1, <2>2
  <2>3. CASE \E t \in Threads : workfile' = Without(task[t])
    BY <1>1, <2>1, <2>3 DEF Without
  <2>4. CASE \E t \in Threads : pc[t] \notin Idle /\ workfile' = Saved(task[t])
    <3>1. PICK t \in Threads : pc[t] \notin Idle /\ workfile' = Saved(task[t])
      BY <2>4
    <3>2. task[t] \in DOMAIN workers
      BY <1>1, <3>1, BusyFacts DEF IInv
    <3> QED
      BY <1>1, <2>1, <3>1, <3>2 DEF IInv, WorkersAhead, Saved
  <2> QED
    BY <1>1, <2>2, <2>3, <2>4, FileStep
<1>2. IInv /\ [Next]_vars =>
        [\A r \in DOMAIN workfile \cap DOMAIN workfile' :
           workfile[r].pos <= workfile'[r].pos]_vars
  BY <1>1
<1> QED
  BY <1>2, Invariance, PTL DEF Spec, CheckpointsAdvance

-----------------------------------------------------------------------------
(* Ranges that are left finished but not journalled *)

\* A task that has been fetched is not finished when its worker is constructed;
\* threads that do nothing have no task, and outside an invocation all are such.
StartsUnfinished ==
  \A t \in Threads : pc[t] = "start" => workers[task[t]].pos < task[t][2]

IdleWithoutTask == \A t \in Threads : pc[t] \in Idle => task[t] = NoTask

StoppedIsDone == process # "running" => \A t \in Threads : pc[t] = "done"

LEMMA StartsStep ==
  ASSUME IInv, StartsUnfinished, [Next]_vars
  PROVE  StartsUnfinished'
<1> USE DEF fileVars, processVars, threadVars
<1> SUFFICES ASSUME NEW u \in Threads, pc'[u] = "start"
             PROVE  workers'[task'[u]].pos < task'[u][2]
  BY DEF StartsUnfinished
<1>0. TypeOK /\ OneThreadPerTask
  BY DEF IInv
<1>1. CASE \E t \in Threads : FetchTask(t)
  BY <1>0, <1>1 DEF FetchTask, GoTo, TypeOK, At, StartsUnfinished
<1>2. CASE ~\E t \in Threads : FetchTask(t)
  <2>1. pc[u] = "start" /\ task'[u] = task[u]
    BY <1>0, <1>2 DEF Next, Launch, ThreadStep, ThreadFault, FetchNone, Start,
       LeaveLoop, ProcessSegment, NotDue, Checkpoint, FinalCheckpoint, AfterFinal,
       AppendRecord, RemoveFile, SaveFails, RenameFails, AppendFails, RemoveFails,
       GoTo, NextTask, Interrupt, Crash, Finish, FinishIncomplete, FinishUnreported,
       Report, ReportThrows, End, vars, TypeOK, At
  <2>2. workers'[task[u]] = workers[task[u]]
    <3>1. CASE \E t \in Threads : Start(t) \/ ProcessSegment(t)
      <4>1. PICK t \in Threads : Start(t) \/ ProcessSegment(t)
        BY <3>1
      <4>2. t # u
        BY <1>0, <2>1, <4>1, <1>0
           DEF Start, ProcessSegment, At, GoTo, NextTask, TypeOK
      <4>3. task[t] # task[u] /\ task[u] \in DOMAIN workers
        BY <1>0, <2>1, <4>1, <4>2, BusyFacts
           DEF OneThreadPerTask, Start, ProcessSegment, At, Idle
      <4> QED
        BY <1>0, <4>1, <4>3 DEF Start, ProcessSegment, TypeOK
    <3>2. CASE ~\E t \in Threads : Start(t) \/ ProcessSegment(t)
      <4>1. ~Crash /\ ~\E p \in Plans : Launch(p)
        BY DEF Crash, Launch
      <4> QED
        BY <1>2, <3>2, <4>1 DEF Next, ThreadStep, ThreadFault, FetchNone, LeaveLoop,
           NotDue, Checkpoint, FinalCheckpoint, AppendRecord, RemoveFile, SaveFails,
           RenameFails, AppendFails, RemoveFails, Interrupt, Finish,
           FinishIncomplete, FinishUnreported, Report, ReportThrows, End, vars
    <3> QED
      BY <3>1, <3>2
  <2> QED
    BY <2>1, <2>2 DEF StartsUnfinished
<1> QED
  BY <1>1, <1>2

LEMMA IdleStep ==
  ASSUME TypeOK, IdleWithoutTask, StoppedIsDone, [Next]_vars
  PROVE  IdleWithoutTask' /\ StoppedIsDone'
<1> USE DEF fileVars, processVars, threadVars, Idle, IdleWithoutTask, StoppedIsDone
<1>1. CASE (\E p \in Plans : Launch(p)) \/ Crash
  BY <1>1 DEF Launch, Crash
<1>2. CASE Interrupt \/ Finish \/ UNCHANGED vars
  BY <1>2 DEF Interrupt, Finish, FinishIncomplete, FinishUnreported, Report,
              ReportThrows, Joined, End, vars
<1>3. ASSUME NEW t \in Threads, ThreadStep(t) \/ SaveFails(t) \/ ThreadFault(t)
      PROVE  IdleWithoutTask' /\ StoppedIsDone'
  BY <1>3 DEF ThreadStep, ThreadFault, FetchTask, FetchNone, Start, LeaveLoop,
              ProcessSegment, NotDue, Checkpoint, FinalCheckpoint, AfterFinal,
              AppendRecord, RemoveFile, SaveFails, RenameFails, AppendFails,
              RemoveFails, GoTo, NextTask, TypeOK, At
<1> QED
  BY <1>1, <1>2, <1>3 DEF Next

\* A range nobody works on is stranded by no step.
LEMMA StrandedBefore ==
  ASSUME IInv, [Next]_vars, NEW r \in Stranded', \A t \in Threads : task[t] # r
  PROVE  r \in Stranded
<1>1. r \in DOMAIN workfile /\ workfile[r] = workfile'[r]
  BY FileStep DEF Stranded, Saved, Without
<1>2. r \notin Journalled
  <2>1. CASE UNCHANGED journal
    BY <2>1 DEF Stranded, Journalled
  <2>2. ASSUME NEW t \in Threads, AppendRecord(t),
               journal' = Append(journal, [range |-> task[t],
                                           counts |-> workers[task[t]].counts])
        PROVE  r \notin Journalled
    <3> DEFINE rec == [range |-> task[t], counts |-> workers[task[t]].counts]
    <3>1. rec \in Record
      BY <2>2, BusyFacts DEF IInv, AppendRecord, At, Idle, Record, Worker
    <3> HIDE DEF rec
    <3>2. journal' = Append(journal, rec)
      BY <2>2 DEF rec
    <3> QED
      BY <3>1, <3>2, AppendFacts DEF IInv, Stranded
  <2> QED
    BY <2>1, <2>2, JournalStep DEF IInv
<1> QED
  BY <1>1, <1>2 DEF Stranded

\* A thread gives up a range whose checkpoint file says that it is finished only
\* once the range is journalled, or by a fault.
LEMMA GivenUpByFault ==
  ASSUME IInv, StartsUnfinished, IdleWithoutTask, StoppedIsDone, [Next]_vars,
         NEW r \in Stranded', NEW u \in Threads, task[u] = r, task'[u] # r
  PROVE  faults' > faults
<1> USE DEF fileVars, processVars, threadVars
<1>0. TypeOK /\ TypeOK' /\ WorkersAhead /\ faults \in Nat
  BY TypeStep DEF IInv, TypeOK
<1>1. r \in DOMAIN workfile' /\ workfile'[r].pos = r[2] /\ r \in Ranges
  BY <1>0 DEF Stranded, TypeOK
<1>2. r # NoTask /\ r[2] \in Int
  BY <1>1, RangeFacts, LimitAssumption DEF NoTask
<1>3. pc[u] \notin Idle /\ process = "running"
  BY <1>2 DEF IdleWithoutTask, StoppedIsDone, Idle
<1>4. r \in DOMAIN workers /\ workers[r].pos \in Int
  BY <1>0, <1>3, BusyFacts, LimitAssumption DEF Worker
<1>5. r \in DOMAIN workfile => workfile[r].pos <= workers[r].pos
  BY <1>0, <1>4 DEF WorkersAhead
<1>6. ASSUME Start(u) PROVE FALSE
  BY <1>1, <1>2, <1>4, <1>5, <1>6 DEF Start, StartsUnfinished, At
<1>7. ASSUME FinalCheckpoint(u) PROVE FALSE
  <2>1. workers[r].pos < r[2]
    BY <1>2, <1>4, <1>7 DEF FinalCheckpoint, AfterFinal, GoTo
  <2> QED
    BY <1>1, <1>2, <1>4, <1>5, <1>7, <2>1 DEF FinalCheckpoint, Saved
<1>8. ASSUME RemoveFile(u) PROVE FALSE
  BY <1>1, <1>8 DEF RemoveFile, Without
<1>9. CASE \/ Interrupt \/ Crash
           \/ \E t \in Threads : SaveFails(t) \/ ThreadFault(t)
  BY <1>0, <1>9 DEF Interrupt, Crash, SaveFails, ThreadFault, RenameFails,
                    AppendFails, RemoveFails, Fault
<1>10. CASE Finish \/ UNCHANGED vars
  BY <1>10 DEF Finish, FinishIncomplete, FinishUnreported, Report, ReportThrows,
               End, vars
<1>11. ASSUME NEW p \in Plans, Launch(p) PROVE FALSE
  BY <1>3, <1>11 DEF Launch
<1>12. ASSUME NEW t \in Threads, ThreadStep(t) PROVE FALSE
  <2>1. CASE t = u
    BY <1>3, <1>6, <1>7, <1>8, <1>12, <2>1
       DEF ThreadStep, FetchTask, FetchNone, LeaveLoop, ProcessSegment, NotDue,
           Checkpoint, AppendRecord, At, Idle
  <2>2. CASE t # u
    BY <1>0, <1>12, <2>2 DEF ThreadStep, FetchTask, FetchNone, Start, LeaveLoop,
       ProcessSegment, NotDue, Checkpoint, FinalCheckpoint, AfterFinal,
       AppendRecord, RemoveFile, GoTo, NextTask, TypeOK
  <2> QED
    BY <2>1, <2>2
<1> QED
  BY <1>9, <1>10, <1>11, <1>12 DEF Next

\* A finished range is left behind in its checkpoint file, out of the journal,
\* by nothing but a fault between its last checkpoint and its record.
THEOREM StrandedByFaults == Spec => OnlyFaultsStrand
<1> DEFINE Inv == IInv /\ StartsUnfinished /\ IdleWithoutTask /\ StoppedIsDone
           Step == \A r \in Stranded' :
                     \/ r \in Stranded /\ \A t \in Threads : task[t] # r
                     \/ \E t \in Threads : task'[t] = r
                     \/ faults' > faults
<1>1. Init => Inv
  BY InvInit DEF Init, StartsUnfinished, IdleWithoutTask, StoppedIsDone
<1>2. Inv /\ [Next]_vars => Inv'
  BY InvStep, StartsStep, IdleStep DEF IInv
<1>3. Inv /\ [Next]_vars => [Step]_vars
  <2> SUFFICES ASSUME Inv, [Next]_vars, NEW r \in Stranded',
                      \A t \in Threads : task'[t] # r
               PROVE  \/ r \in Stranded /\ \A t \in Threads : task[t] # r
                      \/ faults' > faults
    OBVIOUS
  <2> QED
    BY StrandedBefore, GivenUpByFault
<1> QED
  BY <1>1, <1>2, <1>3, PTL DEF Spec, OnlyFaultsStrand

-----------------------------------------------------------------------------
(* ResumableCount implements ExactLedger *)

\* A function on 1 .. n is a sequence of length n.
LEMMA FunctionIsSequence ==
  ASSUME NEW S, NEW n \in Nat, NEW f \in [1 .. n -> S]
  PROVE  f \in Seq(S) /\ Len(f) = n
OBVIOUS

\* With an exact journal the ledger is the ranges of its records.
LEMMA LedgerRanges ==
  ASSUME JournalExact
  PROVE  Ledger = [i \in DOMAIN journal |-> journal[i].range]
BY DEF Ledger, JournalExact

LEMMA LedgerEntered ==
  ASSUME JournalExact
  PROVE  Abstract!Entered = Journalled
BY LedgerRanges DEF Abstract!Entered, Journalled

\* Appending a record of a whole range enters the range.
LEMMA AppendEnters ==
  ASSUME IInv, IInv', NEW t \in Threads, AppendRecord(t), Journalling,
         journal' = Append(journal, [range |-> task[t],
                                     counts |-> workers[task[t]].counts])
  PROVE  Abstract!Enter(task[t]) /\ task[t] \in Ranges
<1> DEFINE r == task[t]
           rec == [range |-> r, counts |-> workers[r].counts]
<1>1. TypeOK /\ JournalExact /\ NothingRecalculated /\ JournalExact'
  BY DEF IInv
<1>2. pc[t] = "append" /\ process = "running" /\ UNCHANGED <<process, plan>>
  BY DEF AppendRecord, At, processVars
<1>3. r \in Ranges /\ workers[r] \in Worker
  BY <1>1, <1>2, BusyFacts DEF Idle
<1>4. r \notin Journalled
  BY <1>1, <1>2 DEF NothingRecalculated, Idle
<1>5. rec \in Record /\ rec.range = r
  BY <1>3 DEF Record, Worker
<1> HIDE DEF rec
<1>6. journal' = Append(journal, rec)
  BY DEF rec
<1>7. /\ DOMAIN journal = 1 .. Len(journal)
      /\ Len(journal) \in Nat
      /\ DOMAIN journal' = 1 .. Len(journal) + 1
      /\ \A i \in DOMAIN journal : journal'[i] = journal[i]
      /\ journal'[Len(journal) + 1] = rec
  BY <1>1, <1>5, <1>6, AppendFacts
<1>8. /\ Ledger = [i \in 1 .. Len(journal) |-> journal[i].range]
      /\ Ledger' = [i \in 1 .. Len(journal) + 1 |-> journal'[i].range]
  BY <1>1, <1>7, LedgerRanges DEF Ledger, JournalExact
<1>9. \A i \in 1 .. Len(journal) : journal[i].range \in Ranges
  <2>1. journal \in Seq(Record)
    BY <1>1 DEF TypeOK
  <2>2. \A i \in 1 .. Len(journal) : journal[i] \in Record
    BY <2>1
  <2> QED
    BY <2>2 DEF Record
<1>10. Ledger \in Seq(Ranges) /\ Len(Ledger) = Len(journal)
  <2>1. Ledger \in [1 .. Len(journal) -> Ranges]
    BY <1>8, <1>9
  <2> QED
    BY <1>7, <2>1, FunctionIsSequence
<1>11. Ledger' = Append(Ledger, r)
  <2> DEFINE longer == Append(Ledger, r)
  <2>1. /\ longer \in Seq(Ranges) /\ Len(longer) = Len(journal) + 1
        /\ \A i \in 1 .. Len(journal) : longer[i] = Ledger[i]
        /\ longer[Len(journal) + 1] = r
    BY <1>3, <1>10, AppendProperties
  <2>2. Ledger' \in [1 .. Len(journal) + 1 -> Ranges]
    BY <1>3, <1>5, <1>7, <1>8, <1>9
  <2>3. Ledger' \in Seq(Ranges) /\ Len(Ledger') = Len(journal) + 1
    BY <1>7, <2>2, FunctionIsSequence
  <2> HIDE DEF longer
  <2>4. \A i \in 1 .. Len(journal) + 1 : longer[i] = Ledger'[i]
    BY <1>5, <1>7, <1>8, <2>1
  <2>5. longer = Ledger'
    BY <2>1, <2>3, <2>4, SeqEqual
  <2> QED
    BY <2>5 DEF longer
<1>12. UNCHANGED Published
  BY <1>2 DEF Published
<1> QED
  BY <1>1, <1>3, <1>4, <1>11, <1>12, LedgerEntered DEF Abstract!Enter

\* The step that makes a report publishes a plan all of which has been entered.
LEMMA ReportPublishes ==
  ASSUME IInv, Report
  PROVE  \/ \E p \in Plans : Abstract!Publish(p)
         \/ Abstract!Withdraw
<1>1. /\ process' = "reported" /\ UNCHANGED <<plan, journal>>
      /\ Cardinality(Matching(plan)) = Cardinality(plan)
  BY DEF Report, End, fileVars
<1>2. Published' = plan /\ UNCHANGED Ledger
  BY <1>1 DEF Published, Ledger
<1>3. CASE plan \in Plans
  <2>1. \A r \in plan : \E i \in Matching(plan) : journal[i].range = r
    BY <1>1, <1>3, EveryRangeHasARecord DEF IInv
  <2>2. plan \subseteq Journalled
    BY <2>1 DEF Matching, Journalled
  <2> QED
    BY <1>2, <1>3, <2>2, LedgerEntered DEF IInv, Abstract!Publish
<1>4. CASE plan = {}
  BY <1>2, <1>4 DEF Abstract!Withdraw
<1> QED
  BY <1>3, <1>4 DEF IInv, TypeOK

\* Every step of the program is a step of ExactLedger, or changes neither the
\* ledger nor what is published.
LEMMA LedgerStep ==
  ASSUME IInv, IInv', [Next]_vars
  PROVE  [Abstract!LedgerNext]_(Abstract!ledgerVars)
<1>1. CASE \E t \in Threads : AppendRecord(t) /\ Journalling
  <2>1. PICK t \in Threads : AppendRecord(t) /\ Journalling
    BY <1>1
  <2>2. Abstract!Enter(task[t]) /\ task[t] \in UNION Plans
    BY <2>1, AppendEnters DEF AppendRecord, Ranges
  <2> QED
    BY <2>2 DEF Abstract!LedgerNext
<1>2. CASE Report
  BY <1>2, ReportPublishes DEF Abstract!LedgerNext
<1>3. CASE ~(\E t \in Threads : AppendRecord(t) /\ Journalling) /\ ~Report
  <2>1. UNCHANGED journal
    BY <1>3, JournalStep DEF IInv
  <2>2. UNCHANGED Ledger
    BY <2>1 DEF Ledger
  <2>3. Published' = {} \/ UNCHANGED <<process, plan>>
    BY <1>3 DEF Next, Launch, ThreadStep, ThreadFault, FetchTask, FetchNone, Start,
       LeaveLoop, ProcessSegment, NotDue, Checkpoint, FinalCheckpoint,
       AppendRecord, RemoveFile, SaveFails, RenameFails, AppendFails, RemoveFails,
       Interrupt, Crash, Finish, FinishIncomplete, FinishUnreported,
       ReportThrows, End, vars, processVars, Published
  <2>4. CASE Published' = {}
    BY <2>2, <2>4 DEF Abstract!LedgerNext, Abstract!Withdraw
  <2>5. CASE UNCHANGED <<process, plan>>
    BY <2>2, <2>5 DEF Abstract!ledgerVars, Published
  <2> QED
    BY <2>3, <2>4, <2>5
<1> QED
  BY <1>1, <1>2, <1>3

\* Re-running the program until it reports keeps the promise ExactLedger makes:
\* exact counts, entered once and for all, and no report without all of them.
THEOREM Refinement == Spec => ImplementsLedger
<1>1. Init => Abstract!LedgerInit
  <2> SUFFICES ASSUME Init PROVE Abstract!LedgerInit
    OBVIOUS
  <2>1. journal = <<>> /\ process = "none"
    BY DEF Init
  <2>2. DOMAIN Ledger = {} /\ Ledger \in Seq(Ranges)
    BY <2>1 DEF Ledger
  <2>3. Ledger = <<>>
    BY <2>2
  <2>4. Published = {}
    BY <2>1 DEF Published
  <2> QED
    BY <2>3, <2>4 DEF Abstract!LedgerInit
<1>2. IInv /\ IInv' /\ [Next]_vars => [Abstract!LedgerNext]_(Abstract!ledgerVars)
  BY LedgerStep
<1> QED
  BY <1>1, <1>2, Invariance, PTL DEF Spec, ImplementsLedger, Abstract!LedgerSpec
=============================================================================
