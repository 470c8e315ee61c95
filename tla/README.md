# Prime Differences: specifications, model checking and proofs

Prime Differences counts, for given even differences `h`, the primes `p` up to
report levels `x` for which `p + h` is prime. A count can take weeks, so the
range is cut into tasks, a pool of threads works through them, progress is kept
in checkpoint files and a journal, and an interrupted count is resumed by
repeating the command. This directory holds TLA+ modules of the program, TLC
configurations that check them on small instances, and proofs for TLAPS of what
matters most. Paths are relative to the repository; `PROJECT.json` names the
lines each definition models.

## The system

| Component | State it keeps | Operations | Source |
| :-- | :-- | :-- | :-- |
| Invocation and thread pool | `KEEP_RUNNING`, `next_task_index`, `global_state` with one `worker_state` per task | launch, fetch a task, run it, join, report; SIGINT clears `KEEP_RUNNING` | `src/main.cpp`, `src/worker.cpp` |
| Journal | a text file, one line per finished range | append under a mutex, load the lines of the required ranges | `src/state.cpp` |
| Checkpoint files | one `.work` file per unfinished range | write a `.tmp` and rename, parse, remove | `src/state.cpp`, `src/parsing.cpp`, `src/utils.cpp` |
| Ranges | none | `get_required_ranges`, behind the checks of `parse_args` | `src/state.cpp`, `src/main.cpp` |
| Report | none | `get_report_string` adds up the journal | `src/state.cpp` |
| Optimized worker | two bit segments, the next prime | constructor, `run`, `sieve_segment`, `process_segment`, `accumulate` | `src/worker_optimized.cpp`, `src/bits.hpp` |
| Baseline worker | recent primes, counts not moved yet | `run`, `handle_checkpoint` | `src/worker_baseline.cpp` |
| Bit operations | none | read, set and clear bits of a span, shift across two words | `src/bits.hpp` |
| Command line, value parsing | none | option scanning, conversions, `usage` | `src/main.cpp`, `src/parsing.cpp` |
| System information | none | cache sizes, which give the default segment size | `src/sys_info.cpp` |
| Benchmark, scripts, build | none | timing, formatting, choosing the variant | `benchmark/`, `scripts/`, `CMakeLists.txt` |

How they interact. `main` sets `KEEP_RUNNING`, parses the arguments, and builds a
`worker_state` for every required range that has no journal line, from the
range's checkpoint file if there is one. Each pool thread takes task indices from
an atomic counter and calls `run_worker`, which builds a worker on the shared
`worker_state`, runs it and swallows `runtime_error`s. A worker tests
`KEEP_RUNNING` at its loop head, calls `output_progress` after each step (which
saves when the checkpoint interval has passed) and, when `run` returns, forces a
checkpoint; if the position has reached the end it appends the journal line and
removes the checkpoint file. After the join `main` reports if all positions are at
their ends and there is a journal. Invocations communicate through the files only.

Hard behaviours: interleavings of threads with SIGINT and with failing files;
a kill at any point between saving, journalling and removing; writes cut short,
and what is then read at the next start; invocations with
different report levels on one journal; unsigned arithmetic at the end of the
value range; words, segments and ranges that do not line up. `PROJECT.json`
lists each of them as a hazard at its line.

What makes each component correct:

- pool, journal, files: nothing is counted twice or lost; no range is journalled
  twice; a report holds every position once; work outlives failures; a repeated
  command gets to the report; an interrupt stops the program; of a damaged file
  nothing wrong is taken for right;
- ranges: a partition from `start` to the last level, split at every level, for
  every accepted command line, and the loop ends;
- report: every level gets one line with the counts up to it;
- workers: at every point where a worker can be stopped, its counts are those of
  its position; no access outside the words there are.

## Modules

| Module | Models |
| :-- | :-- |
| `ExactLedger` | abstract: what the journal and the report promise |
| `ResumableCount` | the core: invocations, pool, journal, checkpoint files, faults; implements `ExactLedger` |
| `ResumableCountProofs` | its theorems |
| `RequiredRanges` | argument checks and `get_required_ranges`, unsigned arithmetic of any width |
| `RequiredRangesProofs` | its theorems |
| `Report`, `ReportProofs` | extends `RequiredRanges` with `get_report_string` over the ranges it delivers |
| `Fields` | comma separated lists as they are written, cut, glued and read |
| `JournalLines` | extends `Fields`: the lines of the journal and what `load_journal_entries` makes of a line |
| `WorkFiles` | extends `Fields`: the checkpoint files and what `get_worker_states` makes of one |
| `Recovery`, `RecoveryProofs` | composes `JournalLines` and `WorkFiles`: invocations, cut writes, kills and power failures |
| `Primes`, `PrimesProofs` | the primes as `primesieve::iterator` delivers them, and the definition of the counts |
| `Bits`, `BitsProofs` | `bits.hpp` on words of any width, and what it does to each bit |
| `OptimizedWorker`, `OptimizedWorkerProofs` | composes `Primes` and `Bits`: one optimized worker on one range, stopped and resumed with any parameters |
| `BaselineWorker`, `BaselineWorkerProofs` | one baseline worker on one range, stopped, killed and resumed from its file |
| `MC...` | instances of these modules for TLC |

The parts fit together by what each assumes of the next. `ResumableCount` takes
the ranges as constants and assumes (`PlanAssumption`) that they are finitely
many, not empty and disjoint: `RangesPartition` in `RequiredRangesProofs` proves
that of `get_required_ranges`;
`JournalLines` assumes the same (`RequiredAssumption`). It abstracts counts to "how often have the pairs
of this position been added", and takes a segment to add the pairs of exactly the
positions it passes: `CountsAreExact` of `OptimizedWorkerProofs` proves that. `Report`
assumes one exact record per range: `ReportExact` and `JournalledOnce` deliver it.
`Recovery` is the same program as `ResumableCount` with one thread and one plan, but
its files have contents: what `ResumableCount` takes for granted, that a file which
was written is read as it was meant, is `ReadsWhatItWrote` there, and what happens
if it was not written whole is the subject of the other properties.
The baseline worker does not keep this contract when it is stopped (see the
findings), so `ResumableCount` speaks of the optimized build.

### ResumableCount

| Variable | In the code |
| :-- | :-- |
| `process` | is an invocation running, or how the last one ended: `killed`, `incomplete` ("Not all workers have completed"), `unreported` (no journal), `mismatch` (`get_report_string` throws), `reported` |
| `plan` | the required ranges, a range `[s, e)` being `<<s, e>>` |
| `workers` | `state.workers`: position, counts, and whether `checkpoint_frequency > 0` |
| `dispatched` | the tasks `next_task_index` has passed |
| `pc`, `task` | where each thread is: `fetch` (the pool loop), `start` (constructor), `run` (head of the worker's loop), `progress` (`output_progress`), `final` (the forced checkpoint), `append`, `remove`, `done` |
| `journal`, `workfile` | the files |
| `faults` | bound on the number of faults |

A thread's actions follow the code from one effect another actor can see to the
next: `FetchTask`/`FetchNone`, `Start`, `LeaveLoop`, `ProcessSegment`,
`NotDue`/`Checkpoint`, `FinalCheckpoint`, `AppendRecord`, `RemoveFile`. The time of
a checkpoint is not modelled: one may be due after any segment. Faults are
`Interrupt`, `Crash` (a kill; files survive), `SaveFails` (opening or writing the
temporary file throws what only `run_worker` catches), `RenameFails` (caught by
`save_worker_state`), `AppendFails` and `RemoveFails`. `Launch` covers `parse_args`
and `get_worker_states`; it loads checkpoint files with checkpointing off, as the
parser leaves `checkpoint_frequency` at 0.

A plan in `Unjournalled` is counted without a journal (`-j ""`): nothing is
appended, `Completed` is empty and the invocation ends as `unreported`. The
checkpoint files are named after the journal, so such a plan has files of its own.

### Recovery

| Variable | In the code |
| :-- | :-- |
| `process` | an invocation is running; or it has stopped, has reported, or has ended in `usage()` or `std::terminate` while it read its files (`aborted`) |
| `workers` | `state.workers`: position, counts, does it still save, and whether it works, has written its record, or is over |
| `journal` | the lines: the fields of the text, is there a newline at the end, and in how many appends was it written |
| `files` | the checkpoint files: the entries, each a key and a list |
| `tears`, `kills` | bounds on the faults |

A field is a number, a decimal (a CPU time with a point or an exponent), a decimal whose
exponent is beyond a `double`, or nothing (after a trailing comma).
A write may be cut after any of its characters (`CutsOf`, `FileCuts`), which for a
number means any of its leading digits, and for a decimal, besides, any of the numbers
in `Leading`; what is appended behind an unfinished line is glued to it, digit to digit
(`Joined`). Behind a decimal that may give a decimal or one out of range (`5e-05` and
`100`), for which `std::stod` throws: both are outcomes of the append.
`Outcome` and `FileOutcome` follow the order of the checks in `load_journal_entries`,
`parse_worker_state_from_file`, `check_worker_state_is_valid` and `get_worker_states`, with what each throws and who
catches it: a `runtime_error` from the journal leaves `main` through `usage()`, one
from a checkpoint file means that the range is calculated again, and the
`invalid_argument` or `out_of_range` of `std::stod` is caught by nobody.

Cut writes are `AppendTorn` (the disk is full; `append_completion_record` throws),
`SaveTorn` (`output_to_file` tests the stream before its buffer is written and never
closes it explicitly, so the destructor's failure is not seen and the file is
renamed) and `PowerFails` (what was not on the disk yet is gone, of the end of the
journal or of a checkpoint file). `Save` may happen at every stop, so checkpointing
off is included.

### Workers

In `OptimizedWorker` a word is a number of `BitsPerWord` bits and a segment a span of
words, as `Bits` has them; a shift by the width of a word or more, which C++ leaves
undefined, does what the processor does. Prime generation is external. Its actions
are `Construct` (parameters from `-p` or the checkpoint file, or defaults from a cache
whose size is another at every start), `Run`, `SieveNext`, `ProcessSegment` (with
look ahead, masks, and tiles of differences), `AccumulateThrows` (a tile size the
constructor accepts but nothing is compiled for), `Leave` and `Resume`. Every sum
in the code that could exceed the value type is wrapped. A range is one `parse_args`
accepts: its end plus the largest difference is a value. The two spans are state of
the model: they are swapped, not copied, so a span that is sieved still has the bits
of the segment two before it, of its look ahead, and of what was cleared in front,
until `clear_all_bits` (`SegmentOf`; its mutant `SegmentUncleared` leaves them). In `BaselineWorker` each
turn of the loop is `CountPrime` followed by `NotDue` or `Checkpoint`; `Checkpoint`
keeps the order of the code, saving the `worker_state` first and moving the counts
into it afterwards.

### Mutants

A definition introduced by the comment "Mutant:" is a plausible mistake in the
definition that follows it: a dropped guard, a missing reset, an off-by-one.
Nothing uses it. Putting it in the place of the definition makes the property
named in `PROJECT.json` fail, which shows that the property says something.

## Runs

| Run | Instance | Shows |
| :-- | :-- | :-- |
| `safety` | 2 threads; level lists `7` and `5,7` on one journal; segments of 2 values; checkpointing on or off; any 3 faults of all kinds; 1.5 million states | all safety properties, the inductive invariant, that only a fault strands a range, and that the program implements `ExactLedger` |
| `repeat` | 2 threads; one plan with a journal and one without; any 3 faults; fair | the repeated command reports, or calculates everything, again and again, unless a stranded range is in the way; every interrupted invocation stops |
| `report` | 3-bit values: every start, every list of levels, pools that fit, overflow or are zero | `get_required_ranges` ends with a partition split at every level; the report of a complete journal |
| `optimized` | 4-bit words, 6-bit values, segments of 8 and 16 values (4 and 12 are rejected), caches of 8, 20 and an unknown number of bytes, ranges that begin and end anywhere, differences within a word, to the next word and beyond one | the counts are exact wherever a worker stops and resumes; segments hold the primes; the bit operations do what they say; the defaults work |
| `baseline` | 6-bit values, 2 stops or kills | the counts are exact in a whole run |
| `recovery` | `-l 99,999 -t 1 -k 1` with its true counts; any 2 cut writes or kills; 406 000 states | damage is confined to the last count of a list, is forgotten only by damage, and never counts a range twice |
| `stuck`, `resumed`, `savefails`, `report_levels`, `lines`, `baseline_resume` | one property each | a statement of the documentation that the code does not keep |

What `recovery` says in words. Whatever two writes are cut anywhere: a list of counts
that is accepted is right but for the last one, which may have lost digits; the
first cut record does not keep the program from starting, the record glued to it
may; two lines of a range are never both accepted; and what is known of a range is
only lost by a write that is cut, or by an append behind one. The exception: a line
glued from two cut appends may pass for a record with wrong counts, so
`OnlyLastCountDamaged` speaks of lines of one append, and of those whose last append
was whole. With a third damaged write two lines of one range may be accepted: `1`,
`2,3` and `0,1,0`, each cut from a record, are glued to `12,30,1,0`.

Why the bounds are enough. Two threads are all that can meet on a task, a file or
the atomic counter, and two or three ranges leave a thread both with another's
task pending and with nothing to do. Two plans share one range and differ in
another, so records of a foreign plan are in the journal. Three faults allow a
fault while the consequences of another are repaired (a kill after the append,
then an interrupt of the invocation that finds the file, then a failing append).
Ranges have two segments, so a task can be saved in the middle; the first one
holds the prime 2. In `recovery` the two ranges differ in the
number of digits of their bounds and counts, and one CPU time is `0`, the other a
decimal that begins with `0` (as `0.25`) or `5` (as `5e-05`), so cuts fall into every field and between all of them; two faults are a cut
and what is done about it, or a cut of what was glued. `MaxValue` is large enough for
glued fields to be values, and small enough for some not to be.
Three bits of values have every order of `start`, levels, task
ends and the overflow bound. The word of 4 bits has each relation of range end,
word end and segment end; segments are of one and two words and
differences reach up to almost two words ahead.

Where deadlock is not checked the configuration says why: those modules stop
when the range, the loop or the report is finished.

Fairness. `FairSpec` of `ResumableCount` assumes that the operating system runs
every thread (weak fairness of each thread's steps; nothing in the code blocks
except the journal mutex, which is held for one atomic append), that `main` goes
on after the join, and that the user repeats the command for some plan. No
fairness is assumed of faults or of checkpoints becoming due, and `MaxFaults`
makes faults finite: liveness says what happens once they cease. In
`RequiredRanges` and `Report` one thread waits for nothing.

## Proofs

`ResumableCountProofs` proves, for any set of threads, any plans of disjoint
ranges, any segment size and any number of faults:

| Theorem | States |
| :-- | :-- |
| `TypeCorrect`, `Invariance` | `[]TypeOK`, `[]IInv` |
| `CountsAreExact` | `[]AllCountsExact` |
| `JournalledOnce`, `CalculatedOnce` | `[]OneRecordPerRange`, `[]NothingRecalculated` |
| `ThreadsApart` | `[]OneThreadPerTask` |
| `ReportsAreExact` | `[]ReportExact` |
| `FilesOutlived`, `CheckpointsOnlyAdvance` | the action properties `WorkOutlivesFile`, `CheckpointsAdvance` |
| `StrandedByFaults` | the action property `OnlyFaultsStrand` |
| `Refinement` | `ImplementsLedger` |

The argument. None of these is inductive alone. A second record for a range could
only come from a thread about to append one; so `NothingRecalculated` says that
a busy thread's task is not journalled, which survives another thread's append
because of `OneThreadPerTask`, and a fetch because of `FetchedBeforeJournalled`:
whatever is journalled during an invocation was fetched in it before. A record is
exact because `AppendsWholeRange` and `ProgressExact` meet at the append. A report
is exact although the code only compares two sizes: by `OneRecordPerRange` the
matching records map one-to-one into the plan, so equal cardinalities make the
map onto, and disjoint ranges leave no other record with a count at the same
position. `WorkersAhead` (no file is ahead of the worker that will overwrite it)
gives `CheckpointsAdvance`; `RemovesJournalled` gives `WorkOutlivesFile`. Their
conjunction is `IInv`, checked as an invariant of the run `safety` before it was
proved; the proof has one step per action and, under it, one per part the action
can disturb. `StrandedByFaults` adds three invariants of the place of a thread: a
task is started unfinished, an idle thread has none, and a worker is left only
where its range is at its end or the invocation was told to stop. `Refinement` maps each step to a step of the ledger or a stutter.

`RequiredRangesProofs` proves, for unsigned values of any width, any levels and
any pool: `TypeCorrect`, `Invariance`, `RangesPartition`,
`SharesAreEqual`, `LevelsAreBoundaries`, `CoversToLastLevel` and `NeverThrows`. Its invariant (`BeforeLoop`, `InLoop`) says that
`current` is never past a pending level by more than one and that the last level
is below the largest value, so neither the soft nor the hard limit wraps around.

`ReportProofs` adds `ReportInvariance`, `LinesAreExact` and `LevelsAreReported`, for the
ranges of any command line: the records are added up in the order of the ranges, so
when a range ends at a level, `RangesPartition` makes the sum that of all values from
`start` to the level. `EveryLevelReported` is about levels that are not below `start`.

`RecoveryProofs` is about files with contents, for any base, any true counts, any
number of cuts and of invocations:

| Theorem | States |
| :-- | :-- |
| `Invariance`, `TypeCorrect` | `[]IInv`, `[]TypeOK` |
| `DamageShows` | `[]OnlyLastCountDamaged` |
| `WholeWritesAreRead` | `[]ReadsWhatItWrote` |
| `OneAppendDoesNotThrow` | `[]ThrowsOnlyGlued` |
| `SoundLinesAreUnique` | `[]OneSoundLine`: of the lines of one append, and those whose last append was whole, at most one is accepted for a range |
| `OneLineUnlessThreeDamaged` | `[](tears <= 2 => OneLinePerRange)` |
| `KnownIsKept` | the action property `KnownUnlessDamaged` |

The argument. What is left of a list when it is cut is related to the list by
`RestOfList`: each field but the last is the one written, and the last is equal, or a
smaller number, or nothing. That takes one fact about digits: dividing a number by a
power of the base gives a smaller one (`PowerFacts`, by induction). A cut list that is
long enough to be accepted therefore has all its bounds, and is wrong in its last
count only. A line is not accepted for another range because the bounds of ranges
differ. `OneLinePerRange` needs to know of each line from which ranges its first and
its last append were (`Origin`), and that no sound line of these ranges was before it.

`BaselineWorkerProofs`: `Invariance`, `TypeCorrect`, `HistoryHoldsAll`,
`PairsCountedOnce` and `WholeRunsAreExact`, for any range, any even differences and any
number of checkpoints, interrupts and kills. The history has the primes of the range
before the current one that are no further away than the largest difference; so the
pairs a prime completes are those found in the history, and they are disjoint from
those completed before. The primes themselves are the definition in `Primes`, of which
`PrimesProofs` says what the iterator delivers.

`OptimizedWorkerProofs` is about words and values of any width, any range, any even
differences, and any number of stops and resumes with other parameters:

| Theorem | States |
| :-- | :-- |
| `Invariance` | `[]IInv` |
| `NoSegmentWraps`, `NoAccessOutOfBounds` | `[]NoWrapAround`, `[]AccessInBounds` |
| `DefaultsAreAccepted` | `[]DefaultsWork` |
| `EverySegmentAdvances` | the action property `Progress` |
| `ExactInvariance`, `TypeCorrect` | `[](IInv /\ ExactInv)`, `[]TypeOK` |
| `SegmentsAreExact`, `BitsAreCleared` | `[]SegmentsHoldPrimes`, `[]ClearsExactly` |
| `CountsAreExact` | `[]CountsExact` |

The argument has two parts. The arithmetic needs only `IInv`: the position is in the
segment that is counted next (`PositionInSegment`), and what the constructor insists on
leaves room for that segment and the start of the one looked ahead to. The bits need
`ExactInv` besides, which TLC checked as an invariant before it was proved: which
primes the bits of the current and of the look ahead segment stand for (`SegmentsOK`),
and that the counts are those of the pairs that begin before the position
(`CountsOK`). `BitsProofs` takes a number apart into its half and its lowest bit, and
by induction says what `&`, `|`, `~`, `<<`, `>>`, `- ONE` and every function of
`bits.hpp` do to each single bit. Then, in the order of the code:

- `SegmentIsWords`: a segment is a whole number of words, so its first bit is the
  first of a word. `SetBits`: `sieve_segment` sets the bits of the primes it passes and
  no other, whatever the span held before.
- `ViewFacts`: the current segment, with its words of look ahead copied from the next,
  has a bit for each prime from the position on, as far as the largest difference.
- `ShiftedFacts`, `CountedBits`, `WordHits`: a word, the masks of its ends, and the
  segment shifted by half the difference have a common bit for each pair that begins
  in the word. `HitsFacts` adds them up: words are disjoint and cover the segment.
- `EveryDifferenceInATile`: the tiles `accumulate` is compiled for cover all
  differences. `PairsSplit`: the pairs up to the new position are those up to the old
  one and those of the segment. 2 has no bit; its pairs are those the constructor counts.

The assumptions are the named ones of the modules; TLC evaluates them in every run.
Some deserve a word. `WidthAssumption` and `WordAssumption`: a word has more than one bit,
and their number is a power of two (`types.hpp:35-37`), which the code's
`& BITS_PER_WORD_MINUS_ONE` relies on as well. `HorizonIsEnough`: the iterator has a prime beyond the values
(there are infinitely many; the model knows those up to `Horizon`). `SizeAssumption`: the
tile size that is suggested, 2, is among those compiled. `DifferenceAssumption` of the
baseline worker and `DifferencesAssumption` of `Recovery`: differences are even, as
every worker insists. `TruthAssumption`: the true counts
of a range are values, begin with zeros and grow with the position. `LeadingAssumption`:
what comes before the point or the exponent of a CPU time is a number, any number.

Only model-checked: the liveness properties `Terminates`, `InterruptStops` and
`DoneUnlessStranded` (fairness is out of the prover's reach). Three or more damaged
writes make `OneLinePerRange` false, so its theorem is about at most two. Every other
invariant and action property of a passing run is stated by a theorem.

## Where code and documentation disagree

Each has a run that TLC ends with a counterexample (`findings` in `PROJECT.json`).

1. `stuck`: a kill between the final checkpoint and the journal record leaves a
   file whose position is the end; such a task is skipped by `run_worker`, never
   journalled, and every report throws from then on.
2. `resumed`: a task loaded from a checkpoint file is never checkpointed again.
3. `savefails`: a checkpoint that cannot be opened ends the task, against the
   comment in `save_worker_state`; only a failing rename is tolerated.
4. `report_levels`: a level below `-s` silences the levels after it.
5. `baseline_resume`: what the baseline worker keeps when it is stopped does not
   belong to its position: resumed ranges are counted wrongly, and a range
   interrupted early may be journalled with partial counts.
6. `lines`: a line left by a cut append is not ignored (`state.cpp:129`). Glued to the
   next record it makes every start-up end in `usage()`; cut within its last count it
   is accepted with a wrong one.

Seen in the model or while it was written, without a run of their own:

- A save that fails at the end of a range, after an earlier checkpoint has stored
  `current_position = end`, strands the range like the kill in `stuck`.
- `state.cpp:51-54` says that after a failed flush "nothing should be lost" because of
  the checkpoint file; but `WorkerBase::start` has removed it by then, and a power
  failure (`PowerFails` after `RemoveFile`) loses both.
- `state.cpp:236-237` writes to a temporary file "to help avoid corruption"; a write
  that fails when the stream is closed goes unnoticed, and the truncated file
  replaces a good one (`SaveTorn`).
- `state.cpp:302` promises that the "Entire range will be recalculated"; a checkpoint
  file cut right behind `cpu_time:` ends the program in `std::terminate` (`Terminates`).
- `main.cpp:134` says that invalid parameters throw `runtime_error`; `-c abc` throws an
  `invalid_argument` that nobody catches, an odd `-d` is accepted and then rejected by
  every worker, and a negative `-c` likewise.
- `get_required_ranges` rounds the task size up, so it may make fewer than the
  "num_threads * tasks_per_thread" tasks its comment speaks of (nine values for six
  tasks are cut into five).
- `worker_optimized.hpp:67-68` says "if and only if"; primes beyond the end of the
  range and the largest difference are not set. `SegmentsHoldPrimes` says so.
- `worker_optimized.cpp:397` describes the segment size as "in words"; it is in values.
- `sys_info.cpp:42` says "0 if undetected"; undetected sizes are defaults (`Cache`).

## Not modelled

- Logging, `usage`, progress output, the layout of report and files.
- The scanning of options in `parse_args`: it happens once, before there is any
  state, and each option sets one variable. The creation of directories.
- `sys_info.cpp` on Windows and macOS, the other cache levels and the register count,
  which nothing but the version text uses; `benchmark/`, `scripts/`, the build.
- Text the program does not write itself: files edited by hand, signs, blanks and
  comments, files of differences or levels.
- Damage other than a cut: blocks of zeros or old contents after a power failure, and
  a power failure that damages journal and checkpoint files at once.
- Several threads or plans in `Recovery`, and cut writes in `ResumableCount`.
- Checkpoint file names that differ for one range: `get_filename` pads them to the digits
  of the last level, so invocations whose last levels differ in length do not share
  files. The plans of `ResumableCount` all have last levels of equally many digits.
- The `.tmp` files: nothing reads them, and the next save overwrites them.
- Two invocations at the same time on one journal, and invocations with other
  differences on the same journal (records do not name their differences).
- A report file that cannot be written after the report was printed.
- Constructors that reject their parameters, in `ResumableCount`: then no task of
  the invocation starts. `OptimizedWorker` has them (`failed`).

## Plan

Done, in this order: `ResumableCount` with its faults, `ExactLedger`, the proofs
of both; `RequiredRanges` and its proofs; `Report`; the workers; liveness up to
stranded ranges, with the proof that only faults strand; the contents of files
(`Fields`, `JournalLines`, `WorkFiles`, `Recovery`); `Bits` and the parameters of the
optimized worker; the proofs about the report, the files, the two workers, and the bits.

To do, most important first:

1. A lemma that an aligned segmentation of a range passes each position once, as
   used in `ResumableCount`.
2. Two invocations on one journal, if the program comes to support them.
