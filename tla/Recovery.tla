------------------------------- MODULE Recovery -------------------------------
(***************************************************************************)
(* What the program makes of its files after a crash.  ResumableCount      *)
(* takes a write to happen or not to happen; here the files have contents, *)
(* and a write may leave any part of them: an append to the journal that   *)
(* fails on a full disk, a checkpoint whose last bytes fail to be written  *)
(* after output_to_file has returned, and a power failure before anything  *)
(* was flushed to the disk.  The journal is read line by line, the         *)
(* checkpoint files entry by entry, by the code that reads them.           *)
(*                                                                         *)
(* There is one thread: ResumableCount has the interleavings of several.   *)
(***************************************************************************)
EXTENDS JournalLines, WorkFiles, FiniteSets

CONSTANTS
  Stops,     \* of a range, the positions a checkpoint may be made at
  Truth(_, _),  \* the counts of a range up to a position
  CpuTime(_),  \* of a range
  MaxFaults  \* bound: how often a write is damaged or the program is killed

ASSUME BoundAssumption == MaxFaults \in Nat

\* A checkpoint may be made at the start and at the end of a range, too.
ASSUME StopsAssumption ==
  \A r \in Required : Stops[r] \subseteq r[1] .. r[2] /\ {r[1], r[2]} \subseteq Stops[r]

\* The counts begin with none, grow with the position, and are values.
ASSUME TruthAssumption ==
  \A r \in Required : \A pos \in Stops[r] :
    /\ pos = r[1] => \A i \in DOMAIN Differences : Truth(r, pos)[i] = 0
    /\ Truth(r, pos) \in [DOMAIN Differences -> 0 .. MaxValue]
    /\ \A to \in Stops[r] : \A i \in DOMAIN Differences :
         pos <= to => Truth(r, pos)[i] <= Truth(r, to)[i]

ASSUME CpuTimeAssumption == \A r \in Required : CpuTime(r) \in Nat \cup {Decimal}

VARIABLES
  process,  \* "stopped", "running", "aborted" or "reported"
  workers,  \* the worker_states of the ranges to be done
  journal,  \* the lines of the journal
  files,    \* the checkpoint files, by range
  tears, kills

vars == <<process, workers, journal, files, tears, kills>>
bounds == <<tears, kills>>

\* A line has a text, is ended or not, and has been written in some appends.
Line(text, ended, pieces) == [text |-> text, ended |-> ended, pieces |-> pieces]

Lines == {journal[i] : i \in DOMAIN journal}
Accepted == {RangeOf(l.text) : l \in {k \in Lines : Outcome(k.text) = "accepted"}}

Init ==
  /\ process = "stopped"
  /\ workers = [r \in {} |-> 0]
  /\ journal = <<>>
  /\ files = [r \in {} |-> 0]
  /\ tears = 0
  /\ kills = 0

-----------------------------------------------------------------------------
(* An invocation *)

Worker(pos, counts, saves, stage) ==
  [pos |-> pos, counts |-> counts, saves |-> saves, stage |-> stage]

\* get_worker_states: a worker_state as it is when nothing is known of its range.
FreshWorker(r) == Worker(r[1], [i \in DOMAIN Differences |-> 0], TRUE, "works")

\* A resumed one never saves; run_worker does nothing with one that is at its end.
ResumedWorker(r, text) ==
  LET pos == NumberOf(text, "current_position")
  IN  Worker(pos, ListOf(text, "current_counts"), FALSE,
             IF pos < r[2] THEN "works" ELSE "over")

LoadWorker(r) ==
  IF r \in DOMAIN files /\ FileOutcome(files[r], r) = "resumed"
  THEN ResumedWorker(r, files[r])
  ELSE FreshWorker(r)

\* Mutant: the journal is not looked at.
ToDoAll == Required

\* The ranges without a record.
ToDo == Required \ Accepted

\* An exception in load_journal_entries leaves main through usage(), one of
\* std::stod through std::terminate; nothing has been started in either case.
StartsUp ==
  /\ \A l \in Lines : Outcome(l.text) # "throws"
  /\ \A r \in ToDo \cap DOMAIN files : ~Terminates(files[r])

Launch ==
  /\ process \in {"stopped", "reported"}
  /\ IF StartsUp
     THEN /\ process' = "running"
          /\ workers' = [r \in ToDo |-> LoadWorker(r)]
     ELSE /\ process' = "aborted"
          /\ UNCHANGED workers
  /\ UNCHANGED <<journal, files, bounds>>

\* The thread takes the ranges in their order.
Current(r) == \A q \in DOMAIN workers : q[1] < r[1] => workers[q].stage = "over"

At(r, stage) ==
  process = "running" /\ r \in DOMAIN workers /\ workers[r].stage = stage /\ Current(r)

GoTo(r, stage) == workers' = [workers EXCEPT ![r].stage = stage]

\* Mutant: the counts are those of the segments of this invocation.
CountedAfresh(r, from, to) ==
  [i \in DOMAIN Differences |-> Truth(r, to)[i] - Truth(r, from)[i]]

\* The counts after the segments between two stops.
Counted(r, from, to) ==
  [i \in DOMAIN Differences |->
     workers[r].counts[i] + Truth(r, to)[i] - Truth(r, from)[i]]

Work(r) ==
  /\ At(r, "works")
  /\ \E to \in Stops[r] :
       LET from == workers[r].pos
       IN  /\ from < to /\ \A p \in Stops[r] : from < p => to <= p
           /\ workers' = [workers EXCEPT ![r].pos = to,
                                         ![r].counts = Counted(r, from, to)]
  /\ UNCHANGED <<process, journal, files, bounds>>

Holds(r, text) == [q \in DOMAIN files \cup {r} |-> IF q = r THEN text ELSE files[q]]

TextOf(r) == FileText(r, workers[r].pos, workers[r].counts, CpuTime(r))

\* save_worker_state, in the middle of a range or at its end.
Save(r) ==
  /\ At(r, "works")
  /\ workers[r].saves
  /\ files' = Holds(r, TextOf(r))
  /\ UNCHANGED <<process, workers, journal, bounds>>

\* Mutant: the record is appended when a range is stopped.
AtAnyStop(r) == TRUE

AtEnd(r) == workers[r].pos >= r[2]

\* What follows is the text of an unfinished line, if there is one.
Unended == IF journal # <<>> /\ ~journal[Len(journal)].ended
           THEN journal[Len(journal)] ELSE Line(<<>>, FALSE, 0)

EndedLines == IF journal # <<>> /\ ~journal[Len(journal)].ended
              THEN SubSeq(journal, 1, Len(journal) - 1) ELSE journal

\* The journal with a text behind it.
Appended(text, ended) ==
  {Append(EndedLines, Line(line, ended, Unended.pieces + 1)) : line \in Glued(Unended.text, text)}

RecordOf(r) == Record(r, CpuTime(r), workers[r].counts)

\* append_completion_record.
AppendRecord(r) ==
  /\ At(r, "works") /\ AtEnd(r)
  /\ journal' \in Appended(RecordOf(r), TRUE)
  /\ GoTo(r, "written")
  /\ UNCHANGED <<process, files, bounds>>

RemoveFile(r) ==
  /\ At(r, "written")
  /\ files' = [q \in DOMAIN files \ {r} |-> files[q]]
  /\ GoTo(r, "over")
  /\ UNCHANGED <<process, journal, bounds>>

\* The end of the invocation.  The report reads the journal once more.
AllCompleted == \A r \in DOMAIN workers : AtEnd(r)

MatchingLines == {i \in DOMAIN journal : Outcome(journal[i].text) = "accepted"}

Reported ==
  /\ AllCompleted
  /\ \A l \in Lines : Outcome(l.text) # "throws"
  /\ Cardinality(MatchingLines) = Cardinality(Required)

Finish ==
  /\ process = "running"
  /\ \A r \in DOMAIN workers : workers[r].stage = "over"
  /\ process' = IF Reported THEN "reported" ELSE "stopped"
  /\ workers' = [r \in {} |-> 0]
  /\ UNCHANGED <<journal, files, bounds>>

-----------------------------------------------------------------------------
(* Damaged writes *)

Fault == tears + kills < MaxFaults
Tear == Fault /\ tears' = tears + 1 /\ UNCHANGED kills

\* The end of a checkpoint is still in the buffer of the stream when
\* output_to_file returns; it fails to be written, and the file is renamed.
SaveTorn(r) ==
  /\ At(r, "works")
  /\ workers[r].saves
  /\ Tear
  /\ \E text \in FileCuts(TextOf(r)) : files' = Holds(r, text)
  /\ UNCHANGED <<process, workers, journal>>

\* Mutant: an append that fails is taken for one that succeeds.
GivesUpNot(r) == GoTo(r, "written")

\* run_worker catches what append_completion_record throws.
GivesUp(r) == GoTo(r, "over")

\* The append fails, with any part of the line written, or nothing.
AppendTorn(r) ==
  /\ At(r, "works") /\ AtEnd(r)
  /\ Tear
  /\ \/ UNCHANGED journal
     \/ \E text \in CutsOf(RecordOf(r)) : journal' \in Appended(text, FALSE)
  /\ GivesUp(r)
  /\ UNCHANGED <<process, files>>

Kill ==
  /\ process = "running"
  /\ Fault
  /\ kills' = kills + 1
  /\ process' = "stopped"
  /\ workers' = [r \in {} |-> 0]
  /\ UNCHANGED <<journal, files, tears>>

\* What may be left of the journal, from the end of the line kept last.
JournalCuts ==
  UNION {{SubSeq(journal, 1, i - 1)}
           \cup {Append(SubSeq(journal, 1, i - 1), Line(text, FALSE, journal[i].pieces)) :
                   text \in CutsOf(journal[i].text)}
         : i \in DOMAIN journal}

\* The power fails: what was not on the disk is gone, of the journal or of a file.
PowerFails ==
  /\ process = "running"
  /\ Tear
  /\ \/ journal' \in JournalCuts /\ UNCHANGED files
     \/ /\ \E r \in DOMAIN files : \E text \in FileCuts(files[r]) : files' = Holds(r, text)
        /\ UNCHANGED journal
  /\ process' = "stopped"
  /\ workers' = [r \in {} |-> 0]

Next ==
  \/ Launch
  \/ \E r \in Required : \/ Work(r) \/ Save(r) \/ AppendRecord(r) \/ RemoveFile(r)
                         \/ SaveTorn(r) \/ AppendTorn(r)
  \/ Finish
  \/ Kill
  \/ PowerFails

Spec == Init /\ [][Next]_vars

-----------------------------------------------------------------------------
\* The type of every variable; only the last line may be without an end.
TypeOK ==
  /\ process \in {"stopped", "running", "aborted", "reported"}
  /\ DOMAIN workers \subseteq Required
  /\ \A r \in DOMAIN workers :
       /\ workers[r].pos \in Stops[r]
       /\ workers[r].stage \in {"works", "written", "over"}
  /\ \A i \in DOMAIN journal :
       /\ journal[i].pieces \in Nat \ {0}
       /\ journal[i].ended \/ i = Len(journal)
  /\ DOMAIN files \subseteq Required
  /\ tears \in Nat /\ kills \in Nat /\ tears + kills <= MaxFaults

\* Of a list of counts all are right but for the last, which may be too small.
RightButLast(r, pos, counts) ==
  /\ Len(counts) = Len(Differences)
  /\ \A i \in 1 .. Len(Differences) - 1 : counts[i] = Truth(r, pos)[i]
  /\ counts[Len(Differences)] <= Truth(r, pos)[Len(Differences)]

\* Damage shows.  Whatever writes are cut, what the program takes from its files
\* as counts of a range is right but for the last count, the end of which may be
\* missing.  This is so of every line whose last append was whole, whatever was cut
\* before it; two appends that are both cut may make up a record of their own.
OnlyLastCountDamaged ==
  /\ \A r \in DOMAIN workers : RightButLast(r, workers[r].pos, workers[r].counts)
  /\ \A l \in Lines :
       Outcome(l.text) = "accepted" /\ (l.ended \/ l.pieces = 1) =>
         RightButLast(RangeOf(l.text), RangeOf(l.text)[2], CountsOf(l.text))

\* What has been written whole is read as it was meant: a line as the record of
\* its range, a checkpoint file as the state to go on from, and no start-up ends
\* early.
ReadsWhatItWrote ==
  tears = 0 =>
    /\ process # "aborted"
    /\ \A l \in Lines :
         /\ Outcome(l.text) = "accepted"
         /\ CountsOf(l.text) = Truth(RangeOf(l.text), RangeOf(l.text)[2])
    /\ \A r \in DOMAIN files :
         /\ FileOutcome(files[r], r) = "resumed"
         /\ ListOf(files[r], "current_counts")
              = Truth(r, NumberOf(files[r], "current_position"))

\* The first record cut short does not keep the program from starting: what does
\* is a record written behind it, in the same line.
ThrowsOnlyGlued == \A l \in Lines : Outcome(l.text) = "throws" => l.pieces > 1

\* The report adds up all lines it accepts: there is one of a range at most,
\* whatever two writes have been cut and glued.  (Three appends that are all cut
\* may make up a record of a range that has one.)
OneLinePerRange ==
  \A i, j \in MatchingLines :
    RangeOf(journal[i].text) = RangeOf(journal[j].text) => i = j

\* What is known of a range: it is finished, or can be resumed.
Known == Accepted \cup {r \in DOMAIN files : FileOutcome(files[r], r) = "resumed"}

Glueing == \E l \in Lines : l.pieces > 1

\* Nothing known of a range is forgotten but by a write that is damaged, or by an
\* append behind one.
KnownUnlessDamaged ==
  [][\A r \in Known : r \in Known' \/ tears' > tears \/ Glueing']_vars

-----------------------------------------------------------------------------
(* The inductive invariant *)

\* What a write that is cut may leave of a field, of a list and of a file.
Rest(part, field) ==
  \/ part = field
  \/ field \in Nat /\ part \in 0 .. field
  \/ field \in {Decimal, OutOfRange} /\ part \in Nat \cup {Decimal}

RestOfList(list, whole) ==
  /\ Len(list) <= Len(whole)
  /\ \A i \in 1 .. Len(list) :
       \/ list[i] = whole[i]
       \/ i = Len(list) /\ (Rest(list[i], whole[i]) \/ (i > 1 /\ list[i] = Nothing))

RestOfEntry(entry, whole) ==
  \/ entry.key \in {CutKey, whole.key} /\ entry.list = <<>>
  \/ entry.key = whole.key /\ RestOfList(entry.list, whole.list)

RestOfFile(text, whole) ==
  /\ Len(text) <= Len(whole)
  /\ \A i \in 1 .. Len(text) :
       text[i] = whole[i] \/ (i = Len(text) /\ RestOfEntry(text[i], whole[i]))

TrueRecord(r) == Record(r, CpuTime(r), Truth(r, r[2]))
TrueFile(r, pos) == FileText(r, pos, Truth(r, pos), CpuTime(r))

\* The last fields of a line are a record that is whole, but for its first field,
\* which may have something before it, and its last one.
EndsWith(text, r) ==
  LET whole == TrueRecord(r)
      before == Len(text) - Len(whole)
  IN  /\ before >= 0
      /\ \A i \in 2 .. Len(whole) - 1 : text[before + i] = whole[i]
      /\ text[Len(text)] \in 0 .. whole[Len(whole)]

\* A line of one append is what is left of a record; one the last append of which
\* was whole ends with it.
LineOK(l) ==
  /\ l.pieces = 1 => \E r \in Required : RestOfList(l.text, TrueRecord(r))
  /\ l.ended => \E r \in Required : EndsWith(l.text, r)
  /\ l.pieces <= (IF l.ended THEN tears + 1 ELSE tears)

LineSet == [text : Seq(Field) \ {<<>>}, ended : BOOLEAN, pieces : Nat \ {0}]

LinesOK ==
  /\ journal \in Seq(LineSet)
  /\ \A i \in DOMAIN journal : LineOK(journal[i])
  /\ \A i \in DOMAIN journal :
       tears = 0 => \E r \in Required : journal[i].text = TrueRecord(r)

Keys == {CutKey, "start", "end", "differences", "current_position", "current_counts",
         "cpu_time", "parameters"}
EntrySet == [key : Keys, list : Seq(Field)]

FilesOK ==
  /\ files \in [DOMAIN files -> Seq(EntrySet)]
  /\ \A r \in DOMAIN files : \E pos \in Stops[r] :
       /\ RestOfFile(files[r], TrueFile(r, pos))
       /\ tears = 0 => files[r] = TrueFile(r, pos)

\* The lines of which no two are accepted for one range, however many faults there
\* are: those whose last append was whole, or is the only one.
SoundLine(l) == l.ended \/ l.pieces = 1
Sound == {i \in MatchingLines : SoundLine(journal[i])}

OneSoundLine ==
  \A i, j \in Sound : RangeOf(journal[i].text) = RangeOf(journal[j].text) => i = j

\* A line of one append is of the range r1 = r2.  One of two begins as the record of
\* r1 does, or ends its range where r2 does: if accepted, it is of one of them.
Origin(l, r1, r2) ==
  /\ l.pieces = 1 => r1 = r2 /\ RestOfList(l.text, TrueRecord(r1))
  /\ l.pieces = 2 /\ Len(l.text) > 2 => l.text[1] = r1[1] \/ l.text[2] = r2[2]

\* When a record was appended there was none of its range.
NoneBefore(i, r) == \A j \in Sound : j < i => RangeOf(journal[j].text) # r

OriginsOK ==
  \A i \in DOMAIN journal : \E r1, r2 \in Required :
    Origin(journal[i], r1, r2) /\ NoneBefore(i, r1) /\ NoneBefore(i, r2)

\* Only a worker that began with its range saves; until it has written its record
\* there is none, and when it has there is one, or a line it was glued to.
WorkerOK(r) ==
  LET w == workers[r]
  IN  /\ RightButLast(r, w.pos, w.counts)
      /\ w.saves \/ tears = 0 => w.counts = Truth(r, w.pos)
      /\ w.stage = "works" => \A i \in Sound : RangeOf(journal[i].text) # r
      /\ w.stage = "written" => r \in Accepted \/ Glueing

WorkerSet ==
  [pos : Nat, counts : [DOMAIN Differences -> 0 .. MaxValue], saves : BOOLEAN,
   stage : {"works", "written", "over"}]

WorkersOK ==
  /\ workers \in [DOMAIN workers -> WorkerSet]
  /\ \A r \in DOMAIN workers : WorkerOK(r)

IInv ==
  TypeOK /\ LinesOK /\ FilesOK /\ WorkersOK /\ OneSoundLine /\ OriginsOK
    /\ (tears = 0 => process # "aborted")

-----------------------------------------------------------------------------
(* What the comments say *)

\* state.cpp, of a line that is not a record: "Ignore any incorrect lines".
IncorrectLinesIgnored ==
  \A l \in Lines :
    \/ Outcome(l.text) = "skipped"
    \/ \E r \in Required : l.text = Record(r, CpuTime(r), Truth(r, r[2]))
=============================================================================
