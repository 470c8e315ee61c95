------------------------------ MODULE WorkFiles ------------------------------
(***************************************************************************)
(* The checkpoint files: what worker_state_to_string writes, what is left  *)
(* of it when its writing is cut short, and what get_worker_states makes   *)
(* of a file.  A file is a sequence of entries, a key and the list behind  *)
(* it; CutKey is a key that is not there to its end.                       *)
(***************************************************************************)
EXTENDS Fields

Entry(key, list) == [key |-> key, list |-> list]
CutKey == "?"

\* worker_state_to_string.  There are no parameters.
FileText(r, pos, counts, time) ==
  << Entry("start", <<r[1]>>), Entry("end", <<r[2]>>), Entry("differences", Differences),
     Entry("current_position", <<pos>>), Entry("current_counts", counts),
     Entry("cpu_time", <<time>>), Entry("parameters", <<>>) >>

\* The first characters of an entry: of its key, the key, or of its list as well.
EntryCuts(entry) ==
  {Entry(CutKey, <<>>), Entry(entry.key, <<>>)}
    \cup {Entry(entry.key, list) : list \in CutsOf(entry.list)}

\* The file cut anywhere, at its very beginning or at the end of an entry included.
FileCuts(text) ==
  {<<>>} \cup UNION {{Append(SubSeq(text, 1, i - 1), entry) : entry \in EntryCuts(text[i])}
                     : i \in DOMAIN text}

-----------------------------------------------------------------------------
(* parse_worker_state_from_file *)

\* The list of a key, and what the field of worker_state is if there is none.
ListOf(text, key) ==
  IF \E i \in DOMAIN text : text[i].key = key
  THEN FieldsOf((CHOOSE entry \in {text[i] : i \in DOMAIN text} : entry.key = key).list)
  ELSE IF key \in {"differences", "current_counts"} THEN <<>> ELSE <<0>>

NumberOf(text, key) == ListOf(text, key)[1]

\* std::stod of an empty text throws what nobody catches.
Terminates(text) == \E i \in DOMAIN text : text[i] = Entry("cpu_time", <<>>)

\* A key that is not known, or a number that is none.
Unparsable(text) ==
  \E i \in DOMAIN text :
    LET f == FieldsOf(text[i].list)
    IN  \/ text[i].key = CutKey
        \/ text[i].key \in {"start", "end", "current_position"} /\ Len(f) # 1
        \/ text[i].key # "cpu_time" /\ \E j \in DOMAIN f : ~IsValue(f[j])

\* Mutant: the number of counts is not checked.
ValidUncounted(text) ==
  LET pos == NumberOf(text, "current_position")
  IN  /\ ListOf(text, "differences") # <<>>
      /\ NumberOf(text, "start") < NumberOf(text, "end")
      /\ pos \in NumberOf(text, "start") .. NumberOf(text, "end")

\* check_worker_state_is_valid.
Valid(text) ==
  LET differences == ListOf(text, "differences")
      pos == NumberOf(text, "current_position")
  IN  /\ differences # <<>>
      /\ \A i \in DOMAIN differences : differences[i] % 2 = 0
      /\ Len(differences) = Len(ListOf(text, "current_counts"))
      /\ NumberOf(text, "start") < NumberOf(text, "end")
      /\ pos \in NumberOf(text, "start") .. NumberOf(text, "end")

\* What is compared with the range to be done.
Matches(text, r) ==
  /\ <<NumberOf(text, "start"), NumberOf(text, "end")>> = r
  /\ ListOf(text, "differences") = Differences

\* The outcome of get_worker_states for a file that exists.
FileOutcome(text, r) ==
  IF Terminates(text) THEN "terminates"
  ELSE IF ~Unparsable(text) /\ Valid(text) /\ Matches(text, r) THEN "resumed"
  ELSE "recalculated"
=============================================================================
