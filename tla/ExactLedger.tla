----------------------------- MODULE ExactLedger -----------------------------
(***************************************************************************)
(* What the program promises whoever re-runs it until it prints a report:  *)
(* the exact count of a range enters the ledger at most once and never     *)
(* leaves it, and a report is published only for a set of ranges all of    *)
(* which are in the ledger.                                                *)
(*                                                                         *)
(* ResumableCount implements this module: the ledger is the journal file,  *)
(* a publication is the report get_report_string returns.                  *)
(***************************************************************************)
EXTENDS Sequences, Naturals

CONSTANTS
  Plans,      \* what may be asked for: each plan is a set of ranges
  NoReport    \* nothing is published

VARIABLES
  ledger,     \* the ranges whose exact count is on record, in order
  published   \* the plan last reported, or NoReport

ledgerVars == <<ledger, published>>

Entered == {ledger[i] : i \in DOMAIN ledger}

LedgerInit ==
  /\ ledger = <<>>
  /\ published = NoReport

\* The exact count of one range is put on record, once and for all.
Enter(r) ==
  /\ r \notin Entered
  /\ ledger' = Append(ledger, r)
  /\ UNCHANGED published

\* A report needs the count of every range of its plan.
Publish(plan) ==
  /\ plan \subseteq Entered
  /\ published' = plan
  /\ UNCHANGED ledger

\* A later invocation ends without a report of its own.
Withdraw ==
  /\ published' = NoReport
  /\ UNCHANGED ledger

LedgerNext ==
  \/ \E r \in UNION Plans : Enter(r)
  \/ \E plan \in Plans : Publish(plan)
  \/ Withdraw

LedgerSpec == LedgerInit /\ [][LedgerNext]_ledgerVars
==============================================================================
