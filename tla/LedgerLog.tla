------------------------------ MODULE LedgerLog ------------------------------
(***************************************************************************)
(* What the experiment ledger promises (docs/contracts/ledger_contract.md  *)
(* as v2/ledger/service.py carries it out): a log of run ids that only     *)
(* grows, one row at a time, with at most one row for a run.               *)
(***************************************************************************)
EXTENDS Naturals, Sequences

CONSTANT Runs
VARIABLE log

Logged(r) == \E i \in 1 .. Len(log) : log[i] = r

Init == log = <<>>

AppendRow(r) == ~Logged(r) /\ log' = Append(log, r)

Next == \E r \in Runs : AppendRow(r)

Spec == Init /\ [][Next]_log

TypeOK == log \in Seq(Runs)

\* A run has one row.
OneRowPerRun == \A i, j \in 1 .. Len(log) : log[i] = log[j] => i = j

\* Rows are neither dropped nor moved nor replaced.
OnlyGrows ==
    [][/\ Len(log) =< Len(log')
       /\ \A i \in 1 .. Len(log) : log'[i] = log[i]]_log
=============================================================================
