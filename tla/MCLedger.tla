------------------------------ MODULE MCLedger ------------------------------
(* Small instances of Ledger for TLC. *)
EXTENDS Ledger, TLC

CONSTANTS r1, r2, r3, p1, p2

TwoRuns == {r1, r2}
ThreeRuns == {r1, r2, r3}
OneProcess == {p1}
TwoProcesses == {p1, p2}

ToDefault == {Default}
ToEither == {Canonical, Default}

Symmetry == Permutations(ThreeRuns) \cup Permutations(TwoProcesses)
=============================================================================
