---------------------------- MODULE MCCycleRunner ----------------------------
(* Small instances of CycleRunner for TLC. *)
EXTENDS CycleRunner

CONSTANTS collect, ledger, audit

FiveJobs == {1, 2, 3, 4, 5}
ThreeKinds == {collect, ledger, audit}
KindOfFive ==
    [j \in FiveJobs |-> IF j = 5 THEN audit ELSE IF j = 3 THEN ledger ELSE collect]
ThreeAndAudit == <<2, 3, 4, 5>>
FourthFromSecond == [j \in {4} |-> 2]
OnlyCollect == {collect}
AllButAudit == {3}

Everything == {"enqueue", "cancel", "stale", "retry"}
=============================================================================
