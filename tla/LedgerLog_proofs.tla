--------------------------- MODULE LedgerLog_proofs ---------------------------
(* What LedgerLog promises follows from its two definitions. *)
EXTENDS LedgerLog, TLAPS

\* A log that starts empty and takes a run only when it does not have it has
\* one row per run.
THEOREM LogHasOneRowPerRun == Spec => []OneRowPerRun
<1> DEFINE Inv == TypeOK /\ OneRowPerRun
<1>1. Init => Inv
  BY DEF Init, TypeOK, OneRowPerRun
<1>2. Inv /\ [Next]_log => Inv'
  <2> SUFFICES ASSUME Inv, [Next]_log PROVE Inv'
    OBVIOUS
  <2>1. CASE UNCHANGED log
    BY <2>1 DEF TypeOK, OneRowPerRun
  <2>2. ASSUME NEW r \in Runs, AppendRow(r) PROVE Inv'
    <3>1. log' = Append(log, r) /\ log \in Seq(Runs)
      BY <2>2 DEF AppendRow, TypeOK
    <3>2. \A i \in 1 .. Len(log) : log[i] # r
      BY <2>2 DEF AppendRow, Logged
    <3>3. /\ log' \in Seq(Runs) /\ Len(log') = Len(log) + 1
          /\ \A i \in 1 .. Len(log) : log'[i] = log[i]
          /\ log'[Len(log) + 1] = r
      BY <3>1
    <3>4. OneRowPerRun'
      BY <3>1, <3>2, <3>3 DEF OneRowPerRun
    <3>. QED
      BY <3>3, <3>4 DEF TypeOK
  <2>. QED
    BY <2>1, <2>2 DEF Next
<1>3. Inv => OneRowPerRun
  OBVIOUS
<1>. QED
  BY <1>1, <1>2, <1>3, PTL DEF Spec

\* No step of the log drops, moves or replaces a row.
THEOREM LogOnlyGrows == Spec => OnlyGrows
<1>1. TypeOK /\ [Next]_log =>
        [/\ Len(log) =< Len(log')
         /\ \A i \in 1 .. Len(log) : log'[i] = log[i]]_log
  BY DEF TypeOK, Next, AppendRow
<1>2. Init => TypeOK
  BY DEF Init, TypeOK
<1>3. TypeOK /\ [Next]_log => TypeOK'
  BY DEF TypeOK, Next, AppendRow
<1>. QED
  BY <1>1, <1>2, <1>3, PTL DEF Spec, OnlyGrows
=============================================================================
