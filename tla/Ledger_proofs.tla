---------------------------- MODULE Ledger_proofs ----------------------------
(***************************************************************************)
(* Theorems about Ledger, with any number of crashes.  The first gives     *)
(* every variable its type.  When calls do not overlap (Overlap = FALSE),  *)
(* the ledger is the append-only log of LedgerLog, no run is returned      *)
(* twice, and while none has died and it was compacted onto itself only,   *)
(* a ledger at rest has every row returned.  When calls overlap and none   *)
(* compacts onto the canonical file, the append log alone keeps readers    *)
(* from a ledger that lacks a row.                                         *)
(***************************************************************************)
EXTENDS Ledger, SequenceTheorems, TLAPS

-----------------------------------------------------------------------------
(* Types.                                                                  *)

\* What a call has in hand when it writes: a run to append, the part it reads
\* and the place of the part it writes.
CallHolds(call) ==
    /\ call.phase \in {"placeholder", "part", "rows", "write", "log"} => call.run \in Runs
    /\ call.phase = "rows" =>
          /\ call.snap.parts # <<>>
          /\ call.snap.parts[Len(call.snap.parts)].start \in Positions
    /\ call.phase \in {"write", "log"} => call.file.start \in Positions
    /\ call.phase = "output" => call.snap.compacted \in Paths

TypeInv == TypeOK /\ \A c \in Processes : CallHolds(proc[c])

LEMMA FileFields ==
    ASSUME NEW f \in File
    PROVE  /\ f.start \in Nat
           /\ f.runs \in Seq(Runs)
           /\ f.state = "missing" => f = Missing
           /\ f.state = "torn" => f = Torn
<1>1. CASE f = Missing
  BY <1>1 DEF Missing
<1>2. CASE f = Torn
  BY <1>2 DEF Torn
<1>3. CASE f \in [state : {"whole"}, start : Nat, runs : Seq(Runs)]
  BY <1>3
<1>. QED
  BY <1>1, <1>2, <1>3 DEF File

\* Replacing an element of a sequence leaves a sequence over the same set.
LEMMA SequenceExcept ==
    ASSUME NEW S, NEW s \in Seq(S), NEW i, NEW e \in S
    PROVE  [s EXCEPT ![i] = e] \in Seq(S)
<1>1. s \in [1 .. Len(s) -> S] /\ Len(s) \in Nat
  OBVIOUS
<1>2. [s EXCEPT ![i] = e] \in [1 .. Len(s) -> S]
  BY <1>1
<1>. QED
  BY <1>1, <1>2, SeqDef

LEMMA FileKinds == Missing \in File /\ Torn \in File
BY DEF File

LEMMA PartIndexType ==
    ASSUME TypeOK, NEW snap \in Snap
    PROVE  PartIndex(snap) \in Index
<1>1. FileAt(snap.compacted) \in File
  BY FileKinds DEF FileAt, TypeOK, Snap
<1>. QED
  BY <1>1 DEF PartIndex, Index, Snap

\* A step of one call that leaves a call behind which holds what it needs.
LEMMA CallReplaced ==
    ASSUME TypeInv, NEW c \in Processes, NEW call \in Call, CallHolds(call),
           proc' = [proc EXCEPT ![c] = call]
    PROVE  proc' \in [Processes -> Call] /\ \A d \in Processes : CallHolds(proc'[d])
BY DEF TypeInv, TypeOK

LEMMA WholeType ==
    ASSUME NEW start \in Nat, NEW runs \in Seq(Runs)
    PROVE  Whole(start, runs) \in File
BY DEF Whole, File

LEMMA IdleType == Idle \in Call /\ CallHolds(Idle)
<1>1. Idle \in Call
  BY FileKinds DEF Idle, Call, Phases, Snap
<1>. QED
  BY <1>1 DEF Idle, CallHolds

LEMMA CallingType ==
    ASSUME NEW phase \in Phases, NEW run \in Runs \cup {None}, NEW snap \in Snap
    PROVE  Calling(phase, run, snap) \in Call
BY FileKinds DEF Calling, Call

LEMMA BareType ==
    ASSUME NEW runs \in Seq(Runs), NEW path \in Paths \cup {None}
    PROVE  Bare(runs, path) \in Snap
BY DEF Bare, Snap

LEMMA ReadRowsType == TypeOK => ReadRows \in Seq(Runs)
<1>. SUFFICES ASSUME TypeOK PROVE ReadRows \in Seq(Runs)
  OBVIOUS
<1>1. index.runs \in Seq(Runs)
  BY DEF TypeOK, Index
<1>2. files[Canonical] \in File
  BY DEF TypeOK, Paths
<1>. QED
  BY <1>1, <1>2, FileFields DEF ReadRows

LEMMA BeginAppendType ==
    ASSUME TypeInv, NEW c \in Processes, BeginAppend(c)
    PROVE  TypeInv'
<1>. PICK r \in Runs : AppendToParts(c, r) \/ AppendToParquet(c, r)
  BY DEF BeginAppend
<1>1. PICK call \in Call : CallHolds(call) /\ Becomes(c, call)
  <2>1. CASE AppendToParts(c, r)
    <3>. DEFINE snap == [runs |-> index.runs, compacted |-> index.compacted,
                         parts |-> index.parts]
    <3>1. snap \in Snap
      BY DEF TypeInv, TypeOK, Index, Snap
    <3>2. Calling("part", r, snap) \in Call
      BY <3>1, CallingType DEF Phases
    <3>3. CallHolds(Calling("part", r, snap))
      BY DEF CallHolds, Calling
    <3>. QED
      BY <2>1, <3>2, <3>3 DEF AppendToParts
  <2>2. CASE AppendToParquet(c, r)
    <3>. DEFINE known == IF SidecarHolds THEN index.runs ELSE files[Canonical].runs
    <3>1. known \in Seq(Runs)
      <4>1. index.runs \in Seq(Runs) /\ files[Canonical] \in File
        BY DEF TypeInv, TypeOK, Index, Paths
      <4>. QED
        BY <4>1, FileFields
    <3>2. \A path \in Paths \cup {None}, phase \in {"placeholder", "bootstrap"} :
             /\ Calling(phase, r, Bare(known, path)) \in Call
             /\ CallHolds(Calling(phase, r, Bare(known, path)))
      <4>. SUFFICES ASSUME NEW path \in Paths \cup {None},
                           NEW phase \in {"placeholder", "bootstrap"}
                    PROVE  /\ Calling(phase, r, Bare(known, path)) \in Call
                           /\ CallHolds(Calling(phase, r, Bare(known, path)))
        OBVIOUS
      <4>1. Bare(known, path) \in Snap
        BY <3>1, BareType
      <4>2. Calling(phase, r, Bare(known, path)) \in Call
        BY <4>1, CallingType DEF Phases
      <4>. QED
        BY <4>2 DEF CallHolds, Calling
    <3>3. \/ Becomes(c, Calling("placeholder", r, Bare(known, None)))
          \/ Becomes(c, Calling("bootstrap", r, Bare(known, Canonical)))
      BY <2>2 DEF AppendToParquet
    <3>. QED
      BY <3>2, <3>3 DEF Paths
  <2>. QED
    BY <2>1, <2>2
<1>2. proc' \in [Processes -> Call] /\ \A d \in Processes : CallHolds(proc'[d])
  BY <1>1, CallReplaced DEF Becomes
<1>. QED
  BY <1>2 DEF BeginAppend, disk, counters, TypeInv, TypeOK

\* Most steps move one call to its next phase and leave the rest of it.
LEMMA TurnsType ==
    ASSUME TypeInv, NEW c \in Processes,
           NEW phase \in Phases \ {"placeholder", "part", "rows", "write", "log", "output"},
           Turns(c, phase)
    PROVE  proc' \in [Processes -> Call] /\ \A d \in Processes : CallHolds(proc'[d])
<1>. DEFINE call == [proc[c] EXCEPT !.phase = phase, !.open = FALSE]
<1>1. proc[c] \in Call
  BY DEF TypeInv, TypeOK
<1>2. call \in Call /\ call.phase = phase
  BY <1>1 DEF Call
<1>3. CallHolds(call)
  BY <1>2 DEF CallHolds
<1>4. proc' = [proc EXCEPT ![c] = call]
  BY DEF Turns, TypeInv, TypeOK
<1>. QED
  BY <1>2, <1>3, <1>4, CallReplaced

\* The same when the next phase is the choice of a part, its reading, a log line.
LEMMA TurnsToPartType ==
    ASSUME TypeInv, NEW c \in Processes, NEW phase \in {"part", "rows", "log"},
           Turns(c, phase), proc[c].run \in Runs,
           phase = "rows" => Reusable(proc[c].snap),
           phase = "log" => proc[c].file.start \in Positions
    PROVE  proc' \in [Processes -> Call] /\ \A d \in Processes : CallHolds(proc'[d])
<1>. DEFINE call == [proc[c] EXCEPT !.phase = phase, !.open = FALSE]
<1>1. proc[c] \in Call
  BY DEF TypeInv, TypeOK
<1>2. call \in Call /\ call.phase = phase /\ call.open = FALSE
      /\ call.run = proc[c].run /\ call.file = proc[c].file /\ call.snap = proc[c].snap
  BY <1>1 DEF Call, Phases
<1>3. CallHolds(call)
  BY <1>2 DEF CallHolds, Reusable
<1>4. proc' = [proc EXCEPT ![c] = call]
  BY DEF Turns, TypeInv, TypeOK
<1>. QED
  BY <1>2, <1>3, <1>4, CallReplaced

LEMMA PlaceholderType ==
    ASSUME TypeInv, NEW c \in Processes, OpenPlaceholder(c) \/ FillPlaceholder(c)
    PROVE  TypeInv'
<1>1. CASE OpenPlaceholder(c) /\ files[Canonical].state = "missing"
  <2>. DEFINE call == [proc[c] EXCEPT !.open = TRUE, !.snap.compacted = Canonical]
  <2>1. proc[c] \in Call /\ CallHolds(proc[c]) /\ proc[c].phase = "placeholder"
    BY <1>1 DEF OpenPlaceholder, TypeInv, TypeOK
  <2>2. call \in Call
    BY <2>1 DEF Call, Snap, Paths
  <2>3. CallHolds(call)
    BY <2>1 DEF CallHolds, Call
  <2>4. proc' = [proc EXCEPT ![c] = call]
    BY <1>1 DEF OpenPlaceholder, TypeInv, TypeOK
  <2>5. proc' \in [Processes -> Call] /\ \A d \in Processes : CallHolds(proc'[d])
    BY <2>2, <2>3, <2>4, CallReplaced
  <2>6. files' \in [Paths -> File]
    BY <1>1, FileKinds DEF OpenPlaceholder, TypeInv, TypeOK
  <2>. QED
    BY <1>1, <2>5, <2>6 DEF OpenPlaceholder, counters, TypeInv, TypeOK
<1>2. CASE OpenPlaceholder(c) /\ files[Canonical].state # "missing"
  <2>1. proc' \in [Processes -> Call] /\ \A d \in Processes : CallHolds(proc'[d])
    BY <1>2, TurnsType DEF OpenPlaceholder, Phases
  <2>. QED
    BY <1>2, <2>1 DEF OpenPlaceholder, counters, TypeInv, TypeOK
<1>3. CASE FillPlaceholder(c)
  <2>1. proc' \in [Processes -> Call] /\ \A d \in Processes : CallHolds(proc'[d])
    BY <1>3, TurnsType DEF FillPlaceholder, Phases
  <2>2. Whole(0, <<>>) \in File
    BY DEF Whole, File
  <2>3. files' \in [Paths -> File]
    BY <1>3, <2>2 DEF FillPlaceholder, TypeInv, TypeOK
  <2>. QED
    BY <1>3, <2>1, <2>3 DEF FillPlaceholder, counters, TypeInv, TypeOK
<1>. QED
  BY <1>1, <1>2, <1>3

LEMMA DocumentType ==
    ASSUME TypeInv, NEW c \in Processes
    PROVE  Document(c) \in Index
<1>1. proc[c].snap \in Snap
  BY DEF TypeInv, TypeOK, Call
<1>2. PartIndex(proc[c].snap) \in Index
  BY <1>1, PartIndexType DEF TypeInv
<1>3. files[Canonical] \in File /\ proc[c].snap.runs \in Seq(Runs)
  BY <1>1 DEF TypeInv, TypeOK, Paths, Snap
<1>. QED
  BY <1>2, <1>3 DEF Document, Index

LEMMA TornIndexType == TornIndex \in Index
<1>1. NoIndex \in Index
  BY FileKinds DEF NoIndex, Index
<1>. QED
  BY <1>1 DEF TornIndex, Index

\* The rename of a temporary file writes an index that some call has in hand, or
\* a torn one, and of the other calls it moves their temporary files only.
LEMMA ReplaceType ==
    ASSUME TypeInv, NEW c \in Processes, NEW next \in {"bootlog", "return", "part", "reread"},
           Replace(c, next), next = "part" => proc[c].run \in Runs
    PROVE  /\ index' \in Index
           /\ proc' \in [Processes -> Call] /\ \A d \in Processes : CallHolds(proc'[d])
<1>1. PICK writers \in SUBSET Writers :
         /\ index' \in Renamed(c, writers)
         /\ proc' = [d \in Processes |->
               IF d = c THEN [proc[d] EXCEPT !.phase = next, !.open = FALSE, !.temp = "named"]
               ELSE IF d \in writers THEN [proc[d] EXCEPT !.temp = "index"]
               ELSE IF proc[d].temp = "index" THEN [proc[d] EXCEPT !.temp = "gone"]
               ELSE proc[d]]
  BY DEF Replace
<1>2. index' \in Index
  BY <1>1, DocumentType, TornIndexType DEF Renamed, Writers
<1>3. ASSUME NEW d \in Processes PROVE proc'[d] \in Call /\ CallHolds(proc'[d])
  <2>1. proc[d] \in Call /\ CallHolds(proc[d])
    BY DEF TypeInv, TypeOK
  <2>2. ASSUME NEW temp \in {"named", "index", "gone"}
        PROVE  [proc[d] EXCEPT !.temp = temp] \in Call
               /\ CallHolds([proc[d] EXCEPT !.temp = temp])
    BY <2>1 DEF Call, CallHolds
  <2>3. CASE d = c
    <3>. DEFINE call == [proc[c] EXCEPT !.phase = next, !.open = FALSE, !.temp = "named"]
    <3>1. call \in Call /\ call.phase = next /\ call.run = proc[c].run
      BY <2>1, <2>3 DEF Call, Phases
    <3>2. CallHolds(call)
      BY <3>1 DEF CallHolds
    <3>. QED
      BY <1>1, <2>3, <3>1, <3>2
  <2>4. CASE d # c
    BY <1>1, <2>1, <2>2, <2>4
  <2>. QED
    BY <2>3, <2>4
<1>. QED
  BY <1>1, <1>2, <1>3

LEMMA BootstrapType ==
    ASSUME TypeInv, NEW c \in Processes, WriteBootstrapIndex(c) \/ LogBootstrap(c)
    PROVE  TypeInv'
<1>1. proc[c] \in Call
  BY DEF TypeInv, TypeOK
<1>. DEFINE next == IF proc[c].run = None THEN "return" ELSE "part"
<1>2. next = "part" => proc[c].run \in Runs
  BY <1>1 DEF Call
<1>3. CASE WriteBootstrapIndex(c)
  <2>1. \/ Replace(c, "bootlog")
        \/ Replace(c, "return")
        \/ Replace(c, "part") /\ proc[c].run \in Runs
    BY <1>2, <1>3 DEF WriteBootstrapIndex
  <2>2. /\ index' \in Index
        /\ proc' \in [Processes -> Call] /\ \A d \in Processes : CallHolds(proc'[d])
    BY <2>1, ReplaceType
  <2>. QED
    BY <1>3, <2>2 DEF WriteBootstrapIndex, counters, TypeInv, TypeOK
<1>4. CASE LogBootstrap(c)
  <2>1. \/ Turns(c, "return")
        \/ Turns(c, "part") /\ proc[c].run \in Runs
    BY <1>2, <1>4 DEF LogBootstrap
  <2>2. proc' \in [Processes -> Call] /\ \A d \in Processes : CallHolds(proc'[d])
    BY <2>1, TurnsType, TurnsToPartType DEF Phases
  <2>3. \A i \in 1 .. Len(proc[c].snap.runs) :
           [run |-> proc[c].snap.runs[i], at |-> i - 1] \in [run : Runs, at : Nat]
    BY <1>1 DEF Call, Snap
  <2>4. log' \in SUBSET [run : Runs, at : Nat]
    BY <1>4, <2>3 DEF LogBootstrap, TypeInv, TypeOK
  <2>. QED
    BY <1>4, <2>2, <2>4 DEF LogBootstrap, counters, TypeInv, TypeOK
<1>. QED
  BY <1>3, <1>4

\* A part is taken: its rows, its place and its reference are in the call.
LEMMA PartTakenType ==
    ASSUME TypeInv, NEW c \in Processes, proc[c].run \in Runs, NEW start \in Positions,
           NEW rows \in Seq(Runs), NEW parts \in Seq(PartRef), PartTaken(c, start, rows, parts)
    PROVE  \E call \in Call :
              /\ CallHolds(call) /\ proc' = [proc EXCEPT ![c] = call]
              /\ call.phase = "write" /\ call.run = proc[c].run /\ call.temp = proc[c].temp
              /\ call.file = Whole(start, Append(rows, proc[c].run))
              /\ call.snap.runs = proc[c].snap.runs /\ call.snap.parts = parts
              /\ call.snap.compacted = proc[c].snap.compacted
<1>1. proc[c] \in Call
  BY DEF TypeInv, TypeOK
<1>. DEFINE file == Whole(start, Append(rows, proc[c].run))
            call == [proc[c] EXCEPT !.phase = "write", !.file = file, !.snap.parts = parts]
<1>2. Append(rows, proc[c].run) \in Seq(Runs) /\ start \in Nat
  BY DEF Positions
<1>3. file \in File /\ file.start = start
  BY <1>2, WholeType DEF Whole
<1>4. proc' = [proc EXCEPT ![c] = call]
  BY <1>1 DEF PartTaken, TypeInv, TypeOK, Call, Snap
<1>. HIDE DEF file
<1>5. call \in Call
  BY <1>1, <1>3 DEF Call, Snap, Phases
<1>6. /\ call.phase = "write" /\ call.run = proc[c].run /\ call.temp = proc[c].temp
      /\ call.file = file /\ call.snap.runs = proc[c].snap.runs /\ call.snap.parts = parts
      /\ call.snap.compacted = proc[c].snap.compacted
  BY <1>1 DEF Call, Snap
<1>7. CallHolds(call)
  BY <1>3, <1>6 DEF CallHolds
<1>. QED
  BY <1>4, <1>5, <1>6, <1>7 DEF file

LEMMA RefType ==
    ASSUME NEW start \in Positions, NEW count \in Nat, NEW runs \in Seq(Runs)
    PROVE  Ref(start, count, runs) \in PartRef
BY FileKinds DEF Ref, PartRef, Positions

LEMMA ChoosePartType ==
    ASSUME TypeInv, NEW c \in Processes, ChoosePart(c)
    PROVE  TypeInv'
<1>. DEFINE snap == proc[c].snap
            start == Len(snap.runs)
            ref == Ref(start, 1, <<proc[c].run>>)
            parts == Append(snap.parts, ref)
<1>1. /\ proc[c].run \in Runs /\ snap.parts \in Seq(PartRef)
      /\ UNCHANGED <<files, partFiles, index, log, counters>> /\ root' = TRUE
  BY DEF ChoosePart, CallHolds, Call, Snap, TypeInv, TypeOK
<1>2. proc' \in [Processes -> Call] /\ \A d \in Processes : CallHolds(proc'[d])
  <2>1. CASE Reusable(snap)
    BY <1>1, <2>1, TurnsToPartType DEF ChoosePart
  <2>2. CASE ~Reusable(snap)
    <3>1. start \in Positions /\ PartTaken(c, start, <<>>, parts)
      BY <2>2 DEF ChoosePart
    <3>2. <<proc[c].run>> \in Seq(Runs) /\ <<>> \in Seq(Runs)
      BY <1>1
    <3>. HIDE DEF start
    <3>3. ref \in PartRef
      BY <3>1, <3>2, RefType
    <3>. HIDE DEF ref
    <3>. parts \in Seq(PartRef)
      BY <1>1, <3>3
    <3>. HIDE DEF parts
    <3>4. PICK call \in Call : CallHolds(call) /\ proc' = [proc EXCEPT ![c] = call]
      BY <1>1, <3>1, <3>2, PartTakenType
    <3>. QED
      BY <3>4, CallReplaced
  <2>. QED
    BY <2>1, <2>2
<1>. QED
  BY <1>1, <1>2 DEF counters, TypeInv, TypeOK

LEMMA ReadPartType ==
    ASSUME TypeInv, NEW c \in Processes, ReadPart(c)
    PROVE  TypeInv'
<1>. DEFINE snap == proc[c].snap
            n == Len(snap.parts)
            last == snap.parts[n]
            found == partFiles[last.start]
            ref == Ref(last.start, Len(found.runs) + 1, Append(last.runs, proc[c].run))
            parts == [snap.parts EXCEPT ![n] = ref]
<1>1. /\ proc[c].run \in Runs /\ snap.parts \in Seq(PartRef) /\ snap.parts # <<>>
      /\ last.start \in Positions /\ UNCHANGED <<disk, counters>>
  BY DEF ReadPart, CallHolds, Call, Snap, TypeInv, TypeOK
<1>2. proc' \in [Processes -> Call] /\ \A d \in Processes : CallHolds(proc'[d])
  <2>1. CASE found.state # "whole"
    BY <2>1, IdleType, CallReplaced DEF ReadPart, Becomes
  <2>2. CASE found.state = "whole"
    <3>1. PartTaken(c, last.start, found.runs, parts)
      BY <2>2 DEF ReadPart
    <3>2. last \in PartRef
      BY <1>1
    <3>3. last.runs \in Seq(Runs)
      BY <3>2 DEF PartRef
    <3>4. found \in File
      BY <1>1 DEF TypeInv, TypeOK
    <3>5. found.runs \in Seq(Runs)
      BY <3>4, FileFields
    <3>. HIDE DEF last, found
    <3>6. Append(last.runs, proc[c].run) \in Seq(Runs) /\ Len(found.runs) + 1 \in Nat
      BY <1>1, <3>3, <3>5
    <3>7. ref \in PartRef
      BY <1>1, <3>6, RefType
    <3>. HIDE DEF ref
    <3>8. parts \in Seq(PartRef)
      BY <1>1, <3>7, SequenceExcept
    <3>. HIDE DEF parts
    <3>9. PICK call \in Call : CallHolds(call) /\ proc' = [proc EXCEPT ![c] = call]
      BY <1>1, <3>1, <3>5, <3>8, PartTakenType
    <3>. QED
      BY <3>9, CallReplaced
  <2>. QED
    BY <2>1, <2>2
<1>. QED
  BY <1>1, <1>2 DEF disk, counters, TypeInv, TypeOK

LEMMA OpenPartType ==
    ASSUME TypeInv, NEW c \in Processes, OpenPart(c)
    PROVE  TypeInv'
<1>. DEFINE call == [proc[c] EXCEPT !.open = TRUE]
<1>1. /\ proc[c] \in Call /\ CallHolds(proc[c]) /\ proc' = [proc EXCEPT ![c] = call]
  BY DEF OpenPart, TypeInv, TypeOK
<1>2. call \in Call /\ CallHolds(call)
  BY <1>1 DEF Call, CallHolds
<1>3. proc' \in [Processes -> Call] /\ \A d \in Processes : CallHolds(proc'[d])
  BY <1>1, <1>2, CallReplaced
<1>4. partFiles' \in [Positions -> File]
  BY FileKinds DEF OpenPart, TypeInv, TypeOK
<1>. QED
  BY <1>3, <1>4 DEF OpenPart, counters, TypeInv, TypeOK

LEMMA FillPartType ==
    ASSUME TypeInv, NEW c \in Processes, FillPart(c)
    PROVE  TypeInv'
<1>1. /\ proc[c] \in Call /\ CallHolds(proc[c])
      /\ proc[c].phase = "write" /\ proc[c].open
  BY DEF FillPart, TypeInv, TypeOK
<1>2. proc[c].run \in Runs /\ proc[c].file.start \in Positions
  BY <1>1 DEF CallHolds
<1>3. proc' \in [Processes -> Call] /\ \A d \in Processes : CallHolds(proc'[d])
  BY <1>2, TurnsToPartType DEF FillPart
<1>4. partFiles' \in [Positions -> File]
  BY <1>1 DEF FillPart, Call, TypeInv, TypeOK
<1>. QED
  BY <1>3, <1>4 DEF FillPart, counters, TypeInv, TypeOK

LEMMA LogRowCall ==
    ASSUME TypeInv, NEW c \in Processes, LogRow(c)
    PROVE  LET snap == proc[c].snap
               sha == partFiles[proc[c].file.start]
           IN proc' = [proc EXCEPT ![c] =
                 [proc[c] EXCEPT
                    !.phase = "index", !.snap.runs = Append(snap.runs, proc[c].run),
                    !.snap.parts = [snap.parts EXCEPT ![Len(snap.parts)].sha = sha]]]
<1>1. proc[c] \in Call
  BY DEF TypeInv, TypeOK
<1>. QED
  BY <1>1 DEF LogRow, Call, Snap, TypeInv, TypeOK

LEMMA LogRowType ==
    ASSUME TypeInv, NEW c \in Processes, LogRow(c)
    PROVE  TypeInv'
<1>. DEFINE snap == proc[c].snap
            n == Len(snap.parts)
            sha == partFiles[proc[c].file.start]
            parts == [snap.parts EXCEPT ![n].sha = sha]
            runs == Append(snap.runs, proc[c].run)
            call == [proc[c] EXCEPT !.phase = "index", !.snap.runs = runs,
                                    !.snap.parts = parts]
<1>1. proc[c] \in Call /\ CallHolds(proc[c]) /\ proc[c].phase = "log"
  BY DEF LogRow, TypeInv, TypeOK
<1>2. /\ proc[c].run \in Runs /\ proc[c].file.start \in Positions
      /\ snap.runs \in Seq(Runs) /\ snap.parts \in Seq(PartRef)
  BY <1>1 DEF CallHolds, Call, Snap
<1>3. sha \in File /\ runs \in Seq(Runs)
  BY <1>2 DEF TypeInv, TypeOK
<1>4. parts \in Seq(PartRef)
  <2>1. CASE n \in 1 .. Len(snap.parts)
    <3>1. snap.parts[n] \in PartRef
      BY <1>2, <2>1
    <3>2. [snap.parts[n] EXCEPT !.sha = sha] \in PartRef
      BY <1>3, <3>1 DEF PartRef
    <3>3. parts = [snap.parts EXCEPT ![n] = [snap.parts[n] EXCEPT !.sha = sha]]
      OBVIOUS
    <3>. QED
      BY <1>2, <3>2, <3>3, SequenceExcept
  <2>2. CASE n \notin 1 .. Len(snap.parts)
    <3>1. parts = snap.parts
      BY <1>2, <2>2
    <3>. QED
      BY <1>2, <3>1
  <2>. QED
    BY <2>1, <2>2
<1>5. proc' = [proc EXCEPT ![c] = call]
  BY LogRowCall
<1>. HIDE DEF parts, runs, sha
<1>6. call \in Call /\ CallHolds(call)
  <2>1. call \in Call /\ call.phase = "index"
    BY <1>1, <1>3, <1>4 DEF Call, Snap, Phases
  <2>. QED
    BY <2>1 DEF CallHolds
<1>7. proc' \in [Processes -> Call] /\ \A d \in Processes : CallHolds(proc'[d])
  BY <1>5, <1>6, CallReplaced
<1>8. log' \in SUBSET [run : Runs, at : Nat]
  BY <1>2 DEF LogRow, TypeInv, TypeOK
<1>. QED
  BY <1>7, <1>8 DEF LogRow, counters, TypeInv, TypeOK

LEMMA EndOfAppendType ==
    ASSUME TypeInv, NEW c \in Processes, WriteIndex(c) \/ Overtaken(c) \/ Return(c) \/ Crash(c)
    PROVE  TypeInv'
<1>1. CASE WriteIndex(c)
  <2>1. /\ index' \in Index
        /\ proc' \in [Processes -> Call] /\ \A d \in Processes : CallHolds(proc'[d])
    BY <1>1, ReplaceType DEF WriteIndex
  <2>. QED
    BY <1>1, <2>1 DEF WriteIndex, counters, TypeInv, TypeOK
<1>2. ASSUME Becomes(c, Idle)
      PROVE  proc' \in [Processes -> Call] /\ \A d \in Processes : CallHolds(proc'[d])
  BY <1>2, IdleType, CallReplaced DEF Becomes
<1>3. CASE Overtaken(c)
  <2>1. index' \in Index
    BY <1>3, DocumentType, TornIndexType DEF Overtaken, TypeInv, TypeOK
  <2>. QED
    BY <1>2, <1>3, <2>1 DEF Overtaken, counters, TypeInv, TypeOK
<1>4. CASE Crash(c)
  BY <1>2, <1>4, LedgerBoundsAssumption DEF Crash, disk, TypeInv, TypeOK
<1>5. CASE Return(c)
  <2>1. acked' \in [Runs -> Nat]
    BY <1>5 DEF Return, TypeInv, TypeOK, Call
  <2>. QED
    BY <1>2, <1>5, <2>1 DEF Return, disk, TypeInv, TypeOK
<1>. QED
  BY <1>1, <1>3, <1>4, <1>5

LEMMA CompactType ==
    ASSUME TypeInv, NEW c \in Processes, CompactStep(c)
    PROVE  TypeInv'
<1>1. CASE BeginCompact(c)
  <2>1. PICK out \in Outputs : Becomes(c, Calling("output", None, Bare(ReadRows, out)))
    BY <1>1 DEF BeginCompact
  <2>2. Bare(ReadRows, out) \in Snap
    BY ReadRowsType, BareType DEF Paths, TypeInv
  <2>3. Calling("output", None, Bare(ReadRows, out)) \in Call
    BY <2>2, CallingType DEF Phases
  <2>4. CallHolds(Calling("output", None, Bare(ReadRows, out)))
    BY DEF CallHolds, Calling, Bare, Paths
  <2>5. proc' \in [Processes -> Call] /\ \A d \in Processes : CallHolds(proc'[d])
    BY <2>1, <2>3, <2>4, CallReplaced DEF Becomes
  <2>. QED
    BY <1>1, <2>5, LedgerBoundsAssumption DEF BeginCompact, disk, TypeInv, TypeOK
<1>2. CASE OpenOutput(c)
  <2>. DEFINE call == [proc[c] EXCEPT !.open = TRUE]
  <2>1. /\ proc[c] \in Call /\ CallHolds(proc[c]) /\ proc[c].phase = "output"
        /\ proc' = [proc EXCEPT ![c] = call]
    BY <1>2 DEF OpenOutput, TypeInv, TypeOK
  <2>2. call \in Call /\ CallHolds(call)
    BY <2>1 DEF Call, CallHolds
  <2>3. proc' \in [Processes -> Call] /\ \A d \in Processes : CallHolds(proc'[d])
    BY <2>1, <2>2, CallReplaced
  <2>4. files' \in [Paths -> File] /\ root' \in BOOLEAN
    BY <1>2, FileKinds DEF OpenOutput, TypeInv, TypeOK
  <2>. QED
    BY <1>2, <2>3, <2>4 DEF OpenOutput, counters, TypeInv, TypeOK
<1>3. CASE FillOutput(c)
  <2>1. proc[c].snap.runs \in Seq(Runs)
    BY DEF TypeInv, TypeOK, Call, Snap
  <2>2. Whole(0, proc[c].snap.runs) \in File
    BY <2>1, WholeType
  <2>3. files' \in [Paths -> File]
    BY <1>3, <2>2 DEF FillOutput, TypeInv, TypeOK
  <2>4. proc' \in [Processes -> Call] /\ \A d \in Processes : CallHolds(proc'[d])
    BY <1>3, TurnsType DEF FillOutput, Phases
  <2>. QED
    BY <1>3, <2>3, <2>4 DEF FillOutput, counters, TypeInv, TypeOK
<1>4. CASE WriteSidecar(c)
  <2>1. /\ index' \in Index
        /\ proc' \in [Processes -> Call] /\ \A d \in Processes : CallHolds(proc'[d])
    BY <1>4, ReplaceType DEF WriteSidecar
  <2>. QED
    BY <1>4, <2>1 DEF WriteSidecar, counters, TypeInv, TypeOK
<1>5. CASE Reread(c)
  <2>1. Turns(c, "index") \/ Turns(c, "bootstrap") \/ Becomes(c, Idle)
    BY <1>5 DEF Reread
  <2>2. proc' \in [Processes -> Call] /\ \A d \in Processes : CallHolds(proc'[d])
    BY <2>1, TurnsType, IdleType, CallReplaced DEF Phases, Becomes
  <2>. QED
    BY <1>5, <2>2 DEF Reread, disk, counters, TypeInv, TypeOK
<1>. QED
  BY <1>1, <1>2, <1>3, <1>4, <1>5 DEF CompactStep

LEMMA TypeInvKept == TypeInv /\ [Next]_vars => TypeInv'
<1>. SUFFICES ASSUME TypeInv, [Next]_vars PROVE TypeInv'
  OBVIOUS
<1>1. CASE UNCHANGED vars
  BY <1>1 DEF vars, disk, counters, TypeInv, TypeOK
<1>2. ASSUME NEW c \in Processes, AppendStep(c) PROVE TypeInv'
  BY <1>2, BeginAppendType, PlaceholderType, ChoosePartType, ReadPartType, OpenPartType,
     FillPartType, LogRowType DEF AppendStep
<1>. QED
  BY <1>1, <1>2, CompactType, BootstrapType, EndOfAppendType DEF Next

LEMMA TypeInvInit == Init => TypeInv
<1>. SUFFICES ASSUME Init PROVE TypeInv
  OBVIOUS
<1>1. index \in Index
  BY FileKinds DEF Init, Index, NoIndex
<1>. QED
  BY <1>1, FileKinds, IdleType DEF Init, TypeInv, TypeOK

\* Every file, index and call has its type, overlapping calls and crashes
\* included: no sequence of calls writes an index or a part of another shape.
THEOREM LedgerTypeCorrect == Spec => []TypeOK
BY TypeInvInit, TypeInvKept, PTL DEF Spec, TypeInv

-----------------------------------------------------------------------------
(* The log, when calls do not overlap.                                     *)

\* What a call works from is what the index still says; the run it appends is
\* not there yet; the row it is about to commit is the next one; and no other
\* call has touched its temporary file.
Faithful(call) ==
    /\ call.temp = "named"
    /\ call.phase \in Phases \ {"idle", "index", "return"} => call.snap.runs = index.runs
    /\ /\ call.phase \in {"placeholder", "bootstrap", "bootlog", "part", "rows", "write", "log"}
       /\ call.run # None
       => call.run \notin Members(index.runs)
    /\ call.phase \in {"output", "sidecar", "reread"} => call.run = None
    /\ call.phase = "placeholder" => call.snap.runs = <<>>
    /\ call.phase = "index" =>
          \/ call.snap.runs = index.runs
          \/ /\ call.run \in Runs /\ call.run \notin Members(index.runs)
             /\ call.snap.runs = Append(index.runs, call.run)
    /\ call.phase = "sidecar" /\ files[Canonical] # Torn => files[Canonical].runs = index.runs

\* While there is no part index, the canonical file has the rows of the index.
InStep ==
    index.kind # "parts" /\ files[Canonical] # Torn => files[Canonical].runs = index.runs

LogInv ==
    /\ TypeInv
    /\ \A c, d \in Processes : proc[c] # Idle /\ proc[d] # Idle => c = d
    /\ \A c \in Processes : Faithful(proc[c])
    /\ InStep

LEMMA IdleFaithful == Faithful(Idle)
BY DEF Faithful, Idle

\* What a reader gets are the rows of the index.
LEMMA ReadsIndex == LogInv /\ Readable => ReadRows = index.runs
<1>. SUFFICES ASSUME LogInv, Readable PROVE ReadRows = index.runs
  OBVIOUS
<1>1. CASE index.kind = "parts"
  BY <1>1 DEF ReadRows
<1>2. CASE index.kind # "parts"
  <2>1. CanonicalReads
    BY <1>2 DEF Readable, PartIndexHolds
  <2>2. files[Canonical] # Torn
    BY <2>1 DEF CanonicalReads, Torn
  <2>. QED
    BY <1>2, <2>2 DEF LogInv, InStep, ReadRows
<1>. QED
  BY <1>1, <1>2

\* A step of c keeps the invariant if it leaves c's call faithful and, when it
\* touches the index or the canonical file, the two in step.
LEMMA OneCallMoves ==
    ASSUME LogInv, TypeInv', NEW c \in Processes,
           \A d \in Processes : d # c => proc[d] = Idle,
           NEW call, proc' = [proc EXCEPT ![c] = call], Faithful(call)', InStep'
    PROVE  LogInv'
<1>1. \A d \in Processes : d # c => proc[d] = Idle /\ proc'[d] = Idle
  BY DEF LogInv, TypeInv, TypeOK
<1>2. Faithful(Idle)'
  BY DEF Faithful, Idle
<1>3. proc'[c] = call
  BY DEF TypeInv, TypeOK, LogInv
<1>4. \A d \in Processes : Faithful(proc[d])'
  <2>. TAKE d \in Processes
  <2>1. CASE d = c
    BY <2>1, <1>3 DEF Faithful
  <2>2. CASE d # c
    BY <2>2, <1>1, <1>2 DEF Faithful
  <2>. QED
    BY <2>1, <2>2
<1>5. \A a, b \in Processes : proc'[a] # Idle /\ proc'[b] # Idle => a = b
  BY <1>1
<1>. QED
  BY <1>4, <1>5 DEF LogInv

\* The index keeps its rows, or gets one more, of a run it did not have.
LogStep ==
    \/ index.runs' = index.runs
    \/ \E r \in Runs : r \notin Members(index.runs) /\ index.runs' = Append(index.runs, r)

LEMMA BusyAlone ==
    ASSUME LogInv, NEW c \in Processes, proc[c].phase # "idle"
    PROVE  /\ \A d \in Processes : d # c => proc[d] = Idle
           /\ proc[c] \in Call /\ CallHolds(proc[c]) /\ Faithful(proc[c])
<1>1. proc[c] # Idle
  BY DEF Idle
<1>. QED
  BY <1>1 DEF LogInv, TypeInv, TypeOK

LEMMA TurnsCall ==
    ASSUME TypeInv, NEW c \in Processes, NEW phase, Turns(c, phase)
    PROVE  \E call : /\ proc' = [proc EXCEPT ![c] = call]
                     /\ call.phase = phase /\ call.run = proc[c].run
                     /\ call.snap = proc[c].snap /\ ~call.open /\ call.temp = proc[c].temp
<1>. DEFINE call == [proc[c] EXCEPT !.phase = phase, !.open = FALSE]
<1>1. proc' = [proc EXCEPT ![c] = call]
  BY DEF Turns, TypeInv, TypeOK
<1>2. /\ call.phase = phase /\ call.run = proc[c].run
      /\ call.snap = proc[c].snap /\ ~call.open /\ call.temp = proc[c].temp
  BY DEF TypeInv, TypeOK, Call
<1>. QED
  BY <1>1, <1>2

LEMMA TurnsTo ==
    ASSUME LogInv, NEW c \in Processes, NEW phase, Turns(c, phase)
    PROVE  \E call : /\ proc' = [proc EXCEPT ![c] = call]
                     /\ call.phase = phase /\ call.run = proc[c].run
                     /\ call.snap = proc[c].snap /\ call.temp = proc[c].temp
<1>1. TypeInv
  BY DEF LogInv
<1>. QED
  BY <1>1, TurnsCall

\* When calls do not overlap, the index becomes what the call has in hand.
LEMMA SerialReplace ==
    ASSUME LogInv, NEW c \in Processes, proc[c].phase \in Writing, NEW next,
           Replace(c, next)
    PROVE  index' = Document(c) /\ Turns(c, next)
<1>1. PICK writers \in SUBSET Writers :
         /\ writers # {} /\ index' \in Renamed(c, writers)
         /\ proc' = [d \in Processes |->
               IF d = c THEN [proc[d] EXCEPT !.phase = next, !.open = FALSE, !.temp = "named"]
               ELSE IF d \in writers THEN [proc[d] EXCEPT !.temp = "index"]
               ELSE IF proc[d].temp = "index" THEN [proc[d] EXCEPT !.temp = "gone"]
               ELSE proc[d]]
  BY DEF Replace
<1>2. "idle" \notin Writing /\ Idle.phase = "idle" /\ Idle.temp = "named"
  BY DEF Writing, Idle
<1>3. \A d \in Processes : d # c => proc[d] = Idle /\ proc[d].temp = "named"
  <2>1. proc[c] # Idle
    BY <1>2
  <2>. QED
    BY <1>2, <2>1 DEF LogInv
<1>4. writers = {c}
  BY <1>1, <1>2, <1>3 DEF Writers
<1>5. index' = Document(c)
  BY <1>1, <1>4 DEF Renamed
<1>6. proc[c] \in Call /\ proc[c].temp = "named" /\ proc \in [Processes -> Call]
  BY DEF LogInv, TypeInv, TypeOK, Faithful
<1>7. [proc[c] EXCEPT !.phase = next, !.open = FALSE, !.temp = "named"]
      = [proc[c] EXCEPT !.phase = next, !.open = FALSE]
  BY <1>6 DEF Call
<1>8. Turns(c, next)
  BY <1>1, <1>3, <1>4, <1>6, <1>7 DEF Turns
<1>. QED
  BY <1>5, <1>8

LEMMA SerialWrites ==
    ASSUME LogInv, NEW c \in Processes
    PROVE  /\ WriteBootstrapIndex(c) =>
                 /\ index' = PartIndex(proc[c].snap)
                 /\ Turns(c, IF proc[c].snap.runs # <<>> THEN "bootlog"
                             ELSE IF proc[c].run = None THEN "return" ELSE "part")
           /\ WriteIndex(c) => index' = PartIndex(proc[c].snap) /\ Turns(c, "return")
           /\ WriteSidecar(c) => /\ index'.kind = "rows" /\ index'.runs = proc[c].snap.runs
                                 /\ Turns(c, "reread")
           /\ ~Overtaken(c)
<1>1. CASE WriteBootstrapIndex(c)
  BY <1>1, SerialReplace DEF WriteBootstrapIndex, Writing, Document, WriteIndex, WriteSidecar,
                             Overtaken, LogInv, Faithful
<1>2. CASE WriteIndex(c)
  BY <1>2, SerialReplace DEF WriteBootstrapIndex, Writing, Document, WriteIndex, WriteSidecar,
                             Overtaken, LogInv, Faithful
<1>3. CASE WriteSidecar(c)
  BY <1>3, SerialReplace DEF WriteBootstrapIndex, Writing, Document, WriteIndex, WriteSidecar,
                             Overtaken, LogInv, Faithful
<1>4. ~Overtaken(c)
  BY DEF Overtaken, LogInv, Faithful
<1>. QED
  BY <1>1, <1>2, <1>3, <1>4

LEMMA BeginLog ==
    ASSUME LogInv, TypeInv', ~Overlap, NEW c \in Processes, BeginAppend(c) \/ BeginCompact(c)
    PROVE  LogInv' /\ LogStep
<1>1. \A d \in Processes : proc[d] = Idle
  BY DEF BeginAppend, BeginCompact, Free
<1>2. UNCHANGED <<files, index>>
  BY DEF BeginAppend, BeginCompact, disk
<1>3. InStep' /\ LogStep
  BY <1>2 DEF LogInv, InStep, LogStep
<1>4. PICK call : proc' = [proc EXCEPT ![c] = call] /\ Faithful(call)
  <2>1. CASE BeginCompact(c)
    <3>1. PICK out \in Outputs : Becomes(c, Calling("output", None, Bare(ReadRows, out)))
      BY <2>1 DEF BeginCompact
    <3>2. ReadRows = index.runs
      BY <2>1, ReadsIndex DEF BeginCompact
    <3>3. Faithful(Calling("output", None, Bare(ReadRows, out)))
      BY <3>2 DEF Faithful, Calling, Bare
    <3>. QED
      BY <3>1, <3>3 DEF Becomes
  <2>2. CASE BeginAppend(c)
    <3>1. PICK r \in Runs : AppendToParts(c, r) \/ AppendToParquet(c, r)
      BY <2>2 DEF BeginAppend
    <3>2. CASE AppendToParts(c, r)
      <4>. DEFINE snap == [runs |-> index.runs, compacted |-> index.compacted,
                           parts |-> index.parts]
      <4>1. Faithful(Calling("part", r, snap))
        BY <3>2 DEF AppendToParts, Faithful, Calling
      <4>. QED
        BY <3>2, <4>1 DEF AppendToParts, Becomes
    <3>3. CASE AppendToParquet(c, r)
      <4>. DEFINE known == IF SidecarHolds THEN index.runs ELSE files[Canonical].runs
      <4>1. known = index.runs
        <5>1. CASE SidecarHolds
          BY <5>1
        <5>2. CASE ~SidecarHolds
          <6>1. CanonicalReads /\ index.kind # "parts"
            BY <3>3, <5>2 DEF AppendToParquet, NoPartIndex
          <6>2. files[Canonical] # Torn
            BY <6>1 DEF CanonicalReads, Torn
          <6>. QED
            BY <5>2, <6>1, <6>2 DEF LogInv, InStep
        <5>. QED
          BY <5>1, <5>2
      <4>2. r \notin Members(index.runs)
        BY <3>3, <4>1 DEF AppendToParquet
      <4>3. CASE files[Canonical].state = "missing"
        <5>1. ~SidecarHolds
          BY <4>3 DEF SidecarHolds
        <5>2. files[Canonical] = Missing
          BY <4>3, FileFields DEF LogInv, TypeInv, TypeOK, Paths
        <5>3. known = <<>>
          BY <5>1, <5>2 DEF Missing
        <5>4. Becomes(c, Calling("placeholder", r, Bare(known, None)))
          BY <3>3, <4>3 DEF AppendToParquet
        <5>. HIDE DEF known
        <5>5. Faithful(Calling("placeholder", r, Bare(known, None)))
          BY <4>1, <4>2, <5>3 DEF Faithful, Calling, Bare
        <5>. QED
          BY <5>4, <5>5 DEF Becomes
      <4>4. CASE files[Canonical].state # "missing"
        <5>1. Becomes(c, Calling("bootstrap", r, Bare(known, Canonical)))
          BY <3>3, <4>4 DEF AppendToParquet
        <5>. HIDE DEF known
        <5>2. Faithful(Calling("bootstrap", r, Bare(known, Canonical)))
          BY <4>1, <4>2 DEF Faithful, Calling, Bare
        <5>. QED
          BY <5>1, <5>2 DEF Becomes
      <4>. QED
        BY <4>3, <4>4
    <3>. QED
      BY <3>1, <3>2, <3>3
  <2>. QED
    BY <2>1, <2>2
<1>5. Faithful(call)'
  BY <1>2, <1>4 DEF Faithful
<1>. QED
  BY <1>1, <1>3, <1>4, <1>5, OneCallMoves

\* A step that leaves the index and the canonical file alone.
LEMMA QuietLog ==
    ASSUME LogInv, TypeInv', NEW c \in Processes,
           \A d \in Processes : d # c => proc[d] = Idle,
           UNCHANGED index, files'[Canonical] = files[Canonical],
           NEW call, proc' = [proc EXCEPT ![c] = call], Faithful(call)
    PROVE  LogInv' /\ LogStep
<1>1. Faithful(call)'
  BY DEF Faithful
<1>2. InStep' /\ LogStep
  BY DEF LogInv, InStep, LogStep
<1>. QED
  BY <1>1, <1>2, OneCallMoves

\* What a step of an append before its index has of the call: nothing moves but
\* the part, its file and, with the row logged, the rows to commit.
LEMMA PartCall ==
    ASSUME TypeInv, NEW c \in Processes,
           \/ ChoosePart(c) \/ OpenPart(c) \/ FillPart(c) \/ LogRow(c)
           \/ ReadPart(c) /\ ~Becomes(c, Idle)
    PROVE  \E call :
              /\ proc' = [proc EXCEPT ![c] = call]
              /\ call.run = proc[c].run /\ call.temp = proc[c].temp
              /\ \/ /\ call.phase \in {"rows", "write", "log"}
                    /\ call.snap.runs = proc[c].snap.runs
                 \/ /\ LogRow(c) /\ call.phase = "index"
                    /\ call.snap.runs = Append(proc[c].snap.runs, proc[c].run)
<1>1. proc[c] \in Call /\ proc \in [Processes -> Call]
  BY DEF TypeInv, TypeOK
<1>2. ASSUME NEW start, NEW rows, NEW parts, PartTaken(c, start, rows, parts)
      PROVE  \E call : /\ proc' = [proc EXCEPT ![c] = call] /\ call.phase = "write"
                       /\ call.run = proc[c].run /\ call.temp = proc[c].temp
                       /\ call.snap.runs = proc[c].snap.runs
  <2>1. PICK file : proc' = [proc EXCEPT ![c].phase = "write", ![c].file = file,
                                         ![c].snap.parts = parts]
    BY <1>2 DEF PartTaken
  <2>. DEFINE call == [proc[c] EXCEPT !.phase = "write", !.file = file, !.snap.parts = parts]
  <2>2. proc' = [proc EXCEPT ![c] = call]
    BY <1>1, <2>1 DEF Call, Snap
  <2>3. /\ call.phase = "write" /\ call.run = proc[c].run /\ call.temp = proc[c].temp
        /\ call.snap.runs = proc[c].snap.runs
    BY <1>1 DEF Call, Snap
  <2>. QED
    BY <2>2, <2>3
<1>3. ASSUME NEW phase \in {"rows", "log"}, Turns(c, phase)
      PROVE  \E call : /\ proc' = [proc EXCEPT ![c] = call] /\ call.phase = phase
                       /\ call.run = proc[c].run /\ call.temp = proc[c].temp
                       /\ call.snap.runs = proc[c].snap.runs
  <2>1. PICK call : /\ proc' = [proc EXCEPT ![c] = call]
                    /\ call.phase = phase /\ call.run = proc[c].run
                    /\ call.snap = proc[c].snap /\ call.temp = proc[c].temp
    BY <1>3, TurnsCall
  <2>. QED
    BY <2>1
<1>4. CASE ChoosePart(c)
  <2>1. CASE Turns(c, "rows")
    BY <1>3, <2>1
  <2>2. CASE ~Turns(c, "rows")
    <3>1. PICK start, parts : PartTaken(c, start, <<>>, parts)
      BY <1>4, <2>2 DEF ChoosePart
    <3>. QED
      BY <1>2, <3>1
  <2>. QED
    BY <2>1, <2>2
<1>5. CASE ReadPart(c) /\ ~Becomes(c, Idle)
  <2>1. PICK start, rows, parts : PartTaken(c, start, rows, parts)
    BY <1>5 DEF ReadPart
  <2>. QED
    BY <1>2, <2>1
<1>6. CASE OpenPart(c)
  <2>. DEFINE call == [proc[c] EXCEPT !.open = TRUE]
  <2>1. proc' = [proc EXCEPT ![c] = call]
    BY <1>1, <1>6 DEF OpenPart
  <2>2. /\ call.phase = "write" /\ call.run = proc[c].run /\ call.temp = proc[c].temp
        /\ call.snap = proc[c].snap
    BY <1>1, <1>6 DEF OpenPart, Call
  <2>. QED
    BY <2>1, <2>2
<1>7. CASE FillPart(c)
  BY <1>3, <1>7 DEF FillPart
<1>8. CASE LogRow(c)
  <2>. DEFINE runs == Append(proc[c].snap.runs, proc[c].run)
  <2>1. PICK parts : proc' = [proc EXCEPT ![c] =
                        [proc[c] EXCEPT !.phase = "index", !.snap.runs = runs,
                                        !.snap.parts = parts]]
    BY <1>8, LogRowCall
  <2>. DEFINE call == [proc[c] EXCEPT !.phase = "index", !.snap.runs = runs,
                                      !.snap.parts = parts]
  <2>2. /\ call.phase = "index" /\ call.run = proc[c].run /\ call.snap.runs = runs
        /\ call.temp = proc[c].temp
    BY <1>1 DEF Call, Snap
  <2>. QED
    BY <1>8, <2>1, <2>2
<1>. QED
  BY <1>4, <1>5, <1>6, <1>7, <1>8

LEMMA PartLog ==
    ASSUME LogInv, TypeInv', NEW c \in Processes,
           \/ ChoosePart(c) \/ OpenPart(c) \/ FillPart(c) \/ LogRow(c)
           \/ ReadPart(c) /\ ~Becomes(c, Idle)
    PROVE  LogInv' /\ LogStep
<1>1. proc[c].phase \in {"part", "rows", "write", "log"} /\ UNCHANGED <<files, index>>
  BY DEF ChoosePart, ReadPart, OpenPart, FillPart, LogRow, disk
<1>2. /\ \A d \in Processes : d # c => proc[d] = Idle
      /\ proc[c] \in Call /\ Faithful(proc[c]) /\ CallHolds(proc[c])
  BY <1>1, BusyAlone
<1>3. /\ proc[c].run \in Runs /\ proc[c].run \notin Members(index.runs)
      /\ proc[c].snap.runs = index.runs
  BY <1>1, <1>2, RunsAssumption DEF Faithful, CallHolds, Phases
<1>4. PICK call :
         /\ proc' = [proc EXCEPT ![c] = call]
         /\ call.run = proc[c].run /\ call.temp = proc[c].temp
         /\ \/ call.phase \in {"rows", "write", "log"} /\ call.snap.runs = proc[c].snap.runs
            \/ /\ call.phase = "index"
               /\ call.snap.runs = Append(proc[c].snap.runs, proc[c].run)
  BY PartCall DEF LogInv
<1>5. Faithful(call)
  BY <1>2, <1>3, <1>4 DEF Faithful
<1>. QED
  BY <1>1, <1>2, <1>4, <1>5, QuietLog

\* A call that ends, by returning, by raising or by dying.
LEMMA EndLog ==
    ASSUME LogInv, TypeInv', NEW c \in Processes, proc[c] # Idle, Becomes(c, Idle),
           UNCHANGED <<files, index>>
    PROVE  LogInv' /\ LogStep
<1>1. \A d \in Processes : d # c => proc[d] = Idle
  BY DEF LogInv
<1>. QED
  BY <1>1, IdleFaithful, QuietLog DEF Becomes

LEMMA TurnLog ==
    ASSUME LogInv, TypeInv', NEW c \in Processes, LogBootstrap(c) \/ Reread(c)
    PROVE  LogInv' /\ LogStep
<1>1. proc[c].phase \in {"bootlog", "reread"} /\ UNCHANGED <<files, index>>
  BY DEF LogBootstrap, Reread, disk
<1>2. /\ \A d \in Processes : d # c => proc[d] = Idle
      /\ proc[c] \in Call /\ Faithful(proc[c])
  BY <1>1, BusyAlone
<1>3. proc[c].snap.runs = index.runs
  BY <1>1, <1>2 DEF Faithful, Phases
<1>4. CASE Becomes(c, Idle)
  <2>1. proc[c] # Idle
    BY <1>1 DEF Idle
  <2>. QED
    BY <1>1, <2>1, <1>4, EndLog
<1>5. ASSUME NEW phase \in {"part", "index", "bootstrap", "return"}, Turns(c, phase),
             phase = "part" => proc[c].run # None /\ proc[c].phase = "bootlog",
             phase \in {"index", "bootstrap"} => proc[c].phase = "reread"
      PROVE  LogInv' /\ LogStep
  <2>1. PICK call : /\ proc' = [proc EXCEPT ![c] = call]
                    /\ call.phase = phase /\ call.run = proc[c].run
                    /\ call.snap = proc[c].snap /\ call.temp = proc[c].temp
    BY <1>5, TurnsTo
  <2>2. Faithful(call)
    BY <1>1, <1>2, <1>3, <1>5, <2>1 DEF Faithful, Phases
  <2>. QED
    BY <1>1, <1>2, <2>1, <2>2, QuietLog
<1>6. CASE LogBootstrap(c)
  BY <1>5, <1>6 DEF LogBootstrap
<1>7. CASE Reread(c)
  BY <1>4, <1>5, <1>7 DEF Reread
<1>. QED
  BY <1>6, <1>7

\* The canonical file, opened and filled.
LEMMA FileLog ==
    ASSUME LogInv, TypeInv', NEW c \in Processes,
           OpenPlaceholder(c) \/ FillPlaceholder(c) \/ OpenOutput(c) \/ FillOutput(c)
    PROVE  LogInv' /\ LogStep
<1>1. proc[c].phase \in {"placeholder", "output"} /\ UNCHANGED index
  BY DEF OpenPlaceholder, FillPlaceholder, OpenOutput, FillOutput
<1>2. /\ \A d \in Processes : d # c => proc[d] = Idle
      /\ proc[c] \in Call /\ Faithful(proc[c]) /\ CallHolds(proc[c])
  BY <1>1, BusyAlone
<1>3. /\ proc[c].snap.runs = index.runs
      /\ proc[c].phase = "placeholder" =>
            /\ proc[c].run \in Runs /\ proc[c].run \notin Members(index.runs)
            /\ proc[c].snap.runs = <<>>
      /\ proc[c].phase = "output" => proc[c].run = None /\ proc[c].snap.compacted \in Paths
  BY <1>1, <1>2, RunsAssumption DEF Faithful, CallHolds, Phases
<1>4. PICK call : /\ proc' = [proc EXCEPT ![c] = call] /\ call.temp = proc[c].temp
                  /\ call.run = proc[c].run /\ call.snap.runs = proc[c].snap.runs
                  /\ \/ call.phase = proc[c].phase
                     \/ proc[c].phase = "placeholder" /\ call.phase = "bootstrap"
                     \/ FillOutput(c) /\ call.phase \in {"sidecar", "reread"}
  <2>1. CASE Turns(c, "bootstrap") /\ (FillPlaceholder(c) \/ OpenPlaceholder(c))
    <3>1. proc[c].phase = "placeholder"
      BY <2>1 DEF FillPlaceholder, OpenPlaceholder
    <3>2. PICK call : /\ proc' = [proc EXCEPT ![c] = call]
                      /\ call.phase = "bootstrap" /\ call.run = proc[c].run
                      /\ call.snap = proc[c].snap /\ call.temp = proc[c].temp
      BY <2>1, TurnsTo
    <3>. QED
      BY <3>1, <3>2
  <2>2. CASE FillOutput(c)
    <3>1. PICK phase \in {"sidecar", "reread"} : Turns(c, phase)
      BY <2>2 DEF FillOutput
    <3>2. PICK call : /\ proc' = [proc EXCEPT ![c] = call]
                      /\ call.phase = phase /\ call.run = proc[c].run
                      /\ call.snap = proc[c].snap /\ call.temp = proc[c].temp
      BY <3>1, TurnsTo
    <3>. QED
      BY <2>2, <3>1, <3>2
  <2>3. CASE OpenOutput(c)
    <3>. DEFINE call == [proc[c] EXCEPT !.open = TRUE]
    <3>1. proc' = [proc EXCEPT ![c] = call]
      BY <2>3 DEF OpenOutput, LogInv, TypeInv, TypeOK
    <3>2. /\ call.phase = proc[c].phase /\ call.run = proc[c].run /\ call.snap = proc[c].snap
          /\ call.temp = proc[c].temp
      BY <1>2 DEF Call
    <3>. QED
      BY <3>1, <3>2
  <2>4. CASE OpenPlaceholder(c) /\ files[Canonical].state = "missing"
    <3>. DEFINE call == [proc[c] EXCEPT !.open = TRUE, !.snap.compacted = Canonical]
    <3>1. proc' = [proc EXCEPT ![c] = call]
      BY <2>4 DEF OpenPlaceholder, LogInv, TypeInv, TypeOK
    <3>2. /\ call.phase = proc[c].phase /\ call.run = proc[c].run
          /\ call.snap.runs = proc[c].snap.runs /\ call.temp = proc[c].temp
      BY <1>2 DEF Call, Snap
    <3>. QED
      BY <3>1, <3>2
  <2>. QED
    BY <2>1, <2>2, <2>3, <2>4 DEF OpenPlaceholder, FillPlaceholder
<1>5. \/ files'[Canonical] = files[Canonical]
      \/ files'[Canonical] = Torn
      \/ files'[Canonical] = Whole(0, proc[c].snap.runs)
  BY <1>3 DEF OpenPlaceholder, FillPlaceholder, OpenOutput, FillOutput, LogInv, TypeInv, TypeOK,
          Paths
<1>6. InStep'
  BY <1>1, <1>3, <1>5 DEF InStep, LogInv, Whole
<1>7. call.phase = "sidecar" => files'[Canonical] = Whole(0, proc[c].snap.runs)
  <2>1. CASE FillOutput(c) /\ proc[c].snap.compacted = Canonical
    BY <2>1 DEF FillOutput, LogInv, TypeInv, TypeOK, Paths
  <2>2. CASE FillOutput(c) /\ proc[c].snap.compacted # Canonical
    <3>1. PICK other : /\ proc' = [proc EXCEPT ![c] = other]
                       /\ other.phase = "reread"
      BY <2>2, TurnsTo DEF FillOutput
    <3>2. other = call
      BY <1>4, <3>1 DEF LogInv, TypeInv, TypeOK
    <3>. QED
      BY <3>1, <3>2
  <2>3. CASE ~FillOutput(c)
    BY <1>1, <1>4, <2>3
  <2>. QED
    BY <2>1, <2>2, <2>3
<1>8. Faithful(call)'
  <2>1. call.phase = "sidecar" => files'[Canonical].runs = index.runs
    BY <1>3, <1>7 DEF Whole
  <2>2. /\ call.phase \in {"placeholder", "bootstrap", "output", "sidecar", "reread"}
        /\ call.phase \in {"placeholder", "bootstrap"} => proc[c].phase = "placeholder"
        /\ call.phase \in {"output", "sidecar", "reread"} => proc[c].phase = "output"
    BY <1>1, <1>4 DEF FillOutput
  <2>3. call.run = proc[c].run /\ call.snap.runs = index.runs /\ call.temp = "named"
    BY <1>2, <1>3, <1>4 DEF Faithful
  <2>. QED
    BY <1>1, <1>3, <2>1, <2>2, <2>3 DEF Faithful
<1>9. LogStep
  BY <1>1 DEF LogStep
<1>. QED
  BY <1>2, <1>4, <1>6, <1>8, <1>9, OneCallMoves

\* The index, written.
LEMMA IndexLog ==
    ASSUME LogInv, TypeInv', NEW c \in Processes,
           WriteBootstrapIndex(c) \/ WriteIndex(c) \/ WriteSidecar(c)
    PROVE  LogInv' /\ LogStep
<1>1. proc[c].phase \in {"bootstrap", "index", "sidecar"} /\ UNCHANGED files
  BY DEF WriteBootstrapIndex, WriteIndex, WriteSidecar
<1>2. /\ \A d \in Processes : d # c => proc[d] = Idle
      /\ proc[c] \in Call /\ Faithful(proc[c])
  BY <1>1, BusyAlone
<1>3. index'.runs = proc[c].snap.runs
  BY SerialWrites DEF PartIndex
<1>4. LogStep
  BY <1>1, <1>2, <1>3 DEF Faithful, LogStep, Phases
<1>5. InStep'
  <2>1. CASE WriteSidecar(c)
    <3>1. proc[c].phase = "sidecar" /\ proc[c].snap.runs = index.runs
      BY <2>1, <1>2 DEF WriteSidecar, Faithful, Phases
    <3>2. files[Canonical] # Torn => files[Canonical].runs = index.runs
      BY <1>2, <3>1 DEF Faithful
    <3>. QED
      BY <1>1, <1>3, <3>1, <3>2 DEF InStep
  <2>2. CASE WriteBootstrapIndex(c) \/ WriteIndex(c)
    BY <2>2, SerialWrites DEF PartIndex, InStep
  <2>. QED
    BY <2>1, <2>2
<1>6. PICK phase \in {"bootlog", "return", "part", "reread"} :
         /\ Turns(c, phase)
         /\ phase = "bootlog" => WriteBootstrapIndex(c)
         /\ phase = "part" => WriteBootstrapIndex(c)
         /\ phase = "reread" => WriteSidecar(c)
  BY SerialWrites
<1>7. PICK call : /\ proc' = [proc EXCEPT ![c] = call]
                  /\ call.phase = phase /\ call.run = proc[c].run
                  /\ call.snap = proc[c].snap /\ call.temp = "named"
  BY <1>2, <1>6, TurnsTo DEF Faithful
<1>8. Faithful(call)'
  <2>1. CASE phase = "return"
    BY <1>7, <2>1 DEF Faithful
  <2>2. CASE phase \in {"bootlog", "part"}
    <3>1. proc[c].phase = "bootstrap"
      BY <1>6, <2>2 DEF WriteBootstrapIndex
    <3>2. /\ proc[c].snap.runs = index.runs
          /\ proc[c].run # None => proc[c].run \notin Members(index.runs)
      BY <1>2, <3>1 DEF Faithful, Phases
    <3>3. Members(index.runs)' = Members(index.runs)
      BY <1>3, <3>2 DEF Members
    <3>. QED
      BY <1>3, <1>7, <2>2, <3>2, <3>3 DEF Faithful
  <2>3. CASE phase = "reread"
    <3>1. proc[c].phase = "sidecar"
      BY <1>6, <2>3 DEF WriteSidecar
    <3>2. proc[c].run = None
      BY <1>2, <3>1 DEF Faithful
    <3>. QED
      BY <1>3, <1>7, <2>3, <3>2 DEF Faithful
  <2>. QED
    BY <2>1, <2>2, <2>3
<1>. QED
  BY <1>2, <1>4, <1>5, <1>7, <1>8, OneCallMoves

LEMMA LogNext ==
    ASSUME ~Overlap, LogInv, [Next]_vars
    PROVE  LogInv' /\ LogStep
<1>1. TypeInv'
  BY TypeInvKept DEF LogInv
<1>2. CASE UNCHANGED vars
  <2>1. UNCHANGED <<files, index, proc>>
    BY <1>2 DEF vars, disk
  <2>. QED
    BY <1>1, <2>1 DEF LogInv, LogStep, Faithful, InStep
<1>3. ASSUME NEW c \in Processes,
             \/ ReadPart(c) /\ Becomes(c, Idle)
             \/ Return(c) \/ Crash(c)
      PROVE  LogInv' /\ LogStep
  <2>1. Becomes(c, Idle) /\ UNCHANGED <<files, index>> /\ proc[c] # Idle
    BY <1>3 DEF ReadPart, Return, Crash, disk, Idle
  <2>. QED
    BY <1>1, <2>1, EndLog
<1>4. ASSUME NEW c \in Processes, AppendStep(c) PROVE LogInv' /\ LogStep
  BY <1>1, <1>3, <1>4, BeginLog, FileLog, PartLog DEF AppendStep
<1>5. ASSUME NEW c \in Processes, CompactStep(c) PROVE LogInv' /\ LogStep
  BY <1>1, <1>5, BeginLog, FileLog, IndexLog, TurnLog DEF CompactStep
<1>6. ASSUME NEW c \in Processes, WriteBootstrapIndex(c) \/ LogBootstrap(c) \/ WriteIndex(c)
      PROVE  LogInv' /\ LogStep
  BY <1>1, <1>6, IndexLog, TurnLog
<1>. QED
  BY <1>2, <1>3, <1>4, <1>5, <1>6, SerialWrites DEF Next

LEMMA LogInit == Init => LogInv /\ index.runs = <<>>
<1>. SUFFICES ASSUME Init PROVE LogInv /\ index.runs = <<>>
  OBVIOUS
<1>1. index.runs = <<>> /\ files[Canonical] = Missing
  BY DEF Init, NoIndex, Paths
<1>2. InStep
  BY <1>1 DEF InStep, Missing
<1>3. \A c \in Processes : Faithful(proc[c])
  BY IdleFaithful DEF Init
<1>. QED
  BY <1>1, <1>2, <1>3, TypeInvInit DEF LogInv, Init

\* When calls do not overlap, the rows the index names are the append-only log
\* of LedgerLog, however many compactions and crashes there are: every step
\* leaves them as they are or adds one row, of a run that had none.
THEOREM SerialLedgerIsLog ==
    ASSUME ~Overlap
    PROVE  Spec => ImplementsLog
<1>1. Init => AsLog!Init
  BY LogInit DEF AsLog!Init
<1>2. LogInv /\ [Next]_vars => LogInv' /\ [AsLog!Next]_(index.runs)
  <2>. SUFFICES ASSUME LogInv, [Next]_vars
                PROVE  LogInv' /\ [AsLog!Next]_(index.runs)
    OBVIOUS
  <2>1. LogInv' /\ LogStep
    BY LogNext
  <2>2. ASSUME NEW r \in Runs, r \notin Members(index.runs), index.runs' = Append(index.runs, r)
        PROVE  AsLog!AppendRow(r)
    BY <2>2 DEF AsLog!AppendRow, AsLog!Logged, Members
  <2>. QED
    BY <2>1, <2>2 DEF LogStep, AsLog!Next
<1>3. Init => LogInv
  BY LogInit
<1>. QED
  BY <1>1, <1>2, <1>3, PTL DEF Spec, ImplementsLog, AsLog!Spec

ReadsTheIndex == Readable => ReadRows = index.runs

\* When calls do not overlap, a reader never sees fewer rows than an earlier one,
\* nor other rows in their place, whatever crashes have left behind.
THEOREM SerialReadersSeeItGrow ==
    ASSUME ~Overlap
    PROVE  Spec => ReadersSeeItGrow
<1>1. LogInv => ReadsTheIndex
  BY ReadsIndex DEF ReadsTheIndex
<1>2. /\ LogInv /\ ReadsTheIndex /\ ReadsTheIndex' /\ [Next]_vars
      => [Readable /\ Readable' =>
            /\ Len(ReadRows) =< Len(ReadRows')
            /\ \A i \in 1 .. Len(ReadRows) : ReadRows'[i] = ReadRows[i]]_vars
  <2>. SUFFICES ASSUME LogInv, ReadsTheIndex, ReadsTheIndex', [Next]_vars,
                       Readable, Readable'
                PROVE  /\ Len(ReadRows) =< Len(ReadRows')
                       /\ \A i \in 1 .. Len(ReadRows) : ReadRows'[i] = ReadRows[i]
    OBVIOUS
  <2>1. ReadRows = index.runs /\ ReadRows' = index.runs'
    BY DEF ReadsTheIndex
  <2>2. LogStep
    BY LogNext
  <2>3. index.runs \in Seq(Runs)
    BY DEF LogInv, TypeInv, TypeOK, Index
  <2>4. /\ Len(index.runs) =< Len(index.runs')
        /\ \A i \in 1 .. Len(index.runs) : index.runs'[i] = index.runs[i]
    <3>1. CASE index.runs' = index.runs
      BY <2>3, <3>1
    <3>2. ASSUME NEW r \in Runs, index.runs' = Append(index.runs, r)
          PROVE  /\ Len(index.runs) =< Len(index.runs')
                 /\ \A i \in 1 .. Len(index.runs) : index.runs'[i] = index.runs[i]
      BY <2>3, <3>2
    <3>. QED
      BY <2>2, <3>1, <3>2 DEF LogStep
  <2>. QED
    BY <2>1, <2>4
<1>3. Init => LogInv
  BY LogInit
<1>4. LogInv /\ [Next]_vars => LogInv'
  BY LogNext
<1>. QED
  BY <1>1, <1>2, <1>3, <1>4, PTL DEF Spec, ReadersSeeItGrow

-----------------------------------------------------------------------------
(* Calls that overlap, compacting anywhere but onto the canonical file.    *)
(* The index may then go back to fewer rows, but the append log never      *)
(* does: every row the index or a call has in hand is in it, at its place, *)
(* and a reader is refused an index that the log does not agree with.      *)

Logged(runs) == \A i \in 1 .. Len(runs) : [run |-> runs[i], at |-> i - 1] \in log

LogRuns == {e.run : e \in log}

\* Only a row that is logged is written to the index or acknowledged.
OnPath(call) ==
    /\ Logged(call.snap.runs)
    /\ call.phase \notin {"sidecar", "bootlog"}
    /\ call.phase = "output" => call.snap.compacted # Canonical
    /\ call.phase \in {"output", "reread"} => call.run = None
    /\ call.phase \in {"placeholder", "bootstrap"} => call.snap.runs = <<>>
    /\ call.phase \in {"index", "return"} /\ call.run # None => call.run \in LogRuns
    /\ call.phase \in {"rows", "write", "log"} => root

OnDisk ==
    /\ Logged(index.runs)
    /\ index.kind # "rows"
    /\ files[Canonical].runs = <<>>
    /\ log # {} => root
    /\ \A r \in Runs : acked[r] > 0 => r \in LogRuns

LoggedInv == TypeInv /\ OnDisk /\ \A c \in Processes : OnPath(proc[c])

LEMMA NothingLogged == Logged(<<>>)
BY DEF Logged

LEMMA LoggedMoves ==
    ASSUME LoggedInv, TypeInv', OnDisk', NEW c \in Processes,
           NEW call, proc' = [proc EXCEPT ![c] = call], OnPath(call)',
           log \subseteq log', root => root'
    PROVE  LoggedInv'
<1>1. ASSUME NEW d \in Processes PROVE OnPath(proc[d])'
  <2>1. CASE d = c
    <3>1. proc'[d] = call
      BY <2>1 DEF LoggedInv, TypeInv, TypeOK
    <3>. QED
      BY <3>1 DEF OnPath, Logged
  <2>2. CASE d # c
    <3>1. proc'[d] = proc[d]
      BY <2>2 DEF LoggedInv, TypeInv, TypeOK
    <3>2. OnPath(proc[d])
      BY DEF LoggedInv
    <3>3. Logged(proc[d].snap.runs) => Logged(proc[d].snap.runs)'
      BY <3>1 DEF Logged
    <3>4. LogRuns \subseteq LogRuns'
      BY DEF LogRuns
    <3>. QED
      BY <3>1, <3>2, <3>3, <3>4 DEF OnPath
  <2>. QED
    BY <2>1, <2>2
<1>. QED
  BY <1>1 DEF LoggedInv

\* A step that leaves the index, the log and the acknowledgements alone.
LEMMA LoggedQuiet ==
    ASSUME LoggedInv, TypeInv', NEW c \in Processes,
           NEW call, proc' = [proc EXCEPT ![c] = call], OnPath(call)',
           UNCHANGED <<index, log, acked>>, root => root', files'[Canonical].runs = <<>>
    PROVE  LoggedInv'
<1>1. OnDisk'
  BY DEF LoggedInv, OnDisk, Logged, LogRuns
<1>. QED
  BY <1>1, LoggedMoves

LEMMA LoggedBegin ==
    ASSUME Canonical \notin Outputs, LoggedInv, TypeInv', NEW c \in Processes,
           BeginAppend(c) \/ BeginCompact(c)
    PROVE  LoggedInv'
<1>1. UNCHANGED <<files, index, log, root, acked>>
  BY DEF BeginAppend, BeginCompact, disk, counters
<1>2. /\ Logged(index.runs) /\ index.kind # "rows" /\ files[Canonical].runs = <<>>
  BY DEF LoggedInv, OnDisk
<1>3. PICK call : Becomes(c, call) /\ OnPath(call)
  <2>1. CASE BeginCompact(c)
    <3>1. PICK out \in Outputs : Becomes(c, Calling("output", None, Bare(ReadRows, out)))
      BY <2>1 DEF BeginCompact
    <3>2. Logged(ReadRows)
      BY <1>2, NothingLogged DEF ReadRows
    <3>3. OnPath(Calling("output", None, Bare(ReadRows, out)))
      BY <3>2 DEF OnPath, Calling, Bare
    <3>. QED
      BY <3>1, <3>3
  <2>2. CASE BeginAppend(c)
    <3>1. PICK r \in Runs : AppendToParts(c, r) \/ AppendToParquet(c, r)
      BY <2>2 DEF BeginAppend
    <3>2. CASE AppendToParts(c, r)
      <4>. DEFINE snap == [runs |-> index.runs, compacted |-> index.compacted,
                           parts |-> index.parts]
      <4>1. OnPath(Calling("part", r, snap))
        BY <1>2 DEF OnPath, Calling
      <4>. QED
        BY <3>2, <4>1 DEF AppendToParts
    <3>3. CASE AppendToParquet(c, r)
      <4>1. ~SidecarHolds
        BY <1>2 DEF SidecarHolds
      <4>2. PICK phase, path :
                /\ phase \in {"placeholder", "bootstrap"}
                /\ Becomes(c, Calling(phase, r, Bare(<<>>, path)))
        BY <1>2, <3>3, <4>1 DEF AppendToParquet
      <4>3. OnPath(Calling(phase, r, Bare(<<>>, path)))
        BY <4>2, NothingLogged DEF OnPath, Calling, Bare
      <4>. QED
        BY <4>2, <4>3
    <3>. QED
      BY <3>1, <3>2, <3>3
  <2>. QED
    BY <2>1, <2>2
<1>4. OnPath(call)'
  BY <1>1, <1>3 DEF OnPath, Logged, LogRuns
<1>. QED
  BY <1>1, <1>2, <1>3, <1>4, LoggedQuiet DEF Becomes

\* The Parquet files: the rows in hand and the log stay.
LEMMA LoggedFiles ==
    ASSUME LoggedInv, TypeInv', NEW c \in Processes,
           OpenPlaceholder(c) \/ FillPlaceholder(c) \/ OpenOutput(c) \/ FillOutput(c)
    PROVE  LoggedInv'
<1>1. UNCHANGED <<index, log, acked>>
  BY DEF OpenPlaceholder, FillPlaceholder, OpenOutput, FillOutput, counters
<1>2. TypeInv /\ OnPath(proc[c]) /\ proc[c] \in Call /\ files[Canonical].runs = <<>>
  BY DEF LoggedInv, OnDisk, TypeInv, TypeOK
<1>3. root => root'
  BY DEF OpenPlaceholder, FillPlaceholder, OpenOutput, FillOutput
<1>4. files'[Canonical].runs = <<>>
  <2>1. CASE OpenPlaceholder(c) \/ FillPlaceholder(c)
    BY <1>2, <2>1 DEF OpenPlaceholder, FillPlaceholder, Torn, Whole, LoggedInv, TypeInv, TypeOK
  <2>2. CASE OpenOutput(c) \/ FillOutput(c)
    <3>1. proc[c].snap.compacted # Canonical
      BY <1>2, <2>2 DEF OpenOutput, FillOutput, OnPath
    <3>. QED
      BY <1>2, <2>2, <3>1 DEF OpenOutput, FillOutput, LoggedInv, TypeInv, TypeOK, Paths
  <2>. QED
    BY <2>1, <2>2
<1>5. PICK call : /\ proc' = [proc EXCEPT ![c] = call]
                  /\ call.run = proc[c].run /\ call.snap.runs = proc[c].snap.runs
                  /\ \/ /\ call.phase = proc[c].phase
                        /\ call.phase = "output" => call.snap.compacted # Canonical
                        /\ call.phase \in {"placeholder", "output"}
                     \/ proc[c].phase = "placeholder" /\ call.phase = "bootstrap"
                     \/ proc[c].phase = "output" /\ call.phase = "reread"
  <2>1. CASE OpenPlaceholder(c) /\ files[Canonical].state = "missing"
    <3>. DEFINE call == [proc[c] EXCEPT !.open = TRUE, !.snap.compacted = Canonical]
    <3>1. proc' = [proc EXCEPT ![c] = call]
      BY <2>1 DEF OpenPlaceholder, LoggedInv, TypeInv, TypeOK
    <3>2. /\ call.phase = "placeholder" /\ call.run = proc[c].run
          /\ call.snap.runs = proc[c].snap.runs
      BY <1>2, <2>1 DEF OpenPlaceholder, Call, Snap
    <3>. QED
      BY <2>1, <3>1, <3>2 DEF OpenPlaceholder
  <2>2. CASE Turns(c, "bootstrap") /\ proc[c].phase = "placeholder"
    <3>1. PICK call : /\ proc' = [proc EXCEPT ![c] = call]
                      /\ call.phase = "bootstrap" /\ call.run = proc[c].run
                      /\ call.snap = proc[c].snap
      BY <1>2, <2>2, TurnsCall
    <3>. QED
      BY <2>2, <3>1
  <2>3. CASE OpenOutput(c)
    <3>. DEFINE call == [proc[c] EXCEPT !.open = TRUE]
    <3>1. proc' = [proc EXCEPT ![c] = call]
      BY <2>3 DEF OpenOutput, LoggedInv, TypeInv, TypeOK
    <3>2. call.phase = "output" /\ call.run = proc[c].run /\ call.snap = proc[c].snap
      BY <1>2, <2>3 DEF OpenOutput, Call
    <3>3. proc[c].phase = "output" /\ call.snap.compacted # Canonical
      BY <1>2, <2>3, <3>2 DEF OnPath, OpenOutput
    <3>. QED
      BY <3>1, <3>2, <3>3
  <2>4. CASE FillOutput(c)
    <3>1. proc[c].phase = "output" /\ proc[c].snap.compacted # Canonical
      BY <1>2, <2>4 DEF OnPath, FillOutput
    <3>2. Turns(c, "reread")
      BY <2>4, <3>1 DEF FillOutput
    <3>3. PICK call : /\ proc' = [proc EXCEPT ![c] = call]
                      /\ call.phase = "reread" /\ call.run = proc[c].run
                      /\ call.snap = proc[c].snap
      BY <1>2, <3>2, TurnsCall
    <3>. QED
      BY <3>1, <3>3
  <2>. QED
    BY <2>1, <2>2, <2>3, <2>4 DEF OpenPlaceholder, FillPlaceholder
<1>6. OnPath(call)'
  <2>1. Logged(call.snap.runs)'
    BY <1>1, <1>2, <1>5 DEF OnPath, Logged
  <2>2. call.phase \in {"placeholder", "bootstrap"} => call.snap.runs = <<>>
    BY <1>2, <1>5 DEF OnPath
  <2>3. call.phase \in {"output", "reread"} => call.run = None
    BY <1>2, <1>5 DEF OnPath
  <2>. QED
    BY <1>5, <2>1, <2>2, <2>3 DEF OnPath
<1>. QED
  BY <1>1, <1>3, <1>4, <1>5, <1>6, LoggedQuiet

\* The parts: the parts directory is there before any row is logged.
LEMMA LoggedParts ==
    ASSUME LoggedInv, TypeInv', NEW c \in Processes,
           \/ ChoosePart(c) \/ OpenPart(c) \/ FillPart(c)
           \/ ReadPart(c) /\ ~Becomes(c, Idle)
    PROVE  LoggedInv'
<1>1. /\ UNCHANGED <<files, index, log, acked>> /\ ~LogRow(c)
      /\ root' \/ (proc[c].phase \in {"rows", "write"} /\ UNCHANGED root)
  BY DEF ChoosePart, ReadPart, OpenPart, FillPart, LogRow, disk, counters
<1>2. TypeInv /\ OnPath(proc[c]) /\ files[Canonical].runs = <<>>
  BY DEF LoggedInv, OnDisk
<1>3. PICK call : /\ proc' = [proc EXCEPT ![c] = call]
                  /\ call.phase \in {"rows", "write", "log"}
                  /\ call.snap.runs = proc[c].snap.runs
  BY <1>1, <1>2, PartCall
<1>4. root'
  BY <1>1, <1>2 DEF OnPath
<1>5. Logged(call.snap.runs)'
  BY <1>1, <1>2, <1>3 DEF OnPath, Logged
<1>6. OnPath(call)'
  BY <1>3, <1>4, <1>5 DEF OnPath
<1>. QED
  BY <1>1, <1>2, <1>3, <1>4, <1>6, LoggedQuiet

LEMMA LoggedEnd ==
    ASSUME LoggedInv, TypeInv', NEW c \in Processes,
           \/ ReadPart(c) /\ Becomes(c, Idle)
           \/ Return(c) \/ Crash(c)
    PROVE  LoggedInv'
<1>1. /\ Becomes(c, Idle) /\ UNCHANGED <<files, index, log>>
      /\ root => root'
  BY DEF ReadPart, Return, Crash, disk
<1>2. OnPath(Idle)'
  BY NothingLogged DEF OnPath, Idle, Logged
<1>3. OnDisk'
  <2>1. \A r \in Runs : acked'[r] > 0 => r \in LogRuns
    <3>1. CASE UNCHANGED acked
      BY <3>1 DEF LoggedInv, OnDisk
    <3>2. CASE Return(c) /\ proc[c].run # None
      <4>1. proc[c].run \in LogRuns
        BY <3>2 DEF Return, LoggedInv, OnPath
      <4>2. \A r \in Runs : r # proc[c].run => acked'[r] = acked[r]
        BY <3>2 DEF Return, LoggedInv, TypeInv, TypeOK
      <4>. QED
        BY <4>1, <4>2 DEF LoggedInv, OnDisk
    <3>. QED
      BY <3>1, <3>2 DEF ReadPart, Return, Crash, counters
  <2>. QED
    BY <1>1, <2>1 DEF LoggedInv, OnDisk, Logged, LogRuns
<1>. QED
  BY <1>1, <1>2, <1>3, LoggedMoves DEF Becomes

\* The row is logged at its place before the index has it.
LEMMA LoggedLogRow ==
    ASSUME LoggedInv, TypeInv', NEW c \in Processes, LogRow(c)
    PROVE  LoggedInv'
<1>1. TypeInv /\ OnPath(proc[c]) /\ proc[c] \in Call /\ CallHolds(proc[c])
      /\ proc[c].phase = "log"
  BY DEF LogRow, LoggedInv, TypeInv, TypeOK
<1>. PICK runs, run : runs = proc[c].snap.runs /\ run = proc[c].run
  OBVIOUS
<1>2. runs \in Seq(Runs) /\ run \in Runs /\ Logged(runs) /\ root
  BY <1>1 DEF Call, Snap, CallHolds, OnPath
<1>3. log' = log \cup {[run |-> run, at |-> Len(runs)]}
  BY DEF LogRow
<1>4. PICK parts : proc' = [proc EXCEPT ![c] =
                      [proc[c] EXCEPT !.phase = "index", !.snap.runs = Append(runs, run),
                                      !.snap.parts = parts]]
  BY <1>1, LogRowCall
<1>5. PICK call : /\ proc' = [proc EXCEPT ![c] = call]
                  /\ call.phase = "index" /\ call.run = run
                  /\ call.snap.runs = Append(runs, run)
  <2>. DEFINE call == [proc[c] EXCEPT !.phase = "index", !.snap.runs = Append(runs, run),
                                      !.snap.parts = parts]
  <2>1. call.phase = "index" /\ call.run = run /\ call.snap.runs = Append(runs, run)
    BY <1>1 DEF Call, Snap
  <2>. QED
    BY <1>4, <2>1
<1>6. Logged(Append(runs, run))'
  <2>1. \A i \in 1 .. Len(runs) : Append(runs, run)[i] = runs[i]
    BY <1>2
  <2>2. /\ Len(Append(runs, run)) = Len(runs) + 1 /\ Len(runs) \in Nat
        /\ Append(runs, run)[Len(runs) + 1] = run
    BY <1>2
  <2>. SUFFICES ASSUME NEW i \in 1 .. Len(Append(runs, run))
                PROVE  [run |-> Append(runs, run)[i], at |-> i - 1] \in log'
    BY DEF Logged
  <2>3. CASE i \in 1 .. Len(runs)
    <3>1. [run |-> runs[i], at |-> i - 1] \in log
      BY <1>2, <2>3 DEF Logged
    <3>. QED
      BY <1>3, <2>1, <2>3, <3>1
  <2>4. CASE i = Len(runs) + 1
    <3>1. i - 1 = Len(runs)
      BY <2>2, <2>4
    <3>. QED
      BY <1>3, <2>2, <2>4, <3>1
  <2>. QED
    BY <2>2, <2>3, <2>4
<1>7. run \in LogRuns'
  <2>1. [run |-> run, at |-> Len(runs)] \in log'
    BY <1>3
  <2>2. [run |-> run, at |-> Len(runs)].run = run
    OBVIOUS
  <2>. QED
    BY <2>1, <2>2 DEF LogRuns
<1>8. OnPath(call)'
  <2>1. Logged(call.snap.runs)'
    BY <1>5, <1>6 DEF Logged
  <2>. QED
    BY <1>5, <1>7, <2>1 DEF OnPath
<1>9. OnDisk'
  <2>1. UNCHANGED <<files, index, root, acked>>
    BY DEF LogRow, counters
  <2>. QED
    BY <1>2, <1>3, <2>1 DEF LoggedInv, OnDisk, Logged, LogRuns
<1>. QED
  BY <1>2, <1>3, <1>5, <1>8, <1>9, LoggedMoves DEF LogRow

\* Whatever the index is after a rename, its rows are logged: they are those of
\* some call, or it is torn.
LEMMA LoggedDocuments ==
    ASSUME LoggedInv, UNCHANGED <<files, log, root, acked>>,
           index' = index \/ index' = TornIndex \/ \E d \in Processes : index' = Document(d)
    PROVE  OnDisk'
<1>1. Logged(index'.runs) /\ index'.kind # "rows"
  <2>1. CASE index' = index
    BY <2>1 DEF LoggedInv, OnDisk
  <2>2. CASE index' = TornIndex
    BY <2>2, NothingLogged DEF TornIndex, NoIndex
  <2>3. ASSUME NEW d \in Processes, index' = Document(d)
        PROVE  Logged(index'.runs) /\ index'.kind # "rows"
    <3>1. OnPath(proc[d])
      BY DEF LoggedInv
    <3>2. Document(d) = PartIndex(proc[d].snap)
      BY <3>1 DEF OnPath, Document
    <3>. QED
      BY <2>3, <3>1, <3>2 DEF OnPath, PartIndex
  <2>. QED
    BY <2>1, <2>2, <2>3
<1>. QED
  BY <1>1 DEF LoggedInv, OnDisk, Logged, LogRuns

LEMMA LoggedIndex ==
    ASSUME LoggedInv, TypeInv', NEW c \in Processes,
           WriteBootstrapIndex(c) \/ WriteIndex(c)
    PROVE  LoggedInv'
<1>1. /\ TypeInv /\ OnPath(proc[c]) /\ UNCHANGED <<files, log, root, acked>>
      /\ \A d \in Processes : OnPath(proc[d]) /\ proc[d] \in Call
  BY DEF LoggedInv, TypeInv, TypeOK, WriteBootstrapIndex, WriteIndex, counters
<1>2. PICK phase \in {"part", "return"} :
         /\ Replace(c, phase)
         /\ phase = "return" /\ proc[c].run # None => proc[c].phase = "index"
  BY <1>1 DEF WriteBootstrapIndex, WriteIndex, OnPath
<1>3. PICK writers \in SUBSET Writers :
         /\ index' \in Renamed(c, writers)
         /\ proc' = [d \in Processes |->
               IF d = c THEN [proc[d] EXCEPT !.phase = phase, !.open = FALSE, !.temp = "named"]
               ELSE IF d \in writers THEN [proc[d] EXCEPT !.temp = "index"]
               ELSE IF proc[d].temp = "index" THEN [proc[d] EXCEPT !.temp = "gone"]
               ELSE proc[d]]
  BY <1>2 DEF Replace
<1>4. OnDisk'
  BY <1>1, <1>3, LoggedDocuments DEF Renamed, Writers
<1>5. ASSUME NEW d \in Processes PROVE OnPath(proc[d])'
  <2>1. CASE d = c
    <3>1. /\ proc'[d].phase = phase /\ proc'[d].run = proc[c].run
          /\ proc'[d].snap = proc[c].snap
      BY <1>1, <1>3, <2>1 DEF Call
    <3>. QED
      BY <1>1, <1>2, <3>1 DEF OnPath, Logged, LogRuns
  <2>2. CASE d # c
    <3>1. /\ proc'[d].phase = proc[d].phase /\ proc'[d].run = proc[d].run
          /\ proc'[d].snap = proc[d].snap
      BY <1>1, <1>3, <2>2 DEF Call
    <3>. QED
      BY <1>1, <3>1 DEF OnPath, Logged, LogRuns
  <2>. QED
    BY <2>1, <2>2
<1>. QED
  BY <1>4, <1>5 DEF LoggedInv

LEMMA LoggedOvertaken ==
    ASSUME LoggedInv, TypeInv', NEW c \in Processes, Overtaken(c)
    PROVE  LoggedInv'
<1>1. Becomes(c, Idle) /\ UNCHANGED <<files, log, root, acked>>
  BY DEF Overtaken, counters
<1>2. OnDisk'
  BY <1>1, LoggedDocuments DEF Overtaken
<1>3. OnPath(Idle)'
  BY NothingLogged DEF OnPath, Idle, Logged
<1>. QED
  BY <1>1, <1>2, <1>3, LoggedMoves DEF Becomes

LEMMA LoggedReread ==
    ASSUME LoggedInv, TypeInv', NEW c \in Processes, Reread(c)
    PROVE  LoggedInv'
<1>1. /\ TypeInv /\ OnPath(proc[c]) /\ OnDisk /\ proc[c] \in Call
      /\ UNCHANGED <<files, index, log, root, acked>> /\ proc[c].phase = "reread"
  BY DEF LoggedInv, TypeInv, TypeOK, Reread, disk, counters
<1>2. PICK call : proc' = [proc EXCEPT ![c] = call] /\ OnPath(call)
  <2>1. CASE Becomes(c, Idle)
    <3>1. OnPath(Idle)
      BY NothingLogged DEF OnPath, Idle
    <3>. QED
      BY <2>1, <3>1 DEF Becomes
  <2>2. CASE PartIndexHolds /\ Turns(c, "index")
    <3>1. PICK call : /\ proc' = [proc EXCEPT ![c] = call]
                      /\ call.phase = "index" /\ call.run = proc[c].run
                      /\ call.snap = proc[c].snap
      BY <1>1, <2>2, TurnsCall
    <3>. QED
      BY <1>1, <3>1 DEF OnPath
  <2>3. CASE NoPartIndex /\ Turns(c, "bootstrap")
    <3>1. PICK call : /\ proc' = [proc EXCEPT ![c] = call]
                      /\ call.phase = "bootstrap" /\ call.run = proc[c].run
                      /\ call.snap = proc[c].snap
      BY <1>1, <2>3, TurnsCall
    <3>2. log = {}
      BY <1>1, <2>3 DEF NoPartIndex, OnDisk
    <3>3. proc[c].snap.runs = <<>>
      <4>1. proc[c].snap.runs \in Seq(Runs)
        BY <1>1 DEF Call, Snap
      <4>2. Len(proc[c].snap.runs) = 0
        BY <1>1, <3>2, <4>1 DEF OnPath, Logged
      <4>. QED
        BY <4>1, <4>2
    <3>. QED
      BY <1>1, <3>1, <3>3 DEF OnPath
  <2>. QED
    BY <2>1, <2>2, <2>3 DEF Reread
<1>3. OnPath(call)'
  BY <1>1, <1>2 DEF OnPath, Logged, LogRuns
<1>. QED
  BY <1>1, <1>2, <1>3, LoggedQuiet DEF OnDisk

LEMMA LoggedNext ==
    ASSUME Canonical \notin Outputs, LoggedInv, [Next]_vars
    PROVE  LoggedInv'
<1>1. TypeInv'
  BY TypeInvKept DEF LoggedInv
<1>2. CASE UNCHANGED vars
  <2>1. UNCHANGED <<files, index, log, root, proc, acked>>
    BY <1>2 DEF vars, disk, counters
  <2>. QED
    BY <1>1, <2>1 DEF LoggedInv, OnDisk, OnPath, Logged, LogRuns
<1>3. ASSUME NEW c \in Processes, LogBootstrap(c) \/ WriteSidecar(c) PROVE FALSE
  BY <1>3 DEF LoggedInv, OnPath, LogBootstrap, WriteSidecar
<1>4. ASSUME NEW c \in Processes, AppendStep(c) PROVE LoggedInv'
  BY <1>1, <1>4, LoggedBegin, LoggedFiles, LoggedParts, LoggedEnd, LoggedLogRow
     DEF AppendStep
<1>5. ASSUME NEW c \in Processes, CompactStep(c) PROVE LoggedInv'
  BY <1>1, <1>3, <1>5, LoggedBegin, LoggedFiles, LoggedReread DEF CompactStep
<1>6. ASSUME NEW c \in Processes, Crash(c) \/ Return(c) PROVE LoggedInv'
  BY <1>1, <1>6, LoggedEnd
<1>7. ASSUME NEW c \in Processes, WriteBootstrapIndex(c) \/ WriteIndex(c) PROVE LoggedInv'
  BY <1>1, <1>7, LoggedIndex
<1>8. ASSUME NEW c \in Processes, Overtaken(c) PROVE LoggedInv'
  BY <1>1, <1>8, LoggedOvertaken
<1>. QED
  BY <1>2, <1>3, <1>4, <1>5, <1>6, <1>7, <1>8 DEF Next

LEMMA LoggedInit == Init => LoggedInv
<1>. SUFFICES ASSUME Init PROVE LoggedInv
  OBVIOUS
<1>1. OnDisk
  BY NothingLogged DEF Init, OnDisk, NoIndex, Missing, Paths
<1>2. OnPath(Idle)
  BY NothingLogged DEF OnPath, Idle
<1>. QED
  BY <1>1, <1>2, TypeInvInit DEF LoggedInv, Init

\* Whatever is read is logged, and nothing that is logged is left out.
ReadsTheLog ==
    Readable =>
        /\ ReadRows \in Seq(Runs) /\ Logged(ReadRows)
        /\ \A e \in log : e.at \in Nat /\ e.at < Len(ReadRows) /\ ReadRows[e.at + 1] = e.run

LEMMA LoggedReads == LoggedInv => ReadsTheLog
<1>. SUFFICES ASSUME LoggedInv, Readable
              PROVE  /\ ReadRows \in Seq(Runs) /\ Logged(ReadRows)
                     /\ \A e \in log : /\ e.at \in Nat /\ e.at < Len(ReadRows)
                                       /\ ReadRows[e.at + 1] = e.run
  BY DEF ReadsTheLog
<1>1. ReadRows \in Seq(Runs) /\ \A e \in log : e.at \in Nat
  BY ReadRowsType DEF LoggedInv, TypeInv, TypeOK
<1>2. CASE PartIndexHolds
  BY <1>1, <1>2 DEF PartIndexHolds, LogHolds, ReadRows, LoggedInv, OnDisk
<1>3. CASE NoPartIndex
  <2>1. log = {} /\ ReadRows = <<>>
    BY <1>3 DEF NoPartIndex, LoggedInv, OnDisk, ReadRows
  <2>. QED
    BY <1>1, <2>1, NothingLogged
<1>. QED
  BY <1>2, <1>3 DEF Readable

\* A reader of the log gets the rows an earlier reader got, and perhaps more.
LEMMA LogReadersSeeItGrow ==
    ASSUME LoggedInv, [Next]_vars, ReadsTheLog, ReadsTheLog', Readable, Readable'
    PROVE  /\ Len(ReadRows) =< Len(ReadRows')
           /\ \A i \in 1 .. Len(ReadRows) : ReadRows'[i] = ReadRows[i]
<1>1. log \subseteq log'
  <2>1. CASE UNCHANGED vars
    BY <2>1 DEF vars, disk
  <2>2. ASSUME NEW c \in Processes, AppendStep(c) PROVE log \subseteq log'
    BY <2>2 DEF AppendStep, BeginAppend, OpenPlaceholder, FillPlaceholder, ChoosePart,
             ReadPart, OpenPart, FillPart, LogRow, disk
  <2>3. ASSUME NEW c \in Processes, CompactStep(c) PROVE log \subseteq log'
    BY <2>3 DEF CompactStep, BeginCompact, OpenOutput, FillOutput, WriteSidecar, Reread, disk
  <2>4. ASSUME NEW c \in Processes,
               \/ Crash(c) \/ WriteBootstrapIndex(c) \/ LogBootstrap(c)
               \/ WriteIndex(c) \/ Overtaken(c) \/ Return(c)
        PROVE  log \subseteq log'
    BY <2>4 DEF Crash, WriteBootstrapIndex, LogBootstrap, WriteIndex, Overtaken, Return, disk
  <2>. QED
    BY <2>1, <2>2, <2>3, <2>4 DEF Next
<1>2. /\ ReadRows \in Seq(Runs) /\ Logged(ReadRows)
      /\ ReadRows' \in Seq(Runs)
      /\ \A e \in log' : e.at \in Nat /\ e.at < Len(ReadRows') /\ ReadRows'[e.at + 1] = e.run
  BY DEF ReadsTheLog
<1>3. ASSUME NEW i \in 1 .. Len(ReadRows)
      PROVE  i =< Len(ReadRows') /\ ReadRows'[i] = ReadRows[i]
  <2>. DEFINE e == [run |-> ReadRows[i], at |-> i - 1]
  <2>1. e \in log'
    BY <1>1, <1>2 DEF Logged
  <2>2. e.at < Len(ReadRows') /\ ReadRows'[e.at + 1] = e.run
    BY <1>2, <2>1
  <2>3. e.at = i - 1 /\ e.run = ReadRows[i] /\ (i - 1) + 1 = i
    BY <1>2
  <2>. HIDE DEF e
  <2>. QED
    BY <1>2, <2>2, <2>3
<1>4. Len(ReadRows) \in Nat /\ Len(ReadRows') \in Nat
  BY <1>2
<1>. QED
  BY <1>3, <1>4

-----------------------------------------------------------------------------
(* Calls that do not overlap: what an append call returned is in the index *)
(* for good, and a run that is in the index is not appended again.         *)

HoldsRow(call) ==
    /\ call.phase = "index" /\ call.run # None =>
          /\ call.run \notin Members(index.runs)
          /\ call.snap.runs = Append(index.runs, call.run)
    /\ call.phase = "return" /\ call.run # None =>
          call.run \in Members(index.runs) /\ acked[call.run] = 0

AckInv ==
    /\ \A r \in Runs : acked[r] =< 1 /\ (acked[r] > 0 => r \in Members(index.runs))
    /\ \A c \in Processes : HoldsRow(proc[c])

LEMMA MembersGrow ==
    ASSUME TypeInv, LogStep
    PROVE  Members(index.runs) \subseteq Members(index.runs)'
<1>1. CASE UNCHANGED index.runs
  BY <1>1 DEF Members
<1>2. ASSUME NEW r \in Runs, index.runs' = Append(index.runs, r)
      PROVE  Members(index.runs) \subseteq Members(index.runs)'
  <2>1. index.runs \in Seq(Runs)
    BY DEF TypeInv, TypeOK, Index
  <2>2. \A i \in 1 .. Len(index.runs) :
           i \in 1 .. Len(index.runs') /\ index.runs'[i] = index.runs[i]
    BY <1>2, <2>1
  <2>. QED
    BY <2>2 DEF Members
<1>. QED
  BY <1>1, <1>2 DEF LogStep

\* A step of c that acknowledges nothing.
LEMMA AckQuiet ==
    ASSUME TypeInv, AckInv, LogStep, UNCHANGED acked, NEW c \in Processes,
           \A d \in Processes : d # c => proc'[d] = Idle, HoldsRow(proc[c])'
    PROVE  AckInv'
<1>1. \A d \in Processes : HoldsRow(proc[d])'
  BY DEF HoldsRow, Idle
<1>. QED
  BY <1>1, MembersGrow DEF AckInv

LEMMA AckNext ==
    ASSUME ~Overlap, LogInv, AckInv, [Next]_vars
    PROVE  AckInv'
<1>1. TypeInv /\ LogStep /\ LogInv'
  BY LogNext DEF LogInv
<1>2. CASE UNCHANGED vars
  <2>1. UNCHANGED <<index, proc, acked>>
    BY <1>2 DEF vars, disk, counters
  <2>. QED
    BY <2>1 DEF AckInv, HoldsRow, Members
<1>3. ASSUME NEW c \in Processes, proc[c].phase # "idle"
      PROVE  /\ \A d \in Processes : d # c => proc[d] = Idle
             /\ proc[c] \in Call /\ CallHolds(proc[c]) /\ Faithful(proc[c]) /\ HoldsRow(proc[c])
  BY <1>3, BusyAlone DEF AckInv
<1>4. ASSUME NEW c \in Processes, LogRow(c) PROVE AckInv'
  <2>1. proc[c].phase = "log" /\ UNCHANGED <<index, acked>>
    BY <1>4 DEF LogRow, counters
  <2>2. /\ proc[c].run \in Runs /\ proc[c].run \notin Members(index.runs)
        /\ proc[c].snap.runs = index.runs /\ \A d \in Processes : d # c => proc[d] = Idle
    BY <1>3, <2>1, RunsAssumption DEF CallHolds, Faithful, Phases
  <2>3. PICK parts : proc' = [proc EXCEPT ![c] =
                        [proc[c] EXCEPT !.phase = "index",
                                        !.snap.runs = Append(index.runs, proc[c].run),
                                        !.snap.parts = parts]]
    BY <1>1, <1>4, <2>2, LogRowCall
  <2>4. proc'[c].run = proc[c].run /\ proc'[c].phase = "index"
        /\ proc'[c].snap.runs = Append(index.runs, proc[c].run)
    BY <1>1, <1>3, <2>1, <2>3 DEF TypeInv, TypeOK, Call, Snap
  <2>5. \A d \in Processes : d # c => proc'[d] = Idle
    BY <1>1, <2>2, <2>3 DEF TypeInv, TypeOK
  <2>6. HoldsRow(proc[c])'
    BY <2>1, <2>2, <2>4 DEF HoldsRow, Members
  <2>. QED
    BY <1>1, <2>1, <2>5, <2>6, AckQuiet
<1>5. ASSUME NEW c \in Processes, WriteIndex(c) PROVE AckInv'
  <2>1. proc[c].phase = "index" /\ UNCHANGED acked /\ index'.runs = proc[c].snap.runs
    BY <1>5, SerialWrites DEF WriteIndex, counters, PartIndex
  <2>2. PICK call : /\ proc' = [proc EXCEPT ![c] = call]
                    /\ call.phase = "return" /\ call.run = proc[c].run
    BY <1>1, <1>5, SerialWrites, TurnsCall
  <2>3. /\ proc'[c] = call /\ \A d \in Processes : d # c => proc'[d] = Idle
    BY <1>1, <1>3, <2>1, <2>2 DEF TypeInv, TypeOK
  <2>4. ASSUME proc[c].run # None
        PROVE  proc[c].run \in Members(index.runs)' /\ acked[proc[c].run] = 0
    <3>1. /\ proc[c].run \in Runs /\ proc[c].run \notin Members(index.runs)
          /\ index'.runs = Append(index.runs, proc[c].run)
      BY <1>3, <2>1, <2>4 DEF HoldsRow, Call
    <3>2. index.runs \in Seq(Runs)
      BY <1>1 DEF TypeInv, TypeOK, Index
    <3>3. /\ Len(index.runs) + 1 \in 1 .. Len(index'.runs)
          /\ index'.runs[Len(index.runs) + 1] = proc[c].run
      BY <3>1, <3>2
    <3>4. acked[proc[c].run] = 0
      BY <1>1, <3>1 DEF AckInv, TypeInv, TypeOK
    <3>. QED
      BY <3>3, <3>4 DEF Members
  <2>5. HoldsRow(proc[c])'
    BY <2>1, <2>2, <2>3, <2>4 DEF HoldsRow
  <2>. QED
    BY <1>1, <2>1, <2>3, <2>5, AckQuiet
<1>6. ASSUME NEW c \in Processes, Return(c) PROVE AckInv'
  <2>1. proc[c].phase = "return" /\ UNCHANGED index /\ Becomes(c, Idle)
    BY <1>6 DEF Return, disk
  <2>2. \A d \in Processes : proc'[d] = Idle
    BY <1>1, <1>3, <2>1 DEF Becomes, TypeInv, TypeOK
  <2>3. ASSUME NEW r \in Runs
        PROVE  acked'[r] =< 1 /\ (acked'[r] > 0 => r \in Members(index.runs))
    <3>1. CASE r = proc[c].run
      <4>1. r # None /\ r \in Members(index.runs) /\ acked[r] = 0
        BY <1>3, <2>1, <3>1, RunsAssumption DEF HoldsRow
      <4>2. acked'[r] = 1
        BY <1>1, <1>6, <3>1, <4>1 DEF Return, TypeInv, TypeOK
      <4>. QED
        BY <4>1, <4>2
    <3>2. CASE r # proc[c].run
      <4>1. acked'[r] = acked[r]
        BY <1>1, <1>6, <3>2 DEF Return, TypeInv, TypeOK
      <4>. QED
        BY <4>1 DEF AckInv
    <3>. QED
      BY <3>1, <3>2
  <2>. QED
    BY <2>1, <2>2, <2>3 DEF AckInv, HoldsRow, Idle, Members
<1>7. ASSUME NEW c \in Processes,
             \/ BeginAppend(c) \/ OpenPlaceholder(c) \/ FillPlaceholder(c)
             \/ ChoosePart(c) \/ ReadPart(c) \/ OpenPart(c) \/ FillPart(c) \/ Crash(c)
             \/ BeginCompact(c) \/ OpenOutput(c) \/ FillOutput(c) \/ WriteSidecar(c)
             \/ Reread(c) \/ WriteBootstrapIndex(c) \/ LogBootstrap(c)
      PROVE  AckInv'
  <2>1. UNCHANGED acked
    BY <1>7 DEF BeginAppend, OpenPlaceholder, FillPlaceholder, ChoosePart, ReadPart, OpenPart,
            FillPart, Crash, BeginCompact, OpenOutput, FillOutput, WriteSidecar, Reread,
            WriteBootstrapIndex, LogBootstrap, counters
  <2>2. /\ \A d \in Processes : d # c => proc'[d] = Idle
        /\ proc'[c].phase \notin {"index", "return"} \/ proc'[c].run = None
    <3>1. CASE BeginAppend(c)
      <4>1. PICK phase, r, snap :
               /\ phase \in {"part", "placeholder", "bootstrap"}
               /\ Becomes(c, Calling(phase, r, snap))
        BY <3>1 DEF BeginAppend, AppendToParts, AppendToParquet
      <4>. QED
        BY <1>1, <3>1, <4>1 DEF BeginAppend, Free, Becomes, Calling, TypeInv, TypeOK
    <3>2. CASE BeginCompact(c)
      BY <1>1, <3>2 DEF BeginCompact, Free, Becomes, Calling, TypeInv, TypeOK
    <3>3. CASE Crash(c) \/ (ReadPart(c) /\ Becomes(c, Idle))
      <4>1. proc[c] # Idle /\ Becomes(c, Idle)
        BY <3>3 DEF Crash, ReadPart, Idle
      <4>. QED
        BY <1>1, <1>3, <4>1 DEF Becomes, Idle, LogInv, TypeInv, TypeOK
    <3>4. CASE OpenPlaceholder(c) \/ FillPlaceholder(c)
      BY <1>1, <1>3, <3>4 DEF OpenPlaceholder, FillPlaceholder, Turns, TypeInv, TypeOK, Call
    <3>5. CASE ChoosePart(c) \/ OpenPart(c) \/ FillPart(c) \/ (ReadPart(c) /\ ~Becomes(c, Idle))
      <4>1. proc[c].phase \in {"part", "rows", "write"} /\ ~LogRow(c)
        BY <3>5 DEF ChoosePart, ReadPart, OpenPart, FillPart, LogRow
      <4>2. PICK call : /\ proc' = [proc EXCEPT ![c] = call]
                        /\ call.phase \in {"rows", "write", "log"}
        BY <1>1, <3>5, <4>1, PartCall
      <4>. QED
        BY <1>1, <1>3, <4>1, <4>2 DEF TypeInv, TypeOK
    <3>6. CASE OpenOutput(c) \/ FillOutput(c)
      BY <1>1, <1>3, <3>6 DEF OpenOutput, FillOutput, Turns, TypeInv, TypeOK, Call
    <3>7. CASE WriteSidecar(c) \/ Reread(c)
      <4>0. WriteSidecar(c) => Turns(c, "reread")
        BY SerialWrites
      <4>1. proc[c].phase \in {"sidecar", "reread"}
        BY <3>7 DEF WriteSidecar, Reread
      <4>2. /\ \A d \in Processes : d # c => proc[d] = Idle
            /\ proc[c] \in Call /\ proc[c].run = None
        BY <1>3, <4>1 DEF Faithful
      <4>3. CASE Becomes(c, Idle)
        BY <1>1, <4>2, <4>3 DEF Becomes, Idle, TypeInv, TypeOK
      <4>4. ASSUME NEW phase, Turns(c, phase)
            PROVE  /\ \A d \in Processes : d # c => proc'[d] = Idle
                   /\ proc'[c].run = None
        BY <1>1, <4>2, <4>4 DEF Turns, TypeInv, TypeOK, Call
      <4>. QED
        BY <3>7, <4>0, <4>3, <4>4 DEF Reread
    <3>8. CASE WriteBootstrapIndex(c) \/ LogBootstrap(c)
      <4>1. PICK phase \in {"bootlog", "part", "return"} :
               Turns(c, phase) /\ (phase = "return" => proc[c].run = None)
        BY <3>8, SerialWrites DEF LogBootstrap
      <4>2. proc[c].phase # "idle"
        BY <3>8 DEF WriteBootstrapIndex, LogBootstrap
      <4>. QED
        BY <1>1, <1>3, <4>1, <4>2 DEF Turns, TypeInv, TypeOK, Call
    <3>. QED
      BY <1>7, <3>1, <3>2, <3>3, <3>4, <3>5, <3>6, <3>7, <3>8
  <2>3. HoldsRow(proc[c])'
    BY <2>2 DEF HoldsRow
  <2>. QED
    BY <1>1, <2>1, <2>2, <2>3, AckQuiet
<1>. QED
  BY <1>2, <1>4, <1>5, <1>6, <1>7, SerialWrites DEF Next, AppendStep, CompactStep

LEMMA AckInit == Init => AckInv
<1>. SUFFICES ASSUME Init PROVE AckInv
  OBVIOUS
<1>1. HoldsRow(Idle)
  BY DEF HoldsRow, Idle
<1>. QED
  BY <1>1 DEF Init, AckInv

LEMMA LogAlways ==
    ASSUME ~Overlap
    PROVE  Spec => [](LogInv /\ AckInv)
<1>1. Init => LogInv /\ AckInv
  BY LogInit, AckInit
<1>2. LogInv /\ AckInv /\ [Next]_vars => (LogInv /\ AckInv)'
  BY LogNext, AckNext
<1>. QED
  BY <1>1, <1>2, PTL DEF Spec

LEMMA LoggedAlways ==
    ASSUME Canonical \notin Outputs
    PROVE  Spec => []LoggedInv
<1>1. Init => LoggedInv
  BY LoggedInit
<1>2. LoggedInv /\ [Next]_vars => LoggedInv'
  BY LoggedNext
<1>. QED
  BY <1>1, <1>2, PTL DEF Spec

\* "Duplicate run ids fail": when calls do not overlap, however many of them
\* crash at whatever point, at most one append call returns a row for a run.
THEOREM SerialDuplicatesFail ==
    ASSUME ~Overlap
    PROVE  Spec => []DuplicatesFail
<1>1. AckInv => DuplicatesFail
  BY DEF AckInv, DuplicatesFail
<1>2. Spec => [](LogInv /\ AckInv)
  BY LogAlways
<1>. QED
  BY <1>1, <1>2, PTL

\* A reader is never given a ledger that lacks a row some append call returned,
\* whatever crashed or was left torn, if calls do not overlap, or if none of
\* them compacts onto the canonical file: the append log, written before the
\* index, makes an index that has lost a row invalid.
THEOREM NoRowIsLostToReaders ==
    ASSUME ~Overlap \/ Canonical \notin Outputs
    PROVE  Spec => []FailsClosed
<1>1. LogInv /\ AckInv => FailsClosed
  BY ReadsIndex DEF AckInv, FailsClosed
<1>2. LoggedInv => FailsClosed
  <2>. SUFFICES ASSUME LoggedInv, Readable, NEW r \in Runs, acked[r] > 0
                PROVE  r \in Members(ReadRows)
    BY DEF FailsClosed
  <2>1. PICK e \in log : e.run = r
    BY DEF LoggedInv, OnDisk, LogRuns
  <2>2. /\ ReadRows \in Seq(Runs) /\ e.at \in Nat
        /\ e.at < Len(ReadRows) /\ ReadRows[e.at + 1] = r
    BY <2>1, LoggedReads DEF ReadsTheLog
  <2>3. e.at + 1 \in 1 .. Len(ReadRows)
    BY <2>2
  <2>. QED
    BY <2>2, <2>3 DEF Members
<1>3. CASE ~Overlap
  <2>1. Spec => [](LogInv /\ AckInv)
    BY <1>3, LogAlways
  <2>. QED
    BY <1>1, <2>1, PTL
<1>4. CASE Canonical \notin Outputs
  <2>1. Spec => []LoggedInv
    BY <1>4, LoggedAlways
  <2>. QED
    BY <1>2, <2>1, PTL
<1>. QED
  BY <1>3, <1>4

\* Of two readers, one after the other, the second sees the same rows in the
\* same order, possibly more, even with appends and compactions in flight at
\* the same time, if none of them compacts onto the canonical file: an index
\* written back from a stale snapshot no longer agrees with the append log.
THEOREM ReadersAlwaysSeeItGrow ==
    ASSUME ~Overlap \/ Canonical \notin Outputs
    PROVE  Spec => ReadersSeeItGrow
<1>1. CASE ~Overlap
  BY <1>1, SerialReadersSeeItGrow
<1>2. CASE Canonical \notin Outputs
  <2>1. LoggedInv => ReadsTheLog
    BY LoggedReads
  <2>2. /\ LoggedInv /\ ReadsTheLog /\ ReadsTheLog' /\ [Next]_vars
        => [Readable /\ Readable' =>
              /\ Len(ReadRows) =< Len(ReadRows')
              /\ \A i \in 1 .. Len(ReadRows) : ReadRows'[i] = ReadRows[i]]_vars
    BY LogReadersSeeItGrow
  <2>3. Spec => []LoggedInv
    BY <1>2, LoggedAlways
  <2>. QED
    BY <2>1, <2>2, <2>3, PTL DEF Spec, ReadersSeeItGrow
<1>. QED
  BY <1>1, <1>2

-----------------------------------------------------------------------------
(* A ledger no crash has touched and that was compacted onto itself only:  *)
(* between calls it is either untouched or whole, and in a call what is    *)
(* about to be committed is whole.                                         *)

Clean == crashes = 0 /\ \A path \in Paths \ {Canonical} : files[path] = Missing

\* A part index to be: the canonical file has the rows before the first part,
\* and each part has, at its place and in its file (as held says), the rows
\* the index has from there on.
Base(s) == IF s.parts = <<>> THEN Len(s.runs) ELSE s.parts[1].start

EndOf(s, i) == IF i = 0 THEN Base(s) ELSE s.parts[i].start + s.parts[i].count

PartHolds(s, i, held) ==
    LET p == s.parts[i] IN
    /\ p.start \in Positions /\ p.start = EndOf(s, i - 1)
    /\ p.count > 0 /\ p.count = Len(p.runs) /\ p.start + p.count =< Len(s.runs)
    /\ \A k \in 1 .. p.count : p.runs[k] = s.runs[p.start + k]
    /\ p.sha = Whole(p.start, p.runs) /\ held[p.start] = p.sha

SnapHolds(s, held) ==
    /\ s.compacted = Canonical
    /\ files[Canonical] = Whole(0, SubSeq(s.runs, 1, Base(s)))
    /\ \A i \in 1 .. Len(s.parts) : PartHolds(s, i, held)
    /\ \A i, j \in 1 .. Len(s.parts) : i < j => s.parts[i].start < s.parts[j].start
    /\ EndOf(s, Len(s.parts)) = Len(s.runs)

LogFits(runs) == \A e \in log : e.at < Len(runs) /\ runs[e.at + 1] = e.run

IndexSnap == [runs |-> index.runs, compacted |-> index.compacted, parts |-> index.parts]

Untouched == index = NoIndex /\ ~root /\ log = {} /\ files[Canonical] = Missing

Committed ==
    /\ index.kind = "parts" /\ index.sha = files[Canonical]
    /\ SnapHolds(IndexSnap, partFiles)
    /\ LogFits(index.runs)

\* The part index an append is about to commit, and the part files once the
\* one it has open is filled.
Final(call) ==
    [runs |-> Append(call.snap.runs, call.run), compacted |-> call.snap.compacted,
     parts |-> [call.snap.parts EXCEPT ![Len(call.snap.parts)].sha = call.file]]

Filled(call) == [partFiles EXCEPT ![call.file.start] = call.file]

Appends(call) ==
    /\ Len(call.snap.parts) > 0
    /\ call.file.start = call.snap.parts[Len(call.snap.parts)].start
    /\ SnapHolds(Final(call), Filled(call))
    /\ LogFits(call.snap.runs)

\* What a compaction, or an append to a ledger without parts, works from.
Compacts(call) ==
    /\ call.snap.compacted = Canonical /\ call.snap.parts = <<>>
    /\ LogFits(call.snap.runs)

SoundCall(call) ==
    /\ call.phase = "placeholder" =>
          /\ index = NoIndex /\ ~root /\ log = {}
          /\ call.snap.runs = <<>> /\ call.snap.parts = <<>>
          /\ IF call.open THEN call.snap.compacted = Canonical
                          ELSE files[Canonical] = Missing
    /\ call.phase = "bootstrap" => Compacts(call) /\ files[Canonical] = Whole(0, call.snap.runs)
    /\ call.phase \in {"bootlog", "return"} => Committed
    /\ call.phase = "bootlog" => call.snap = IndexSnap
    /\ call.phase \in {"part", "rows"} => Committed /\ call.snap = IndexSnap
    /\ call.phase = "rows" => Reusable(call.snap)
    /\ call.phase = "write" => Appends(call)
    /\ call.phase = "log" => Appends(call) /\ partFiles[call.file.start] = call.file
    /\ call.phase = "index" =>
          call.run \in Runs /\ SnapHolds(call.snap, partFiles) /\ LogFits(call.snap.runs)
    /\ call.phase = "output" /\ ~call.open =>
          (Untouched \/ Committed) /\ call.snap.parts = <<>>
    /\ call.phase = "output" /\ call.open => Compacts(call)
    /\ call.phase \in {"sidecar", "reread"} =>
          Compacts(call) /\ files[Canonical] = Whole(0, call.snap.runs)
    /\ call.phase = "reread" => index.kind = "rows"

Sound ==
    /\ AtRest => Untouched \/ Committed
    /\ \A c \in Processes : SoundCall(proc[c])

SoundInv == Clean => Sound

\* While none has died, a row of the index is one some call returned, or is
\* about to return.
Returning(r) == \E c \in Processes : proc[c].phase = "return" /\ proc[c].run = r

Backed == crashes = 0 => \A r \in Members(index.runs) : acked[r] > 0 \/ Returning(r)

LEMMA SnapParts ==
    ASSUME NEW s \in Snap, NEW i \in 1 .. Len(s.parts)
    PROVE  /\ s.parts[i] \in PartRef
           /\ s.parts[i].start \in Nat /\ s.parts[i].count \in Nat
           /\ s.parts[i].runs \in Seq(Runs)
<1>1. s.parts \in Seq(PartRef)
  BY DEF Snap
<1>2. s.parts[i] \in PartRef
  BY <1>1
<1>. QED
  BY <1>2 DEF PartRef

LEMMA BaseBound ==
    ASSUME NEW s \in Snap, NEW held, SnapHolds(s, held)
    PROVE  Base(s) \in Nat /\ Base(s) =< Len(s.runs)
<1>1. s.runs \in Seq(Runs) /\ s.parts \in Seq(PartRef)
  BY DEF Snap
<1>2. CASE s.parts = <<>>
  BY <1>1, <1>2 DEF Base
<1>3. CASE s.parts # <<>>
  <2>1. 1 \in 1 .. Len(s.parts)
    BY <1>1, <1>3
  <2>2. PartHolds(s, 1, held)
    BY <2>1 DEF SnapHolds
  <2>3. s.parts[1].start \in Nat /\ s.parts[1].count \in Nat
    BY <2>1, SnapParts
  <2>. QED
    BY <1>1, <1>3, <2>2, <2>3 DEF Base, PartHolds
<1>. QED
  BY <1>2, <1>3

LEMMA AppendedPrefix ==
    ASSUME NEW runs \in Seq(Runs), NEW r \in Runs, NEW b \in Nat, b =< Len(runs)
    PROVE  SubSeq(Append(runs, r), 1, b) = SubSeq(runs, 1, b)
<1>1. Append(runs, r) \in Seq(Runs) /\ Len(Append(runs, r)) = Len(runs) + 1
      /\ \A i \in 1 .. Len(runs) : Append(runs, r)[i] = runs[i]
  OBVIOUS
<1>2. \A i \in 1 .. b : Append(runs, r)[i] = runs[i] /\ runs[i] \in Runs
  BY <1>1
<1>3. /\ SubSeq(runs, 1, b) \in Seq(Runs)
      /\ Len(SubSeq(runs, 1, b)) = b
      /\ \A i \in 1 .. b : SubSeq(runs, 1, b)[i] = runs[i]
  BY <1>2, SubSeqProperties, SMT
<1>4. /\ SubSeq(Append(runs, r), 1, b) \in Seq(Runs)
      /\ Len(SubSeq(Append(runs, r), 1, b)) = b
      /\ \A i \in 1 .. b : SubSeq(Append(runs, r), 1, b)[i] = Append(runs, r)[i]
  BY <1>2, SubSeqProperties, SMT
<1>. QED
  BY <1>2, <1>3, <1>4, SeqEqual

\* The parts of s with one row more, of run r: the part p at place m, which is
\* the last part of s rewritten or a new one, and nothing else has changed.
AddsPart(s, held, r, parts, m, p, now) ==
    /\ Len(parts) = m /\ p = parts[m] /\ \A i \in 1 .. (m - 1) : parts[i] = s.parts[i]
    /\ m = Len(s.parts) \/ m = Len(s.parts) + 1
    /\ m = Len(s.parts) => p.start = s.parts[m].start
    /\ m = Len(s.parts) + 1 => p.start = Len(s.runs)
    /\ p.start \in Positions /\ p.count > 0 /\ p.count = Len(p.runs)
    /\ p.start + p.count = Len(s.runs) + 1
    /\ \A k \in 1 .. p.count : p.runs[k] = Append(s.runs, r)[p.start + k]
    /\ p.sha = Whole(p.start, p.runs) /\ now[p.start] = p.sha
    /\ \A x \in Positions \ {p.start} : now[x] = held[x]

\* A part index whose last part got one row more, or that got a part of one
\* row, is whole again once the file of that part is.
LEMMA NewPart ==
    ASSUME NEW s \in Snap, NEW held, SnapHolds(s, held), NEW r \in Runs,
           NEW parts \in Seq(PartRef), NEW m \in Nat \ {0}, NEW p, NEW now,
           AddsPart(s, held, r, parts, m, p, now)
    PROVE  SnapHolds([runs |-> Append(s.runs, r), compacted |-> s.compacted, parts |-> parts],
                     now)
<1>. /\ Len(parts) = m /\ p = parts[m] /\ \A i \in 1 .. (m - 1) : parts[i] = s.parts[i]
     /\ m = Len(s.parts) \/ m = Len(s.parts) + 1
     /\ m = Len(s.parts) => p.start = s.parts[m].start
     /\ m = Len(s.parts) + 1 => p.start = Len(s.runs)
     /\ p.start \in Positions /\ p.count > 0 /\ p.count = Len(p.runs)
     /\ p.start + p.count = Len(s.runs) + 1
     /\ \A k \in 1 .. p.count : p.runs[k] = Append(s.runs, r)[p.start + k]
     /\ p.sha = Whole(p.start, p.runs) /\ now[p.start] = p.sha
     /\ \A x \in Positions \ {p.start} : now[x] = held[x]
  BY DEF AddsPart
<1>. DEFINE t == [runs |-> Append(s.runs, r), compacted |-> s.compacted, parts |-> parts]
<1>0. t.runs = Append(s.runs, r) /\ t.compacted = s.compacted /\ t.parts = parts
  OBVIOUS
<1>. HIDE DEF t
<1>1. s.runs \in Seq(Runs) /\ s.parts \in Seq(PartRef) /\ Len(s.parts) \in Nat
  BY DEF Snap
<1>2. /\ t.runs \in Seq(Runs) /\ Len(t.runs) = Len(s.runs) + 1
      /\ \A i \in 1 .. Len(s.runs) : t.runs[i] = s.runs[i]
  BY <1>0, <1>1
<1>3. parts # <<>> /\ parts[m] \in PartRef /\ m \in 1 .. m
  OBVIOUS
<1>4. p.start \in Nat /\ p.count \in Nat /\ p.runs \in Seq(Runs)
  BY <1>3 DEF PartRef
<1>5. ASSUME NEW i \in 1 .. (m - 1)
      PROVE  /\ i \in 1 .. Len(s.parts) /\ PartHolds(s, i, held)
             /\ s.parts[i].start \in Nat /\ s.parts[i].count \in Nat
             /\ s.parts[i].start < p.start
             /\ t.parts[i] = s.parts[i]
  <2>1. i \in 1 .. Len(s.parts)
    BY <1>1
  <2>2. PartHolds(s, i, held)
    BY <2>1 DEF SnapHolds
  <2>3. s.parts[i].start \in Nat /\ s.parts[i].count \in Nat
    BY <2>1, SnapParts
  <2>4. s.parts[i].start < p.start
    <3>1. CASE m = Len(s.parts)
      <4>1. m \in 1 .. Len(s.parts) /\ i < m
        BY <3>1
      <4>2. s.parts[i].start < s.parts[m].start
        BY <2>1, <4>1 DEF SnapHolds
      <4>. QED
        BY <3>1, <4>2
    <3>2. CASE m = Len(s.parts) + 1
      BY <1>1, <2>2, <2>3, <3>2 DEF PartHolds
    <3>. QED
      BY <3>1, <3>2
  <2>. QED
    BY <1>0, <2>1, <2>2, <2>3, <2>4
<1>6. Base(t) = Base(s)
  <2>1. Base(t) = parts[1].start
    BY <1>0, <1>3 DEF Base
  <2>2. CASE m = 1
    <3>1. CASE m = Len(s.parts)
      <4>1. s.parts # <<>> /\ p.start = s.parts[1].start
        BY <1>1, <2>2, <3>1
      <4>. QED
        BY <2>1, <2>2, <4>1 DEF Base
    <3>2. CASE m = Len(s.parts) + 1
      <4>1. s.parts = <<>> /\ p.start = Len(s.runs)
        BY <1>1, <2>2, <3>2
      <4>. QED
        BY <2>1, <2>2, <4>1 DEF Base
    <3>. QED
      BY <3>1, <3>2
  <2>3. CASE m # 1
    <3>1. 1 \in 1 .. (m - 1)
      BY <2>3
    <3>2. s.parts # <<>>
      BY <1>1, <1>5, <3>1
    <3>. QED
      BY <1>0, <1>5, <2>1, <3>1, <3>2 DEF Base
  <2>. QED
    BY <2>2, <2>3
<1>7. \A i \in 0 .. (m - 1) : EndOf(t, i) = EndOf(s, i)
  <2>. SUFFICES ASSUME NEW i \in 0 .. (m - 1) PROVE EndOf(t, i) = EndOf(s, i)
    OBVIOUS
  <2>1. CASE i = 0
    BY <1>6, <2>1 DEF EndOf
  <2>2. CASE i # 0
    <3>1. i \in 1 .. (m - 1)
      BY <2>2
    <3>. QED
      BY <1>5, <2>2, <3>1 DEF EndOf
  <2>. QED
    BY <2>1, <2>2
<1>8. ASSUME NEW i \in 1 .. (m - 1)
      PROVE  PartHolds(t, i, now)
  <2>1. /\ PartHolds(s, i, held) /\ t.parts[i] = s.parts[i]
        /\ s.parts[i].start \in Nat /\ s.parts[i].count \in Nat /\ s.parts[i].start < p.start
    BY <1>5
  <2>2. EndOf(t, i - 1) = EndOf(s, i - 1)
    BY <1>7
  <2>3. PICK q : q = s.parts[i]
    OBVIOUS
  <2>4. /\ q.start \in Positions /\ q.start = EndOf(s, i - 1)
        /\ q.count > 0 /\ q.count = Len(q.runs) /\ q.start + q.count =< Len(s.runs)
        /\ \A k \in 1 .. q.count : q.runs[k] = s.runs[q.start + k]
        /\ q.sha = Whole(q.start, q.runs) /\ held[q.start] = q.sha
        /\ q.start \in Nat /\ q.count \in Nat /\ q.start < p.start
    BY <2>1, <2>3 DEF PartHolds
  <2>5. \A k \in 1 .. q.count : t.runs[q.start + k] = s.runs[q.start + k]
    <3>. SUFFICES ASSUME NEW k \in 1 .. q.count
                  PROVE  t.runs[q.start + k] = s.runs[q.start + k]
      OBVIOUS
    <3>1. q.start + k \in 1 .. Len(s.runs)
      BY <1>1, <2>4
    <3>. QED
      BY <1>2, <3>1
  <2>6. now[q.start] = q.sha
    BY <1>4, <2>4
  <2>7. q.start + q.count =< Len(t.runs)
    BY <1>1, <1>2, <2>4
  <2>8. q = t.parts[i]
    BY <2>1, <2>3
  <2>. QED
    BY <2>2, <2>4, <2>5, <2>6, <2>7, <2>8 DEF PartHolds
<1>9. p.start = EndOf(t, m - 1)
  <2>1. CASE m = Len(s.parts)
    <3>1. m \in 1 .. Len(s.parts)
      BY <2>1
    <3>2. PartHolds(s, m, held)
      BY <3>1 DEF SnapHolds
    <3>3. EndOf(t, m - 1) = EndOf(s, m - 1)
      BY <1>7
    <3>. QED
      BY <2>1, <3>2, <3>3 DEF PartHolds
  <2>2. CASE m = Len(s.parts) + 1
    <3>1. EndOf(t, m - 1) = EndOf(s, Len(s.parts))
      BY <1>1, <1>7, <2>2
    <3>. QED
      BY <2>2, <3>1 DEF SnapHolds
  <2>. QED
    BY <2>1, <2>2
<1>10. PartHolds(t, m, now)
  <2>1. p = t.parts[m] /\ p.start + p.count =< Len(t.runs)
    BY <1>0, <1>1, <1>2
  <2>2. ASSUME NEW k \in 1 .. p.count PROVE p.runs[k] = t.runs[p.start + k]
    <3>1. p.runs[k] = Append(s.runs, r)[p.start + k]
      OBVIOUS
    <3>2. t.runs = Append(s.runs, r)
      BY <1>0
    <3>. QED
      BY <3>1, <3>2
  <2>. QED
    BY <1>9, <2>1, <2>2 DEF PartHolds
<1>11. files[Canonical] = Whole(0, SubSeq(t.runs, 1, Base(t)))
  <2>1. Base(s) \in Nat /\ Base(s) =< Len(s.runs)
    BY BaseBound
  <2>2. SubSeq(t.runs, 1, Base(s)) = SubSeq(s.runs, 1, Base(s))
    BY <1>0, <1>1, <2>1, AppendedPrefix
  <2>. QED
    BY <1>6, <2>2 DEF SnapHolds
<1>12. \A i \in 1 .. m : PartHolds(t, i, now)
  BY <1>8, <1>10
<1>13. \A i, j \in 1 .. m : i < j => t.parts[i].start < t.parts[j].start
  <2>. SUFFICES ASSUME NEW i \in 1 .. m, NEW j \in 1 .. m, i < j
                PROVE  t.parts[i].start < t.parts[j].start
    OBVIOUS
  <2>0. i \in 1 .. (m - 1)
    OBVIOUS
  <2>1. CASE j = m
    BY <1>0, <1>5, <2>0, <2>1
  <2>2. CASE j # m
    <3>1. j \in 1 .. (m - 1)
      BY <2>2
    <3>. QED
      BY <1>5, <2>0, <3>1 DEF SnapHolds
  <2>. QED
    BY <2>1, <2>2
<1>14. EndOf(t, m) = Len(t.runs)
  BY <1>0, <1>2 DEF EndOf
<1>15. t.compacted = Canonical
  BY <1>0 DEF SnapHolds
<1>16. SnapHolds(t, now)
  BY <1>0, <1>11, <1>12, <1>13, <1>14, <1>15 DEF SnapHolds
<1>. QED
  BY <1>16 DEF t

LEMMA IdleSound == SoundCall(Idle)
BY DEF SoundCall, Idle

\* A step of c leaves the ledger sound if it leaves c's call sound and, when
\* the call ends with it, the ledger whole.
LEMMA SoundMoves ==
    ASSUME LogInv, NEW c \in Processes,
           \A d \in Processes : d # c => proc[d] = Idle,
           NEW call, proc' = [proc EXCEPT ![c] = call], SoundCall(call)',
           call.phase = "idle" => (Untouched \/ Committed)'
    PROVE  Sound'
<1>1. proc'[c] = call /\ \A d \in Processes : d # c => proc'[d] = Idle
  BY DEF LogInv, TypeInv, TypeOK
<1>2. SoundCall(Idle)'
  BY DEF SoundCall, Idle
<1>3. \A d \in Processes : SoundCall(proc[d])'
  <2>. TAKE d \in Processes
  <2>1. CASE d = c
    BY <2>1, <1>1 DEF SoundCall
  <2>2. CASE d # c
    BY <2>2, <1>1, <1>2 DEF SoundCall
  <2>. QED
    BY <2>1, <2>2
<1>4. AtRest' => call.phase = "idle"
  BY <1>1 DEF AtRest, Idle
<1>. QED
  BY <1>3, <1>4 DEF Sound

\* The same for a step that writes nothing.
LEMMA SoundQuiet ==
    ASSUME LogInv, NEW c \in Processes, UNCHANGED disk,
           \A d \in Processes : d # c => proc[d] = Idle,
           NEW call, proc' = [proc EXCEPT ![c] = call], SoundCall(call),
           call.phase = "idle" => Untouched \/ Committed
    PROVE  Sound'
<1>1. UNCHANGED <<Untouched, Committed>>
  BY DEF disk, Untouched, Committed, IndexSnap, SnapHolds, PartHolds, EndOf, Base, LogFits
<1>2. UNCHANGED <<files, partFiles, index, log, root, Compacts(call), IndexSnap>>
  BY DEF disk, Compacts, LogFits, IndexSnap
<1>3. UNCHANGED Appends(call)
  BY DEF disk, Appends, Final, Filled, SnapHolds, PartHolds, EndOf, Base, LogFits
<1>4. UNCHANGED <<SnapHolds(call.snap, partFiles), LogFits(call.snap.runs),
                  Reusable(call.snap)>>
  BY DEF disk, SnapHolds, PartHolds, EndOf, Base, LogFits, Reusable
<1>5. SoundCall(call)'
  BY <1>1, <1>2, <1>3, <1>4 DEF SoundCall
<1>. QED
  BY <1>1, <1>5, SoundMoves

LEMMA TurnsSound ==
    ASSUME LogInv, NEW c \in Processes, NEW phase, Turns(c, phase)
    PROVE  \E call : /\ proc' = [proc EXCEPT ![c] = call] /\ call.phase = phase
                     /\ call.run = proc[c].run /\ call.snap = proc[c].snap
                     /\ call.file = proc[c].file /\ ~call.open
<1>. DEFINE call == [proc[c] EXCEPT !.phase = phase, !.open = FALSE]
<1>1. proc' = [proc EXCEPT ![c] = call]
  BY DEF Turns, LogInv, TypeInv, TypeOK
<1>2. /\ call.phase = phase /\ call.run = proc[c].run /\ call.snap = proc[c].snap
      /\ call.file = proc[c].file /\ ~call.open
  BY DEF LogInv, TypeInv, TypeOK, Call
<1>. QED
  BY <1>1, <1>2

LEMMA IndexSnapType == TypeInv => IndexSnap \in Snap
BY DEF TypeInv, TypeOK, Index, IndexSnap, Snap

LEMMA BeginSound ==
    ASSUME LogInv, Sound, ~Overlap, NEW c \in Processes, BeginAppend(c) \/ BeginCompact(c)
    PROVE  Sound'
<1>1. /\ \A d \in Processes : proc[d] = Idle
      /\ UNCHANGED disk /\ (Untouched \/ Committed)
  BY DEF BeginAppend, BeginCompact, Free, disk, Sound, AtRest
<1>2. \A phase, run, snap : Calling(phase, run, snap).phase = phase
  BY DEF Calling
<1>3. PICK call : Becomes(c, call) /\ SoundCall(call) /\ call.phase # "idle"
  <2>1. CASE BeginCompact(c)
    <3>1. PICK out \in Outputs : Becomes(c, Calling("output", None, Bare(ReadRows, out)))
      BY <2>1 DEF BeginCompact
    <3>2. SoundCall(Calling("output", None, Bare(ReadRows, out)))
      BY <1>1 DEF SoundCall, Calling, Bare
    <3>. QED
      BY <1>2, <3>1, <3>2
  <2>2. CASE BeginAppend(c)
    <3>1. PICK r \in Runs : AppendToParts(c, r) \/ AppendToParquet(c, r)
      BY <2>2 DEF BeginAppend
    <3>2. CASE AppendToParts(c, r)
      <4>1. Committed
        BY <1>1, <3>2 DEF AppendToParts, PartIndexHolds, Untouched, NoIndex
      <4>2. SoundCall(Calling("part", r, IndexSnap))
        BY <4>1 DEF SoundCall, Calling
      <4>3. Becomes(c, Calling("part", r, IndexSnap))
        BY <3>2 DEF AppendToParts, IndexSnap
      <4>. QED
        BY <1>2, <4>2, <4>3
    <3>3. CASE AppendToParquet(c, r)
      <4>1. Untouched
        BY <1>1, <3>3 DEF AppendToParquet, NoPartIndex, Committed
      <4>2. ~SidecarHolds /\ files[Canonical] = Missing
        BY <4>1 DEF Untouched, SidecarHolds, NoIndex
      <4>3. files[Canonical].state = "missing" /\ files[Canonical].runs = <<>>
        BY <4>2 DEF Missing
      <4>4. Becomes(c, Calling("placeholder", r, Bare(<<>>, None)))
        BY <3>3, <4>2, <4>3 DEF AppendToParquet
      <4>5. SoundCall(Calling("placeholder", r, Bare(<<>>, None)))
        BY <4>1 DEF SoundCall, Calling, Bare, Untouched
      <4>. QED
        BY <1>2, <4>4, <4>5
    <3>. QED
      BY <3>1, <3>2, <3>3
  <2>. QED
    BY <2>1, <2>2
<1>. QED
  BY <1>1, <1>3, SoundQuiet DEF Becomes

\* What a sound ledger knows of a busy call.
LEMMA BusySound ==
    ASSUME LogInv, Sound, NEW c \in Processes, proc[c].phase # "idle"
    PROVE  /\ \A d \in Processes : d # c => proc[d] = Idle
           /\ proc[c] \in Call /\ proc[c].snap \in Snap
           /\ CallHolds(proc[c]) /\ Faithful(proc[c]) /\ SoundCall(proc[c])
BY BusyAlone DEF Sound, Call

LEMMA PlaceholderSound ==
    ASSUME LogInv, Sound, NEW c \in Processes, OpenPlaceholder(c) \/ FillPlaceholder(c)
    PROVE  Sound'
<1>1. proc[c].phase = "placeholder" /\ UNCHANGED <<partFiles, index, log, root>>
  BY DEF OpenPlaceholder, FillPlaceholder
<1>2. /\ \A d \in Processes : d # c => proc[d] = Idle
      /\ proc[c] \in Call /\ proc[c].snap \in Snap /\ SoundCall(proc[c])
  BY <1>1, BusySound
<1>3. /\ index = NoIndex /\ ~root /\ log = {}
      /\ proc[c].snap.runs = <<>> /\ proc[c].snap.parts = <<>>
  BY <1>1, <1>2 DEF SoundCall
<1>4. CASE OpenPlaceholder(c)
  <2>1. ~proc[c].open /\ files[Canonical] = Missing
    BY <1>1, <1>2, <1>4 DEF OpenPlaceholder, SoundCall
  <2>2. proc' = [proc EXCEPT ![c].open = TRUE, ![c].snap.compacted = Canonical]
    <3>1. files[Canonical].state = "missing"
      BY <2>1 DEF Missing
    <3>. QED
      BY <1>4, <3>1 DEF OpenPlaceholder
  <2>. DEFINE call == [proc[c] EXCEPT !.open = TRUE, !.snap.compacted = Canonical]
  <2>3. proc' = [proc EXCEPT ![c] = call]
    BY <2>2 DEF LogInv, TypeInv, TypeOK
  <2>4. PICK new : new = call
    OBVIOUS
  <2>5. /\ new.phase = "placeholder" /\ new.open = TRUE /\ new.snap.compacted = Canonical
        /\ new.snap.runs = <<>> /\ new.snap.parts = <<>>
    BY <1>1, <1>2, <1>3, <2>4 DEF Call, Snap
  <2>. HIDE DEF call
  <2>6. index' = NoIndex /\ ~root' /\ log' = {}
    BY <1>1, <1>3
  <2>7. SoundCall(new)'
    BY <2>5, <2>6 DEF SoundCall
  <2>. QED
    BY <1>2, <2>3, <2>4, <2>5, <2>7, SoundMoves
<1>5. CASE FillPlaceholder(c)
  <2>1. PICK call : /\ proc' = [proc EXCEPT ![c] = call] /\ call.phase = "bootstrap"
                    /\ call.snap = proc[c].snap
    BY <1>5, TurnsSound DEF FillPlaceholder
  <2>2. proc[c].open /\ proc[c].snap.compacted = Canonical
    BY <1>1, <1>2, <1>5 DEF FillPlaceholder, SoundCall
  <2>3. files'[Canonical] = Whole(0, <<>>)
    BY <1>5 DEF FillPlaceholder, LogInv, TypeInv, TypeOK, Paths
  <2>4. SoundCall(call)'
    BY <1>1, <1>3, <2>1, <2>2, <2>3 DEF SoundCall, Compacts, LogFits
  <2>. QED
    BY <1>2, <2>1, <2>4, SoundMoves
<1>. QED
  BY <1>4, <1>5

LEMMA WholePrefix ==
    ASSUME NEW runs \in Seq(Runs)
    PROVE  SubSeq(runs, 1, Len(runs)) = runs
<1>1. \A i \in 1 .. Len(runs) : runs[i] \in Runs
  OBVIOUS
<1>2. /\ SubSeq(runs, 1, Len(runs)) \in Seq(Runs)
      /\ Len(SubSeq(runs, 1, Len(runs))) = Len(runs)
      /\ \A i \in 1 .. Len(runs) : SubSeq(runs, 1, Len(runs))[i] = runs[i]
  BY <1>1, SubSeqProperties, SMT
<1>. QED
  BY <1>2, SeqEqual

\* Committed is about the disk alone, and about no part of the disk but this.
LEMMA CommittedKept ==
    ASSUME Committed, UNCHANGED <<index, partFiles, log>>, files'[Canonical] = files[Canonical]
    PROVE  Committed'
BY DEF Committed, IndexSnap, SnapHolds, PartHolds, EndOf, Base, LogFits

LEMMA BootstrapSound ==
    ASSUME LogInv, TypeInv', Sound, NEW c \in Processes, WriteBootstrapIndex(c)
    PROVE  Sound'
<1>1. /\ proc[c].phase = "bootstrap" /\ UNCHANGED <<files, partFiles, log, root>>
      /\ index' = PartIndex(proc[c].snap)
  BY SerialWrites DEF WriteBootstrapIndex
<1>2. /\ \A d \in Processes : d # c => proc[d] = Idle
      /\ proc[c] \in Call /\ proc[c].snap \in Snap /\ SoundCall(proc[c])
  BY <1>1, BusySound
<1>3. Compacts(proc[c]) /\ files[Canonical] = Whole(0, proc[c].snap.runs)
  BY <1>1, <1>2 DEF SoundCall
<1>4. PICK call : /\ proc' = [proc EXCEPT ![c] = call]
                  /\ call.phase \in {"bootlog", "return", "part"}
                  /\ call.snap = proc[c].snap /\ ~call.open
  BY SerialWrites, TurnsSound
<1>5. call.snap \in Snap /\ call.snap.compacted = Canonical /\ call.snap.parts = <<>>
      /\ call.snap.runs \in Seq(Runs) /\ LogFits(call.snap.runs)
  BY <1>2, <1>3, <1>4 DEF Compacts, Snap
<1>6. /\ index'.kind = "parts" /\ index'.sha = files[Canonical] /\ index'.parts = <<>>
      /\ index'.runs = call.snap.runs /\ index'.compacted = Canonical
  BY <1>1, <1>4, <1>5, OutputsAssumption DEF PartIndex, FileAt, Paths
<1>7. Base(IndexSnap)' = Len(call.snap.runs) /\ EndOf(IndexSnap, 0)' = Len(call.snap.runs)
  BY <1>6 DEF Base, EndOf, IndexSnap
<1>8. SubSeq(call.snap.runs, 1, Len(call.snap.runs)) = call.snap.runs
  BY <1>5, WholePrefix
<1>9. SnapHolds(IndexSnap, partFiles)'
  <2>1. /\ IndexSnap' = [runs |-> call.snap.runs, compacted |-> Canonical, parts |-> <<>>]
        /\ Len(IndexSnap'.parts) = 0
    BY <1>6 DEF IndexSnap
  <2>2. files'[Canonical] = Whole(0, call.snap.runs)
    BY <1>1, <1>3, <1>4
  <2>3. /\ IndexSnap'.runs = call.snap.runs /\ IndexSnap'.compacted = Canonical
        /\ Len(IndexSnap'.parts) = 0
    BY <2>1
  <2>4. EndOf(IndexSnap, Len(IndexSnap.parts))' = Len(IndexSnap'.runs)
    BY <1>7, <2>3
  <2>5. files'[Canonical] = Whole(0, SubSeq(IndexSnap.runs, 1, Base(IndexSnap)))'
    BY <1>7, <1>8, <2>2, <2>3
  <2>6. 1 .. 0 = {}
    OBVIOUS
  <2>. QED
    BY <2>3, <2>4, <2>5, <2>6 DEF SnapHolds
<1>10. Committed'
  BY <1>1, <1>5, <1>6, <1>9 DEF Committed, LogFits
<1>11. (call.snap = IndexSnap)'
  BY <1>5, <1>6 DEF IndexSnap, Snap
<1>12. SoundCall(call)'
  BY <1>4, <1>10, <1>11 DEF SoundCall
<1>. QED
  BY <1>2, <1>4, <1>12, SoundMoves

LEMMA LogBootstrapSound ==
    ASSUME LogInv, Sound, NEW c \in Processes, LogBootstrap(c)
    PROVE  Sound'
<1>1. proc[c].phase = "bootlog" /\ UNCHANGED <<files, partFiles, index>>
  BY DEF LogBootstrap
<1>2. /\ \A d \in Processes : d # c => proc[d] = Idle
      /\ proc[c] \in Call /\ proc[c].snap \in Snap /\ SoundCall(proc[c])
  BY <1>1, BusySound
<1>3. Committed /\ proc[c].snap = IndexSnap
  BY <1>1, <1>2 DEF SoundCall
<1>4. PICK runs \in Seq(Runs) : runs = index.runs /\ runs = proc[c].snap.runs
  BY <1>2, <1>3 DEF IndexSnap, Snap
<1>5. PICK call : /\ proc' = [proc EXCEPT ![c] = call]
                  /\ call.phase \in {"return", "part"}
                  /\ call.snap = proc[c].snap /\ ~call.open
  BY TurnsSound DEF LogBootstrap
<1>6. LogFits(index.runs)'
  <2>1. log' = log \cup {[run |-> runs[i], at |-> i - 1] : i \in 1 .. Len(runs)}
    BY <1>4 DEF LogBootstrap
  <2>2. LogFits(runs)
    BY <1>3, <1>4 DEF Committed
  <2>3. ASSUME NEW i \in 1 .. Len(runs) PROVE i - 1 < Len(runs) /\ runs[(i - 1) + 1] = runs[i]
    OBVIOUS
  <2>4. \A e \in log' : e.at < Len(runs) /\ runs[e.at + 1] = e.run
    BY <2>1, <2>2, <2>3 DEF LogFits
  <2>. QED
    BY <1>1, <1>4, <2>4 DEF LogFits
<1>7. Committed'
  <2>1. UNCHANGED <<index, files, partFiles, SnapHolds(IndexSnap, partFiles)>>
    BY <1>1 DEF IndexSnap, SnapHolds, PartHolds, EndOf, Base
  <2>. QED
    BY <1>3, <1>6, <2>1 DEF Committed
<1>8. (call.snap = IndexSnap)'
  BY <1>1, <1>3, <1>5 DEF IndexSnap
<1>9. SoundCall(call)'
  BY <1>5, <1>7, <1>8 DEF SoundCall
<1>. QED
  BY <1>2, <1>5, <1>9, SoundMoves

LEMMA FillPartSound ==
    ASSUME LogInv, Sound, NEW c \in Processes, FillPart(c)
    PROVE  Sound'
<1>1. /\ proc[c].phase = "write" /\ proc[c].open /\ UNCHANGED <<files, index, log, root>>
      /\ partFiles' = Filled(proc[c])
  BY DEF FillPart, Filled
<1>2. /\ \A d \in Processes : d # c => proc[d] = Idle
      /\ proc[c] \in Call /\ CallHolds(proc[c]) /\ SoundCall(proc[c])
  BY <1>1, BusySound
<1>3. Appends(proc[c]) /\ proc[c].file.start \in Positions
  BY <1>1, <1>2 DEF SoundCall, CallHolds
<1>4. PICK call : /\ proc' = [proc EXCEPT ![c] = call] /\ call.phase = "log"
                  /\ call.snap = proc[c].snap /\ call.run = proc[c].run
                  /\ call.file = proc[c].file
  BY TurnsSound DEF FillPart
<1>5. partFiles'[call.file.start] = call.file
  BY <1>1, <1>3, <1>4 DEF Filled, LogInv, TypeInv, TypeOK
<1>6. Filled(call)' = partFiles' /\ Filled(proc[c]) = partFiles'
  <2>1. Filled(call)' = [partFiles' EXCEPT ![call.file.start] = partFiles'[call.file.start]]
    BY <1>5 DEF Filled
  <2>2. partFiles' = [x \in DOMAIN partFiles' |-> partFiles'[x]]
    BY <1>1 DEF Filled
  <2>. QED
    BY <1>1, <2>1, <2>2
<1>7. Appends(call)'
  <2>1. Appends(call)
    BY <1>3, <1>4 DEF Appends, Final, Filled
  <2>2. SnapHolds(Final(call), Filled(call))'
    <3>1. SnapHolds(Final(call), partFiles')
      BY <1>3, <1>4, <1>6 DEF Appends, Final
    <3>2. UNCHANGED Final(call)
      BY DEF Final
    <3>. QED
      BY <1>1, <1>6, <3>1, <3>2 DEF SnapHolds, PartHolds, EndOf, Base
  <2>. QED
    BY <1>1, <2>1, <2>2 DEF Appends, LogFits
<1>8. SoundCall(call)'
  BY <1>4, <1>5, <1>7 DEF SoundCall
<1>. QED
  BY <1>2, <1>4, <1>8, SoundMoves

LEMMA WriteIndexSound ==
    ASSUME LogInv, Sound, NEW c \in Processes, WriteIndex(c)
    PROVE  Sound'
<1>1. /\ proc[c].phase = "index" /\ UNCHANGED <<files, partFiles, log, root>>
      /\ index' = PartIndex(proc[c].snap)
  BY SerialWrites DEF WriteIndex
<1>2. /\ \A d \in Processes : d # c => proc[d] = Idle
      /\ proc[c].snap \in Snap /\ SoundCall(proc[c])
  BY <1>1, BusySound
<1>3. PICK snap \in Snap : snap = proc[c].snap
  BY <1>2
<1>4. SnapHolds(snap, partFiles) /\ LogFits(snap.runs)
  BY <1>1, <1>2, <1>3 DEF SoundCall
<1>5. snap.compacted = Canonical
  BY <1>4 DEF SnapHolds
<1>6. /\ index'.kind = "parts" /\ index'.sha = files[Canonical] /\ index'.parts = snap.parts
      /\ index'.runs = snap.runs /\ index'.compacted = snap.compacted
  BY <1>1, <1>3, <1>5, OutputsAssumption DEF PartIndex, FileAt, Paths
<1>7. IndexSnap' = snap
  BY <1>6 DEF IndexSnap, Snap
<1>8. Committed'
  <2>1. SnapHolds(snap, partFiles)'
    BY <1>1, <1>4 DEF SnapHolds, PartHolds, EndOf, Base
  <2>2. LogFits(snap.runs)'
    BY <1>1, <1>4 DEF LogFits
  <2>. QED
    BY <1>1, <1>6, <1>7, <2>1, <2>2 DEF Committed, SnapHolds, LogFits
<1>9. PICK call : proc' = [proc EXCEPT ![c] = call] /\ call.phase = "return"
  BY SerialWrites, TurnsSound
<1>10. SoundCall(call)'
  BY <1>8, <1>9 DEF SoundCall
<1>. QED
  BY <1>2, <1>9, <1>10, SoundMoves

LEMMA ReturnSound ==
    ASSUME LogInv, Sound, NEW c \in Processes, Return(c)
    PROVE  Sound'
<1>1. proc[c].phase = "return" /\ UNCHANGED disk /\ proc' = [proc EXCEPT ![c] = Idle]
  BY DEF Return, disk, Becomes
<1>2. /\ \A d \in Processes : d # c => proc[d] = Idle
      /\ SoundCall(proc[c])
  BY <1>1, BusySound
<1>3. Committed
  BY <1>1, <1>2 DEF SoundCall
<1>. QED
  BY <1>1, <1>2, <1>3, IdleSound, SoundQuiet

LEMMA CompactSound ==
    ASSUME LogInv, Sound, Clean', NEW c \in Processes,
           OpenOutput(c) \/ FillOutput(c) \/ WriteSidecar(c) \/ Reread(c)
    PROVE  Sound'
<1>1. UNCHANGED log /\ proc[c].phase \in {"output", "sidecar", "reread"}
  BY DEF OpenOutput, FillOutput, WriteSidecar, Reread, disk
<1>2. /\ \A d \in Processes : d # c => proc[d] = Idle
      /\ proc[c] \in Call /\ proc[c].snap \in Snap
      /\ CallHolds(proc[c]) /\ SoundCall(proc[c]) /\ proc[c].snap.runs = index.runs
  BY <1>1, BusySound DEF Faithful, Phases
<1>3. CASE OpenOutput(c)
  <2>1. /\ proc[c].phase = "output" /\ ~proc[c].open
        /\ files' = [files EXCEPT ![proc[c].snap.compacted] = Torn]
        /\ proc' = [proc EXCEPT ![c].open = TRUE]
    BY <1>3 DEF OpenOutput
  <2>2. proc[c].snap.compacted \in Paths /\ files \in [Paths -> File]
    BY <1>2, <2>1 DEF CallHolds, LogInv, TypeInv, TypeOK
  <2>3. proc[c].snap.compacted = Canonical
    <3>1. files'[proc[c].snap.compacted] = Torn
      BY <2>1, <2>2
    <3>2. Torn # Missing
      BY DEF Torn, Missing
    <3>. QED
      BY <2>2, <3>1, <3>2 DEF Clean
  <2>4. LogFits(proc[c].snap.runs) /\ proc[c].snap.parts = <<>>
    BY <1>2, <2>1 DEF SoundCall, Untouched, Committed, LogFits
  <2>. DEFINE call == [proc[c] EXCEPT !.open = TRUE]
  <2>5. proc' = [proc EXCEPT ![c] = call]
    BY <2>1 DEF LogInv, TypeInv, TypeOK
  <2>6. PICK new : new = call
    OBVIOUS
  <2>7. new.phase = "output" /\ new.open = TRUE /\ new.snap = proc[c].snap
    BY <1>2, <2>1, <2>6 DEF Call
  <2>. HIDE DEF call
  <2>8. SoundCall(new)'
    BY <1>1, <2>3, <2>4, <2>7 DEF SoundCall, Compacts, LogFits
  <2>. QED
    BY <1>2, <2>5, <2>6, <2>7, <2>8, SoundMoves
<1>4. CASE FillOutput(c)
  <2>1. /\ proc[c].phase = "output" /\ proc[c].open
        /\ files' = [files EXCEPT ![proc[c].snap.compacted] = Whole(0, proc[c].snap.runs)]
        /\ Turns(c, IF proc[c].snap.compacted = Canonical THEN "sidecar" ELSE "reread")
    BY <1>4 DEF FillOutput
  <2>2. Compacts(proc[c])
    BY <1>2, <2>1 DEF SoundCall
  <2>3. /\ proc[c].snap.compacted = Canonical /\ Turns(c, "sidecar")
        /\ files'[Canonical] = Whole(0, proc[c].snap.runs)
    BY <2>1, <2>2 DEF Compacts, LogInv, TypeInv, TypeOK, Paths
  <2>4. PICK call : /\ proc' = [proc EXCEPT ![c] = call] /\ call.phase = "sidecar"
                    /\ call.snap = proc[c].snap
    BY <2>3, TurnsSound
  <2>5. SoundCall(call)'
    BY <1>1, <2>2, <2>3, <2>4 DEF SoundCall, Compacts, LogFits
  <2>. QED
    BY <1>2, <2>4, <2>5, SoundMoves
<1>5. CASE WriteSidecar(c)
  <2>1. proc[c].phase = "sidecar" /\ UNCHANGED files /\ index'.kind = "rows"
    BY <1>5, SerialWrites DEF WriteSidecar
  <2>2. Compacts(proc[c]) /\ files[Canonical] = Whole(0, proc[c].snap.runs)
    BY <1>2, <2>1 DEF SoundCall
  <2>3. PICK call : /\ proc' = [proc EXCEPT ![c] = call] /\ call.phase = "reread"
                    /\ call.snap = proc[c].snap
    BY <1>5, SerialWrites, TurnsSound
  <2>4. SoundCall(call)'
    BY <1>1, <2>1, <2>2, <2>3 DEF SoundCall, Compacts, LogFits
  <2>. QED
    BY <1>2, <2>3, <2>4, SoundMoves
<1>6. CASE Reread(c)
  <2>1. proc[c].phase = "reread" /\ UNCHANGED disk
    BY <1>6 DEF Reread
  <2>2. /\ index.kind = "rows"
        /\ Compacts(proc[c]) /\ files[Canonical] = Whole(0, proc[c].snap.runs)
    BY <1>2, <2>1 DEF SoundCall
  <2>3. Turns(c, "bootstrap")
    BY <1>6, <2>2 DEF Reread, PartIndexHolds, NoPartIndex
  <2>4. PICK call : /\ proc' = [proc EXCEPT ![c] = call] /\ call.phase = "bootstrap"
                    /\ call.snap = proc[c].snap
    BY <2>3, TurnsSound
  <2>5. SoundCall(call)
    BY <2>2, <2>4 DEF SoundCall, Compacts
  <2>. QED
    BY <1>2, <2>1, <2>4, <2>5, SoundQuiet
<1>. QED
  BY <1>3, <1>4, <1>5, <1>6

LEMMA LogRowSound ==
    ASSUME LogInv, Sound, NEW c \in Processes, LogRow(c)
    PROVE  Sound'
<1>1. /\ proc[c].phase = "log" /\ UNCHANGED <<files, partFiles, index, root>>
      /\ log' = log \cup {[run |-> proc[c].run, at |-> Len(proc[c].snap.runs)]}
  BY DEF LogRow
<1>2. /\ \A d \in Processes : d # c => proc[d] = Idle
      /\ proc[c] \in Call /\ proc[c].snap \in Snap
      /\ CallHolds(proc[c]) /\ SoundCall(proc[c])
  BY <1>1, BusySound
<1>3. PICK old \in Call : old = proc[c]
  BY <1>2
<1>4. /\ old.run \in Runs /\ old.snap \in Snap /\ old.snap.runs \in Seq(Runs)
      /\ old.snap.parts \in Seq(PartRef)
      /\ Appends(old) /\ partFiles[old.file.start] = old.file
  BY <1>1, <1>2, <1>3 DEF CallHolds, SoundCall, Snap
<1>. DEFINE parts == [old.snap.parts EXCEPT ![Len(old.snap.parts)].sha = old.file]
            more == Append(old.snap.runs, old.run)
            call == [old EXCEPT !.phase = "index", !.snap.runs = more, !.snap.parts = parts]
<1>5. proc' = [proc EXCEPT ![c] = call]
  <2>1. TypeInv
    BY DEF LogInv
  <2>. QED
    BY <1>3, <1>4, <2>1, LogRowCall
<1>6. Final(old) = [runs |-> more, compacted |-> old.snap.compacted, parts |-> parts]
  BY DEF Final
<1>. HIDE DEF parts, more
<1>7. call.phase = "index" /\ call.run = old.run /\ call.snap = Final(old)
  <2>1. call.phase = "index" /\ call.run = old.run
    BY DEF Call
  <2>2. call.snap = [old.snap EXCEPT !.runs = more, !.parts = parts]
    BY DEF Call
  <2>. QED
    BY <1>4, <1>6, <2>1, <2>2 DEF Snap
<1>. PICK new : new = call
  OBVIOUS
<1>. HIDE DEF call
<1>8. SnapHolds(Final(old), partFiles)
  <2>1. Filled(old) = partFiles
    BY <1>4 DEF Filled, LogInv, TypeInv, TypeOK
  <2>. QED
    BY <1>4, <2>1 DEF Appends
<1>9. LogFits(Append(old.snap.runs, old.run))'
  <2>1. PICK runs \in Seq(Runs) : runs = old.snap.runs
    BY <1>4
  <2>2. /\ Len(Append(runs, old.run)) = Len(runs) + 1
        /\ Append(runs, old.run)[Len(runs) + 1] = old.run
        /\ \A i \in 1 .. Len(runs) : Append(runs, old.run)[i] = runs[i]
    BY <1>4, <2>1
  <2>3. \A e \in log : e.at \in Nat
    BY DEF LogInv, TypeInv, TypeOK
  <2>4. \A e \in log : e.at < Len(runs) /\ runs[e.at + 1] = e.run
    BY <1>4, <2>1 DEF Appends, LogFits
  <2>5. ASSUME NEW e \in log
        PROVE  e.at < Len(runs) + 1 /\ Append(runs, old.run)[e.at + 1] = e.run
    <3>1. e.at \in Nat /\ e.at < Len(runs) /\ runs[e.at + 1] = e.run
      BY <2>3, <2>4
    <3>2. e.at + 1 \in 1 .. Len(runs)
      BY <3>1
    <3>. QED
      BY <2>2, <3>1, <3>2
  <2>6. log' = log \cup {[run |-> old.run, at |-> Len(runs)]}
    BY <1>1, <1>3, <2>1
  <2>7. \A e \in log' : e.at < Len(runs) + 1 /\ Append(runs, old.run)[e.at + 1] = e.run
    <3>1. PICK row : row = [run |-> old.run, at |-> Len(runs)]
      OBVIOUS
    <3>2. row.run = old.run /\ row.at = Len(runs) /\ Len(runs) \in Nat
      BY <2>1, <3>1
    <3>3. row.at < Len(runs) + 1 /\ Append(runs, old.run)[row.at + 1] = row.run
      BY <2>2, <3>2
    <3>4. log' = log \cup {row}
      BY <2>6, <3>1
    <3>. QED
      BY <2>5, <3>3, <3>4, Zenon
  <2>. QED
    BY <2>1, <2>2, <2>7 DEF LogFits
<1>10. Final(old).runs = Append(old.snap.runs, old.run)
  BY DEF Final
<1>11. SoundCall(new)'
  <2>1. SnapHolds(new.snap, partFiles)'
    <3>1. PICK snap : snap = new.snap
      OBVIOUS
    <3>2. SnapHolds(snap, partFiles)
      BY <1>7, <1>8, <3>1
    <3>3. SnapHolds(snap, partFiles)'
      BY <1>1, <3>2 DEF SnapHolds, PartHolds, EndOf, Base
    <3>. QED
      BY <3>1, <3>3 DEF SnapHolds, PartHolds, EndOf, Base
  <2>2. LogFits(new.snap.runs)'
    BY <1>7, <1>9, <1>10 DEF LogFits
  <2>. QED
    BY <1>4, <1>7, <2>1, <2>2 DEF SoundCall
<1>. QED
  BY <1>2, <1>5, <1>7, <1>11, SoundMoves

\* A part whose rows are read is as the index has it, and it is the last.
LEMMA LastPart ==
    ASSUME NEW s \in Snap, NEW held, SnapHolds(s, held), s.parts # <<>>
    PROVE  LET last == s.parts[Len(s.parts)] IN
           /\ held[last.start] = Whole(last.start, last.runs) /\ last.runs \in Seq(Runs)
           /\ last.start \in Positions /\ last.start + Len(last.runs) = Len(s.runs)
           /\ \A k \in 1 .. Len(last.runs) : last.runs[k] = s.runs[last.start + k]
<1>1. s.parts \in Seq(PartRef)
  BY DEF Snap
<1>. DEFINE n == Len(s.parts)
<1>2. n \in 1 .. n /\ n # 0
  BY <1>1
<1>3. PartHolds(s, n, held) /\ s.parts[n].runs \in Seq(Runs)
  BY <1>2, SnapParts DEF SnapHolds
<1>4. s.parts[n].start + s.parts[n].count = Len(s.runs)
  BY <1>2 DEF SnapHolds, EndOf
<1>. QED
  BY <1>3, <1>4 DEF PartHolds

\* The part an append has taken, once written, is the next part of the ledger, or
\* the last one with one row more.
LEMMA PartTakenSound ==
    ASSUME LogInv, Sound, NEW c \in Processes,
           \/ ChoosePart(c) /\ ~Reusable(proc[c].snap)
           \/ ReadPart(c)
    PROVE  Sound'
<1>1. /\ proc[c].phase \in {"part", "rows"} /\ UNCHANGED <<files, partFiles, index, log>>
      /\ ReadPart(c) <=> proc[c].phase = "rows"
  BY DEF ChoosePart, ReadPart, disk
<1>2. /\ \A d \in Processes : d # c => proc[d] = Idle
      /\ proc[c] \in Call /\ proc[c].snap \in Snap
      /\ CallHolds(proc[c]) /\ SoundCall(proc[c])
  BY <1>1, BusySound
<1>3. PICK old \in Call : old = proc[c]
  BY <1>2
<1>4. PICK s \in Snap : s = old.snap
  BY <1>2, <1>3
<1>5. PICK r \in Runs : r = old.run
  BY <1>1, <1>2, <1>3 DEF CallHolds
<1>6. SnapHolds(s, partFiles) /\ LogFits(s.runs)
  BY <1>1, <1>2, <1>3, <1>4 DEF SoundCall, Committed, IndexSnap
<1>7. s.runs \in Seq(Runs) /\ s.parts \in Seq(PartRef) /\ Len(s.parts) \in Nat
  BY DEF Snap
<1>. DEFINE n == Len(s.parts)
            reuse == old.phase = "rows"
            start == IF reuse THEN s.parts[n].start ELSE Len(s.runs)
            base == IF reuse THEN s.parts[n].runs ELSE <<>>
            rows == Append(base, r)
            ref == [start |-> start, count |-> Len(rows), sha |-> Torn, runs |-> rows]
            open == IF reuse THEN [s.parts EXCEPT ![n] = ref] ELSE Append(s.parts, ref)
            m == IF reuse THEN n ELSE n + 1
            file == Whole(start, rows)
<1>8. ASSUME reuse
      PROVE  /\ s.parts # <<>> /\ n \in 1 .. n /\ start \in Positions
             /\ partFiles[start] = Whole(start, base) /\ base \in Seq(Runs)
             /\ start + Len(base) = Len(s.runs)
             /\ \A k \in 1 .. Len(base) : base[k] = s.runs[start + k]
  <2>1. s.parts # <<>>
    BY <1>2, <1>3, <1>4, <1>8 DEF CallHolds
  <2>2. n \in 1 .. n
    BY <1>7, <2>1
  <2>. QED
    BY <1>6, <1>8, <2>1, <2>2, LastPart
<1>9. /\ start \in Positions /\ start \in Nat /\ base \in Seq(Runs)
      /\ start + Len(base) = Len(s.runs)
      /\ \A k \in 1 .. Len(base) : base[k] = s.runs[start + k]
  <2>1. CASE reuse
    BY <1>8, <2>1 DEF Positions
  <2>2. CASE ~reuse
    <3>1. Len(s.runs) \in Positions
      BY <1>1, <1>3, <1>4, <2>2 DEF ChoosePart
    <3>. QED
      BY <1>7, <2>2, <3>1 DEF Positions
  <2>. QED
    BY <2>1, <2>2
<1>0. Len(rows) = Len(base) + 1 /\ Len(base) \in Nat
  BY <1>9
<1>10. PartTaken(c, start, base, open)
  <2>1. CASE reuse
    <3>1. ReadPart(c) /\ partFiles[start] = Whole(start, base)
      BY <1>1, <1>3, <1>8, <2>1
    <3>2. partFiles[start].state = "whole" /\ partFiles[start].runs = base
      BY <3>1 DEF Whole
    <3>3. PartTaken(c, start, base,
                    [s.parts EXCEPT ![n] = Ref(start, Len(base) + 1, Append(base, r))])
      BY <1>3, <1>4, <1>5, <2>1, <3>1, <3>2 DEF ReadPart
    <3>4. ref = Ref(start, Len(base) + 1, Append(base, r))
      BY <1>0 DEF Ref
    <3>. QED
      BY <2>1, <3>3, <3>4
  <2>2. CASE ~reuse
    <3>1. ChoosePart(c) /\ ~Reusable(s)
      BY <1>1, <1>3, <1>4, <2>2
    <3>2. PartTaken(c, start, <<>>, Append(s.parts, Ref(start, 1, <<r>>)))
      BY <1>3, <1>4, <1>5, <2>2, <3>1 DEF ChoosePart
    <3>3. rows = <<r>> /\ Len(rows) = 1
      BY <2>2
    <3>4. ref = Ref(start, 1, <<r>>)
      BY <3>3 DEF Ref
    <3>. QED
      BY <2>2, <3>2, <3>4
  <2>. QED
    BY <2>1, <2>2
<1>11. \A k \in 1 .. Len(rows) : rows[k] = Append(s.runs, r)[start + k]
  <2>. SUFFICES ASSUME NEW k \in 1 .. Len(rows)
                PROVE  rows[k] = Append(s.runs, r)[start + k]
    OBVIOUS
  <2>. HIDE DEF base, start
  <2>1. Len(rows) = Len(base) + 1 /\ Len(base) \in Nat
    BY <1>9
  <2>2. CASE k = Len(rows)
    <3>1. start + k = Len(s.runs) + 1
      <4>. HIDE DEF rows, ref, open, m, file
      <4>1. start \in Nat /\ start + Len(base) = Len(s.runs)
        BY <1>9
      <4>. QED
        BY <2>1, <2>2, <4>1
    <3>2. Append(s.runs, r)[Len(s.runs) + 1] = r
      BY <1>7
    <3>3. rows[Len(base) + 1] = r
      BY <1>9
    <3>. QED
      BY <2>1, <2>2, <3>1, <3>2, <3>3
  <2>3. CASE k # Len(rows)
    <3>1. k \in 1 .. Len(base)
      BY <2>1, <2>3
    <3>2. start + k \in 1 .. Len(s.runs)
      BY <1>7, <1>9, <3>1
    <3>3. rows[k] = base[k] /\ Append(s.runs, r)[start + k] = s.runs[start + k]
      BY <1>7, <1>9, <3>1, <3>2
    <3>. QED
      BY <1>9, <3>1, <3>3
  <2>. QED
    BY <2>2, <2>3
<1>12. /\ rows \in Seq(Runs) /\ Len(rows) = Len(base) + 1 /\ Len(base) \in Nat
       /\ ref \in PartRef
  <2>. HIDE DEF base, start
  <2>1. rows \in Seq(Runs) /\ Len(rows) = Len(base) + 1 /\ Len(base) \in Nat
    BY <1>9
  <2>. QED
    BY <1>9, <2>1, FileKinds DEF PartRef
<1>. HIDE DEF base, rows
<1>13. /\ m \in Nat \ {0} /\ open \in Seq(PartRef) /\ Len(open) = m
       /\ (m = n /\ start = s.parts[n].start) \/ (m = n + 1 /\ start = Len(s.runs))
       /\ \A i \in 1 .. (m - 1) : open[i] = s.parts[i]
       /\ open[m] = ref
  <2>. HIDE DEF ref, reuse
  <2>1. CASE reuse
    BY <1>7, <1>8, <1>12, <2>1, SequenceExcept
  <2>2. CASE ~reuse
    BY <1>7, <1>12, <2>2
  <2>. QED
    BY <2>1, <2>2
<1>14. PICK new \in Call :
          /\ proc' = [proc EXCEPT ![c] = new]
          /\ new.phase = "write" /\ new.run = proc[c].run
          /\ new.file = Whole(start, Append(base, proc[c].run))
          /\ new.snap.runs = proc[c].snap.runs /\ new.snap.parts = open
          /\ new.snap.compacted = proc[c].snap.compacted
  <2>1. TypeInv /\ proc[c].run \in Runs
    BY <1>3, <1>5 DEF LogInv
  <2>. HIDE DEF open, start
  <2>. QED
    BY <1>9, <1>10, <1>13, <2>1, PartTakenType
<1>15. /\ new.phase = "write" /\ new.run = r
       /\ new.snap.runs = s.runs /\ new.snap.compacted = s.compacted /\ new.snap.parts = open
       /\ new.file = Whole(start, rows) /\ new.file.start = start
  BY <1>3, <1>4, <1>5, <1>14 DEF Whole, rows
<1>. DEFINE p == [ref EXCEPT !.sha = Whole(start, rows)]
            fin == [open EXCEPT ![m] = p]
<1>16. /\ p \in PartRef /\ p.start = start /\ p.count = Len(rows) /\ p.runs = rows
       /\ p.sha = Whole(start, rows)
  BY <1>9, <1>12, WholeType DEF PartRef
<1>17. [open EXCEPT ![m].sha = Whole(start, rows)] = fin
  BY <1>13
<1>. HIDE DEF file, open, m, start, p, ref, reuse
<1>18. fin \in Seq(PartRef) /\ Len(fin) = m /\ fin[m] = p
       /\ \A i \in 1 .. (m - 1) : fin[i] = s.parts[i]
  <2>1. fin \in Seq(PartRef)
    BY <1>13, <1>16, SequenceExcept
  <2>2. DOMAIN open = 1 .. m /\ m \in 1 .. m
    BY <1>13
  <2>. QED
    BY <1>13, <2>1, <2>2
<1>19. Final(new) = [runs |-> Append(s.runs, r), compacted |-> s.compacted, parts |-> fin]
  BY <1>13, <1>15, <1>17 DEF Final
<1>. HIDE DEF fin
<1>20. PICK now : now = [partFiles EXCEPT ![start] = Whole(start, rows)]
  OBVIOUS
<1>21. now[start] = Whole(start, rows) /\ \A x \in Positions \ {start} : now[x] = partFiles[x]
  BY <1>9, <1>20 DEF LogInv, TypeInv, TypeOK
<1>22. SnapHolds(Final(new), now)
  <2>1. p.count > 0 /\ p.start + p.count = Len(s.runs) + 1
    <3>1. start \in Nat /\ start + Len(base) = Len(s.runs)
      BY <1>9
    <3>2. Len(rows) = Len(base) + 1 /\ Len(base) \in Nat
      BY <1>12
    <3>3. p.start = start /\ p.count = Len(rows)
      BY <1>16
    <3>. QED
      BY <3>1, <3>2, <3>3
  <2>2. \A k \in 1 .. p.count : p.runs[k] = Append(s.runs, r)[p.start + k]
    BY <1>11, <1>16, Zenon
  <2>3. /\ p.sha = Whole(p.start, p.runs) /\ p.start \in Positions
        /\ p.count = Len(p.runs) /\ now[p.start] = p.sha
        /\ \A x \in Positions \ {p.start} : now[x] = partFiles[x]
    BY <1>9, <1>16, <1>21, Zenon
  <2>4. /\ m = Len(s.parts) \/ m = Len(s.parts) + 1
        /\ m = Len(s.parts) => p.start = s.parts[m].start
        /\ m = Len(s.parts) + 1 => p.start = Len(s.runs)
    BY <1>7, <1>13, <1>16
  <2>5. PICK part : part = p
    OBVIOUS
  <2>6. PICK k \in Nat \ {0} : k = m
    BY <1>13
  <2>7. /\ part = fin[k] /\ Len(fin) = k /\ \A i \in 1 .. (k - 1) : fin[i] = s.parts[i]
    BY <1>18, <2>5, <2>6
  <2>8. /\ part.count > 0 /\ part.start + part.count = Len(s.runs) + 1
        /\ \A x \in 1 .. part.count : part.runs[x] = Append(s.runs, r)[part.start + x]
        /\ part.sha = Whole(part.start, part.runs) /\ part.start \in Positions
        /\ part.count = Len(part.runs) /\ now[part.start] = part.sha
        /\ \A x \in Positions \ {part.start} : now[x] = partFiles[x]
    BY <2>1, <2>2, <2>3, <2>5, Zenon
  <2>9. /\ k = Len(s.parts) \/ k = Len(s.parts) + 1
        /\ k = Len(s.parts) => part.start = s.parts[k].start
        /\ k = Len(s.parts) + 1 => part.start = Len(s.runs)
    BY <2>4, <2>5, <2>6
  <2>10. AddsPart(s, partFiles, r, fin, k, part, now)
    BY <2>7, <2>8, <2>9 DEF AddsPart
  <2>. QED
    BY <1>6, <1>18, <1>19, <2>10, NewPart
<1>23. SoundCall(new)'
  <2>1. Filled(new)' = now
    BY <1>1, <1>15, <1>20 DEF Filled
  <2>2. SnapHolds(Final(new), Filled(new))'
    BY <1>1, <1>22, <2>1 DEF SnapHolds, PartHolds, EndOf, Base, Final
  <2>3. new.file.start = new.snap.parts[Len(new.snap.parts)].start /\ Len(new.snap.parts) > 0
    BY <1>13, <1>15 DEF ref
  <2>4. LogFits(new.snap.runs)'
    BY <1>1, <1>6, <1>15 DEF LogFits
  <2>5. Appends(new)'
    BY <2>2, <2>3, <2>4 DEF Appends
  <2>. QED
    BY <1>15, <2>5 DEF SoundCall
<1>. QED
  BY <1>2, <1>14, <1>15, <1>23, SoundMoves

\* The last part is chosen, to be read.
LEMMA ChoosePartSound ==
    ASSUME LogInv, Sound, NEW c \in Processes, ChoosePart(c)
    PROVE  Sound'
<1>1. CASE ~Reusable(proc[c].snap)
  BY <1>1, PartTakenSound
<1>2. CASE Reusable(proc[c].snap)
  <2>1. /\ proc[c].phase = "part" /\ Turns(c, "rows")
        /\ UNCHANGED <<files, partFiles, index, log>>
    BY <1>2 DEF ChoosePart
  <2>2. /\ \A d \in Processes : d # c => proc[d] = Idle
        /\ Committed /\ proc[c].snap = IndexSnap
    BY <2>1, BusySound DEF SoundCall
  <2>3. PICK call : /\ proc' = [proc EXCEPT ![c] = call] /\ call.phase = "rows"
                    /\ call.snap = proc[c].snap
    BY <2>1, TurnsSound
  <2>4. Committed' /\ (call.snap = IndexSnap)'
    BY <2>1, <2>2, <2>3, CommittedKept DEF IndexSnap
  <2>5. Reusable(call.snap)'
    BY <1>2, <2>1, <2>3 DEF Reusable
  <2>6. SoundCall(call)'
    BY <2>3, <2>4, <2>5 DEF SoundCall
  <2>. QED
    BY <2>2, <2>3, <2>6, SoundMoves
<1>. QED
  BY <1>1, <1>2

\* A part that is open will be filled with the same rows.
LEMMA OpenPartSound ==
    ASSUME LogInv, Sound, NEW c \in Processes, OpenPart(c)
    PROVE  Sound'
<1>1. /\ proc[c].phase = "write" /\ UNCHANGED <<files, index, log>>
      /\ partFiles' = [partFiles EXCEPT ![proc[c].file.start] = Torn]
  BY DEF OpenPart
<1>2. /\ \A d \in Processes : d # c => proc[d] = Idle
      /\ proc[c] \in Call /\ CallHolds(proc[c]) /\ Appends(proc[c])
  BY <1>1, BusySound DEF SoundCall
<1>. DEFINE call == [proc[c] EXCEPT !.open = TRUE]
<1>3. proc' = [proc EXCEPT ![c] = call]
  BY DEF OpenPart, LogInv, TypeInv, TypeOK
<1>4. PICK new : new = call
  OBVIOUS
<1>5. /\ new.phase = "write" /\ new.run = proc[c].run /\ new.snap = proc[c].snap
      /\ new.file = proc[c].file
  BY <1>1, <1>2, <1>4 DEF Call
<1>. HIDE DEF call
<1>6. Filled(new)' = Filled(proc[c])
  BY <1>1, <1>5 DEF Filled
<1>7. Final(new) = Final(proc[c])
  BY <1>5 DEF Final
<1>8. SnapHolds(Final(new), Filled(new))'
  <2>1. SnapHolds(Final(new), Filled(proc[c]))
    BY <1>2, <1>7 DEF Appends
  <2>2. UNCHANGED Final(new)
    BY DEF Final
  <2>. QED
    BY <1>1, <1>6, <2>1, <2>2 DEF SnapHolds, PartHolds, EndOf, Base
<1>9. Appends(new)'
  BY <1>1, <1>2, <1>5, <1>8 DEF Appends, LogFits
<1>10. SoundCall(new)'
  BY <1>5, <1>9 DEF SoundCall
<1>. QED
  BY <1>2, <1>3, <1>4, <1>5, <1>10, SoundMoves

\* No step brings a missing file or an uncrashed ledger back.
LEMMA CleanBack ==
    ASSUME LogInv, [Next]_vars, Clean'
    PROVE  Clean
<1>1. CASE UNCHANGED vars
  BY <1>1 DEF vars, disk, counters, Clean
<1>2. ASSUME NEW c \in Processes, Crash(c) PROVE Clean
  BY <1>2 DEF Crash, Clean, LogInv, TypeInv, TypeOK
<1>3. ASSUME UNCHANGED <<files, crashes>> PROVE Clean
  BY <1>3 DEF Clean
<1>4. ASSUME NEW path, NEW file, file # Missing, UNCHANGED crashes,
             files' = [files EXCEPT ![path] = file]
      PROVE  Clean
  <2>1. files \in [Paths -> File]
    BY DEF LogInv, TypeInv, TypeOK
  <2>. QED
    BY <1>4, <2>1 DEF Clean
<1>5. Torn # Missing /\ \A start, runs : Whole(start, runs) # Missing
  BY DEF Torn, Missing, Whole
<1>6. ASSUME NEW c \in Processes, OpenPlaceholder(c) PROVE Clean
  BY <1>3, <1>4, <1>5, <1>6 DEF OpenPlaceholder, counters
<1>7. ASSUME NEW c \in Processes, FillPlaceholder(c) \/ OpenOutput(c) \/ FillOutput(c)
      PROVE  Clean
  BY <1>4, <1>5, <1>7 DEF FillPlaceholder, OpenOutput, FillOutput, counters
<1>8. ASSUME NEW c \in Processes,
             \/ BeginAppend(c) \/ ChoosePart(c) \/ ReadPart(c) \/ OpenPart(c) \/ FillPart(c)
             \/ LogRow(c) \/ BeginCompact(c) \/ WriteSidecar(c) \/ Reread(c)
             \/ WriteBootstrapIndex(c) \/ LogBootstrap(c) \/ WriteIndex(c) \/ Return(c)
      PROVE  UNCHANGED <<files, crashes>>
  BY <1>8 DEF BeginAppend, ChoosePart, ReadPart, OpenPart, FillPart, LogRow, BeginCompact,
              WriteSidecar, Reread, WriteBootstrapIndex, LogBootstrap, WriteIndex, Return, disk, counters
<1>. QED
  BY <1>1, <1>2, <1>3, <1>6, <1>7, <1>8, SerialWrites DEF Next, AppendStep, CompactStep

LEMMA SoundNext ==
    ASSUME ~Overlap, LogInv, SoundInv, [Next]_vars
    PROVE  SoundInv'
<1>. SUFFICES ASSUME Clean' PROVE Sound'
  BY DEF SoundInv
<1>1. Sound /\ TypeInv'
  BY CleanBack, LogNext DEF SoundInv, LogInv
<1>2. CASE UNCHANGED vars
  <2>1. UNCHANGED <<disk, proc>>
    BY <1>2 DEF vars
  <2>2. UNCHANGED <<Untouched, Committed, AtRest>>
    BY <2>1 DEF disk, Untouched, Committed, IndexSnap, SnapHolds, PartHolds, EndOf, Base,
                LogFits, AtRest
  <2>3. ASSUME NEW c \in Processes PROVE SoundCall(proc[c])'
    <3>1. SoundCall(proc[c])
      BY <1>1 DEF Sound
    <3>2. UNCHANGED <<Compacts(proc[c]), Appends(proc[c]), SnapHolds(proc[c].snap, partFiles),
                      LogFits(proc[c].snap.runs), IndexSnap, Reusable(proc[c].snap)>>
      BY <2>1 DEF disk, Compacts, Appends, Final, Filled, IndexSnap, SnapHolds, PartHolds,
                  EndOf, Base, LogFits, Reusable
    <3>. QED
      BY <2>1, <2>2, <3>1, <3>2 DEF SoundCall, disk
  <2>. QED
    BY <1>1, <2>2, <2>3 DEF Sound
<1>3. ASSUME NEW c \in Processes PROVE ~Crash(c)
  BY DEF Crash, Clean, LogInv, TypeInv, TypeOK
<1>4. ASSUME NEW c \in Processes, AppendStep(c) PROVE Sound'
  BY <1>1, <1>4, BeginSound, PlaceholderSound, ChoosePartSound, PartTakenSound, OpenPartSound,
     FillPartSound, LogRowSound DEF AppendStep
<1>5. ASSUME NEW c \in Processes, CompactStep(c) PROVE Sound'
  BY <1>1, <1>5, BeginSound, CompactSound DEF CompactStep
<1>. QED
  BY <1>1, <1>2, <1>3, <1>4, <1>5, BootstrapSound, LogBootstrapSound, WriteIndexSound,
     ReturnSound, SerialWrites DEF Next

LEMMA AckedGrows ==
    ASSUME LogInv, [Next]_vars, NEW r \in Runs
    PROVE  acked'[r] >= acked[r] /\ acked[r] \in Nat
<1>1. acked \in [Runs -> Nat]
  BY DEF LogInv, TypeInv, TypeOK
<1>2. ASSUME NEW c \in Processes, Return(c) PROVE acked'[r] >= acked[r]
  BY <1>1, <1>2 DEF Return
<1>3. UNCHANGED acked \/ \E c \in Processes : Return(c)
  BY DEF Next, AppendStep, CompactStep, vars, counters, BeginAppend, OpenPlaceholder,
         FillPlaceholder, ChoosePart, ReadPart, OpenPart, FillPart, LogRow, BeginCompact,
         OpenOutput, FillOutput, WriteSidecar, Reread, Crash, WriteBootstrapIndex, LogBootstrap,
         WriteIndex, Overtaken
<1>. QED
  BY <1>1, <1>2, <1>3

\* A call that is about to return does nothing else, and nobody else moves.
LEMMA OnlyReturns ==
    ASSUME ~Overlap, LogInv, [Next]_vars, NEW c \in Processes, proc[c].phase = "return"
    PROVE  UNCHANGED vars \/ Return(c) \/ Crash(c)
<1>. SUFFICES ASSUME NEW d \in Processes,
                     \/ AppendStep(d) \/ CompactStep(d) \/ Crash(d)
                     \/ WriteBootstrapIndex(d) \/ LogBootstrap(d) \/ WriteIndex(d) \/ Return(d)
              PROVE  Return(c) \/ Crash(c)
  BY SerialWrites DEF Next
<1>1. proc[c] # Idle
  BY DEF Idle
<1>2. ~BeginAppend(d) /\ ~BeginCompact(d)
  BY <1>1 DEF BeginAppend, BeginCompact, Free
<1>3. proc[d] # Idle
  <2>1. CASE Crash(d)
    BY <2>1 DEF Crash
  <2>2. CASE ~Crash(d)
    <3>1. proc[d].phase \in Phases \ {"idle"}
      BY <1>2, <2>2 DEF AppendStep, CompactStep, WriteBootstrapIndex, LogBootstrap, WriteIndex,
              Return, OpenPlaceholder, FillPlaceholder, ChoosePart, ReadPart, OpenPart, FillPart,
              LogRow, OpenOutput, FillOutput, WriteSidecar, Reread, Phases
    <3>2. Idle.phase = "idle"
      BY DEF Idle
    <3>. QED
      BY <3>1, <3>2
  <2>. QED
    BY <2>1, <2>2
<1>4. d = c
  BY <1>1, <1>3 DEF LogInv
<1>. QED
  BY <1>2, <1>4 DEF AppendStep, CompactStep, WriteBootstrapIndex, LogBootstrap, WriteIndex,
              OpenPlaceholder, FillPlaceholder, ChoosePart, ReadPart, OpenPart, FillPart, LogRow,
              OpenOutput, FillOutput, WriteSidecar, Reread

\* Only an append's last write puts a row into the index.
LEMMA OnlyWritesRow ==
    ASSUME LogInv, [Next]_vars, index'.runs # index.runs
    PROVE  \E c \in Processes : WriteIndex(c)
<1>1. ASSUME NEW c \in Processes, WriteBootstrapIndex(c) \/ WriteSidecar(c)
      PROVE  index'.runs = index.runs
  <2>1. proc[c].phase \in {"bootstrap", "sidecar"}
    BY <1>1 DEF WriteBootstrapIndex, WriteSidecar
  <2>2. proc[c].snap.runs = index.runs
    BY <2>1 DEF LogInv, Faithful, Phases
  <2>. QED
    BY <1>1, <2>2, SerialWrites DEF PartIndex
<1>2. UNCHANGED index \/ \E c \in Processes :
          WriteBootstrapIndex(c) \/ WriteSidecar(c) \/ WriteIndex(c)
  BY SerialWrites DEF Next, AppendStep, CompactStep, vars, disk, BeginAppend, OpenPlaceholder,
         FillPlaceholder, ChoosePart, ReadPart, OpenPart, FillPart, LogRow, BeginCompact,
         OpenOutput, FillOutput, Reread, Crash, LogBootstrap, Return
<1>. QED
  BY <1>1, <1>2

\* A row enters the index with the call that returns it, and a call that
\* reaches its return leaves only by acknowledging the row, or by dying.
LEMMA BackedNext ==
    ASSUME ~Overlap, LogInv, Backed, [Next]_vars
    PROVE  Backed'
<1>. SUFFICES ASSUME crashes' = 0, NEW r \in Members(index'.runs)
              PROVE  acked'[r] > 0 \/ Returning(r)'
  BY DEF Backed
<1>1. \A c \in Processes : ~Crash(c)
  BY DEF Crash, LogInv, TypeInv, TypeOK
<1>2. crashes = 0
  BY <1>1 DEF Next, AppendStep, CompactStep, vars, counters, BeginAppend, OpenPlaceholder,
         FillPlaceholder, ChoosePart, ReadPart, OpenPart, FillPart, LogRow, BeginCompact,
         OpenOutput, FillOutput, WriteSidecar, Reread, Return, WriteBootstrapIndex, LogBootstrap,
         WriteIndex, Overtaken
<1>3. index.runs \in Seq(Runs) /\ TypeInv /\ TypeInv'
  BY LogNext DEF LogInv, TypeInv, TypeOK, Index
<1>4. CASE r \in Members(index.runs)
  <2>1. r \in Runs
    BY <1>3, <1>4 DEF Members
  <2>2. CASE acked[r] > 0
    <3>1. acked'[r] >= acked[r] /\ acked[r] \in Nat /\ acked'[r] \in Nat
      BY <1>3, <2>1, AckedGrows DEF TypeInv, TypeOK
    <3>. QED
      BY <2>2, <3>1
  <2>3. ASSUME NEW c \in Processes, proc[c].phase = "return", proc[c].run = r
        PROVE  acked'[r] > 0 \/ Returning(r)'
    <3>1. CASE Return(c)
      BY <1>3, <2>1, <2>3, <3>1, RunsAssumption DEF Return, TypeInv, TypeOK
    <3>2. CASE UNCHANGED vars
      BY <2>3, <3>2 DEF vars, Returning
    <3>. QED
      BY <1>1, <2>3, <3>1, <3>2, OnlyReturns
  <2>. QED
    BY <1>2, <1>4, <2>2, <2>3 DEF Backed, Returning
<1>5. CASE r \notin Members(index.runs)
  <2>1. PICK c \in Processes : WriteIndex(c)
    BY <1>5, OnlyWritesRow DEF Members
  <2>2. proc[c].phase = "index" /\ index'.runs = proc[c].snap.runs
    BY <2>1, SerialWrites DEF WriteIndex, PartIndex
  <2>3. index'.runs = Append(index.runs, proc[c].run) /\ proc[c].run \in Runs
    BY <1>5, <2>2 DEF LogInv, Faithful, Members
  <2>4. r = proc[c].run
    <3>1. PICK i \in 1 .. Len(index'.runs) : r = index'.runs[i]
      BY DEF Members
    <3>2. CASE i \in 1 .. Len(index.runs)
      <4>1. r = index.runs[i]
        BY <1>3, <2>3, <3>1, <3>2
      <4>. QED
        BY <1>5, <3>2, <4>1 DEF Members
    <3>3. CASE i \notin 1 .. Len(index.runs)
      BY <1>3, <2>3, <3>1, <3>3
    <3>. QED
      BY <3>2, <3>3
  <2>5. proc'[c].phase = "return" /\ proc'[c].run = r
    <3>1. PICK call : /\ proc' = [proc EXCEPT ![c] = call]
                      /\ call.phase = "return" /\ call.run = proc[c].run
      BY <2>1, SerialWrites, TurnsTo
    <3>. QED
      BY <1>3, <2>4, <3>1 DEF TypeInv, TypeOK
  <2>. QED
    BY <2>5 DEF Returning
<1>. QED
  BY <1>4, <1>5

LEMMA SoundInit == Init => SoundInv /\ Backed
<1>. SUFFICES ASSUME Init PROVE SoundInv /\ Backed
  OBVIOUS
<1>1. Untouched
  BY DEF Init, Untouched, Paths
<1>2. \A c \in Processes : SoundCall(proc[c])
  BY IdleSound DEF Init
<1>3. index.runs = <<>>
  BY DEF Init, NoIndex
<1>4. Members(index.runs) = {}
  BY <1>3 DEF Members
<1>. QED
  BY <1>1, <1>2, <1>4 DEF SoundInv, Sound, Backed

LEMMA RowsOfPart ==
    ASSUME NEW runs \in Seq(Runs), NEW a \in Nat, NEW n \in Nat, a + n =< Len(runs)
    PROVE  /\ SubSeq(runs, a + 1, a + n) \in Seq(Runs)
           /\ Len(SubSeq(runs, a + 1, a + n)) = n
           /\ \A k \in 1 .. n : SubSeq(runs, a + 1, a + n)[k] = runs[a + k]
<1>1. \A i \in (a + 1) .. (a + n) : runs[i] \in Runs
  OBVIOUS
<1>. QED
  BY <1>1, SubSeqProperties, SMT

LEMMA CommittedReads == TypeInv /\ Committed => Readable /\ ReadRows = index.runs
<1>. SUFFICES ASSUME TypeInv, Committed PROVE Readable /\ ReadRows = index.runs
  OBVIOUS
<1>1. PICK s \in Snap : s = IndexSnap
  BY IndexSnapType
<1>2. s.runs = index.runs /\ s.compacted = index.compacted /\ s.parts = index.parts
  BY <1>1 DEF IndexSnap
<1>3. SnapHolds(s, partFiles)
  BY <1>1 DEF Committed
<1>4. s.runs \in Seq(Runs) /\ s.parts \in Seq(PartRef) /\ Len(s.parts) \in Nat
  BY DEF Snap
<1>5. index.compacted = Canonical /\ Canonical # None /\ FileAt(index.compacted) = index.sha
  BY <1>2, <1>3, OutputsAssumption DEF SnapHolds, Committed, FileAt, Paths
<1>6. CompactedCount = Base(s)
  BY <1>2, <1>5 DEF CompactedCount, Base
<1>7. \A i : PartEnd(i) = EndOf(s, i)
  BY <1>2, <1>6 DEF PartEnd, EndOf
<1>8. ASSUME NEW i \in 1 .. Len(s.parts)
      PROVE  /\ PartHolds(s, i, partFiles) /\ s.parts[i].start \in Nat
             /\ s.parts[i].count \in Nat /\ s.parts[i].runs \in Seq(Runs)
  BY <1>3, SnapParts DEF SnapHolds
<1>9. \A start, runs : Whole(start, runs).state = "whole"
  BY DEF Whole
<1>10. PartRefsHold
  <2>1. ASSUME NEW i \in 1 .. Len(s.parts)
        PROVE  LET p == s.parts[i] IN
               /\ p.start = PartEnd(i - 1)
               /\ p.count > 0 /\ p.count = Len(p.runs)
               /\ p.start + p.count =< Len(s.runs)
               /\ \A k \in 1 .. p.count : p.runs[k] = s.runs[p.start + k]
               /\ p.start \in Positions
               /\ partFiles[p.start] = p.sha /\ p.sha.state # "missing"
    BY <1>7, <1>8, <1>9 DEF PartHolds
  <2>2. PartEnd(Len(s.parts)) = Len(s.runs)
    BY <1>3, <1>7 DEF SnapHolds
  <2>. QED
    BY <1>2, <2>1, <2>2 DEF PartRefsHold
<1>11. PartIndexHolds
  BY <1>5, <1>10 DEF PartIndexHolds, Committed, CompactedHolds, LogHolds, LogFits
<1>12. PartsRead
  <2>1. ASSUME NEW i \in 1 .. Len(s.parts)
        PROVE  LET p == s.parts[i] IN
               p.sha = Whole(p.start, SubSeq(s.runs, p.start + 1, p.start + p.count))
    <3>1. PICK p : p = s.parts[i]
      OBVIOUS
    <3>2. /\ p.start \in Nat /\ p.count \in Nat /\ p.runs \in Seq(Runs)
          /\ p.count = Len(p.runs) /\ p.start + p.count =< Len(s.runs)
          /\ \A k \in 1 .. p.count : p.runs[k] = s.runs[p.start + k]
          /\ p.sha = Whole(p.start, p.runs)
      BY <1>8, <3>1 DEF PartHolds
    <3>3. PICK part : part = SubSeq(s.runs, p.start + 1, p.start + p.count)
      OBVIOUS
    <3>4. /\ part \in Seq(Runs) /\ Len(part) = p.count
          /\ \A k \in 1 .. p.count : part[k] = s.runs[p.start + k]
      <4>1. PICK a \in Nat, n \in Nat : a = p.start /\ n = p.count
        BY <3>2
      <4>2. a + n =< Len(s.runs)
        BY <3>2, <4>1
      <4>. QED
        BY <1>4, <3>3, <4>1, <4>2, RowsOfPart
    <3>5. part = p.runs
      <4>1. Len(part) = Len(p.runs)
        BY <3>2, <3>4
      <4>2. \A k \in 1 .. Len(part) : part[k] = p.runs[k]
        BY <3>2, <3>4
      <4>. QED
        BY <3>2, <3>4, <4>1, <4>2, SeqEqual
    <3>. QED
      BY <3>1, <3>2, <3>3, <3>5
  <2>2. FileAt(index.compacted) = Whole(0, SubSeq(index.runs, 1, CompactedCount))
    BY <1>2, <1>3, <1>5, <1>6 DEF SnapHolds, Committed
  <2>3. files[index.compacted].state # "missing"
    BY <1>5, <1>9, <2>2 DEF FileAt
  <2>. QED
    BY <1>2, <1>5, <2>1, <2>2, <2>3 DEF PartsRead
<1>. QED
  BY <1>11, <1>12 DEF Readable, ReadRows, Committed

\* Between calls the ledger can be read, and it has exactly the rows the append
\* calls returned, if none of them died and it was compacted onto itself only.
THEOREM SerialLedgerIsComplete ==
    ASSUME ~Overlap
    PROVE  Spec => []CompleteAtRest
<1>1. Untouched => Readable /\ ReadRows = index.runs
  BY DEF Untouched, NoIndex, Readable, NoPartIndex, CanonicalReads, ReadRows, Missing
<1>2. LogInv /\ AckInv /\ SoundInv /\ Backed => CompleteAtRest
  <2>. SUFFICES ASSUME LogInv, AckInv, SoundInv, Backed, AtRest, Clean
                PROVE  Readable /\ Members(ReadRows) = {r \in Runs : acked[r] > 0}
    BY DEF CompleteAtRest, Clean
  <2>1. Readable /\ ReadRows = index.runs
    BY <1>1, CommittedReads DEF SoundInv, Sound, LogInv
  <2>2. ASSUME NEW r \in Members(index.runs) PROVE r \in Runs /\ acked[r] > 0
    <3>1. r \in Runs
      BY DEF Members, LogInv, TypeInv, TypeOK, Index
    <3>2. ~Returning(r)
      BY DEF Returning, AtRest, Idle
    <3>. QED
      BY <3>1, <3>2 DEF Backed, Clean
  <2>. QED
    BY <2>1, <2>2 DEF AckInv
<1>3. Spec => [](LogInv /\ AckInv)
  BY LogAlways
<1>4. Init => SoundInv /\ Backed
  BY SoundInit
<1>5. LogInv /\ SoundInv /\ Backed /\ [Next]_vars => (SoundInv /\ Backed)'
  BY SoundNext, BackedNext
<1>. QED
  BY <1>2, <1>3, <1>4, <1>5, PTL DEF Spec
=============================================================================
