------------------------------- MODULE Ledger -------------------------------
(***************************************************************************)
(* The experiment ledger (src/tradingbotsuite/v2/ledger/service.py): a     *)
(* canonical Parquet path, part files beside it, an append log of JSON     *)
(* lines, and an index file that says which of them make up the ledger.    *)
(*                                                                         *)
(* There is no lock.  A process is a ledger worker job or a CLI command;   *)
(* it validates what it finds, then writes one file after another: a       *)
(* Parquet file in place (opened, then filled), a line at the end of the   *)
(* append log, and the index by renaming a temporary file, whose name all  *)
(* processes share.  It may die in between.                                *)
(***************************************************************************)
EXTENDS Naturals, Sequences

CONSTANTS
    Runs,           \* run ids
    Processes,      \* callers of append_run_to_ledger and compact_ledger_parts
    Outputs,        \* output paths given to compact_ledger_parts
    None,           \* no path, no run
    MaxPartRows,    \* max_part_rows of a request
    Overlap,        \* TRUE: processes may be inside their calls at the same time
    MaxRows,        \* bound: rows of the ledger
    MaxCompactions, \* bound: calls of compact_ledger_parts
    MaxCrashes      \* bound: process crashes

\* The canonical path, and the default output of a compaction, which lies
\* inside the parts directory.  Any other output is a path given by --output.
Canonical == "ledger"
Default == "current"
Paths == Outputs \cup {Canonical}
Positions == 0 .. (MaxRows - 1)

ASSUME RunsAssumption == None \notin Runs
ASSUME OutputsAssumption == None \notin Paths
ASSUME PartRowsAssumption == MaxPartRows \in Nat \ {0} /\ MaxRows \in Nat \ {0}
ASSUME LedgerBoundsAssumption ==
    Overlap \in BOOLEAN /\ MaxCompactions \in Nat /\ MaxCrashes \in Nat

VARIABLES
    files,          \* the Parquet file at each path
    partFiles,      \* ledger_part_NNNNNN.parquet, by the index in its name
    index,          \* ledger.index.json
    log,            \* append_log.jsonl: the (run, row index) pairs its lines name
    root,           \* the parts directory exists
    proc,           \* per process: the call it is in
    acked,          \* per run: how many append calls for it returned a row
    compactions,    \* compactions begun so far
    crashes         \* crashes so far

disk == <<files, partFiles, index, log, root>>
counters == <<acked, compactions, crashes>>
vars == <<disk, proc, counters>>

-----------------------------------------------------------------------------
(* Files.  Rows are their run ids; start is the ledger_index of the first. *)
(* The bytes of a file, and so its SHA-256, are a function of its rows:    *)
(* a row holds nothing but fields of its run manifest and its index.       *)

Missing == [state |-> "missing", start |-> 0, runs |-> <<>>]
Torn == [state |-> "torn", start |-> 0, runs |-> <<>>]
Whole(start, runs) == [state |-> "whole", start |-> start, runs |-> runs]

File == {Missing, Torn} \cup [state : {"whole"}, start : Nat, runs : Seq(Runs)]

Members(s) == {s[i] : i \in 1 .. Len(s)}

PartRef == [start : Nat, count : Nat, runs : Seq(Runs), sha : File]

\* "rows" is the ledger_index_v1 sidecar of a Parquet file, "parts" the
\* ledger_part_index_v1 file; both have the same path.
Index ==
    [kind : {"none", "torn", "rows", "parts"}, runs : Seq(Runs),
     compacted : Paths \cup {None}, sha : File, parts : Seq(PartRef)]

NoIndex ==
    [kind |-> "none", runs |-> <<>>, compacted |-> None, sha |-> Missing, parts |-> <<>>]

TornIndex == [NoIndex EXCEPT !.kind = "torn"]

FileAt(path) == IF path = None THEN Missing ELSE files[path]

Mut_PartIndex(snap) ==
    [kind |-> "part_index", runs |-> snap.runs, compacted |-> snap.compacted,
     sha |-> FileAt(snap.compacted), parts |-> snap.parts]

\* _write_ledger_part_index hashes the compacted file as it finds it.
PartIndex(snap) ==
    [kind |-> "parts", runs |-> snap.runs, compacted |-> snap.compacted,
     sha |-> FileAt(snap.compacted), parts |-> snap.parts]

CompactedCount ==
    IF index.compacted = None THEN 0
    ELSE IF index.parts = <<>> THEN Len(index.runs) ELSE index.parts[1].start

-----------------------------------------------------------------------------
(* What a process finds.                                                   *)

PartEnd(i) == IF i = 0 THEN CompactedCount ELSE index.parts[i].start + index.parts[i].count

\* _validate_ledger_part_refs
PartRefsHold ==
    /\ \A i \in 1 .. Len(index.parts) :
          LET p == index.parts[i] IN
          /\ p.start = PartEnd(i - 1)
          /\ p.count > 0 /\ p.count = Len(p.runs)
          /\ p.start + p.count =< Len(index.runs)
          /\ \A k \in 1 .. p.count : p.runs[k] = index.runs[p.start + k]
          /\ p.start \in Positions
          /\ partFiles[p.start] = p.sha /\ p.sha.state # "missing"
    /\ PartEnd(Len(index.parts)) = Len(index.runs)

CompactedHolds == index.sha.state # "missing" => FileAt(index.compacted) = index.sha

Mut_LogHolds == TRUE

\* _validate_ledger_append_log_index: the index knows every logged row.
LogHolds == \A e \in log : e.at < Len(index.runs) /\ index.runs[e.at + 1] = e.run

\* _read_valid_ledger_part_index finds a part index that holds, or no part
\* index at all; anything else raises.
PartIndexHolds == index.kind = "parts" /\ PartRefsHold /\ CompactedHolds /\ LogHolds

NoPartIndex == index.kind = "rows" \/ (index.kind \in {"none", "torn"} /\ ~root)

\* _read_ledger_parts: every table has the rows the index has for it.
PartsRead ==
    /\ \A i \in 1 .. Len(index.parts) :
          LET p == index.parts[i] IN
          p.sha = Whole(p.start, SubSeq(index.runs, p.start + 1, p.start + p.count))
    /\ IF index.compacted # None /\ files[index.compacted].state # "missing"
       THEN FileAt(index.compacted) = Whole(0, SubSeq(index.runs, 1, CompactedCount))
       ELSE CompactedCount = 0

CanonicalReads == files[Canonical].state # "torn" /\ files[Canonical].start = 0

\* read_ledger returns, and what it returns.
Readable == (PartIndexHolds /\ PartsRead) \/ (NoPartIndex /\ CanonicalReads)

ReadRows == IF index.kind = "parts" THEN index.runs ELSE files[Canonical].runs

\* _read_valid_ledger_index: the sidecar is of this very Parquet file.
SidecarHolds ==
    index.kind = "rows" /\ files[Canonical].state # "missing" /\ files[Canonical] = index.sha

-----------------------------------------------------------------------------
(* A call.  Its phase names what it does next; snap is the part index it   *)
(* works from (for a compaction, the one it will write); file is what it   *)
(* is writing to the Parquet file it has open; temp is where its temporary *)
(* file of the index is: at its name, or another call has made it the      *)
(* index, or has replaced that since.                                      *)

Phases == {"idle", "placeholder", "bootstrap", "bootlog", "part", "rows", "write", "log",
           "index", "return", "output", "sidecar", "reread"}

Snap == [runs : Seq(Runs), compacted : Paths \cup {None}, parts : Seq(PartRef)]

Call ==
    [phase : Phases, run : Runs \cup {None}, snap : Snap, open : BOOLEAN, file : File,
     temp : {"named", "index", "gone"}]

Idle ==
    [phase |-> "idle", run |-> None, open |-> FALSE, file |-> Missing, temp |-> "named",
     snap |-> [runs |-> <<>>, compacted |-> None, parts |-> <<>>]]

Calling(phase, run, snap) ==
    [phase |-> phase, run |-> run, snap |-> snap, open |-> FALSE, file |-> Missing,
     temp |-> "named"]

Bare(runs, path) == [runs |-> runs, compacted |-> path, parts |-> <<>>]

Free(c) == proc[c] = Idle /\ (Overlap \/ \A d \in Processes : proc[d] = Idle)

Becomes(c, call) == proc' = [proc EXCEPT ![c] = call]

Turns(c, phase) == proc' = [proc EXCEPT ![c].phase = phase, ![c].open = FALSE]

-----------------------------------------------------------------------------
(* _write_json_atomic.  Calls that write the index at the same time may    *)
(* have the same temporary file open: what one renames may be another's,   *)
(* or half of it, and the other still writes to it, and then finds nothing *)
(* to rename and raises.                                                   *)

Writing == {"bootstrap", "index", "sidecar"}

\* A sidecar says which rows the Parquet file beside it has.
Document(c) ==
    LET snap == proc[c].snap IN
    IF proc[c].phase = "sidecar"
    THEN [kind |-> "rows", runs |-> snap.runs, compacted |-> None,
          sha |-> files[Canonical], parts |-> <<>>]
    ELSE PartIndex(snap)

Writers == {d \in Processes : proc[d].phase \in Writing /\ proc[d].temp = "named"}

\* What is at the name, when these calls have it open.
Renamed(c, writers) ==
    {Document(d) : d \in writers} \cup IF writers = {c} THEN {} ELSE {TornIndex}

Replace(c, next) ==
    \E writers \in SUBSET Writers :
        /\ writers # {} /\ (proc[c].temp = "named" => c \in writers)
        /\ index' \in Renamed(c, writers)
        /\ proc' = [d \in Processes |->
              IF d = c THEN [proc[d] EXCEPT !.phase = next, !.open = FALSE, !.temp = "named"]
              ELSE IF d \in writers THEN [proc[d] EXCEPT !.temp = "index"]
              ELSE IF proc[d].temp = "index" THEN [proc[d] EXCEPT !.temp = "gone"]
              ELSE proc[d]]

Overtaken(c) ==
    /\ proc[c].phase \in Writing /\ proc[c].temp # "named"
    /\ index' \in IF proc[c].temp = "index" THEN {index, Document(c), TornIndex} ELSE {index}
    /\ Becomes(c, Idle)
    /\ UNCHANGED <<files, partFiles, log, root, counters>>

-----------------------------------------------------------------------------
(* append_run_to_ledger.  A call that is refused changes nothing.          *)

Mut_AppendToParts(c, r) ==
    /\ PartIndexHolds
    /\ Becomes(c, Calling("part", r, [runs |-> index.runs, compacted |-> index.compacted,
                                      parts |-> index.parts]))

AppendToParts(c, r) ==
    /\ PartIndexHolds
    /\ r \notin Members(index.runs)
    /\ Becomes(c, Calling("part", r, [runs |-> index.runs, compacted |-> index.compacted,
                                      parts |-> index.parts]))

\* A ledger with no part index gets one first: from the sidecar of the
\* canonical file, or from its rows, or for a new ledger from nothing.
AppendToParquet(c, r) ==
    /\ NoPartIndex
    /\ SidecarHolds \/ CanonicalReads
    /\ LET known == IF SidecarHolds THEN index.runs ELSE files[Canonical].runs IN
       /\ r \notin Members(known)
       /\ IF files[Canonical].state = "missing"
          THEN Becomes(c, Calling("placeholder", r, Bare(known, None)))
          ELSE Becomes(c, Calling("bootstrap", r, Bare(known, Canonical)))

BeginAppend(c) ==
    /\ Free(c)
    /\ \E r \in Runs : AppendToParts(c, r) \/ AppendToParquet(c, r)
    /\ UNCHANGED <<disk, counters>>

\* _write_empty_ledger_placeholder, unless the file has appeared meanwhile.
OpenPlaceholder(c) ==
    /\ proc[c].phase = "placeholder" /\ ~proc[c].open
    /\ IF files[Canonical].state = "missing"
       THEN /\ files' = [files EXCEPT ![Canonical] = Torn]
            /\ proc' = [proc EXCEPT ![c].open = TRUE, ![c].snap.compacted = Canonical]
       ELSE /\ Turns(c, "bootstrap")
            /\ UNCHANGED files
    /\ UNCHANGED <<partFiles, index, log, root, counters>>

FillPlaceholder(c) ==
    /\ proc[c].phase = "placeholder" /\ proc[c].open
    /\ files' = [files EXCEPT ![Canonical] = Whole(0, <<>>)]
    /\ Turns(c, "bootstrap")
    /\ UNCHANGED <<partFiles, index, log, root, counters>>

\* _bootstrap_ledger_part_index, for an append or for a compaction.
WriteBootstrapIndex(c) ==
    /\ proc[c].phase = "bootstrap"
    /\ Replace(c, IF proc[c].snap.runs # <<>> THEN "bootlog"
                  ELSE IF proc[c].run = None THEN "return" ELSE "part")
    /\ UNCHANGED <<files, partFiles, log, root, counters>>

LogBootstrap(c) ==
    LET runs == proc[c].snap.runs IN
    /\ proc[c].phase = "bootlog"
    /\ log' = log \cup {[run |-> runs[i], at |-> i - 1] : i \in 1 .. Len(runs)}
    /\ root' = TRUE
    /\ Turns(c, IF proc[c].run = None THEN "return" ELSE "part")
    /\ UNCHANGED <<files, partFiles, index, counters>>

\* _append_ledger_row_part: the last part is rewritten with one row more while
\* it has room and is what the index says it is; otherwise a new part begins.
Reusable(snap) ==
    /\ snap.parts # <<>>
    /\ LET last == snap.parts[Len(snap.parts)] IN
       /\ last.count < MaxPartRows
       /\ last.start \in Positions /\ last.start + last.count = Len(snap.runs)
       /\ partFiles[last.start].state # "missing"
       /\ partFiles[last.start] = last.sha

\* part_ref, existing_rows and the path are settled.
PartTaken(c, start, rows, parts) ==
    proc' = [proc EXCEPT ![c].phase = "write", ![c].file = Whole(start, Append(rows, proc[c].run)),
                         ![c].snap.parts = parts]

Ref(start, count, runs) == [start |-> start, count |-> count, sha |-> Torn, runs |-> runs]

ChoosePart(c) ==
    LET snap == proc[c].snap
        start == Len(snap.runs)
    IN /\ proc[c].phase = "part"
       /\ IF Reusable(snap) THEN Turns(c, "rows")
          ELSE /\ start \in Positions
               /\ PartTaken(c, start, <<>>, Append(snap.parts, Ref(start, 1, <<proc[c].run>>)))
       /\ root' = TRUE
       /\ UNCHANGED <<files, partFiles, index, log, counters>>

\* The rows of the last part are read.  A torn file that was hashed as it is
\* passes until here; the append fails then.
ReadPart(c) ==
    LET snap == proc[c].snap
        n == Len(snap.parts)
        last == snap.parts[n]
        found == partFiles[last.start]
    IN /\ proc[c].phase = "rows"
       /\ IF found.state = "whole"
          THEN PartTaken(c, last.start, found.runs, [snap.parts EXCEPT
                   ![n] = Ref(last.start, Len(found.runs) + 1, Append(last.runs, proc[c].run))])
          ELSE Becomes(c, Idle)
       /\ UNCHANGED <<disk, counters>>

OpenPart(c) ==
    /\ proc[c].phase = "write" /\ ~proc[c].open
    /\ partFiles' = [partFiles EXCEPT ![proc[c].file.start] = Torn]
    /\ proc' = [proc EXCEPT ![c].open = TRUE]
    /\ UNCHANGED <<files, index, log, root, counters>>

FillPart(c) ==
    /\ proc[c].phase = "write" /\ proc[c].open
    /\ partFiles' = [partFiles EXCEPT ![proc[c].file.start] = proc[c].file]
    /\ Turns(c, "log")
    /\ UNCHANGED <<files, index, log, root, counters>>

Mut_LogRow(c) ==
    LET snap == proc[c].snap IN
    /\ proc[c].phase = "log"
    /\ log' = log \cup {[run |-> proc[c].run, at |-> Len(snap.runs) + 1]}
    /\ proc' = [proc EXCEPT
          ![c].phase = "index",
          ![c].snap.runs = Append(@, proc[c].run),
          ![c].snap.parts[Len(snap.parts)].sha = partFiles[proc[c].file.start]]
    /\ UNCHANGED <<files, partFiles, index, root, counters>>

\* The part is hashed as it is found by then, and the row is logged.
LogRow(c) ==
    LET snap == proc[c].snap IN
    /\ proc[c].phase = "log"
    /\ log' = log \cup {[run |-> proc[c].run, at |-> Len(snap.runs)]}
    /\ proc' = [proc EXCEPT
          ![c].phase = "index",
          ![c].snap.runs = Append(@, proc[c].run),
          ![c].snap.parts[Len(snap.parts)].sha = partFiles[proc[c].file.start]]
    /\ UNCHANGED <<files, partFiles, index, root, counters>>

\* The row is in the ledger from here on.
WriteIndex(c) ==
    /\ proc[c].phase = "index"
    /\ Replace(c, "return")
    /\ UNCHANGED <<files, partFiles, log, root, counters>>

\* The call returns.  A worker then writes its exports and succeeds its job.
Return(c) ==
    /\ proc[c].phase = "return"
    /\ Becomes(c, Idle)
    /\ acked' = IF proc[c].run = None THEN acked
                ELSE [acked EXCEPT ![proc[c].run] = @ + 1]
    /\ UNCHANGED <<disk, compactions, crashes>>

-----------------------------------------------------------------------------
(* compact_ledger_parts                                                    *)

BeginCompact(c) ==
    /\ Free(c)
    /\ compactions < MaxCompactions
    /\ Readable
    /\ \E out \in Outputs : Becomes(c, Calling("output", None, Bare(ReadRows, out)))
    /\ compactions' = compactions + 1
    /\ UNCHANGED <<disk, acked, crashes>>

OpenOutput(c) ==
    /\ proc[c].phase = "output" /\ ~proc[c].open
    /\ files' = [files EXCEPT ![proc[c].snap.compacted] = Torn]
    /\ root' = (root \/ proc[c].snap.compacted = Default)
    /\ proc' = [proc EXCEPT ![c].open = TRUE]
    /\ UNCHANGED <<partFiles, index, log, counters>>

Mut_FillOutput(c) ==
    /\ proc[c].phase = "output" /\ proc[c].open
    /\ files' = [files EXCEPT ![proc[c].snap.compacted] = Whole(0, SubSeq(proc[c].snap.runs, 2, Len(proc[c].snap.runs)))]
    /\ Turns(c, IF proc[c].snap.compacted = Canonical THEN "sidecar" ELSE "reread")
    /\ UNCHANGED <<partFiles, index, log, root, counters>>

FillOutput(c) ==
    /\ proc[c].phase = "output" /\ proc[c].open
    /\ files' = [files EXCEPT ![proc[c].snap.compacted] = Whole(0, proc[c].snap.runs)]
    /\ Turns(c, IF proc[c].snap.compacted = Canonical THEN "sidecar" ELSE "reread")
    /\ UNCHANGED <<partFiles, index, log, root, counters>>

\* _write_ledger_rows ends with a ledger_index_v1 sidecar beside its output;
\* that of the canonical path takes the place of the part index.
WriteSidecar(c) ==
    /\ proc[c].phase = "sidecar"
    /\ Replace(c, "reread")
    /\ UNCHANGED <<files, partFiles, log, root, counters>>

\* The index is validated again, with the new output in place, and rewritten
\* without parts; the call raises if it does not hold.
Reread(c) ==
    /\ proc[c].phase = "reread"
    /\ \/ PartIndexHolds /\ Turns(c, "index")
       \/ NoPartIndex /\ Turns(c, "bootstrap")
       \/ ~PartIndexHolds /\ ~NoPartIndex /\ Becomes(c, Idle)
    /\ UNCHANGED <<disk, counters>>

-----------------------------------------------------------------------------
\* A process dies: what it has written so far stays as it is.
Crash(c) ==
    /\ crashes < MaxCrashes
    /\ proc[c] # Idle
    /\ Becomes(c, Idle)
    /\ crashes' = crashes + 1
    /\ UNCHANGED <<disk, acked, compactions>>

Init ==
    /\ files = [path \in Paths |-> Missing]
    /\ partFiles = [n \in Positions |-> Missing]
    /\ index = NoIndex
    /\ log = {}
    /\ root = FALSE
    /\ proc = [c \in Processes |-> Idle]
    /\ acked = [r \in Runs |-> 0]
    /\ compactions = 0
    /\ crashes = 0

AppendStep(c) ==
    \/ BeginAppend(c) \/ OpenPlaceholder(c) \/ FillPlaceholder(c)
    \/ ChoosePart(c) \/ ReadPart(c) \/ OpenPart(c) \/ FillPart(c) \/ LogRow(c)

CompactStep(c) ==
    BeginCompact(c) \/ OpenOutput(c) \/ FillOutput(c) \/ WriteSidecar(c) \/ Reread(c)

Next ==
    \E c \in Processes :
        \/ AppendStep(c) \/ CompactStep(c) \/ Crash(c)
        \/ WriteBootstrapIndex(c) \/ LogBootstrap(c) \/ WriteIndex(c) \/ Overtaken(c)
        \/ Return(c)

Spec == Init /\ [][Next]_vars

-----------------------------------------------------------------------------
(* Properties.                                                             *)

\* The type of the files and of every call's local state.
TypeOK ==
    /\ files \in [Paths -> File]
    /\ partFiles \in [Positions -> File]
    /\ index \in Index
    /\ log \in SUBSET [run : Runs, at : Nat]
    /\ root \in BOOLEAN
    /\ proc \in [Processes -> Call]
    /\ acked \in [Runs -> Nat]
    /\ compactions \in Nat
    /\ crashes \in Nat

AtRest == \A c \in Processes : proc[c] = Idle

\* Between calls the ledger can be read, and it has exactly the rows the
\* append calls returned, if none died and it was compacted onto itself only.
CompleteAtRest ==
    AtRest /\ crashes = 0 /\ (\A path \in Paths \ {Canonical} : files[path] = Missing)
        => Readable /\ Members(ReadRows) = {r \in Runs : acked[r] > 0}

\* A ledger that holds rows can be read, and so appended to, between calls.
KeepsAppending == AtRest /\ (\E r \in Runs : acked[r] > 0) => Readable

\* A reader is never given a ledger that lacks a row some call returned:
\* whatever destroyed or dropped it, the ledger fails closed.
FailsClosed ==
    Readable => {r \in Runs : acked[r] > 0} \subseteq Members(ReadRows)

\* Two readers, one after the other, see the same rows in the same order, the
\* second possibly more.
ReadersSeeItGrow ==
    [][Readable /\ Readable' =>
          /\ Len(ReadRows) =< Len(ReadRows')
          /\ \A i \in 1 .. Len(ReadRows) : ReadRows'[i] = ReadRows[i]]_vars

\* Duplicate run ids fail: at most one append call returns a row for a run.
DuplicatesFail == \A r \in Runs : acked[r] =< 1

\* The ledger is the append-only log LedgerLog describes: its rows are those
\* the index names, and the index is what each append commits.
AsLog == INSTANCE LedgerLog WITH log <- index.runs

ImplementsLog == AsLog!Spec
=============================================================================
