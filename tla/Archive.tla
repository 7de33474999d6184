------------------------------- MODULE Archive -------------------------------
(***************************************************************************)
(* The v2 archive as its collector jobs write it.  A job archives the      *)
(* payload it fetched as a raw file, rebuilds a bronze file from the raw   *)
(* one and a silver file from the bronze one, and records each in Parquet  *)
(* tables under manifests/.  A data file is written once: its writer       *)
(* refuses a path that exists.  A table is rewritten whole: its writer     *)
(* loads the rows, adds its own and writes all of them back in place.      *)
(* Neither write is atomic, no lock is held between a load and the write   *)
(* that uses it, and a worker can die at any point.                        *)
(*                                                                         *)
(* A file's id is its SHA-256, so a file's content is its id here.  The    *)
(* derived timeframes of a silver rebuild, the funding and asset-context   *)
(* datasets and the microstructure captures write the same kinds of file   *)
(* and row in the same order and are left out.                             *)
(***************************************************************************)
EXTENDS Integers, Sequences, FiniteSets

CONSTANTS Workers,      \* worker processes that run collector jobs
          Jobs,         \* job ids
          Kind,         \* job -> "candles" or "universe"
          Payloads,     \* what a fetch or a records file can return
          Fetches,      \* job -> payloads its source may return
          Parses,       \* payloads with at least one row that parses
          Slots,        \* bar timestamps
          Bars,         \* payload -> timestamps of its bars
          MaxAttempts,  \* bound: job -> claims of it
          None,         \* an idle worker, a job without refs, no source
          Torn          \* a file or table whose write was cut short

ASSUME KindAssumption ==
    /\ Kind \in [Jobs -> {"candles", "universe"}]
    /\ Fetches \in [Jobs -> SUBSET Payloads]
    /\ Parses \subseteq Payloads
    /\ Slots \subseteq Int
    /\ Bars \in [Payloads -> SUBSET Slots]
    /\ MaxAttempts \in [Jobs -> Nat]

(* A Parquet file cut short is not an empty table.                         *)
ASSUME TornAssumption == Torn # {}

VARIABLES file,       \* path -> content, for the data files on disk
          table,      \* table name -> its rows, or Torn
          status,     \* job -> status in the job store
          attempts,   \* job -> times it was claimed
          refs,       \* job -> id of its last output file, once succeeded
          worker,     \* worker -> what it is doing, or None
          raced       \* history: a write replaced what its writer had not seen

vars == <<file, table, status, attempts, refs, worker, raced>>

-----------------------------------------------------------------------------
(* What the files and rows hold.                                           *)

Layers == {"raw", "bronze", "silver"}
Tables == {"files", "runs", "norms", "coverage", "snapshots",
           "catalog", "contexts", "universe"}

Raw(p) == [layer |-> "raw", from |-> None, data |-> p]
RawIds == {Raw(p) : p \in Payloads}
BronzeIds == [layer : {"bronze"}, from : RawIds, data : Payloads]
SilverIds == [layer : {"silver"}, from : BronzeIds, data : Payloads]
FileIds == RawIds \cup BronzeIds \cup SilverIds

(* A candle job's run id is its job id; a universe refresh names its run   *)
(* after the payload.                                                      *)
RunId(j, p) == IF Kind[j] = "candles" THEN j ELSE p

(* A raw file lies under its run; a table file's name is its rows' hash.   *)
PathOf(run, id) == IF id.layer = "raw" THEN <<"raw", run>> ELSE <<id.layer, id>>

(* One entry per file or row a job writes, in the order it writes them.    *)
CandleSteps == <<"raw", "files", "runs", "bronze", "files", "norms",
                 "silver", "files", "norms", "coverage", "snapshots">>
Mut_UniverseSteps == <<"raw", "files", "runs", "universe", "catalog", "contexts">>
UniverseSteps == <<"raw", "files", "runs", "catalog", "contexts", "universe">>
Steps(j) == IF Kind[j] = "candles" THEN CandleSteps ELSE UniverseSteps

NotRead == [old |-> None, new |-> None]

Busy(w) == worker[w] # None
Finished(w) == worker[w].at > Len(Steps(worker[w].job))
Step(w) == Steps(worker[w].job)[worker[w].at]
AtFile(w) == Busy(w) /\ ~Finished(w) /\ Step(w) \in Layers
AtTable(w) == Busy(w) /\ ~Finished(w) /\ Step(w) \in Tables
Waiting(w) == worker[w].seen = NotRead
Run(w) == RunId(worker[w].job, worker[w].payload)

Advance(w, id) == [worker EXCEPT ![w].at = @ + 1, ![w].last = id, ![w].seen = NotRead]

(* The window and the missing bars a coverage report states, which with    *)
(* the instrument and timeframe are all that identify it.                  *)
Start(p) == CHOOSE s \in Bars[p] : \A t \in Bars[p] : s <= t
End(p) == 1 + CHOOSE s \in Bars[p] : \A t \in Bars[p] : t <= s
Report(p) == [start |-> Start(p), end |-> End(p),
              missing |-> (Start(p) .. End(p) - 1) \ Bars[p]]

(* Two rows with the same key are versions of one row.                     *)
Key(t, r) ==
    CASE t = "files"                   -> r.id
      [] t \in {"catalog", "contexts"} -> "instrument"
      [] OTHER                         -> r

Mut_Upsert(t, old, new) == new
Upsert(t, old, new) ==
    {r \in old : \A n \in new : Key(t, r) # Key(t, n)} \cup new

Rows(t) == IF table[t] = Torn THEN {} ELSE table[t]
SilverRows == {r.id : r \in {q \in Rows("files") : q.id.layer = "silver"}}

NewRows(w, t) ==
    LET id == worker[w].last IN
    CASE t = "files"     -> {[id |-> id, path |-> PathOf(Run(w), id)]}
      [] t = "runs"      -> {[run |-> Run(w)]}
      [] t = "norms"     -> {[from |-> id.from, to |-> id]}
      [] t = "coverage"  -> {Report(id.data)}
      [] t = "snapshots" -> {[files |-> SilverRows, start |-> Start(id.data),
                              end |-> End(id.data)]}
      [] OTHER           -> {[raw |-> id]}

-----------------------------------------------------------------------------
(* Worker steps.                                                           *)

Claim(w, j, p) ==
    /\ ~Busy(w)
    /\ status[j] = "queued"
    /\ attempts[j] < MaxAttempts[j]
    /\ p \in Fetches[j]
    /\ status' = [status EXCEPT ![j] = "running"]
    /\ attempts' = [attempts EXCEPT ![j] = @ + 1]
    /\ worker' = [worker EXCEPT ![w] = [job |-> j, payload |-> p, at |-> 1,
                                        last |-> None, seen |-> NotRead]]
    /\ UNCHANGED <<file, table, refs, raced>>

(* The data a file step rebuilds from: the fetched payload, or the file    *)
(* the manifest names for the id the previous layer returned.              *)
SourceData(w) ==
    IF Step(w) = "raw" THEN {worker[w].payload}
    ELSE {file[r.path].data : r \in {q \in Rows("files") :
                                       /\ q.id = worker[w].last
                                       /\ q.path \in DOMAIN file
                                       /\ file[q.path] # Torn}}

NextFile(w, d) ==
    IF Step(w) = "raw" THEN Raw(d)
    ELSE [layer |-> Step(w), from |-> worker[w].last, data |-> d]

Mut_CanOpen(w, d) == d \in SourceData(w) /\ (Step(w) = "raw" \/ d \in Parses)
CanOpen(w, d) ==
    /\ d \in SourceData(w)
    /\ Step(w) = "raw" \/ d \in Parses
    /\ PathOf(Run(w), NextFile(w, d)) \notin DOMAIN file

(* Read the source and find the target path free.                          *)
OpenFile(w) ==
    /\ AtFile(w) /\ Waiting(w)
    /\ \E d \in SourceData(w) :
         /\ CanOpen(w, d)
         /\ worker' = [worker EXCEPT ![w].seen =
                [old |-> PathOf(Run(w), NextFile(w, d)) \in DOMAIN file,
                 new |-> NextFile(w, d)]]
    /\ UNCHANGED <<file, table, status, attempts, refs, raced>>

WriteFile(w) ==
    /\ AtFile(w) /\ ~Waiting(w)
    /\ LET id == worker[w].seen.new
           path == PathOf(Run(w), id)
       IN /\ file' = [q \in DOMAIN file \cup {path} |-> IF q = path THEN id ELSE file[q]]
          /\ raced' = (raced \/ (path \in DOMAIN file) # worker[w].seen.old)
          /\ worker' = Advance(w, id)
    /\ UNCHANGED <<table, status, attempts, refs>>

CanLoad(w) ==
    /\ table[Step(w)] # Torn
    /\ Step(w) = "snapshots" => table["files"] # Torn /\ table["coverage"] # Torn
    /\ Step(w) = "catalog" => worker[w].payload \in Parses

LoadTable(w) ==
    /\ AtTable(w) /\ Waiting(w)
    /\ CanLoad(w)
    /\ worker' = [worker EXCEPT ![w].seen = [old |-> table[Step(w)],
                                             new |-> NewRows(w, Step(w))]]
    /\ UNCHANGED <<file, table, status, attempts, refs, raced>>

(* A snapshot that is already there is not written again.                  *)
Rewrites(w) ==
    ~(Step(w) = "snapshots" /\ worker[w].seen.new \subseteq worker[w].seen.old)

StoreTable(w) ==
    /\ AtTable(w) /\ ~Waiting(w)
    /\ LET t == Step(w)
           old == worker[w].seen.old
           new == worker[w].seen.new
       IN IF Rewrites(w)
          THEN /\ table' = [table EXCEPT ![t] = Upsert(t, old, new)]
               /\ raced' = (raced \/ table[t] # old)
          ELSE UNCHANGED <<table, raced>>
    /\ worker' = Advance(w, worker[w].last)
    /\ UNCHANGED <<file, status, attempts, refs>>

(* skip_coverage and create_snapshot of the job's spec.                    *)
SkipTable(w) ==
    /\ AtTable(w) /\ Waiting(w)
    /\ Step(w) \in {"coverage", "snapshots"}
    /\ worker' = Advance(w, worker[w].last)
    /\ UNCHANGED <<file, table, status, attempts, refs, raced>>

Succeed(w) ==
    /\ Busy(w) /\ Finished(w)
    /\ status' = [status EXCEPT ![worker[w].job] = "succeeded"]
    /\ refs' = [refs EXCEPT ![worker[w].job] = worker[w].last]
    /\ worker' = [worker EXCEPT ![w] = None]
    /\ UNCHANGED <<file, table, attempts, raced>>

(* The step raises, and the runner fails the job.                          *)
Fail(w) ==
    /\ \/ AtFile(w) /\ Waiting(w) /\ ~\E d \in SourceData(w) : CanOpen(w, d)
       \/ AtTable(w) /\ Waiting(w) /\ ~CanLoad(w)
    /\ status' = [status EXCEPT ![worker[w].job] = "failed"]
    /\ worker' = [worker EXCEPT ![w] = None]
    /\ UNCHANGED <<file, table, attempts, refs, raced>>

(* The process dies; a write it was in may be cut short.                   *)
Crash(w) ==
    /\ Busy(w)
    /\ status' = [status EXCEPT ![worker[w].job] = "stale"]
    /\ worker' = [worker EXCEPT ![w] = None]
    /\ \/ UNCHANGED <<file, table, raced>>
       \/ /\ AtFile(w) /\ ~Waiting(w)
          /\ LET path == PathOf(Run(w), worker[w].seen.new)
             IN /\ file' = [q \in DOMAIN file \cup {path} |->
                                IF q = path THEN Torn ELSE file[q]]
                /\ raced' = (raced \/ (path \in DOMAIN file) # worker[w].seen.old)
          /\ UNCHANGED table
       \/ /\ AtTable(w) /\ ~Waiting(w) /\ Rewrites(w)
          /\ table' = [table EXCEPT ![Step(w)] = Torn]
          /\ UNCHANGED <<file, raced>>
    /\ UNCHANGED <<attempts, refs>>

(* An operator or the retry policy queues the job again.                   *)
Retry(j) ==
    /\ status[j] \in {"failed", "stale"}
    /\ attempts[j] < MaxAttempts[j]
    /\ status' = [status EXCEPT ![j] = "queued"]
    /\ UNCHANGED <<file, table, attempts, refs, worker, raced>>

Init ==
    /\ file = <<>>
    /\ table = [t \in Tables |-> {}]
    /\ status = [j \in Jobs |-> "queued"]
    /\ attempts = [j \in Jobs |-> 0]
    /\ refs = [j \in Jobs |-> None]
    /\ worker = [w \in Workers |-> None]
    /\ raced = FALSE

Next ==
    \/ \E w \in Workers, j \in Jobs, p \in Payloads : Claim(w, j, p)
    \/ \E w \in Workers : OpenFile(w) \/ WriteFile(w)
    \/ \E w \in Workers : LoadTable(w) \/ StoreTable(w) \/ SkipTable(w)
    \/ \E w \in Workers : Succeed(w) \/ Fail(w) \/ Crash(w)
    \/ \E j \in Jobs : Retry(j)

Spec == Init /\ [][Next]_vars

-----------------------------------------------------------------------------
(* Properties.                                                             *)

Ids == {r.id : r \in Rows("files")}

(* The variables have the shapes the store's schemas give them.            *)
TypeOK ==
    /\ DOMAIN table = Tables
    /\ status \in [Jobs -> {"queued", "running", "succeeded", "failed", "stale"}]
    /\ attempts \in [Jobs -> Nat]
    /\ raced \in BOOLEAN

(* As long as no write replaced what its writer had not seen: every row of *)
(* the file manifest names a whole file with exactly the content its id    *)
(* says, every bronze or silver file's source is in the manifest as well,  *)
(* and every snapshot lists silver files of the manifest, whatever crashed *)
(* or was retried in between (raw_writer.py, parquet_writer.py).           *)
Provenance ==
    ~raced /\ table["files"] # Torn =>
        /\ \A r \in table["files"] :
             /\ r.path \in DOMAIN file /\ file[r.path] = r.id
             /\ r.id.layer # "raw" => r.id.from \in Ids
        /\ \A s \in Rows("snapshots") : s.files \subseteq SilverRows

(* As long as writes do not race: what a succeeded job refers to is in the *)
(* file manifest, with the ingestion run that fetched it and the           *)
(* normalization rows of every rebuild between them (run_collector_job).   *)
RefsResolve ==
    \A j \in Jobs : status[j] = "succeeded" /\ ~raced =>
        /\ table["files"] # Torn => refs[j] \in Ids
        /\ Kind[j] = "candles" =>
             /\ table["runs"] # Torn => [run |-> j] \in table["runs"]
             /\ table["norms"] # Torn =>
                  {[from |-> refs[j].from, to |-> refs[j]],
                   [from |-> refs[j].from.from, to |-> refs[j].from]} \subseteq table["norms"]

(* As long as writes do not race: an instrument of a universe snapshot is  *)
(* in the catalog and in the asset contexts, and the payload the snapshot  *)
(* was built from is in the file manifest (universe/store.py).             *)
UniverseIsBacked ==
    ~raced =>
        \A u \in Rows("universe") :
            /\ table["catalog"] # {} /\ table["contexts"] # {}
            /\ table["files"] # Torn => u.raw \in Ids
=============================================================================
