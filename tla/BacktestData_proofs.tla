------------------------- MODULE BacktestData_proofs -------------------------
(***************************************************************************)
(* The promises of the archive and of the backtest data service that reads *)
(* it, for any workers, jobs, payloads and bars, any lockbox and any       *)
(* requests.  The lockbox promise depends on nothing but the temporal      *)
(* policy, whatever races, tears or crashes in the archive.  The others    *)
(* hold until a write replaces what its writer had not seen: what the      *)
(* tables name is there because each worker wrote it before it named it    *)
(* (Work), and nothing a step does undoes what the steps before it left    *)
(* (Grows).                                                                *)
(***************************************************************************)
EXTENDS BacktestData, TLAPS

(* What the request of every panel passed when it was read.                *)
Admitted ==
    \A m \in Panels :
        /\ m.request.start \in Int /\ m.request.end \in Int
        /\ TemporalPolicy(m.request)

(* A bar that lies in the request's window and in the lockbox makes the    *)
(* two windows overlap.                                                    *)
LEMMA OverlapOfBar ==
    ASSUME NEW start \in Int, NEW end \in Int, NEW t \in Int,
           start <= t, t < end, LockboxStart <= t, t < LockboxEnd
    PROVE  Overlap(start, end, LockboxStart, LockboxEnd)
BY LockboxAssumption DEF Overlap

LEMMA BarsAreInWindow ==
    ASSUME NEW files, NEW q, NEW t \in BarsRead(files, q)
    PROVE  q.start <= t /\ t < q.end
BY DEF BarsRead

LEMMA RequestWindows ==
    ASSUME NEW q \in Requests
    PROVE  q.start \in Int /\ q.end \in Int
<1>. DEFINE Windows == [snapshot : Rows("snapshots"), universe : Rows("universe"),
                        start : Slots, end : {s + 1 : s \in Slots},
                        mode : Modes, exclude_lockbox : BOOLEAN]
<1>0. q \in Windows
  BY DEF Requests
<1>1. q.start \in Slots /\ q.end \in {s + 1 : s \in Slots}
  BY <1>0
<1>2. PICK s \in Slots : q.end = s + 1
  BY <1>1
<1>. HIDE DEF Windows
<1>3. q.start \in Int /\ s \in Int
  BY <1>1, KindAssumption
<1>4. s + 1 \in Int
  BY <1>3
<1>. QED
  BY <1>2, <1>3, <1>4

(* A load adds one panel to those in use or on record; its data manifest   *)
(* is recorded, or is not, without adding any.                             *)
LEMMA LoadPanelAdds ==
    ASSUME NEW q \in Requests, LoadPanel(q)
    PROVE  \E c \in BestReports(q) :
              Panels' = Panels \cup
                  {[request |-> q, report |-> c, files |-> MatchingFiles(q)]}
<1>1. PICK c \in BestReports(q) :
        panels' = panels \cup {[request |-> q, report |-> c, files |-> MatchingFiles(q)]}
  BY DEF LoadPanel
<1>2. OnRecord' = OnRecord
  BY DEF LoadPanel, OnRecord
<1>. QED
  BY <1>1, <1>2 DEF Panels

LEMMA WritesAddNone ==
    ASSUME NEW m \in panels, RecordPanel(m) \/ DropPanel(m)
    PROVE  Panels' \subseteq Panels
BY DEF RecordPanel, DropPanel, Panels, OnRecord

LEMMA LoadPanelAdmits ==
    ASSUME Admitted, NEW q \in Requests, LoadPanel(q)
    PROVE  Admitted'
<1>1. PICK c \in BestReports(q) :
        Panels' = Panels \cup {[request |-> q, report |-> c, files |-> MatchingFiles(q)]}
  BY LoadPanelAdds
<1>2. TemporalPolicy(q) /\ q.start \in Int /\ q.end \in Int
  BY RequestWindows DEF LoadPanel
<1>3. ASSUME NEW m \in Panels'
      PROVE  m \in Panels \/ m.request = q
  BY <1>1, <1>3
<1>. QED
  BY <1>2, <1>3 DEF Admitted, TemporalPolicy, Evidence, Overlap

LEMMA AlwaysAdmitted == BDSpec => []Admitted
<1>1. BDInit => Admitted
  BY DEF BDInit, Admitted, Panels, OnRecord
<1>2. ASSUME Admitted, [BDNext]_bdVars
      PROVE  Admitted'
  <2>1. CASE UNCHANGED <<panels, manifests>>
    BY <1>2, <2>1 DEF Admitted, Panels, OnRecord
  <2>2. ASSUME NEW q \in Requests, LoadPanel(q)
        PROVE  Admitted'
    BY <1>2, <2>2, LoadPanelAdmits
  <2>3. ASSUME NEW m \in panels, RecordPanel(m) \/ DropPanel(m)
        PROVE  Admitted'
    BY <1>2, <2>3, WritesAddNone DEF Admitted, TemporalPolicy, Evidence
  <2>. QED
    BY <1>2, <2>1, <2>2, <2>3 DEF BDNext, bdVars
<1>. QED
  BY <1>1, <1>2, PTL DEF BDSpec

(* No ordinary evidence panel ever holds a bar of the lockbox, warmup      *)
(* included (_enforce_temporal_policy).                                    *)
THEOREM EvidenceAvoidsLockbox == BDSpec => []NoLockboxBars
<1>1. ASSUME Admitted, NEW m \in Panels,
             Evidence(m.request), m.request.exclude_lockbox,
             NEW t \in BarsRead(m.files, m.request), t \in LockboxStart .. LockboxEnd - 1
      PROVE  FALSE
  <2>1. t \in Int /\ LockboxStart <= t /\ t < LockboxEnd
    BY <1>1, LockboxAssumption
  <2>2. m.request.start <= t /\ t < m.request.end
    BY BarsAreInWindow
  <2>3. /\ m.request.start \in Int /\ m.request.end \in Int
        /\ ~Overlap(m.request.start, m.request.end, LockboxStart, LockboxEnd)
    BY <1>1 DEF Admitted, TemporalPolicy
  <2>. QED
    BY <2>1, <2>2, <2>3, OverlapOfBar
<1>2. Admitted => NoLockboxBars
  BY <1>1 DEF NoLockboxBars
<1>. QED
  BY <1>2, AlwaysAdmitted, PTL

-----------------------------------------------------------------------------
(* The archive, as long as no write raced: what each table holds, and what *)
(* a worker that has come as far as it has must have left behind it.       *)

Candles(r) == Kind[r.job] = "candles"

Whole(path, id) == path \in DOMAIN file /\ file[path] = id

(* A row of the file manifest names a whole file; a Parquet file's row is  *)
(* determined by its id, and its source is in the manifest.                *)
TableRow(id) == [id |-> id, path |-> <<id.layer, id>>]
FilesHold ==
    table["files"] # Torn =>
        \A r \in table["files"] :
            /\ r.id \in FileIds
            /\ Whole(r.path, r.id)
            /\ r.id.layer # "raw" => r = TableRow(r.id) /\ r.id.from \in Ids

SnapshotsHold ==
    table["files"] # Torn => \A s \in Rows("snapshots") : s.files \subseteq SilverRows

UniverseHolds ==
    \A u \in Rows("universe") :
        /\ table["catalog"] # {} /\ table["contexts"] # {}
        /\ table["files"] # Torn => u.raw \in Ids

Resolved(j) ==
    /\ table["files"] # Torn => refs[j] \in Ids
    /\ Kind[j] = "candles" =>
         /\ table["runs"] # Torn => [run |-> j] \in table["runs"]
         /\ table["norms"] # Torn =>
              {[from |-> refs[j].from, to |-> refs[j]],
               [from |-> refs[j].from.from, to |-> refs[j].from]} \subseteq table["norms"]

RefsHold == \A j \in Jobs : status[j] = "succeeded" => Resolved(j)

(* The id a worker carries, by how far it has come: the raw file's, then   *)
(* in a candle job the bronze file's, then the silver file's.              *)
Carries(r) ==
    /\ r.at > 1 /\ (~Candles(r) \/ r.at < 5) => r.last \in RawIds
    /\ Candles(r) /\ r.at \in 5..7 => r.last \in BronzeIds
    /\ Candles(r) /\ r.at > 7 => r.last \in SilverIds

(* The file it wrote last and has not recorded yet is whole.               *)
JustWrote(r) == r.at = 2 \/ (Candles(r) /\ r.at \in {5, 8})
OnDisk(r) == JustWrote(r) => Whole(PathOf(RunId(r.job, r.payload), r.last), r.last)

Recorded(r) ==
    table["files"] # Torn =>
        /\ r.at > 2 /\ ~JustWrote(r) => r.last \in Ids
        /\ Candles(r) /\ r.at \in {5, 8} => r.last.from \in Ids

(* The rows its earlier steps left in the other tables.                    *)
Listed(r) ==
    /\ Candles(r) /\ r.at > 3 /\ table["runs"] # Torn => [run |-> r.job] \in table["runs"]
    /\ Candles(r) /\ (r.at = 7 \/ r.at > 9) /\ table["norms"] # Torn =>
           [from |-> r.last.from, to |-> r.last] \in table["norms"]
    /\ Candles(r) /\ r.at > 7 /\ table["norms"] # Torn =>
           [from |-> r.last.from.from, to |-> r.last.from] \in table["norms"]
    /\ ~Candles(r) /\ r.at > 4 => table["catalog"] # {}
    /\ ~Candles(r) /\ r.at > 5 => table["contexts"] # {}

(* A file it has opened was not there, and is made from the id it carries. *)
Opened(r) ==
    r.seen # NotRead =>
        /\ r.at = 1 => r.seen.old = FALSE /\ r.seen.new = Raw(r.payload)
        /\ Candles(r) /\ r.at = 4 =>
             r.seen.old = FALSE /\ r.seen.new \in BronzeIds /\ r.seen.new.from = r.last
        /\ Candles(r) /\ r.at = 7 =>
             r.seen.old = FALSE /\ r.seen.new \in SilverIds /\ r.seen.new.from = r.last

(* A table it has loaded was not torn, and the rows it will add name what  *)
(* it carries; a snapshot's files were in the manifest when it loaded.     *)
AtFileStep(r) == r.at = 1 \/ (Candles(r) /\ r.at \in {4, 7})
Loaded(r) ==
    r.seen # NotRead =>
        /\ ~AtFileStep(r) => r.seen.old # Torn
        /\ JustWrote(r) =>
             r.seen.new = {[id |-> r.last, path |-> PathOf(RunId(r.job, r.payload), r.last)]}
        /\ r.at = 3 => r.seen.new = {[run |-> RunId(r.job, r.payload)]}
        /\ Candles(r) /\ r.at \in {6, 9} =>
             r.seen.new = {[from |-> r.last.from, to |-> r.last]}
        /\ Candles(r) /\ r.at = 11 /\ table["files"] # Torn =>
             \A s \in r.seen.new : s.files \subseteq SilverRows
        /\ ~Candles(r) /\ r.at > 3 => r.seen.new = {[raw |-> r.last]}

Work(r) ==
    /\ Carries(r) /\ OnDisk(r) /\ Recorded(r)
    /\ Listed(r) /\ Opened(r) /\ Loaded(r)

WorkHolds == \A w \in Workers : Busy(w) => Work(worker[w])

(* A worker's record, whatever races.                                      *)
Fields == {"job", "payload", "at", "last", "seen"}
Shaped(r) ==
    /\ DOMAIN r = Fields
    /\ r.job \in Jobs /\ r.payload \in Payloads
    /\ r.at \in Nat /\ 1 <= r.at /\ r.at <= Len(Steps(r.job)) + 1

Shape ==
    /\ DOMAIN worker = Workers /\ DOMAIN refs = Jobs
    /\ \A w \in Workers : Busy(w) => Shaped(worker[w])

Held == FilesHold /\ SnapshotsHold /\ UniverseHolds /\ RefsHold /\ WorkHolds
ArchiveInv == ~raced => Held

(* What the files of a panel were is what its snapshot still names.        *)
PanelsHold ==
    ~raced /\ table["files"] # Torn =>
        \A m \in Panels :
            /\ m.request.snapshot.files \subseteq SilverRows
            /\ m.files = {TableRow(f) : f \in m.request.snapshot.files}

AllHold == TypeOK /\ Shape /\ ArchiveInv /\ PanelsHold

-----------------------------------------------------------------------------
(* What the operators of the archive return.                               *)

LEMMA StepsAre ==
    /\ Len(CandleSteps) = 11 /\ Len(UniverseSteps) = 6
    /\ CandleSteps[1] = "raw" /\ CandleSteps[2] = "files" /\ CandleSteps[3] = "runs"
    /\ CandleSteps[4] = "bronze" /\ CandleSteps[5] = "files" /\ CandleSteps[6] = "norms"
    /\ CandleSteps[7] = "silver" /\ CandleSteps[8] = "files" /\ CandleSteps[9] = "norms"
    /\ CandleSteps[10] = "coverage" /\ CandleSteps[11] = "snapshots"
    /\ UniverseSteps[1] = "raw" /\ UniverseSteps[2] = "files" /\ UniverseSteps[3] = "runs"
    /\ UniverseSteps[4] = "catalog" /\ UniverseSteps[5] = "contexts"
    /\ UniverseSteps[6] = "universe"
BY DEF CandleSteps, UniverseSteps

LEMMA RawIdIs ==
    ASSUME NEW id \in RawIds
    PROVE  id.layer = "raw" /\ id.data \in Payloads /\ id \in FileIds
BY DEF RawIds, Raw, FileIds

LEMMA BronzeIdIs ==
    ASSUME NEW id \in BronzeIds
    PROVE  /\ id.layer = "bronze" /\ id.from \in RawIds /\ id.data \in Payloads
           /\ id \in FileIds
BY DEF BronzeIds, FileIds

LEMMA SilverIdIs ==
    ASSUME NEW id \in SilverIds
    PROVE  /\ id.layer = "silver" /\ id.from \in BronzeIds /\ id.data \in Payloads
           /\ id \in FileIds
BY DEF SilverIds, FileIds

(* The steps a worker can be at, by the kind of its job.                   *)
LEMMA FileStepIs ==
    ASSUME NEW w, Shaped(worker[w]), AtFile(w)
    PROVE  /\ AtFileStep(worker[w])
           /\ worker[w].at = 1 => Step(w) = "raw"
           /\ worker[w].at = 4 => Step(w) = "bronze"
           /\ worker[w].at = 7 => Step(w) = "silver"
<1>. DEFINE j == worker[w].job
            k == worker[w].at
<1>1. j \in Jobs /\ k \in Nat /\ 1 <= k /\ k <= Len(Steps(j))
      /\ Steps(j)[k] \in {"raw", "bronze", "silver"} /\ Step(w) = Steps(j)[k]
  BY DEF Shaped, AtFile, Finished, Step, Layers, Steps
<1>2. Candles(worker[w]) <=> Kind[j] = "candles"
  BY DEF Candles
<1>3. AtFileStep(worker[w]) <=> k = 1 \/ (Candles(worker[w]) /\ k \in {4, 7})
  BY DEF AtFileStep
<1>. HIDE DEF j, k
<1>4. CASE Kind[j] = "candles"
  <2>1. Steps(j) = CandleSteps
    BY <1>4 DEF Steps
  <2>2. k \in 1..11
    BY <1>1, <2>1, StepsAre
  <2>3. k \in {1, 4, 7}
    BY <1>1, <2>1, <2>2, StepsAre
  <2>. QED
    BY <1>1, <1>2, <1>3, <1>4, <2>1, <2>3, StepsAre DEF k
<1>5. CASE Kind[j] # "candles"
  <2>1. Steps(j) = UniverseSteps
    BY <1>5 DEF Steps
  <2>2. k \in 1..6
    BY <1>1, <2>1, StepsAre
  <2>3. k = 1
    BY <1>1, <2>1, <2>2, StepsAre
  <2>. QED
    BY <1>1, <1>3, <2>1, <2>3, StepsAre DEF k
<1>. QED
  BY <1>4, <1>5

LEMMA TableStepIs ==
    ASSUME NEW w, Shaped(worker[w]), AtTable(w)
    PROVE  /\ ~AtFileStep(worker[w])
           /\ \/ JustWrote(worker[w]) /\ Step(w) = "files"
              \/ worker[w].at = 3 /\ Step(w) = "runs"
              \/ Candles(worker[w]) /\ worker[w].at \in {6, 9} /\ Step(w) = "norms"
              \/ Candles(worker[w]) /\ worker[w].at = 10 /\ Step(w) = "coverage"
              \/ Candles(worker[w]) /\ worker[w].at = 11 /\ Step(w) = "snapshots"
              \/ ~Candles(worker[w]) /\ worker[w].at = 4 /\ Step(w) = "catalog"
              \/ ~Candles(worker[w]) /\ worker[w].at = 5 /\ Step(w) = "contexts"
              \/ ~Candles(worker[w]) /\ worker[w].at = 6 /\ Step(w) = "universe"
<1>. DEFINE j == worker[w].job
            k == worker[w].at
<1>1. j \in Jobs /\ k \in Nat /\ 1 <= k /\ k <= Len(Steps(j))
      /\ Steps(j)[k] \in Tables /\ Step(w) = Steps(j)[k]
  BY DEF Shaped, AtTable, Finished, Step, Steps
<1>2. Candles(worker[w]) <=> Kind[j] = "candles"
  BY DEF Candles
<1>3. AtFileStep(worker[w]) <=> k = 1 \/ (Candles(worker[w]) /\ k \in {4, 7})
  BY DEF AtFileStep
<1>4. JustWrote(worker[w]) <=> k = 2 \/ (Candles(worker[w]) /\ k \in {5, 8})
  BY DEF JustWrote
<1>5. worker[w].at = k
  OBVIOUS
<1>. HIDE DEF j, k
<1>6. CASE Kind[j] = "candles"
  <2>1. Steps(j) = CandleSteps
    BY <1>6 DEF Steps
  <2>2. k \in 1..11
    BY <1>1, <2>1, StepsAre
  <2>3. k \in {2, 3, 5, 6, 8, 9, 10, 11}
    BY <1>1, <2>1, <2>2, StepsAre DEF Tables
  <2>. QED
    BY <1>1, <1>2, <1>3, <1>4, <1>5, <1>6, <2>1, <2>3, StepsAre
<1>7. CASE Kind[j] # "candles"
  <2>1. Steps(j) = UniverseSteps
    BY <1>7 DEF Steps
  <2>2. k \in 1..6
    BY <1>1, <2>1, StepsAre
  <2>3. k \in {2, 3, 4, 5, 6}
    BY <1>1, <2>1, <2>2, StepsAre DEF Tables
  <2>. QED
    BY <1>1, <1>2, <1>3, <1>4, <1>5, <1>7, <2>1, <2>3, StepsAre
<1>. QED
  BY <1>6, <1>7

LEMMA UpsertFiles ==
    ASSUME NEW old, NEW n
    PROVE  Upsert("files", old, {n}) = {r \in old : r.id # n.id} \cup {n}
BY DEF Upsert, Key

LEMMA UpsertAdds ==
    ASSUME NEW old, NEW new, NEW t \in {"runs", "norms", "coverage", "snapshots", "universe"}
    PROVE  Upsert(t, old, new) = old \cup new
<1>1. \A r : Key(t, r) = r
  BY DEF Key
<1>. QED
  BY <1>1 DEF Upsert

LEMMA UpsertHasNew ==
    ASSUME NEW t, NEW old, NEW new
    PROVE  new \subseteq Upsert(t, old, new)
BY DEF Upsert

-----------------------------------------------------------------------------
(* What no step undoes while nothing races: a file that is there stays,    *)
(* and a table that is whole was whole and had less in it.                 *)

Grows ==
    /\ \A q \in DOMAIN file : q \in DOMAIN file' /\ file'[q] = file[q]
    /\ table'["files"] # Torn =>
         table["files"] # Torn /\ Ids \subseteq Ids' /\ SilverRows \subseteq SilverRows'
    /\ \A t \in {"runs", "norms"} :
         table'[t] # Torn => table[t] # Torn /\ table[t] \subseteq table'[t]
    /\ \A t \in {"catalog", "contexts"} : table[t] # {} => table'[t] # {}

LEMMA GrowsStill ==
    ASSUME UNCHANGED <<file, table>>
    PROVE  Grows
BY DEF Grows, Ids, SilverRows, Rows

LEMMA WorkKept ==
    ASSUME Grows, NEW r, Work(r)
    PROVE  Work(r)'
<1>1. Carries(r)'
  BY DEF Work, Carries, Candles
<1>2. OnDisk(r)'
  BY DEF Work, OnDisk, Grows, Whole, JustWrote, Candles
<1>3. Recorded(r)'
  BY DEF Work, Recorded, Grows, JustWrote, Candles
<1>4. Listed(r)'
  BY DEF Work, Listed, Grows, Candles
<1>5. Opened(r)'
  BY DEF Work, Opened, Candles
<1>6. Loaded(r)'
  BY DEF Work, Loaded, Grows, Candles, JustWrote, AtFileStep
<1>. QED
  BY <1>1, <1>2, <1>3, <1>4, <1>5, <1>6 DEF Work

LEMMA ResolvedKept ==
    ASSUME Grows, NEW j, Resolved(j), refs'[j] = refs[j]
    PROVE  Resolved(j)'
BY DEF Resolved, Grows

(* One worker moves on, or stops; the others keep what they had.           *)
LEMMA WorkStep ==
    ASSUME Shape, WorkHolds, Grows, NEW w \in Workers, NEW v,
           worker'[w] = v, \A x \in Workers \ {w} : worker'[x] = worker[x],
           v = None \/ Work(v)'
    PROVE  WorkHolds'
<1>. SUFFICES ASSUME NEW x \in Workers, Busy(x)'
              PROVE  Work(worker[x])'
  BY DEF WorkHolds
<1>1. CASE x = w
  <2>1. worker'[x] = v
    BY <1>1 DEF Shape
  <2>2. Work(v)'
    BY <2>1 DEF Busy
  <2>. QED
    BY <2>1, <2>2 DEF Work, Carries, OnDisk, Recorded, Listed, Opened, Loaded, Whole,
                      JustWrote, Candles, AtFileStep
<1>2. CASE x # w
  <2>1. PICK r : r = worker[x]
    OBVIOUS
  <2>2. worker'[x] = r
    BY <1>2, <2>1 DEF Shape
  <2>3. Work(r)'
    BY <2>1, <2>2, WorkKept DEF WorkHolds, Busy
  <2>. QED
    BY <2>2, <2>3 DEF Work, Carries, OnDisk, Recorded, Listed, Opened, Loaded, Whole,
                      JustWrote, Candles, AtFileStep
<1>. QED
  BY <1>1, <1>2

LEMMA AdvanceIs ==
    ASSUME Shape, NEW w \in Workers, NEW r, r = worker[w], Shaped(r), NEW id,
           NEW v, v = Advance(w, id)[w]
    PROVE  /\ DOMAIN Advance(w, id) = Workers
           /\ \A x \in Workers \ {w} : Advance(w, id)[x] = worker[x]
           /\ DOMAIN v = Fields
           /\ v.job = r.job /\ v.payload = r.payload
           /\ v.at = r.at + 1 /\ v.last = id /\ v.seen = NotRead
<1>1. DOMAIN worker = Workers
  BY DEF Shape
<1>2. DOMAIN Advance(w, id) = Workers
  BY <1>1 DEF Advance
<1>3. \A x \in Workers \ {w} : Advance(w, id)[x] = worker[x]
  BY <1>1 DEF Advance
<1>4. v = [r EXCEPT !.at = r.at + 1, !.last = id, !.seen = NotRead]
  BY <1>1 DEF Advance
<1>5. DOMAIN r = {"job", "payload", "at", "last", "seen"}
  BY DEF Shaped, Fields
<1>6. DOMAIN v = Fields
  BY <1>4, <1>5 DEF Fields
<1>7. v.job = r.job /\ v.payload = r.payload
  BY <1>4, <1>5
<1>8. v.at = r.at + 1
  BY <1>4, <1>5
<1>9. v.last = id
  BY <1>4, <1>5
<1>10. v.seen = NotRead
  BY <1>4, <1>5
<1>. QED
  BY <1>2, <1>3, <1>6, <1>7, <1>8, <1>9, <1>10

Remember(w, s) == [worker EXCEPT ![w].seen = s]

LEMMA SeenIs ==
    ASSUME Shape, NEW w \in Workers, NEW r, r = worker[w], Shaped(r), NEW s,
           NEW v, v = Remember(w, s)[w]
    PROVE  /\ DOMAIN Remember(w, s) = Workers
           /\ \A x \in Workers \ {w} : Remember(w, s)[x] = worker[x]
           /\ DOMAIN v = Fields
           /\ v.job = r.job /\ v.payload = r.payload
           /\ v.at = r.at /\ v.last = r.last /\ v.seen = s
<1>1. DOMAIN worker = Workers
  BY DEF Shape
<1>2. /\ DOMAIN Remember(w, s) = Workers
      /\ \A x \in Workers \ {w} : Remember(w, s)[x] = worker[x]
  BY <1>1 DEF Remember
<1>3. v = [r EXCEPT !.seen = s]
  BY <1>1 DEF Remember
<1>4. DOMAIN r = {"job", "payload", "at", "last", "seen"}
  BY DEF Shaped, Fields
<1>5. DOMAIN v = Fields
  BY <1>3, <1>4 DEF Fields
<1>6. v.job = r.job /\ v.payload = r.payload /\ v.at = r.at /\ v.last = r.last
  BY <1>3, <1>4
<1>7. v.seen = s
  BY <1>3, <1>4
<1>. QED
  BY <1>2, <1>5, <1>6, <1>7

LEMMA StopIs ==
    ASSUME Shape, NEW w \in Workers, worker' = [worker EXCEPT ![w] = None]
    PROVE  /\ DOMAIN worker' = Workers
           /\ \A x \in Workers \ {w} : worker'[x] = worker[x]
           /\ worker'[w] = None
BY DEF Shape

(* The shape of a worker's record survives a step that leaves its job and  *)
(* payload alone and moves it by at most one step of the job.              *)
LEMMA ShapeStep ==
    ASSUME Shape, NEW w \in Workers, NEW v, v = worker'[w],
           DOMAIN worker' = Workers,
           \A x \in Workers \ {w} : worker'[x] = worker[x],
           DOMAIN refs' = Jobs,
           v = None \/ Shaped(v)
    PROVE  Shape'
<1>. SUFFICES ASSUME NEW x \in Workers, worker'[x] # None
              PROVE  Shaped(worker'[x])
  BY DEF Shape, Shaped, Busy, Steps, CandleSteps, UniverseSteps, Fields
<1>1. CASE x = w
  BY <1>1
<1>2. CASE x # w
  BY <1>2 DEF Shape, Busy
<1>. QED
  BY <1>1, <1>2

LEMMA LengthIs ==
    ASSUME NEW j
    PROVE  Len(Steps(j)) \in Nat /\ Len(Steps(j)) >= 1
<1>1. Len(Steps(j)) = 11 \/ Len(Steps(j)) = 6
  BY StepsAre DEF Steps
<1>. QED
  BY <1>1

(* What a step of a worker that goes on does to its record.                *)
LEMMA AdvanceShape ==
    ASSUME Shape, NEW w \in Workers, Busy(w), ~Finished(w), NEW id,
           worker' = Advance(w, id), refs' = refs
    PROVE  Shape'
<1>1. PICK r : r = worker[w]
  OBVIOUS
<1>2. PICK v : v = worker'[w]
  OBVIOUS
<1>3. Shaped(r)
  BY <1>1 DEF Shape
<1>4. r.at <= Len(Steps(r.job)) /\ r.at \in Nat /\ r.at >= 1
  BY <1>1, <1>3, LengthIs DEF Finished, Shaped
<1>5. /\ DOMAIN worker' = Workers
      /\ \A x \in Workers \ {w} : worker'[x] = worker[x]
      /\ DOMAIN v = Fields
      /\ v.job = r.job /\ v.payload = r.payload /\ v.at = r.at + 1
  BY <1>1, <1>2, <1>3, AdvanceIs
<1>6. Shaped(v)
  BY <1>3, <1>4, <1>5, LengthIs DEF Shaped
<1>7. DOMAIN refs' = Jobs
  BY DEF Shape
<1>. QED
  BY <1>2, <1>5, <1>6, <1>7, ShapeStep

LEMMA SeenShape ==
    ASSUME Shape, NEW w \in Workers, Busy(w), NEW s,
           worker' = Remember(w, s), refs' = refs
    PROVE  Shape'
<1>1. PICK r : r = worker[w]
  OBVIOUS
<1>2. PICK v : v = worker'[w]
  OBVIOUS
<1>3. Shaped(r)
  BY <1>1 DEF Shape
<1>4. /\ DOMAIN worker' = Workers
      /\ \A x \in Workers \ {w} : worker'[x] = worker[x]
      /\ DOMAIN v = Fields
      /\ v.job = r.job /\ v.payload = r.payload /\ v.at = r.at
  BY <1>1, <1>2, <1>3, SeenIs
<1>5. Shaped(v)
  BY <1>3, <1>4 DEF Shaped
<1>6. DOMAIN refs' = Jobs
  BY DEF Shape
<1>. QED
  BY <1>2, <1>4, <1>5, <1>6, ShapeStep

LEMMA StopShape ==
    ASSUME Shape, NEW w \in Workers, worker' = [worker EXCEPT ![w] = None],
           DOMAIN refs' = Jobs
    PROVE  Shape'
<1>1. PICK v : v = worker'[w]
  OBVIOUS
<1>. QED
  BY <1>1, StopIs, ShapeStep

LEMMA NextKeepsShape ==
    ASSUME TypeOK, Shape, Next
    PROVE  TypeOK' /\ Shape'
<1>1. ASSUME NEW w \in Workers, NEW j \in Jobs, NEW p \in Payloads, Claim(w, j, p)
      PROVE  TypeOK' /\ Shape'
  <2>1. PICK v : v = worker'[w]
    OBVIOUS
  <2>2. v = [job |-> j, payload |-> p, at |-> 1, last |-> None, seen |-> NotRead]
    BY <1>1, <2>1 DEF Claim, Shape
  <2>3. Shaped(v)
    BY <2>2, LengthIs DEF Shaped, Fields
  <2>4. DOMAIN worker' = Workers /\ \A x \in Workers \ {w} : worker'[x] = worker[x]
    BY <1>1 DEF Claim, Shape
  <2>5. DOMAIN refs' = Jobs
    BY <1>1 DEF Claim, Shape
  <2>6. Shape'
    BY <2>1, <2>3, <2>4, <2>5, ShapeStep
  <2>7. TypeOK'
    BY <1>1 DEF Claim, TypeOK
  <2>. QED
    BY <2>6, <2>7
<1>2. ASSUME NEW w \in Workers, OpenFile(w)
      PROVE  TypeOK' /\ Shape'
  <2>1. PICK s : worker' = Remember(w, s)
    BY <1>2 DEF OpenFile, Remember
  <2>2. Busy(w) /\ refs' = refs
    BY <1>2 DEF OpenFile, AtFile
  <2>3. Shape'
    BY <2>1, <2>2, SeenShape
  <2>4. TypeOK'
    BY <1>2 DEF OpenFile, TypeOK
  <2>. QED
    BY <2>3, <2>4
<1>3. ASSUME NEW w \in Workers, WriteFile(w)
      PROVE  TypeOK' /\ Shape'
  <2>1. worker' = Advance(w, worker[w].seen.new) /\ refs' = refs /\ Busy(w) /\ ~Finished(w)
    BY <1>3 DEF WriteFile, AtFile
  <2>2. Shape'
    BY <2>1, AdvanceShape
  <2>3. raced' \in BOOLEAN
    BY <1>3 DEF WriteFile
  <2>4. TypeOK'
    BY <1>3, <2>3 DEF WriteFile, TypeOK
  <2>. QED
    BY <2>2, <2>4
<1>4. ASSUME NEW w \in Workers, LoadTable(w)
      PROVE  TypeOK' /\ Shape'
  <2>1. Busy(w) /\ refs' = refs
    BY <1>4 DEF LoadTable, AtTable
  <2>2. Shape'
    BY <1>4, <2>1, SeenShape DEF LoadTable, Remember
  <2>3. TypeOK'
    BY <1>4 DEF LoadTable, TypeOK
  <2>. QED
    BY <2>2, <2>3
<1>5. ASSUME NEW w \in Workers, StoreTable(w)
      PROVE  TypeOK' /\ Shape'
  <2>1. worker' = Advance(w, worker[w].last) /\ refs' = refs /\ Busy(w) /\ ~Finished(w)
    BY <1>5 DEF StoreTable, AtTable
  <2>2. Shape'
    BY <2>1, AdvanceShape
  <2>3. raced' \in BOOLEAN
    BY <1>5 DEF StoreTable, TypeOK
  <2>4. DOMAIN table' = Tables
    BY <1>5 DEF StoreTable, TypeOK
  <2>5. TypeOK'
    BY <1>5, <2>3, <2>4 DEF StoreTable, TypeOK
  <2>. QED
    BY <2>2, <2>5
<1>6. ASSUME NEW w \in Workers, SkipTable(w)
      PROVE  TypeOK' /\ Shape'
  <2>1. worker' = Advance(w, worker[w].last) /\ refs' = refs /\ Busy(w) /\ ~Finished(w)
    BY <1>6 DEF SkipTable, AtTable
  <2>2. Shape'
    BY <2>1, AdvanceShape
  <2>3. TypeOK'
    BY <1>6 DEF SkipTable, TypeOK
  <2>. QED
    BY <2>2, <2>3
<1>7. ASSUME NEW w \in Workers, Succeed(w) \/ Fail(w) \/ Crash(w)
      PROVE  TypeOK' /\ Shape'
  <2>1. worker' = [worker EXCEPT ![w] = None]
    BY <1>7 DEF Succeed, Fail, Crash
  <2>2. DOMAIN refs' = Jobs
    BY <1>7 DEF Succeed, Fail, Crash, Shape
  <2>3. Shape'
    BY <2>1, <2>2, StopShape
  <2>4. raced' \in BOOLEAN
    BY <1>7 DEF Succeed, Fail, Crash, TypeOK
  <2>5. DOMAIN table' = Tables
    BY <1>7 DEF Succeed, Fail, Crash, TypeOK
  <2>6. attempts' = attempts
    BY <1>7 DEF Succeed, Fail, Crash
  <2>7. status' \in [Jobs -> {"queued", "running", "succeeded", "failed", "stale"}]
    BY <1>7 DEF Succeed, Fail, Crash, TypeOK
  <2>. QED
    BY <2>3, <2>4, <2>5, <2>6, <2>7 DEF TypeOK
<1>8. ASSUME NEW j \in Jobs, Retry(j)
      PROVE  TypeOK' /\ Shape'
  <2>1. worker' = worker /\ refs' = refs
    BY <1>8 DEF Retry
  <2>2. Shape'
    BY <2>1 DEF Shape, Busy, Shaped, Steps, CandleSteps, UniverseSteps, Fields
  <2>3. TypeOK'
    BY <1>8 DEF Retry, TypeOK
  <2>. QED
    BY <2>2, <2>3
<1>. QED
  BY <1>1, <1>2, <1>3, <1>4, <1>5, <1>6, <1>7, <1>8 DEF Next

LEMMA RaceStays ==
    ASSUME TypeOK, Next, ~raced'
    PROVE  ~raced
<1>1. ASSUME NEW w \in Workers, NEW j \in Jobs, NEW p \in Payloads, Claim(w, j, p)
      PROVE  raced' = raced
  BY <1>1 DEF Claim
<1>2. ASSUME NEW w \in Workers, OpenFile(w) \/ LoadTable(w) \/ SkipTable(w)
      PROVE  raced' = raced
  BY <1>2 DEF OpenFile, LoadTable, SkipTable
<1>3. ASSUME NEW w \in Workers, WriteFile(w)
      PROVE  raced => raced'
  BY <1>3 DEF WriteFile
<1>4. ASSUME NEW w \in Workers, StoreTable(w)
      PROVE  raced => raced'
  BY <1>4 DEF StoreTable
<1>5. ASSUME NEW w \in Workers, Succeed(w) \/ Fail(w)
      PROVE  raced' = raced
  BY <1>5 DEF Succeed, Fail
<1>6. ASSUME NEW w \in Workers, Crash(w)
      PROVE  raced => raced'
  BY <1>6 DEF Crash
<1>7. ASSUME NEW j \in Jobs, Retry(j)
      PROVE  raced' = raced
  BY <1>7 DEF Retry
<1>. QED
  BY <1>1, <1>2, <1>3, <1>4, <1>5, <1>6, <1>7 DEF Next

-----------------------------------------------------------------------------
(* Steps that leave the files and the tables alone.                        *)

LEMMA TablesStill ==
    ASSUME Held, UNCHANGED <<file, table>>
    PROVE  FilesHold' /\ SnapshotsHold' /\ UniverseHolds'
BY DEF Held, FilesHold, SnapshotsHold, UniverseHolds, Whole, TableRow, Ids, SilverRows, Rows

LEMMA RefsStill ==
    ASSUME Held, Grows,
           \A j \in Jobs : status'[j] = "succeeded" =>
               status[j] = "succeeded" /\ refs'[j] = refs[j]
    PROVE  RefsHold'
BY ResolvedKept DEF Held, RefsHold

(* What the worker had already done does not depend on what it has read.   *)
LEMMA ReadsKeepWork ==
    ASSUME UNCHANGED <<file, table>>, NEW r, NEW v, Work(r),
           v.job = r.job, v.payload = r.payload, v.at = r.at, v.last = r.last,
           (Opened(v) /\ Loaded(v))'
    PROVE  Work(v)'
<1>1. Carries(v)'
  BY DEF Work, Carries, Candles
<1>2. OnDisk(v)'
  BY DEF Work, OnDisk, Whole, JustWrote, Candles
<1>3. Recorded(v)'
  BY DEF Work, Recorded, JustWrote, Candles, Ids, Rows
<1>4. Listed(v)'
  BY DEF Work, Listed, Candles
<1>. QED
  BY <1>1, <1>2, <1>3, <1>4 DEF Work

LEMMA ClaimHolds ==
    ASSUME Shape, Held, NEW w \in Workers, NEW j \in Jobs, NEW p \in Payloads, Claim(w, j, p)
    PROVE  Grows /\ Held'
<1>1. UNCHANGED <<file, table>> /\ refs' = refs
  BY DEF Claim
<1>2. Grows
  BY <1>1, GrowsStill
<1>3. PICK v : v = worker'[w]
  OBVIOUS
<1>4. v.at = 1 /\ v.seen = NotRead
  BY <1>3 DEF Claim, Shape
<1>5. Work(v)'
  BY <1>4 DEF Work, Carries, OnDisk, Recorded, Listed, Opened, Loaded, JustWrote, Candles
<1>6. \A x \in Workers \ {w} : worker'[x] = worker[x]
  BY DEF Claim, Shape
<1>7. WorkHolds'
  BY <1>2, <1>3, <1>5, <1>6, WorkStep DEF Held
<1>8. \A k \in Jobs : status'[k] = "succeeded" => status[k] = "succeeded"
  BY DEF Claim
<1>9. RefsHold'
  BY <1>1, <1>2, <1>8, RefsStill
<1>. QED
  BY <1>1, <1>2, <1>7, <1>9, TablesStill DEF Held

(* A rebuild reads the data of the file whose id the worker carries.       *)
LEMMA SourceIs ==
    ASSUME FilesHold, NEW w, NEW d \in SourceData(w), Step(w) # "raw"
    PROVE  d = worker[w].last.data
<1>1. PICK r \in Rows("files") :
        r.id = worker[w].last /\ r.path \in DOMAIN file /\ d = file[r.path].data
  BY DEF SourceData
<1>2. table["files"] # Torn /\ r \in table["files"]
  BY <1>1 DEF Rows
<1>3. file[r.path] = r.id
  BY <1>2 DEF FilesHold, Whole
<1>. QED
  BY <1>1, <1>3

LEMMA OpenFileHolds ==
    ASSUME Shape, Held, NEW w \in Workers, OpenFile(w)
    PROVE  Grows /\ Held'
<1>1. UNCHANGED <<file, table, status, refs>>
  BY DEF OpenFile
<1>2. Grows
  BY <1>1, GrowsStill
<1>3. PICK r : r = worker[w]
  OBVIOUS
<1>4. PICK v : v = worker'[w]
  OBVIOUS
<1>5. AtFile(w) /\ Busy(w)
  BY DEF OpenFile, AtFile
<1>6. Shaped(r) /\ Work(r)
  BY <1>3, <1>5 DEF Shape, Held, WorkHolds
<1>7. PICK d \in SourceData(w) :
        /\ CanOpen(w, d)
        /\ worker' = Remember(w, [old |-> PathOf(Run(w), NextFile(w, d)) \in DOMAIN file,
                                  new |-> NextFile(w, d)])
  BY DEF OpenFile, Remember
<1>8. PICK s : s = [old |-> PathOf(Run(w), NextFile(w, d)) \in DOMAIN file,
                    new |-> NextFile(w, d)]
  OBVIOUS
<1>9. /\ \A x \in Workers \ {w} : worker'[x] = worker[x]
      /\ v.job = r.job /\ v.payload = r.payload
      /\ v.at = r.at /\ v.last = r.last /\ v.seen = s
  <2>1. worker' = Remember(w, s)
    BY <1>7, <1>8
  <2>. QED
    BY <2>1, <1>3, <1>4, <1>6, SeenIs
<1>10. s.old = FALSE /\ s.new = NextFile(w, d)
  <2>1. PathOf(Run(w), NextFile(w, d)) \notin DOMAIN file
    BY <1>7 DEF CanOpen
  <2>2. (PathOf(Run(w), NextFile(w, d)) \in DOMAIN file) = FALSE
    BY <2>1
  <2>3. s = [old |-> FALSE, new |-> NextFile(w, d)]
    BY <1>8, <2>2
  <2>. QED
    BY <2>3
<1>11. /\ AtFileStep(r)
       /\ r.at = 1 => Step(w) = "raw"
       /\ r.at = 4 => Step(w) = "bronze"
       /\ r.at = 7 => Step(w) = "silver"
  BY <1>3, <1>5, <1>6, FileStepIs
<1>12. ASSUME r.at = 1
       PROVE  (Opened(v) /\ Loaded(v))'
  <2>1. d = r.payload
    BY <1>3, <1>7, <1>11, <1>12 DEF SourceData
  <2>2. s.new = Raw(r.payload)
    BY <1>10, <1>11, <1>12, <2>1 DEF NextFile
  <2>. QED
    BY <1>9, <1>10, <1>12, <2>2 DEF Opened, Loaded, JustWrote, AtFileStep, Candles
<1>13. ASSUME Candles(r), r.at \in {4, 7}
       PROVE  (Opened(v) /\ Loaded(v))'
  <2>1. Step(w) # "raw" /\ s.new = [layer |-> Step(w), from |-> r.last, data |-> d]
    BY <1>3, <1>10, <1>11, <1>13 DEF NextFile
  <2>2. d = r.last.data
    BY <1>3, <1>7, <2>1, SourceIs DEF Held
  <2>3. CASE r.at = 4
    <3>1. r.last \in RawIds
      BY <1>6, <2>3 DEF Work, Carries
    <3>2. d \in Payloads
      BY <2>2, <3>1, RawIdIs
    <3>3. s.new \in BronzeIds /\ s.new.from = r.last
      BY <1>11, <2>1, <2>3, <3>1, <3>2 DEF BronzeIds
    <3>. QED
      BY <1>9, <1>10, <1>13, <2>3, <3>3 DEF Opened, Loaded, JustWrote, AtFileStep, Candles
  <2>4. CASE r.at = 7
    <3>1. r.last \in BronzeIds
      BY <1>6, <1>13, <2>4 DEF Work, Carries
    <3>2. d \in Payloads
      BY <2>2, <3>1, BronzeIdIs
    <3>3. s.new \in SilverIds /\ s.new.from = r.last
      BY <1>11, <2>1, <2>4, <3>1, <3>2 DEF SilverIds
    <3>. QED
      BY <1>9, <1>10, <1>13, <2>4, <3>3 DEF Opened, Loaded, JustWrote, AtFileStep, Candles
  <2>. QED
    BY <1>13, <2>3, <2>4
<1>14. (Opened(v) /\ Loaded(v))'
  BY <1>11, <1>12, <1>13 DEF AtFileStep
<1>15. Work(v)'
  BY <1>1, <1>6, <1>9, <1>14, ReadsKeepWork
<1>16. WorkHolds'
  BY <1>2, <1>4, <1>9, <1>15, WorkStep DEF Held
<1>17. RefsHold'
  BY <1>1, <1>2, RefsStill
<1>. QED
  BY <1>1, <1>2, <1>16, <1>17, TablesStill DEF Held

LEMMA LoadTableHolds ==
    ASSUME Shape, Held, NEW w \in Workers, LoadTable(w)
    PROVE  Grows /\ Held'
<1>1. UNCHANGED <<file, table, status, refs>>
  BY DEF LoadTable
<1>2. Grows
  BY <1>1, GrowsStill
<1>3. PICK r : r = worker[w]
  OBVIOUS
<1>4. PICK v : v = worker'[w]
  OBVIOUS
<1>5. AtTable(w) /\ Busy(w) /\ CanLoad(w)
  BY DEF LoadTable, AtTable
<1>6. Shaped(r) /\ Work(r)
  BY <1>3, <1>5 DEF Shape, Held, WorkHolds
<1>7. PICK s : s = [old |-> table[Step(w)], new |-> NewRows(w, Step(w))]
  OBVIOUS
<1>8. /\ \A x \in Workers \ {w} : worker'[x] = worker[x]
      /\ v.job = r.job /\ v.payload = r.payload
      /\ v.at = r.at /\ v.last = r.last /\ v.seen = s
  <2>1. worker' = Remember(w, s)
    BY <1>7 DEF LoadTable, Remember
  <2>. QED
    BY <2>1, <1>3, <1>4, <1>6, SeenIs
<1>9. s.old # Torn /\ s.new = NewRows(w, Step(w))
  BY <1>5, <1>7 DEF CanLoad
<1>10. /\ ~AtFileStep(r)
       /\ \/ JustWrote(r) /\ Step(w) = "files"
          \/ r.at = 3 /\ Step(w) = "runs"
          \/ Candles(r) /\ r.at \in {6, 9} /\ Step(w) = "norms"
          \/ Candles(r) /\ r.at = 10 /\ Step(w) = "coverage"
          \/ Candles(r) /\ r.at = 11 /\ Step(w) = "snapshots"
          \/ ~Candles(r) /\ r.at = 4 /\ Step(w) = "catalog"
          \/ ~Candles(r) /\ r.at = 5 /\ Step(w) = "contexts"
          \/ ~Candles(r) /\ r.at = 6 /\ Step(w) = "universe"
  <2>1. Shaped(worker[w])
    BY <1>3, <1>6
  <2>. QED
    BY <1>3, <1>5, <2>1, TableStepIs
<1>11. Opened(v)'
  BY <1>8, <1>10 DEF Opened, AtFileStep, Candles
<1>12. ASSUME JustWrote(r), Step(w) = "files"
       PROVE  s.new = {[id |-> r.last, path |-> PathOf(RunId(r.job, r.payload), r.last)]}
  BY <1>3, <1>9, <1>12 DEF NewRows, Run
<1>13. ASSUME Step(w) = "runs"
       PROVE  s.new = {[run |-> RunId(r.job, r.payload)]}
  BY <1>3, <1>9, <1>13 DEF NewRows, Run
<1>14. ASSUME Step(w) = "norms"
       PROVE  s.new = {[from |-> r.last.from, to |-> r.last]}
  BY <1>3, <1>9, <1>14 DEF NewRows
<1>15. ASSUME Step(w) = "snapshots", NEW n \in s.new
       PROVE  n.files \subseteq SilverRows
  BY <1>9, <1>15 DEF NewRows
<1>16. ASSUME Step(w) \in {"catalog", "contexts", "universe"}
       PROVE  s.new = {[raw |-> r.last]}
  BY <1>3, <1>9, <1>16 DEF NewRows
<1>17. SilverRows' = SilverRows
  BY <1>1 DEF SilverRows, Rows
<1>18. Loaded(v)'
  <2>1. r.at \in Nat
    BY <1>6 DEF Shaped
  <2>2. JustWrote(r) <=> r.at = 2 \/ (Candles(r) /\ r.at \in {5, 8})
    BY DEF JustWrote
  <2>3. AtFileStep(v)' <=> AtFileStep(r)
    BY <1>8 DEF AtFileStep, Candles
  <2>4. (JustWrote(v)' <=> JustWrote(r)) /\ (Candles(v)' <=> Candles(r))
    BY <1>8 DEF JustWrote, Candles
  <2>5. ASSUME JustWrote(r)
        PROVE  s.new = {[id |-> r.last, path |-> PathOf(RunId(r.job, r.payload), r.last)]}
    BY <2>2, <2>5, <1>10, <1>12
  <2>6. ASSUME r.at = 3
        PROVE  s.new = {[run |-> RunId(r.job, r.payload)]}
    BY <2>2, <2>6, <1>10, <1>13
  <2>7. ASSUME Candles(r), r.at \in {6, 9}
        PROVE  s.new = {[from |-> r.last.from, to |-> r.last]}
    BY <2>2, <2>7, <1>10, <1>14
  <2>8. ASSUME Candles(r), r.at = 11, NEW n \in s.new
        PROVE  n.files \subseteq SilverRows'
    BY <2>2, <2>8, <1>10, <1>15, <1>17
  <2>9. ASSUME ~Candles(r), r.at > 3
        PROVE  s.new = {[raw |-> r.last]}
    BY <2>1, <2>2, <2>9, <1>10, <1>16
  <2>. QED
    BY <1>8, <1>9, <1>10, <2>3, <2>4, <2>5, <2>6, <2>7, <2>8, <2>9 DEF Loaded
<1>19. Work(v)'
  BY <1>1, <1>6, <1>8, <1>11, <1>18, ReadsKeepWork
<1>20. WorkHolds'
  BY <1>2, <1>4, <1>8, <1>19, WorkStep DEF Held
<1>21. RefsHold'
  BY <1>1, <1>2, RefsStill
<1>. QED
  BY <1>1, <1>2, <1>20, <1>21, TablesStill DEF Held

LEMMA SkipTableHolds ==
    ASSUME Shape, Held, NEW w \in Workers, SkipTable(w)
    PROVE  Grows /\ Held'
<1>1. UNCHANGED <<file, table, status, refs>>
  BY DEF SkipTable
<1>2. Grows
  BY <1>1, GrowsStill
<1>3. PICK r : r = worker[w]
  OBVIOUS
<1>4. PICK v : v = worker'[w]
  OBVIOUS
<1>5. AtTable(w) /\ Busy(w)
  BY DEF SkipTable, AtTable
<1>6. Shaped(r) /\ Work(r)
  BY <1>3, <1>5 DEF Shape, Held, WorkHolds
<1>7. /\ \A x \in Workers \ {w} : worker'[x] = worker[x]
      /\ v.job = r.job /\ v.payload = r.payload
      /\ v.at = r.at + 1 /\ v.last = r.last /\ v.seen = NotRead
  BY <1>3, <1>4, <1>6, AdvanceIs DEF SkipTable
<1>8. Candles(r) /\ r.at \in {10, 11}
  <2>1. Shaped(worker[w])
    BY <1>3, <1>6
  <2>2. Step(w) \in {"coverage", "snapshots"}
    BY DEF SkipTable
  <2>. QED
    BY <1>3, <1>5, <2>1, <2>2, TableStepIs
<1>9. Carries(v)'
  BY <1>6, <1>7, <1>8 DEF Work, Carries, Candles
<1>10. OnDisk(v)'
  BY <1>7, <1>8 DEF OnDisk, JustWrote, Candles
<1>11. Recorded(v)'
  BY <1>1, <1>6, <1>7, <1>8 DEF Work, Recorded, JustWrote, Candles, Ids, Rows
<1>12. Listed(v)'
  BY <1>1, <1>6, <1>7, <1>8 DEF Work, Listed, Candles
<1>13. (Opened(v) /\ Loaded(v))'
  BY <1>7 DEF Opened, Loaded
<1>14. Work(v)'
  BY <1>9, <1>10, <1>11, <1>12, <1>13 DEF Work
<1>15. WorkHolds'
  BY <1>2, <1>4, <1>7, <1>14, WorkStep DEF Held
<1>16. RefsHold'
  BY <1>1, <1>2, RefsStill
<1>. QED
  BY <1>1, <1>2, <1>15, <1>16, TablesStill DEF Held

(* What a succeeded job refers to is what its worker carried to the end.   *)
LEMMA SucceedHolds ==
    ASSUME TypeOK, Shape, Held, NEW w \in Workers, Succeed(w)
    PROVE  Grows /\ Held'
<1>1. UNCHANGED <<file, table>>
  BY DEF Succeed
<1>2. Grows
  BY <1>1, GrowsStill
<1>3. PICK r : r = worker[w]
  OBVIOUS
<1>4. Shaped(r) /\ Work(r)
  BY <1>3 DEF Shape, Held, WorkHolds, Succeed
<1>5. r.job \in Jobs /\ r.at \in Nat /\ r.at > Len(Steps(r.job))
  BY <1>3, <1>4 DEF Shaped, Succeed, Finished
<1>6. Candles(r) <=> Kind[r.job] = "candles"
  BY DEF Candles
<1>7. Resolved(r.job)'
  <2>1. refs'[r.job] = r.last
    BY <1>3, <1>5 DEF Succeed, Shape
  <2>2. r.at > 2 /\ ~JustWrote(r)
    <3>1. CASE Candles(r)
      <4>1. r.at > 11
        BY <1>5, <1>6, <3>1, StepsAre DEF Steps
      <4>. QED
        BY <1>5, <4>1 DEF JustWrote
    <3>2. CASE ~Candles(r)
      <4>1. r.at > 6
        BY <1>5, <1>6, <3>2, StepsAre DEF Steps
      <4>. QED
        BY <1>5, <3>2, <4>1 DEF JustWrote
    <3>. QED
      BY <3>1, <3>2
  <2>3. table["files"] # Torn => r.last \in Ids
    BY <1>4, <2>2 DEF Work, Recorded
  <2>4. Candles(r) => r.at > 11
    BY <1>5, <1>6, StepsAre DEF Steps
  <2>5. Candles(r) =>
          /\ table["runs"] # Torn => [run |-> r.job] \in table["runs"]
          /\ table["norms"] # Torn => [from |-> r.last.from, to |-> r.last] \in table["norms"]
          /\ table["norms"] # Torn =>
               [from |-> r.last.from.from, to |-> r.last.from] \in table["norms"]
    BY <1>4, <1>5, <2>4 DEF Work, Listed
  <2>6. Ids' = Ids /\ table' = table
    BY <1>1 DEF Ids, Rows
  <2>. QED
    BY <1>6, <2>1, <2>3, <2>5, <2>6 DEF Resolved
<1>8. ASSUME NEW j \in Jobs, status'[j] = "succeeded"
      PROVE  Resolved(j)'
  <2>1. CASE j = r.job
    BY <1>7, <2>1
  <2>2. CASE j # r.job
    <3>1. status[j] = "succeeded" /\ refs'[j] = refs[j]
      BY <1>3, <1>8, <2>2 DEF Succeed, TypeOK, Shape
    <3>2. Resolved(j)
      BY <3>1 DEF Held, RefsHold
    <3>. QED
      BY <1>2, <3>1, <3>2, ResolvedKept
  <2>. QED
    BY <2>1, <2>2
<1>9. /\ worker'[w] = None
      /\ \A x \in Workers \ {w} : worker'[x] = worker[x]
  BY StopIs DEF Succeed
<1>10. WorkHolds'
  BY <1>2, <1>9, WorkStep DEF Held
<1>. QED
  BY <1>1, <1>2, <1>8, <1>10, TablesStill DEF Held, RefsHold

LEMMA FailHolds ==
    ASSUME TypeOK, Shape, Held, NEW w \in Workers, Fail(w)
    PROVE  Grows /\ Held'
<1>1. UNCHANGED <<file, table, refs>>
  BY DEF Fail
<1>2. Grows
  BY <1>1, GrowsStill
<1>3. \A j \in Jobs : status'[j] = "succeeded" => status[j] = "succeeded"
  BY DEF Fail, TypeOK
<1>4. RefsHold'
  BY <1>1, <1>2, <1>3, RefsStill
<1>5. /\ worker'[w] = None
      /\ \A x \in Workers \ {w} : worker'[x] = worker[x]
  BY StopIs DEF Fail
<1>6. WorkHolds'
  BY <1>2, <1>5, WorkStep DEF Held
<1>. QED
  BY <1>1, <1>2, <1>4, <1>6, TablesStill DEF Held

LEMMA RetryHolds ==
    ASSUME TypeOK, Held, NEW j \in Jobs, Retry(j)
    PROVE  Grows /\ Held'
<1>1. UNCHANGED <<file, table, refs, worker>>
  BY DEF Retry
<1>2. Grows
  BY <1>1, GrowsStill
<1>3. \A k \in Jobs : status'[k] = "succeeded" => status[k] = "succeeded"
  BY DEF Retry, TypeOK
<1>4. RefsHold'
  BY <1>1, <1>2, <1>3, RefsStill
<1>5. WorkHolds'
  BY <1>1 DEF Held, WorkHolds, Work, Carries, OnDisk, Recorded, Listed, Opened, Loaded,
              Whole, JustWrote, Candles, AtFileStep, Busy, Ids, SilverRows, Rows
<1>. QED
  BY <1>1, <1>2, <1>4, <1>5, TablesStill DEF Held

-----------------------------------------------------------------------------
(* Steps that write.                                                       *)

(* A file at a path that was free: nothing that was there changes.         *)
LEMMA FileAdded ==
    ASSUME Held, NEW path, path \notin DOMAIN file, NEW id,
           file' = [q \in DOMAIN file \cup {path} |-> IF q = path THEN id ELSE file[q]],
           table' = table
    PROVE  /\ Grows /\ Whole(path, id)'
           /\ FilesHold' /\ SnapshotsHold' /\ UniverseHolds'
<1>1. \A q \in DOMAIN file : q \in DOMAIN file' /\ file'[q] = file[q]
  OBVIOUS
<1>2. Ids' = Ids /\ SilverRows' = SilverRows
  BY DEF Ids, SilverRows, Rows
<1>3. Grows
  BY <1>1, <1>2 DEF Grows
<1>4. Whole(path, id)'
  BY DEF Whole
<1>5. FilesHold'
  BY <1>1, <1>2 DEF Held, FilesHold, Whole, TableRow
<1>6. SnapshotsHold' /\ UniverseHolds'
  BY <1>2 DEF Held, SnapshotsHold, UniverseHolds, Rows
<1>. QED
  BY <1>3, <1>4, <1>5, <1>6

(* What the worker opened is what it writes, at a path that was free.      *)
LEMMA OpenedWrites ==
    ASSUME Shape, Held, NEW w \in Workers, AtFile(w), ~Waiting(w),
           NEW r, r = worker[w]
    PROVE  /\ Shaped(r) /\ Work(r) /\ AtFileStep(r) /\ r.seen # NotRead
           /\ r.seen.old = FALSE
<1>1. Shaped(r) /\ Work(r)
  BY DEF AtFile, Shape, Held, WorkHolds
<1>2. AtFileStep(r)
  <2>1. Shaped(worker[w])
    BY <1>1
  <2>. QED
    BY <2>1, FileStepIs
<1>3. r.seen # NotRead
  BY DEF Waiting
<1>. QED
  BY <1>1, <1>2, <1>3 DEF AtFileStep, Work, Opened

LEMMA WriteFileHolds ==
    ASSUME TypeOK, Shape, Held, NEW w \in Workers, WriteFile(w), ~raced'
    PROVE  Grows /\ Held'
<1>1. UNCHANGED <<table, status, refs>>
  BY DEF WriteFile
<1>2. PICK r : r = worker[w]
  OBVIOUS
<1>3. PICK v : v = worker'[w]
  OBVIOUS
<1>4. /\ Shaped(r) /\ Work(r) /\ AtFileStep(r) /\ r.seen # NotRead
      /\ r.seen.old = FALSE
  BY <1>2, OpenedWrites DEF WriteFile
<1>5. PICK id : id = r.seen.new
  OBVIOUS
<1>6. PICK path : path = PathOf(RunId(r.job, r.payload), id)
  OBVIOUS
<1>7. /\ file' = [q \in DOMAIN file \cup {path} |-> IF q = path THEN id ELSE file[q]]
      /\ (path \in DOMAIN file) = FALSE
      /\ worker' = Advance(w, id)
  BY <1>2, <1>4, <1>5, <1>6 DEF WriteFile, Run
<1>8. /\ Grows /\ Whole(path, id)'
      /\ FilesHold' /\ SnapshotsHold' /\ UniverseHolds'
  BY <1>1, <1>7, FileAdded
<1>9. /\ \A x \in Workers \ {w} : worker'[x] = worker[x]
      /\ v.job = r.job /\ v.payload = r.payload
      /\ v.at = r.at + 1 /\ v.last = id /\ v.seen = NotRead
  BY <1>2, <1>3, <1>4, <1>7, AdvanceIs
<1>10. /\ r.at = 1 => id \in RawIds
       /\ Candles(r) /\ r.at = 4 => id \in BronzeIds /\ id.from = r.last
       /\ Candles(r) /\ r.at = 7 => id \in SilverIds /\ id.from = r.last
  BY <1>4, <1>5 DEF Work, Opened, Shaped, RawIds
<1>11. r.at = 1 \/ (Candles(r) /\ r.at \in {4, 7})
  BY <1>4 DEF AtFileStep
<1>12. Carries(v)'
  BY <1>9, <1>10, <1>11 DEF Carries, Candles
<1>13. OnDisk(v)'
  BY <1>6, <1>8, <1>9 DEF OnDisk
<1>14. Recorded(v)'
  <2>1. Ids' = Ids /\ table' = table
    BY <1>1 DEF Ids, Rows
  <2>2. Candles(r) /\ r.at \in {4, 7} /\ table["files"] # Torn => r.last \in Ids
    BY <1>4 DEF Work, Recorded, JustWrote
  <2>. QED
    BY <1>9, <1>10, <1>11, <2>1, <2>2 DEF Recorded, JustWrote, Candles
<1>15. Listed(v)'
  BY <1>1, <1>4, <1>9, <1>10, <1>11 DEF Work, Listed, Candles
<1>16. (Opened(v) /\ Loaded(v))'
  BY <1>9 DEF Opened, Loaded
<1>17. Work(v)'
  BY <1>12, <1>13, <1>14, <1>15, <1>16 DEF Work
<1>18. WorkHolds'
  BY <1>3, <1>8, <1>9, <1>17, WorkStep DEF Held
<1>19. RefsHold'
  BY <1>1, <1>8, RefsStill
<1>. QED
  BY <1>8, <1>18, <1>19 DEF Held

(* A row of the file manifest replaces the row of its id and no other.     *)
LEMMA FilesStored ==
    ASSUME Held, file' = file, DOMAIN table = Tables, NEW n, NEW id \in FileIds, NEW path,
           n = [id |-> id, path |-> path], Whole(path, id),
           id.layer # "raw" => path = <<id.layer, id>> /\ id.from \in Ids,
           table["files"] # Torn,
           table' = [table EXCEPT !["files"] = Upsert("files", table["files"], {n})]
    PROVE  /\ Grows /\ FilesHold' /\ SnapshotsHold' /\ UniverseHolds'
           /\ table'["files"] # Torn => id \in Ids'
<1>1. /\ table'["files"] = {r \in table["files"] : r.id # id} \cup {n}
      /\ \A t \in Tables \ {"files"} : table'[t] = table[t]
  <2>1. Upsert("files", table["files"], {n}) = {r \in table["files"] : r.id # n.id} \cup {n}
    BY UpsertFiles
  <2>2. n.id = id
    OBVIOUS
  <2>3. "files" \in Tables
    BY DEF Tables
  <2>. QED
    BY <2>1, <2>2, <2>3
<1>2. PICK old : old = table["files"]
  OBVIOUS
<1>3. PICK new : new = table'["files"]
  OBVIOUS
<1>4. n.id = id /\ n.path = path
  OBVIOUS
<1>5. new = {r \in old : r.id # id} \cup {n}
  BY <1>1, <1>2, <1>3
<1>6. Ids = {r.id : r \in old} /\ SilverRows = {r.id : r \in {q \in old : q.id.layer = "silver"}}
  BY <1>2 DEF Ids, SilverRows, Rows
<1>7. ASSUME new # Torn
      PROVE  /\ Ids' = {r.id : r \in new}
             /\ SilverRows' = {r.id : r \in {q \in new : q.id.layer = "silver"}}
  BY <1>3, <1>7 DEF Ids, SilverRows, Rows
<1>8. ASSUME new # Torn
      PROVE  Ids \subseteq Ids' /\ SilverRows \subseteq SilverRows' /\ id \in Ids'
  <2>1. \A r \in old : \E q \in new : q.id = r.id
    BY <1>4, <1>5
  <2>2. n \in new
    BY <1>5
  <2>. QED
    BY <1>4, <1>6, <1>7, <1>8, <2>1, <2>2
<1>9. /\ "runs" \in Tables \ {"files"} /\ "norms" \in Tables \ {"files"}
      /\ "catalog" \in Tables \ {"files"} /\ "contexts" \in Tables \ {"files"}
      /\ "universe" \in Tables \ {"files"} /\ "snapshots" \in Tables \ {"files"}
  BY DEF Tables
<1>10. Grows
  BY <1>1, <1>3, <1>8, <1>9 DEF Grows
<1>11. FilesHold'
  <2>. SUFFICES ASSUME new # Torn, NEW r \in new
                PROVE  /\ r.id \in FileIds
                       /\ Whole(r.path, r.id)
                       /\ r.id.layer # "raw" => r = TableRow(r.id) /\ r.id.from \in Ids'
    BY <1>3 DEF FilesHold, Whole, TableRow
  <2>1. CASE r = n
    BY <1>4, <1>8, <2>1 DEF TableRow
  <2>2. CASE r \in old
    BY <1>2, <1>8, <2>2 DEF Held, FilesHold
  <2>. QED
    BY <1>5, <2>1, <2>2
<1>12. SnapshotsHold'
  BY <1>1, <1>3, <1>8, <1>9 DEF Held, SnapshotsHold, Rows
<1>13. UniverseHolds'
  BY <1>1, <1>3, <1>8, <1>9 DEF Held, UniverseHolds, Rows
<1>. QED
  BY <1>3, <1>8, <1>10, <1>11, <1>12, <1>13

(* The other tables: rows are added, and what the rows of snapshots and    *)
(* universe name is already there.                                         *)
LEMMA RowsStored ==
    ASSUME Held, file' = file, DOMAIN table = Tables, NEW t \in Tables \ {"files"}, NEW new,
           table[t] # Torn,
           table' = [table EXCEPT ![t] = Upsert(t, table[t], new)],
           t \in {"catalog", "contexts"} => new # {},
           t = "snapshots" /\ table["files"] # Torn => \A n \in new : n.files \subseteq SilverRows,
           t = "universe" =>
               /\ table["catalog"] # {} /\ table["contexts"] # {}
               /\ table["files"] # Torn => \A n \in new : n.raw \in Ids
    PROVE  Grows /\ FilesHold' /\ SnapshotsHold' /\ UniverseHolds'
<1>1. /\ table'[t] = Upsert(t, table[t], new)
      /\ \A u \in Tables \ {t} : table'[u] = table[u]
  OBVIOUS
<1>2. table'["files"] = table["files"]
  BY <1>1 DEF Tables
<1>3. Ids' = Ids /\ SilverRows' = SilverRows
  BY <1>2 DEF Ids, SilverRows, Rows
<1>4. FilesHold'
  BY <1>2, <1>3 DEF Held, FilesHold, Whole, TableRow
<1>5. /\ "runs" \in Tables /\ "norms" \in Tables /\ "catalog" \in Tables
      /\ "contexts" \in Tables /\ "universe" \in Tables /\ "snapshots" \in Tables
  BY DEF Tables
<1>6. t \in {"runs", "norms", "coverage", "snapshots", "universe"} =>
        table'[t] = table[t] \cup new
  BY <1>1, UpsertAdds
<1>7. t \in {"catalog", "contexts"} => table'[t] # {}
  BY <1>1, UpsertHasNew
<1>8. \A u \in {"runs", "norms"} : table'[u] # Torn => table[u] # Torn /\ table[u] \subseteq table'[u]
  BY <1>1, <1>5, <1>6
<1>9. \A u \in {"catalog", "contexts"} : table[u] # {} => table'[u] # {}
  BY <1>1, <1>5, <1>7
<1>10. Grows
  BY <1>2, <1>3, <1>8, <1>9 DEF Grows
<1>11. SnapshotsHold'
  <2>. SUFFICES ASSUME table["files"] # Torn, NEW s \in Rows("snapshots")'
                PROVE  s.files \subseteq SilverRows
    BY <1>2, <1>3 DEF SnapshotsHold
  <2>1. CASE t = "snapshots"
    BY <1>6, <2>1 DEF Rows, Held, SnapshotsHold
  <2>2. CASE t # "snapshots"
    BY <1>1, <1>5, <2>2 DEF Rows, Held, SnapshotsHold
  <2>. QED
    BY <2>1, <2>2
<1>12. UniverseHolds'
  <2>. SUFFICES ASSUME NEW u \in Rows("universe")'
                PROVE  /\ table'["catalog"] # {} /\ table'["contexts"] # {}
                       /\ table["files"] # Torn => u.raw \in Ids
    BY <1>2, <1>3 DEF UniverseHolds
  <2>1. CASE t = "universe"
    <3>1. u \in table["universe"] \/ u \in new
      BY <1>6, <2>1 DEF Rows
    <3>2. table["catalog"] # {} /\ table["contexts"] # {}
      BY <2>1
    <3>3. table["files"] # Torn => u.raw \in Ids
      BY <2>1, <3>1 DEF Rows, Held, UniverseHolds
    <3>. QED
      BY <1>9, <3>2, <3>3
  <2>2. CASE t # "universe"
    <3>1. u \in Rows("universe")
      BY <1>1, <1>5, <2>2 DEF Rows
    <3>. QED
      BY <1>9, <3>1 DEF Held, UniverseHolds
  <2>. QED
    BY <2>1, <2>2
<1>. QED
  BY <1>4, <1>10, <1>11, <1>12

(* What a worker has loaded is what it stores, on a table still as it was. *)
LEMMA LoadedStores ==
    ASSUME TypeOK, Shape, Held, NEW w \in Workers, AtTable(w), ~Waiting(w),
           NEW r, r = worker[w]
    PROVE  /\ Shaped(r) /\ Work(r) /\ r.seen # NotRead /\ r.seen.old # Torn
           /\ ~AtFileStep(r)
           /\ \/ JustWrote(r) /\ Step(w) = "files"
              \/ r.at = 3 /\ Step(w) = "runs"
              \/ Candles(r) /\ r.at \in {6, 9} /\ Step(w) = "norms"
              \/ Candles(r) /\ r.at = 10 /\ Step(w) = "coverage"
              \/ Candles(r) /\ r.at = 11 /\ Step(w) = "snapshots"
              \/ ~Candles(r) /\ r.at = 4 /\ Step(w) = "catalog"
              \/ ~Candles(r) /\ r.at = 5 /\ Step(w) = "contexts"
              \/ ~Candles(r) /\ r.at = 6 /\ Step(w) = "universe"
<1>1. Shaped(r) /\ Work(r)
  BY DEF AtTable, Shape, Held, WorkHolds
<1>2. r.seen # NotRead
  BY DEF Waiting
<1>3. /\ ~AtFileStep(r)
      /\ \/ JustWrote(r) /\ Step(w) = "files"
         \/ r.at = 3 /\ Step(w) = "runs"
         \/ Candles(r) /\ r.at \in {6, 9} /\ Step(w) = "norms"
         \/ Candles(r) /\ r.at = 10 /\ Step(w) = "coverage"
         \/ Candles(r) /\ r.at = 11 /\ Step(w) = "snapshots"
         \/ ~Candles(r) /\ r.at = 4 /\ Step(w) = "catalog"
         \/ ~Candles(r) /\ r.at = 5 /\ Step(w) = "contexts"
         \/ ~Candles(r) /\ r.at = 6 /\ Step(w) = "universe"
  <2>1. Shaped(worker[w])
    BY <1>1
  <2>. QED
    BY <2>1, TableStepIs
<1>4. r.seen.old # Torn
  BY <1>1, <1>2, <1>3 DEF Work, Loaded
<1>. QED
  BY <1>1, <1>2, <1>3, <1>4

LEMMA StoreTableGrows ==
    ASSUME TypeOK, Shape, Held, NEW w \in Workers, StoreTable(w), ~raced',
           NEW r, r = worker[w]
    PROVE  /\ Grows /\ FilesHold' /\ SnapshotsHold' /\ UniverseHolds'
           /\ JustWrote(r) /\ table'["files"] # Torn => r.last \in Ids'
           /\ Step(w) # "snapshots" => r.seen.new \subseteq table'[Step(w)]
<1>1. /\ Shaped(r) /\ Work(r) /\ r.seen # NotRead /\ r.seen.old # Torn
      /\ ~AtFileStep(r)
      /\ \/ JustWrote(r) /\ Step(w) = "files"
         \/ r.at = 3 /\ Step(w) = "runs"
         \/ Candles(r) /\ r.at \in {6, 9} /\ Step(w) = "norms"
         \/ Candles(r) /\ r.at = 10 /\ Step(w) = "coverage"
         \/ Candles(r) /\ r.at = 11 /\ Step(w) = "snapshots"
         \/ ~Candles(r) /\ r.at = 4 /\ Step(w) = "catalog"
         \/ ~Candles(r) /\ r.at = 5 /\ Step(w) = "contexts"
         \/ ~Candles(r) /\ r.at = 6 /\ Step(w) = "universe"
  BY LoadedStores DEF StoreTable
<1>2. PICK t : t = Step(w)
  OBVIOUS
<1>3. t \in Tables /\ DOMAIN table = Tables /\ file' = file
  BY <1>2 DEF StoreTable, AtTable, TypeOK
<1>4. JustWrote(r) <=> r.at = 2 \/ (Candles(r) /\ r.at \in {5, 8})
  BY DEF JustWrote
<1>5. r.at \in Nat
  BY <1>1 DEF Shaped
<1>6. CASE ~Rewrites(w)
  <2>1. t = "snapshots" /\ table' = table
    BY <1>2, <1>6 DEF StoreTable, Rewrites
  <2>2. ~JustWrote(r)
    BY <1>1, <1>2, <1>4, <1>5, <2>1
  <2>3. Grows
    BY <1>3, <2>1, GrowsStill
  <2>. QED
    BY <1>2, <1>3, <2>1, <2>2, <2>3, TablesStill
<1>7. CASE Rewrites(w)
  <2>1. PICK new : new = r.seen.new
    OBVIOUS
  <2>2. /\ table[t] = r.seen.old
        /\ table' = [table EXCEPT ![t] = Upsert(t, table[t], new)]
    BY <1>2, <1>7, <2>1 DEF StoreTable
  <2>3. table[t] # Torn
    BY <1>1, <2>2
  <2>4. new \subseteq table'[t]
    BY <1>3, <2>2, UpsertHasNew
  <2>5. CASE JustWrote(r)
    <3>1. t = "files"
      BY <1>1, <1>2, <1>4, <1>5, <2>5
    <3>2. PICK path : path = PathOf(RunId(r.job, r.payload), r.last)
      OBVIOUS
    <3>3. new = {[id |-> r.last, path |-> path]}
      BY <1>1, <2>1, <2>5, <3>2 DEF Work, Loaded
    <3>4. Whole(path, r.last)
      BY <1>1, <2>5, <3>2 DEF Work, OnDisk
    <3>5. /\ r.last \in FileIds
          /\ r.last.layer # "raw" => Candles(r) /\ r.at \in {5, 8}
      BY <1>1, <1>4, <2>5, RawIdIs, BronzeIdIs, SilverIdIs DEF Work, Carries
    <3>6. r.last.layer # "raw" => path = <<r.last.layer, r.last>> /\ r.last.from \in Ids
      BY <1>1, <2>3, <3>1, <3>2, <3>5 DEF PathOf, Work, Recorded
    <3>7. PICK n : n = [id |-> r.last, path |-> path]
      OBVIOUS
    <3>8. table' = [table EXCEPT !["files"] = Upsert("files", table["files"], {n})]
      BY <2>2, <3>1, <3>3, <3>7
    <3>9. table["files"] # Torn
      BY <2>3, <3>1
    <3>10. /\ Grows /\ FilesHold' /\ SnapshotsHold' /\ UniverseHolds'
           /\ table'["files"] # Torn => r.last \in Ids'
      BY <1>3, <3>4, <3>5, <3>6, <3>7, <3>8, <3>9, FilesStored
    <3>. QED
      BY <1>2, <2>1, <2>4, <3>10
  <2>6. CASE ~JustWrote(r)
    <3>1. t \in Tables \ {"files"}
      BY <1>1, <1>2, <1>3, <2>6
    <3>2. t \in {"catalog", "contexts", "universe"} => ~Candles(r) /\ r.at > 3
      BY <1>1, <1>2, <2>6
    <3>3. t \in {"catalog", "contexts", "universe"} => new = {[raw |-> r.last]}
      BY <1>1, <2>1, <3>2 DEF Work, Loaded
    <3>4. t \in {"catalog", "contexts"} => new # {}
      BY <3>3
    <3>5. t = "snapshots" => Candles(r) /\ r.at = 11
      BY <1>1, <1>2, <2>6
    <3>6. t = "snapshots" /\ table["files"] # Torn => \A n \in new : n.files \subseteq SilverRows
      BY <1>1, <2>1, <3>5 DEF Work, Loaded
    <3>7. t = "universe" => r.at = 6
      BY <1>1, <1>2, <2>6
    <3>8. t = "universe" => table["catalog"] # {} /\ table["contexts"] # {}
      BY <1>1, <3>2, <3>7 DEF Work, Listed
    <3>9. t = "universe" /\ table["files"] # Torn => r.last \in Ids
      BY <1>1, <2>6, <3>7 DEF Work, Recorded
    <3>10. t = "universe" =>
             /\ table["catalog"] # {} /\ table["contexts"] # {}
             /\ table["files"] # Torn => \A n \in new : n.raw \in Ids
      BY <3>3, <3>8, <3>9
    <3>11. Grows /\ FilesHold' /\ SnapshotsHold' /\ UniverseHolds'
      BY <1>3, <2>2, <2>3, <3>1, <3>4, <3>6, <3>10, RowsStored
    <3>. QED
      BY <1>2, <2>1, <2>4, <2>6, <3>11
  <2>. QED
    BY <2>5, <2>6
<1>. QED
  BY <1>6, <1>7

LEMMA StoreTableHolds ==
    ASSUME TypeOK, Shape, Held, NEW w \in Workers, StoreTable(w), ~raced'
    PROVE  Grows /\ Held'
<1>1. UNCHANGED <<file, status, refs>>
  BY DEF StoreTable
<1>2. PICK r : r = worker[w]
  OBVIOUS
<1>3. PICK v : v = worker'[w]
  OBVIOUS
<1>4. /\ Grows /\ FilesHold' /\ SnapshotsHold' /\ UniverseHolds'
      /\ JustWrote(r) /\ table'["files"] # Torn => r.last \in Ids'
      /\ Step(w) # "snapshots" => r.seen.new \subseteq table'[Step(w)]
  BY <1>2, StoreTableGrows
<1>5. /\ Shaped(r) /\ Work(r) /\ r.seen # NotRead /\ r.seen.old # Torn
      /\ ~AtFileStep(r)
      /\ \/ JustWrote(r) /\ Step(w) = "files"
         \/ r.at = 3 /\ Step(w) = "runs"
         \/ Candles(r) /\ r.at \in {6, 9} /\ Step(w) = "norms"
         \/ Candles(r) /\ r.at = 10 /\ Step(w) = "coverage"
         \/ Candles(r) /\ r.at = 11 /\ Step(w) = "snapshots"
         \/ ~Candles(r) /\ r.at = 4 /\ Step(w) = "catalog"
         \/ ~Candles(r) /\ r.at = 5 /\ Step(w) = "contexts"
         \/ ~Candles(r) /\ r.at = 6 /\ Step(w) = "universe"
  BY <1>2, LoadedStores DEF StoreTable
<1>6. /\ \A x \in Workers \ {w} : worker'[x] = worker[x]
      /\ v.job = r.job /\ v.payload = r.payload
      /\ v.at = r.at + 1 /\ v.last = r.last /\ v.seen = NotRead
  BY <1>2, <1>3, <1>5, AdvanceIs DEF StoreTable
<1>7. r.at \in Nat
  BY <1>5 DEF Shaped
<1>8. /\ JustWrote(r) <=> r.at = 2 \/ (Candles(r) /\ r.at \in {5, 8})
      /\ AtFileStep(r) <=> r.at = 1 \/ (Candles(r) /\ r.at \in {4, 7})
  BY DEF JustWrote, AtFileStep
<1>9. /\ JustWrote(v)' <=> v.at = 2 \/ (Candles(r) /\ v.at \in {5, 8})
      /\ Candles(v)' <=> Candles(r)
  BY <1>6 DEF JustWrote, Candles
<1>10. Carries(v)'
  <2>1. r.at > 1 /\ (Candles(r) => r.at # 4 /\ r.at # 7)
    BY <1>5, <1>7, <1>8
  <2>2. /\ ~Candles(r) \/ r.at < 5 => r.last \in RawIds
        /\ Candles(r) /\ r.at \in 5..7 => r.last \in BronzeIds
        /\ Candles(r) /\ r.at > 7 => r.last \in SilverIds
    BY <1>5, <2>1 DEF Work, Carries
  <2>. QED
    BY <1>6, <1>7, <1>9, <2>1, <2>2 DEF Carries
<1>11. ~JustWrote(v)'
  BY <1>5, <1>6, <1>7, <1>8, <1>9
<1>12. OnDisk(v)'
  BY <1>11 DEF OnDisk
<1>13. Recorded(v)'
  <2>. SUFFICES ASSUME table'["files"] # Torn
                PROVE  r.last \in Ids'
    BY <1>6, <1>8, <1>9, <1>11 DEF Recorded
  <2>1. CASE JustWrote(r)
    BY <1>4, <2>1
  <2>2. CASE ~JustWrote(r)
    <3>1. r.at > 2
      BY <1>5, <1>7, <1>8, <2>2
    <3>2. table["files"] # Torn /\ Ids \subseteq Ids'
      BY <1>4 DEF Grows
    <3>. QED
      BY <1>5, <2>2, <3>1, <3>2 DEF Work, Recorded
  <2>. QED
    BY <2>1, <2>2
<1>14. Listed(v)'
  <2>1. ASSUME Candles(r), v.at > 3, table'["runs"] # Torn
        PROVE  [run |-> r.job] \in table'["runs"]
    <3>1. CASE r.at = 3
      <4>1. Step(w) = "runs"
        BY <1>5, <1>8, <3>1
      <4>2. r.seen.new = {[run |-> RunId(r.job, r.payload)]}
        BY <1>5, <3>1 DEF Work, Loaded
      <4>3. RunId(r.job, r.payload) = r.job
        BY <2>1 DEF RunId, Candles
      <4>. QED
        BY <1>4, <4>1, <4>2, <4>3
    <3>2. CASE r.at # 3
      <4>1. r.at > 3
        BY <1>6, <1>7, <2>1, <3>2
      <4>2. table["runs"] # Torn /\ table["runs"] \subseteq table'["runs"]
        BY <1>4, <2>1 DEF Grows
      <4>. QED
        BY <1>5, <2>1, <4>1, <4>2 DEF Work, Listed
    <3>. QED
      BY <3>1, <3>2
  <2>2. ASSUME Candles(r), v.at = 7 \/ v.at > 9, table'["norms"] # Torn
        PROVE  [from |-> r.last.from, to |-> r.last] \in table'["norms"]
    <3>1. CASE r.at \in {6, 9}
      <4>1. Step(w) = "norms"
        BY <1>5, <1>8, <2>2, <3>1
      <4>2. r.seen.new = {[from |-> r.last.from, to |-> r.last]}
        BY <1>5, <2>2, <3>1 DEF Work, Loaded
      <4>. QED
        BY <1>4, <4>1, <4>2
    <3>2. CASE r.at \notin {6, 9}
      <4>1. r.at > 9
        BY <1>6, <1>7, <2>2, <3>2
      <4>2. table["norms"] # Torn /\ table["norms"] \subseteq table'["norms"]
        BY <1>4, <2>2 DEF Grows
      <4>. QED
        BY <1>5, <2>2, <4>1, <4>2 DEF Work, Listed
    <3>. QED
      BY <3>1, <3>2
  <2>3. ASSUME Candles(r), v.at > 7, table'["norms"] # Torn
        PROVE  [from |-> r.last.from.from, to |-> r.last.from] \in table'["norms"]
    <3>1. r.at > 7
      BY <1>5, <1>6, <1>7, <1>8, <2>3
    <3>2. table["norms"] # Torn /\ table["norms"] \subseteq table'["norms"]
      BY <1>4, <2>3 DEF Grows
    <3>. QED
      BY <1>5, <2>3, <3>1, <3>2 DEF Work, Listed
  <2>4. ASSUME ~Candles(r), v.at > 4
        PROVE  table'["catalog"] # {}
    <3>1. CASE r.at = 4
      <4>1. Step(w) = "catalog"
        BY <1>5, <1>8, <2>4, <3>1
      <4>2. r.seen.new = {[raw |-> r.last]}
        BY <1>5, <2>4, <3>1 DEF Work, Loaded
      <4>. QED
        BY <1>4, <4>1, <4>2
    <3>2. CASE r.at # 4
      <4>1. r.at > 4
        BY <1>6, <1>7, <2>4, <3>2
      <4>2. table["catalog"] # {}
        BY <1>5, <2>4, <4>1 DEF Work, Listed
      <4>. QED
        BY <1>4, <4>2 DEF Grows
    <3>. QED
      BY <3>1, <3>2
  <2>5. ASSUME ~Candles(r), v.at > 5
        PROVE  table'["contexts"] # {}
    <3>1. CASE r.at = 5
      <4>1. Step(w) = "contexts"
        BY <1>5, <1>8, <2>5, <3>1
      <4>2. r.seen.new = {[raw |-> r.last]}
        BY <1>5, <2>5, <3>1 DEF Work, Loaded
      <4>. QED
        BY <1>4, <4>1, <4>2
    <3>2. CASE r.at # 5
      <4>1. r.at > 5
        BY <1>6, <1>7, <2>5, <3>2
      <4>2. table["contexts"] # {}
        BY <1>5, <2>5, <4>1 DEF Work, Listed
      <4>. QED
        BY <1>4, <4>2 DEF Grows
    <3>. QED
      BY <3>1, <3>2
  <2>. QED
    BY <1>6, <1>9, <2>1, <2>2, <2>3, <2>4, <2>5 DEF Listed
<1>15. (Opened(v) /\ Loaded(v))'
  BY <1>6 DEF Opened, Loaded
<1>16. Work(v)'
  BY <1>10, <1>12, <1>13, <1>14, <1>15 DEF Work
<1>17. WorkHolds'
  BY <1>3, <1>4, <1>6, <1>16, WorkStep DEF Held
<1>18. RefsHold'
  BY <1>1, <1>4, RefsStill
<1>. QED
  BY <1>4, <1>17, <1>18 DEF Held

(* A crash tears at most a file that was not there yet, or one table.      *)
LEMMA CrashHolds ==
    ASSUME TypeOK, Shape, Held, NEW w \in Workers, Crash(w), ~raced'
    PROVE  Grows /\ Held'
<1>1. refs' = refs
  BY DEF Crash
<1>2. \A j \in Jobs : status'[j] = "succeeded" => status[j] = "succeeded"
  BY DEF Crash, TypeOK
<1>3. Grows /\ FilesHold' /\ SnapshotsHold' /\ UniverseHolds'
  <2>1. CASE UNCHANGED <<file, table, raced>>
    BY <2>1, GrowsStill, TablesStill
  <2>2. ASSUME AtFile(w), ~Waiting(w), UNCHANGED table,
               NEW path, path = PathOf(Run(w), worker[w].seen.new),
               file' = [q \in DOMAIN file \cup {path} |-> IF q = path THEN Torn ELSE file[q]],
               raced' = (raced \/ (path \in DOMAIN file) # worker[w].seen.old)
        PROVE  Grows /\ FilesHold' /\ SnapshotsHold' /\ UniverseHolds'
    <3>1. worker[w].seen.old = FALSE
      BY <2>2, OpenedWrites
    <3>2. path \notin DOMAIN file
      BY <2>2, <3>1
    <3>. QED
      BY <2>2, <3>2, FileAdded
  <2>3. ASSUME AtTable(w), table' = [table EXCEPT ![Step(w)] = Torn], UNCHANGED <<file, raced>>
        PROVE  Grows /\ FilesHold' /\ SnapshotsHold' /\ UniverseHolds'
    <3>1. PICK t : t = Step(w)
      OBVIOUS
    <3>2. t \in Tables /\ DOMAIN table = Tables
      BY <2>3, <3>1 DEF AtTable, TypeOK
    <3>3. table'[t] = Torn /\ \A u \in Tables \ {t} : table'[u] = table[u]
      BY <2>3, <3>1, <3>2
    <3>4. /\ "runs" \in Tables /\ "norms" \in Tables /\ "catalog" \in Tables
          /\ "contexts" \in Tables /\ "universe" \in Tables /\ "snapshots" \in Tables
          /\ "files" \in Tables
      BY DEF Tables
    <3>5. table'["files"] # Torn =>
            table["files"] # Torn /\ table'["files"] = table["files"]
            /\ Ids' = Ids /\ SilverRows' = SilverRows
      BY <3>3, <3>4 DEF Ids, SilverRows, Rows
    <3>6. \A u \in {"runs", "norms"} :
            table'[u] # Torn => table[u] # Torn /\ table[u] \subseteq table'[u]
      BY <3>3, <3>4
    <3>7. \A u \in {"catalog", "contexts"} : table[u] # {} => table'[u] # {}
      BY <3>3, <3>4, TornAssumption
    <3>8. Grows
      BY <2>3, <3>5, <3>6, <3>7 DEF Grows
    <3>9. FilesHold'
      BY <2>3, <3>5 DEF Held, FilesHold, Whole, TableRow
    <3>10. Rows("snapshots")' \subseteq Rows("snapshots")
           /\ Rows("universe")' \subseteq Rows("universe")
      BY <3>3, <3>4 DEF Rows
    <3>11. SnapshotsHold'
      BY <3>5, <3>10 DEF Held, SnapshotsHold
    <3>12. UniverseHolds'
      BY <3>5, <3>7, <3>10 DEF Held, UniverseHolds
    <3>. QED
      BY <3>8, <3>9, <3>11, <3>12
  <2>. QED
    BY <2>1, <2>2, <2>3 DEF Crash
<1>4. /\ worker'[w] = None
      /\ \A x \in Workers \ {w} : worker'[x] = worker[x]
  BY StopIs DEF Crash
<1>5. WorkHolds'
  BY <1>3, <1>4, WorkStep DEF Held
<1>6. RefsHold'
  BY <1>1, <1>2, <1>3, RefsStill
<1>. QED
  BY <1>3, <1>5, <1>6 DEF Held

-----------------------------------------------------------------------------
(* The invariant of the archive and of the panels read from it.            *)

LEMMA NextHolds ==
    ASSUME TypeOK, Shape, Held, Next, ~raced'
    PROVE  Grows /\ Held'
<1>1. ASSUME NEW w \in Workers, NEW j \in Jobs, NEW p \in Payloads, Claim(w, j, p)
      PROVE  Grows /\ Held'
  BY <1>1, ClaimHolds
<1>2. ASSUME NEW w \in Workers, OpenFile(w)
      PROVE  Grows /\ Held'
  BY <1>2, OpenFileHolds
<1>3. ASSUME NEW w \in Workers, WriteFile(w)
      PROVE  Grows /\ Held'
  BY <1>3, WriteFileHolds
<1>4. ASSUME NEW w \in Workers, LoadTable(w)
      PROVE  Grows /\ Held'
  BY <1>4, LoadTableHolds
<1>5. ASSUME NEW w \in Workers, StoreTable(w)
      PROVE  Grows /\ Held'
  BY <1>5, StoreTableHolds
<1>6. ASSUME NEW w \in Workers, SkipTable(w)
      PROVE  Grows /\ Held'
  BY <1>6, SkipTableHolds
<1>7. ASSUME NEW w \in Workers, Succeed(w)
      PROVE  Grows /\ Held'
  BY <1>7, SucceedHolds
<1>8. ASSUME NEW w \in Workers, Fail(w)
      PROVE  Grows /\ Held'
  BY <1>8, FailHolds
<1>9. ASSUME NEW w \in Workers, Crash(w)
      PROVE  Grows /\ Held'
  BY <1>9, CrashHolds
<1>10. ASSUME NEW j \in Jobs, Retry(j)
      PROVE  Grows /\ Held'
  BY <1>10, RetryHolds
<1>. QED
  BY <1>1, <1>2, <1>3, <1>4, <1>5, <1>6, <1>7, <1>8, <1>9, <1>10 DEF Next

LEMMA InitHolds ==
    ASSUME BDInit
    PROVE  AllHold
<1>1. TypeOK
  BY DEF BDInit, Init, TypeOK
<1>2. Shape
  BY DEF BDInit, Init, Shape, Busy
<1>3. \A t \in Tables : Rows(t) = {} /\ table[t] = {}
  BY DEF BDInit, Init, Rows
<1>4. /\ "files" \in Tables /\ "snapshots" \in Tables /\ "universe" \in Tables
  BY DEF Tables
<1>5. FilesHold /\ SnapshotsHold /\ UniverseHolds
  BY <1>3, <1>4 DEF FilesHold, SnapshotsHold, UniverseHolds
<1>6. RefsHold /\ WorkHolds
  BY DEF BDInit, Init, RefsHold, WorkHolds, Busy
<1>7. PanelsHold
  BY DEF BDInit, PanelsHold, Panels, OnRecord
<1>. QED
  BY <1>1, <1>2, <1>5, <1>6, <1>7 DEF AllHold, ArchiveInv, Held

(* The rows a snapshot names are determined by the ids it lists.           *)
LEMMA MatchingFilesAre ==
    ASSUME FilesHold, table["files"] # Torn, NEW q, q.snapshot.files \subseteq SilverRows
    PROVE  MatchingFiles(q) = {TableRow(f) : f \in q.snapshot.files}
<1>1. Rows("files") = table["files"]
  BY DEF Rows
<1>2. ASSUME NEW r \in table["files"], r.id \in q.snapshot.files
      PROVE  r = TableRow(r.id)
  <2>1. r.id.layer = "silver"
    BY <1>2 DEF SilverRows
  <2>. QED
    BY <2>1 DEF FilesHold
<1>3. ASSUME NEW f \in q.snapshot.files
      PROVE  \E r \in table["files"] : r.id = f
  BY <1>1, <1>3 DEF SilverRows
<1>4. ASSUME NEW r \in MatchingFiles(q)
      PROVE  r \in {TableRow(f) : f \in q.snapshot.files}
  <2>1. r \in table["files"] /\ r.id \in q.snapshot.files
    BY <1>1, <1>4 DEF MatchingFiles
  <2>. QED
    BY <1>2, <2>1
<1>5. ASSUME NEW f \in q.snapshot.files
      PROVE  TableRow(f) \in MatchingFiles(q)
  <2>1. PICK r \in table["files"] : r.id = f
    BY <1>3, <1>5
  <2>2. r = TableRow(f)
    BY <1>2, <1>5, <2>1
  <2>3. r \in MatchingFiles(q)
    BY <1>1, <1>5, <2>1 DEF MatchingFiles
  <2>. QED
    BY <2>2, <2>3
<1>. QED
  BY <1>4, <1>5

LEMMA RequestSnapshot ==
    ASSUME NEW q \in Requests
    PROVE  q.snapshot \in Rows("snapshots")
<1>1. q \in [snapshot : Rows("snapshots"), universe : Rows("universe"),
             start : Slots, end : {s + 1 : s \in Slots},
             mode : Modes, exclude_lockbox : BOOLEAN]
  BY DEF Requests
<1>. QED
  BY <1>1

LEMMA StepHolds ==
    ASSUME AllHold, [BDNext]_bdVars
    PROVE  AllHold'
<1>1. CASE Next /\ UNCHANGED <<panels, manifests>>
  <2>1. TypeOK' /\ Shape'
    BY <1>1, NextKeepsShape DEF AllHold
  <2>2. ASSUME ~raced'
        PROVE  ~raced /\ Grows /\ Held'
    BY <1>1, <2>2, RaceStays, NextHolds DEF AllHold, ArchiveInv
  <2>3. PanelsHold'
    <3>. SUFFICES ASSUME ~raced', table'["files"] # Torn, NEW m \in Panels
                  PROVE  /\ m.request.snapshot.files \subseteq SilverRows'
                         /\ m.files = {TableRow(f) : f \in m.request.snapshot.files}
      BY <1>1 DEF PanelsHold, TableRow, Panels, OnRecord
    <3>1. ~raced /\ table["files"] # Torn /\ SilverRows \subseteq SilverRows'
      BY <2>2 DEF Grows
    <3>. QED
      BY <3>1 DEF AllHold, PanelsHold
  <2>. QED
    BY <2>1, <2>2, <2>3 DEF AllHold, ArchiveInv
<1>2. ASSUME UNCHANGED vars
      PROVE  TypeOK' /\ Shape' /\ ArchiveInv'
  <2>1. UNCHANGED <<file, table, status, attempts, refs, worker, raced>>
    BY <1>2 DEF vars
  <2>2. TypeOK' /\ Shape'
    BY <2>1 DEF AllHold, TypeOK, Shape, Busy, Shaped, Steps, CandleSteps, UniverseSteps, Fields
  <2>3. ASSUME Held
        PROVE  Held'
    <3>1. FilesHold' /\ SnapshotsHold' /\ UniverseHolds'
      BY <2>1, <2>3, TablesStill
    <3>2. Grows
      BY <2>1, GrowsStill
    <3>3. RefsHold'
      BY <2>1, <2>3, <3>2, RefsStill
    <3>4. WorkHolds'
      BY <2>1, <2>3 DEF Held, WorkHolds, Work, Carries, OnDisk, Recorded, Listed, Opened,
                Loaded, Whole, JustWrote, Candles, AtFileStep, Busy, Ids, SilverRows, Rows
    <3>. QED
      BY <3>1, <3>3, <3>4 DEF Held
  <2>. QED
    BY <2>1, <2>2, <2>3 DEF AllHold, ArchiveInv
<1>3. ASSUME NEW q \in Requests, LoadPanel(q)
      PROVE  AllHold'
  <2>1. UNCHANGED vars /\ CanRead
    BY <1>3 DEF LoadPanel
  <2>2. UNCHANGED <<table, raced>> /\ SilverRows' = SilverRows
    BY <2>1 DEF vars, SilverRows, Rows
  <2>3. PICK c \in BestReports(q) :
          Panels' = Panels \cup {[request |-> q, report |-> c, files |-> MatchingFiles(q)]}
    BY <1>3, LoadPanelAdds
  <2>4. PanelsHold'
    <3>. SUFFICES ASSUME ~raced, table["files"] # Torn, NEW m \in Panels'
                  PROVE  /\ m.request.snapshot.files \subseteq SilverRows
                         /\ m.files = {TableRow(f) : f \in m.request.snapshot.files}
      BY <2>2 DEF PanelsHold, TableRow
    <3>1. CASE m \in Panels
      BY <3>1 DEF AllHold, PanelsHold
    <3>2. CASE m \notin Panels
      <4>1. m.request = q /\ m.files = MatchingFiles(q)
        BY <2>3, <3>2
      <4>2. FilesHold /\ SnapshotsHold
        BY DEF AllHold, ArchiveInv, Held
      <4>3. q.snapshot.files \subseteq SilverRows
        BY <4>2, RequestSnapshot DEF SnapshotsHold
      <4>. QED
        BY <4>1, <4>2, <4>3, MatchingFilesAre
    <3>. QED
      BY <3>1, <3>2
  <2>. QED
    BY <1>2, <2>1, <2>4 DEF AllHold
<1>4. ASSUME NEW m \in panels, RecordPanel(m) \/ DropPanel(m)
      PROVE  AllHold'
  <2>1. UNCHANGED vars /\ Panels' \subseteq Panels
    BY <1>4, WritesAddNone DEF RecordPanel, DropPanel
  <2>2. UNCHANGED <<table, raced>> /\ SilverRows' = SilverRows
    BY <2>1 DEF vars, SilverRows, Rows
  <2>3. PanelsHold'
    BY <2>1, <2>2 DEF AllHold, PanelsHold, TableRow
  <2>. QED
    BY <1>2, <2>1, <2>3 DEF AllHold
<1>5. CASE UNCHANGED bdVars
  <2>1. UNCHANGED vars /\ Panels' = Panels
    BY <1>5 DEF bdVars, Panels, OnRecord
  <2>2. UNCHANGED <<table, raced>> /\ SilverRows' = SilverRows
    BY <2>1 DEF vars, SilverRows, Rows
  <2>3. PanelsHold'
    BY <2>1, <2>2 DEF AllHold, PanelsHold, TableRow
  <2>. QED
    BY <1>2, <2>1, <2>3 DEF AllHold
<1>. QED
  BY <1>1, <1>3, <1>4, <1>5 DEF BDNext

LEMMA AlwaysHolds == BDSpec => []AllHold
<1>1. BDInit => AllHold
  BY InitHolds
<1>2. AllHold /\ [BDNext]_bdVars => AllHold'
  BY StepHolds
<1>. QED
  BY <1>1, <1>2, PTL DEF BDSpec

-----------------------------------------------------------------------------
(* The archive keeps the shape its schemas give it, whatever races or      *)
(* tears: the tables are the ones of the store, and a job is in one of the *)
(* five states of the job store (run_collector_job).                       *)
THEOREM ArchiveTypeOK == BDSpec => []TypeOK
<1>1. AllHold => TypeOK
  BY DEF AllHold
<1>. QED
  BY <1>1, AlwaysHolds, PTL

(* For any workers, jobs and payloads, with any crashes and retries: until *)
(* a write replaces what its writer had not seen, every row of the file    *)
(* manifest names a whole file with the content its id says, every rebuilt *)
(* file's source is in the manifest, and every snapshot lists silver files *)
(* of the manifest (raw_writer.py, parquet_writer.py).                     *)
THEOREM FilesHaveProvenance == BDSpec => []Provenance
<1>1. AllHold => Provenance
  BY DEF AllHold, ArchiveInv, Held, FilesHold, SnapshotsHold, Provenance, Whole
<1>. QED
  BY <1>1, AlwaysHolds, PTL

(* Under the same condition, what a succeeded collector job refers to is   *)
(* in the file manifest, with its ingestion run and the normalization row  *)
(* of each rebuild (run_collector_job).                                    *)
THEOREM JobRefsResolve == BDSpec => []RefsResolve
<1>1. AllHold => RefsResolve
  BY DEF AllHold, ArchiveInv, Held, RefsHold, Resolved, RefsResolve
<1>. QED
  BY <1>1, AlwaysHolds, PTL

(* Under the same condition, an instrument of a universe snapshot is in    *)
(* the catalog and in the asset contexts, and the payload the snapshot was *)
(* built from is in the file manifest (universe/store.py).                 *)
THEOREM UniverseSnapshotsAreBacked == BDSpec => []UniverseIsBacked
<1>1. AllHold => UniverseIsBacked
  BY DEF AllHold, ArchiveInv, Held, UniverseHolds, UniverseIsBacked
<1>. QED
  BY <1>1, AlwaysHolds, PTL

(* Under the same condition, every panel a backtest read can be read       *)
(* again: the rows its snapshot names are the rows recorded then, each     *)
(* with a whole file of its content (_matching_snapshot_files).            *)
THEOREM PanelsCanBeReplayed == BDSpec => []PanelsReplay
<1>1. ASSUME AllHold, NEW m \in Panels, ~raced, table["files"] # Torn
      PROVE  /\ MatchingFiles(m.request) = m.files
             /\ {r.id : r \in m.files} = m.request.snapshot.files
             /\ \A r \in m.files : r.path \in DOMAIN file /\ file[r.path] = r.id
  <2>1. FilesHold
    BY <1>1 DEF AllHold, ArchiveInv, Held
  <2>2. /\ m.request.snapshot.files \subseteq SilverRows
        /\ m.files = {TableRow(f) : f \in m.request.snapshot.files}
    BY <1>1 DEF AllHold, PanelsHold
  <2>3. MatchingFiles(m.request) = m.files
    BY <1>1, <2>1, <2>2, MatchingFilesAre
  <2>4. {r.id : r \in m.files} = m.request.snapshot.files
    <3>. DEFINE S == m.request.snapshot.files
    <3>1. m.files = {TableRow(f) : f \in S}
      BY <2>2
    <3>2. \A f \in S : TableRow(f).id = f
      BY DEF TableRow
    <3>. HIDE DEF S
    <3>3. {r.id : r \in m.files} = S
      BY <3>1, <3>2
    <3>. QED
      BY <3>3 DEF S
  <2>5. \A r \in m.files : r \in table["files"]
    BY <1>1, <2>3 DEF MatchingFiles, Rows
  <2>. QED
    BY <1>1, <2>1, <2>3, <2>4, <2>5 DEF FilesHold, Whole
<1>2. AllHold => PanelsReplay
  BY <1>1 DEF PanelsReplay
<1>. QED
  BY <1>2, AlwaysHolds, PTL
=============================================================================
