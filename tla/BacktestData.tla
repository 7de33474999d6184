---------------------------- MODULE BacktestData ----------------------------
(***************************************************************************)
(* The only accepted read path of a backtest, beside the collector jobs    *)
(* that write the archive: load_panel checks a request against the         *)
(* temporal policy, the archive snapshot, the universe snapshot and a      *)
(* coverage report, reads the silver files of the snapshot, and then       *)
(* records what it read as a row of the data manifests, which it rewrites  *)
(* as a whole.  One instrument, one venue and one timeframe; a request's   *)
(* window includes its warmup.  The archive's tables are read in one step: *)
(* they only grow, unless a write tears or races.                          *)
(***************************************************************************)
EXTENDS Archive

CONSTANTS LockboxStart, LockboxEnd,  \* the lockbox of the day, half open
          MaxMissing,                \* missing bars a coverage report may have
          Modes,                     \* evidence modes requests use
          MaxReads                   \* bound: panels in use and data manifests

ASSUME LockboxAssumption ==
    /\ LockboxStart \in Int /\ LockboxEnd \in Int /\ LockboxStart < LockboxEnd
    /\ MaxMissing \in Nat /\ MaxReads \in Nat
    /\ Modes \subseteq {"accepted_research", "sandbox_diagnostic"}

VARIABLES panels,     \* panels read whose data manifest is still to be recorded
          manifests   \* backtest_data_requests.parquet: the data manifests, or Torn

bdVars == <<vars, panels, manifests>>

OnRecord == IF manifests = Torn THEN {} ELSE manifests
Panels == panels \cup OnRecord

Requests ==
    {q \in [snapshot : Rows("snapshots"), universe : Rows("universe"),
            start : Slots, end : {s + 1 : s \in Slots},
            mode : Modes, exclude_lockbox : BOOLEAN] : q.start < q.end}

Evidence(q) == q.mode = "accepted_research"

(* windows_overlap of half-open windows.                                   *)
Mut_Overlap(start, end, otherStart, otherEnd) == otherStart <= start /\ start < otherEnd
Overlap(start, end, otherStart, otherEnd) == start < otherEnd /\ otherStart < end

TemporalPolicy(q) ==
    Evidence(q) /\ q.exclude_lockbox =>
        ~Overlap(q.start, q.end, LockboxStart, LockboxEnd)

SnapshotCovers(q) == q.snapshot.start <= q.start /\ q.end <= q.snapshot.end

(* The report with the highest coverage among those of the window.  It is  *)
(* looked up by instrument, family and timeframe: nothing ties it to the   *)
(* files of the snapshot.                                                  *)
Ratio(c) == <<c.end - c.start - Cardinality(c.missing), c.end - c.start>>
AtLeast(c, d) == Ratio(c)[1] * Ratio(d)[2] >= Ratio(d)[1] * Ratio(c)[2]
Reports(q) == {c \in Rows("coverage") : c.start <= q.start /\ q.end <= c.end}
BestReports(q) == {c \in Reports(q) : \A d \in Reports(q) : AtLeast(c, d)}

CoverageGate(q, c) == Evidence(q) => Cardinality(c.missing) <= MaxMissing

Mut_MatchingFiles(q) == {r \in Rows("files") : r.id.layer = "silver"}
MatchingFiles(q) == {r \in Rows("files") : r.id \in q.snapshot.files}

BarsRead(files, q) ==
    UNION {{t \in Bars[r.id.data] : q.start <= t /\ t < q.end} : r \in files}

CanRead == \A t \in {"snapshots", "universe", "coverage", "files"} : table[t] # Torn

LoadPanel(q) ==
    /\ Cardinality(Panels) < MaxReads
    /\ CanRead
    /\ TemporalPolicy(q)
    /\ SnapshotCovers(q)
    /\ MatchingFiles(q) # {}
    /\ \A r \in MatchingFiles(q) : r.path \in DOMAIN file /\ file[r.path] # Torn
    /\ BarsRead(MatchingFiles(q), q) # {}
    /\ \E c \in BestReports(q) :
         /\ CoverageGate(q, c)
         /\ panels' = panels \cup
                {[request |-> q, report |-> c, files |-> MatchingFiles(q)]}
    /\ UNCHANGED <<vars, manifests>>

(* _append_data_manifest                                                   *)
RecordPanel(m) ==
    /\ manifests # Torn
    /\ manifests' = manifests \cup {m}
    /\ panels' = panels \ {m}
    /\ UNCHANGED vars

(* The loader dies, maybe in its write, or finds a table it cannot read.   *)
DropPanel(m) ==
    /\ manifests' \in {manifests, Torn}
    /\ panels' = panels \ {m}
    /\ UNCHANGED vars

BDInit == Init /\ panels = {} /\ manifests = {}

BDNext == \/ Next /\ UNCHANGED <<panels, manifests>>
          \/ \E q \in Requests : LoadPanel(q)
          \/ \E m \in panels : RecordPanel(m) \/ DropPanel(m)

BDSpec == BDInit /\ [][BDNext]_bdVars

-----------------------------------------------------------------------------
(* Properties.                                                             *)

(* As long as no write races or tears the file manifest, what a panel in   *)
(* use or on record was read from can be read again: the same rows match   *)
(* its snapshot, and each still names a whole file of that content,        *)
(* however many jobs wrote, failed or died since                           *)
(* (_matching_snapshot_files).                                             *)
PanelsReplay ==
    \A m \in Panels : ~raced /\ table["files"] # Torn =>
        /\ MatchingFiles(m.request) = m.files
        /\ {r.id : r \in m.files} = m.request.snapshot.files
        /\ \A r \in m.files : r.path \in DOMAIN file /\ file[r.path] = r.id

(* An ordinary evidence panel holds no bar of the lockbox, warmup included *)
(* (_enforce_temporal_policy).                                             *)
NoLockboxBars ==
    \A m \in Panels :
        Evidence(m.request) /\ m.request.exclude_lockbox =>
            BarsRead(m.files, m.request) \cap LockboxStart .. LockboxEnd - 1 = {}
=============================================================================
