------------------------------- MODULE LeadBook -------------------------------
(***************************************************************************)
(* The Lead Book: one Parquet file with a row per lead, changed by         *)
(* commands and jobs that run in processes of their own and share no lock. *)
(*                                                                         *)
(* A change is get, an operation on the row, and upsert; upsert reads the  *)
(* whole book again and rewrites the file in place, which truncates it     *)
(* first.  Every read validates every row.  lead create and the            *)
(* lead_book_upsert job upsert a fresh row without a get; a job that is    *)
(* run again after a crash is another such call.  complete, approve and    *)
(* deep are the package's functions, applied the way the commands apply    *)
(* theirs.  Evidence fields, gates and scans are left out.                 *)
(***************************************************************************)
EXTENDS Naturals

CONSTANTS Leads,    \* lead ids
          Clients,  \* processes
          Torn,     \* the file while it is truncated
          None,     \* no lead
          MaxCalls  \* bound: calls begun

ASSUME LeadBookAssumption ==
    /\ None \notin Leads
    /\ MaxCalls \in Nat

VARIABLES book,       \* the file: lead -> row, or Torn
          call,       \* what each process is doing
          calls,      \* how many calls were begun
          inspected,  \* history: leads whose inspection was completed
          last,       \* history: the row last written for a lead
          overlapped  \* history: two calls were in progress together

vars == <<book, call, calls, inspected, last, overlapped>>

Inspections == {"not_requested", "requested", "completed"}
States == {"idea_only", "inspection_requested", "inspection_completed",
           "approved", "deep_validation_requested", "deep_validation_rejected"}
Row == [exists : BOOLEAN, inspection : Inspections, approved : BOOLEAN, state : States]

Fresh(state) == [exists |-> TRUE, inspection |-> "not_requested",
                 approved |-> FALSE, state |-> state]
NoLead == [Fresh("idea_only") EXCEPT !.exists = FALSE]
NoBook == [l \in Leads |-> NoLead]

Book == [Leads -> Row]
Ops == {"create", "request", "complete", "approve", "inspect_and_approve", "deep"}
Call == [at : {"idle", "get", "read", "open", "fill"}, op : Ops, lead : Leads \cup {None},
         row : Row, copy : Book]
Rest == [at |-> "idle", op |-> "create", lead |-> None, row |-> NoLead, copy |-> NoBook]

(* LeadBookRow._validate_lead *)
Valid(r) ==
    /\ r.approved => r.inspection = "completed"
    /\ r.state = "deep_validation_requested" => r.approved /\ r.inspection = "completed"

Readable(b) == b # Torn /\ \A l \in Leads : Valid(b[l])

-----------------------------------------------------------------------------
(* What the operations make of a row: none of the copies is validated.     *)

(* Mutant: the state is set to a name the schema does not have.            *)
Mut_Requested(r) == [r EXCEPT !.inspection = "requested", !.state = "human_inspection"]
Requested(r) == [r EXCEPT !.inspection = "requested", !.state = "inspection_requested"]

Completed(r) == [r EXCEPT !.inspection = "completed", !.state = "inspection_completed"]

(* Mutant: an agent approves whatever the state of the inspection.         *)
Mut_MayApprove(r) == TRUE
MayApprove(r) == r.inspection = "completed"
Approved(r) == [r EXCEPT !.approved = TRUE, !.state = "approved"]

(* Mutant: the approval is not asked for.                                  *)
Mut_MayRequestDeep(r) == r.inspection = "completed"
MayRequestDeep(r) == r.inspection = "completed" /\ r.approved
DeepRequested(r) == [r EXCEPT !.state = "deep_validation_requested"]

(* The rows an operation may turn r into, none if it raises.               *)
Outcomes(op, r) ==
    CASE op = "request" -> {Requested(r)}
      [] op = "complete" -> {Completed(r)}
      [] op = "approve" -> {Approved(x) : x \in {y \in {r} : MayApprove(y)}}
      [] op = "inspect_and_approve" ->
             {Approved(x) : x \in {y \in {Completed(r)} : MayApprove(y)}}
      [] op = "deep" -> {DeepRequested(x) : x \in {y \in {r} : MayRequestDeep(y)}}
      [] OTHER -> {}

(* Mutant: the rows of the other leads are not written back.               *)
Mut_Upserted(copy, l, r) == [NoBook EXCEPT ![l] = r]
Upserted(copy, l, r) == [copy EXCEPT ![l] = r]

-----------------------------------------------------------------------------
Idle(c) == call[c].at = "idle"
Goto(c, phase) == call' = [call EXCEPT ![c].at = phase]
Ends(c) == call' = [call EXCEPT ![c] = Rest]
Begun ==
    /\ calls < MaxCalls /\ calls' = calls + 1
    /\ overlapped' = (overlapped \/ \E other \in Clients : ~Idle(other))

Change(c, op, l) ==
    /\ Idle(c) /\ Begun
    /\ call' = [call EXCEPT ![c] = [@ EXCEPT !.at = "get", !.op = op, !.lead = l]]
    /\ UNCHANGED <<book, inspected, last>>

(* A lead whose window fails a gate is rejected from the start.            *)
Create(c, l, state) ==
    /\ Idle(c) /\ Begun
    /\ call' = [call EXCEPT ![c] = [@ EXCEPT !.at = "read", !.op = "create",
                                             !.lead = l, !.row = Fresh(state)]]
    /\ UNCHANGED <<book, inspected, last>>

(* The rows a call may go on with: none if the book cannot be read, the    *)
(* lead is not in it, or the operation raises.                             *)
Got(c) == IF Readable(book) /\ book[call[c].lead].exists
          THEN Outcomes(call[c].op, book[call[c].lead]) ELSE {}

Get(c) ==
    /\ call[c].at = "get"
    /\ \E r \in Got(c) :
           call' = [call EXCEPT ![c].at = "read", ![c].row = r]
    /\ inspected' = IF call[c].op \in {"complete", "inspect_and_approve"}
                    THEN inspected \cup {call[c].lead} ELSE inspected
    /\ UNCHANGED <<book, calls, last, overlapped>>

Refused(c) ==
    /\ \/ call[c].at = "get" /\ Got(c) = {}
       \/ call[c].at = "read" /\ ~Readable(book)
    /\ Ends(c)
    /\ UNCHANGED <<book, calls, inspected, last, overlapped>>

Read(c) ==
    /\ call[c].at = "read" /\ Readable(book)
    /\ call' = [call EXCEPT ![c].at = "open", ![c].copy = book]
    /\ UNCHANGED <<book, calls, inspected, last, overlapped>>

Open(c) ==
    /\ call[c].at = "open"
    /\ book' = Torn
    /\ Goto(c, "fill")
    /\ UNCHANGED <<calls, inspected, last, overlapped>>

(* Two writes of one file may leave a mixture.                             *)
Others(c, phase) == \E other \in Clients \ {c} : call[other].at = phase

Fill(c) ==
    /\ call[c].at = "fill"
    /\ LET new == Upserted(call[c].copy, call[c].lead, call[c].row)
       IN \/ book' = new
          \/ Others(c, "fill") /\ book' = Torn
    /\ last' = [last EXCEPT ![call[c].lead] = call[c].row]
    /\ Ends(c)
    /\ UNCHANGED <<calls, inspected, overlapped>>

(* The process dies; what it was writing stays torn.                       *)
Die(c) ==
    /\ ~Idle(c)
    /\ Ends(c)
    /\ UNCHANGED <<book, calls, inspected, last, overlapped>>

Init ==
    /\ book = NoBook
    /\ call = [c \in Clients |-> Rest]
    /\ calls = 0 /\ inspected = {} /\ last = NoBook /\ overlapped = FALSE

Next ==
    \E c \in Clients :
        \/ \E l \in Leads :
               \/ \E op \in Ops \ {"create"} : Change(c, op, l)
               \/ \E state \in {"idea_only", "deep_validation_rejected"} : Create(c, l, state)
        \/ Get(c) \/ Refused(c) \/ Read(c) \/ Open(c) \/ Fill(c) \/ Die(c)

Spec == Init /\ [][Next]_vars

-----------------------------------------------------------------------------
TypeOK ==
    /\ book \in Book \cup {Torn}
    /\ call \in [Clients -> Call]
    /\ calls \in Nat
    /\ inspected \subseteq Leads
    /\ last \in Book
    /\ overlapped \in BOOLEAN

(* Whatever commands, jobs and crashes interleave, a lead the book shows   *)
(* as approved has been inspected, although the guard looks at a row that  *)
(* may be stale and the write at no row at all                             *)
(* (approve_after_human_inspection).                                       *)
ApprovalsAreInspected ==
    book # Torn => \A l \in Leads : book[l].approved => l \in inspected

(* As long as calls do not overlap, a book that can be parsed holds for    *)
(* every lead what the last finished call on it wrote: rewriting the whole *)
(* file loses and revives nothing (upsert).                                *)
WritesAreKept == ~overlapped /\ book # Torn => book = last

(* A row its own schema rejects, which no later command can read past, is  *)
(* only ever written by requesting the inspection of an approved lead      *)
(* again; no interleaving of the other operations makes one                *)
(* (request_human_inspection, _validate_lead).                             *)
SpoiledOnlyByRequest ==
    book # Torn =>
        \A l \in Leads : Valid(book[l]) \/
            /\ book[l].state = "inspection_requested"
            /\ book[l].inspection = "requested"
=============================================================================
