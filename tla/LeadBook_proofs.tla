--------------------------- MODULE LeadBook_proofs ---------------------------
(***************************************************************************)
(* The invariants of LeadBook, for any leads, processes and bound.         *)
(*                                                                         *)
(* An approval or an inspection in a row was put there when the row was    *)
(* got; from then on it travels through the call's row and through copies  *)
(* of the book, any of which may be written at any time.  So the invariant *)
(* says of every row that is held anywhere what the properties say of the  *)
(* rows of the file.  While calls do not overlap, the one in progress also *)
(* holds the book as its last writer left it.                              *)
(***************************************************************************)
EXTENDS LeadBook, TLAPS

(* Between its get and the end, a call holds a row; from its read on, a copy. *)
Underway(c) == call[c].at \in {"read", "open", "fill"}
Copied(c) == call[c].at \in {"open", "fill"}

Shown(l, r) == r.approved \/ r.inspection = "completed" => l \in inspected
Spoiled(r) == r.state = "inspection_requested" /\ r.inspection = "requested"
Sound(r) == Valid(r) \/ Spoiled(r)

BookSound == book # Torn => \A l \in Leads : Shown(l, book[l]) /\ Sound(book[l])
CallSound(c) ==
    /\ ~Idle(c) => call[c].lead \in Leads
    /\ Underway(c) => Shown(call[c].lead, call[c].row) /\ Sound(call[c].row)
    /\ Copied(c) => \A l \in Leads : Shown(l, call[c].copy[l]) /\ Sound(call[c].copy[l])
RowsSound == BookSound /\ \A c \in Clients : CallSound(c)

Alone == \A c, d \in Clients : ~Idle(c) /\ ~Idle(d) => c = d
CopiesLast == \A c \in Clients : Copied(c) => call[c].copy = last
Serial == ~overlapped => Alone /\ CopiesLast /\ (book # Torn => book = last)

Inv == TypeOK /\ RowsSound /\ Serial

-----------------------------------------------------------------------------
(* Lemmas.                                                                 *)

(* An operation returns a row, shows an approval or an inspection only if  *)
(* it was there, or if the operation is one that inspects, and spoils a    *)
(* valid row only by requesting its inspection.                            *)
LEMMA OutcomesSound ==
    ASSUME NEW op \in Ops, NEW r \in Row, NEW x \in Outcomes(op, r)
    PROVE  /\ x \in Row
           /\ x.approved \/ x.inspection = "completed" =>
                \/ r.approved \/ r.inspection = "completed"
                \/ op \in {"complete", "inspect_and_approve"}
           /\ Valid(r) => Sound(x)
<1>. USE DEF Row, Inspections, States, Valid, Sound, Spoiled
<1>1. CASE op = "request"
  <2>1. x = Requested(r)
    BY <1>1 DEF Outcomes
  <2>. QED
    BY <2>1 DEF Requested
<1>2. CASE op = "complete"
  <2>1. x = Completed(r)
    BY <1>2 DEF Outcomes
  <2>. QED
    BY <2>1, <1>2 DEF Completed
<1>3. CASE op = "approve"
  <2>1. x = Approved(r) /\ r.inspection = "completed"
    BY <1>3 DEF Outcomes, MayApprove
  <2>. QED
    BY <2>1 DEF Approved
<1>4. CASE op = "inspect_and_approve"
  <2>1. x = Approved(Completed(r))
    BY <1>4 DEF Outcomes
  <2>. QED
    BY <2>1, <1>4 DEF Approved, Completed
<1>5. CASE op = "deep"
  <2>1. x = DeepRequested(r) /\ MayRequestDeep(r)
    BY <1>5 DEF Outcomes
  <2>. QED
    BY <2>1 DEF DeepRequested, MayRequestDeep
<1>6. CASE op = "create"
  BY <1>6 DEF Outcomes
<1>. QED
  BY <1>1, <1>2, <1>3, <1>4, <1>5, <1>6 DEF Ops

(* The empty row, the fresh rows and the empty book are well typed.        *)
LEMMA Blank ==
    /\ NoLead \in Row /\ NoBook \in Book /\ Rest \in Call
    /\ \A s \in {"idea_only", "deep_validation_rejected"} :
         /\ Fresh(s) \in Row /\ Valid(Fresh(s))
         /\ ~Fresh(s).approved /\ Fresh(s).inspection # "completed"
    /\ Valid(NoLead) /\ ~NoLead.approved /\ NoLead.inspection # "completed"
<1>1. NoLead \in Row /\ \A s \in {"idea_only", "deep_validation_rejected"} : Fresh(s) \in Row
  BY DEF NoLead, Fresh, Row, Inspections, States
<1>2. NoBook \in Book
  BY <1>1 DEF NoBook, Book
<1>3. Rest \in Call
  BY <1>1, <1>2 DEF Rest, Call, Ops
<1>. QED
  BY <1>1, <1>2, <1>3 DEF Valid, NoLead, Fresh

(* The invariant holds of the empty book.                                  *)
LEMMA InitInv == Init => Inv
<1>. SUFFICES ASSUME Init PROVE Inv
  OBVIOUS
<1>1. TypeOK
  BY Blank DEF Init, TypeOK
<1>2. RowsSound
  BY Blank DEF Init, RowsSound, BookSound, CallSound, NoBook, Shown, Sound, Idle,
               Underway, Copied, Rest
<1>3. Serial
  BY DEF Init, Serial, Alone, CopiesLast, Idle, Copied, Rest
<1>. QED
  BY <1>1, <1>2, <1>3 DEF Inv

-----------------------------------------------------------------------------
(* One action at a time.                                                   *)

LEMMA ChangeInv ==
    ASSUME Inv, NEW c \in Clients, NEW l \in Leads, NEW op \in Ops \ {"create"},
           Change(c, op, l)
    PROVE  Inv'
<1>. USE DEF Inv, Change
<1>1. call[c] \in Call
  BY DEF TypeOK
<1>2. call'[c].at = "get" /\ call'[c].lead = l /\ \A d \in Clients \ {c} : call'[d] = call[d]
  BY <1>1 DEF TypeOK, Call
<1>3. TypeOK'
  <2>1. calls' \in Nat /\ overlapped' \in BOOLEAN
    BY DEF Begun, TypeOK
  <2>2. call' \in [Clients -> Call]
    BY <1>1 DEF TypeOK, Call
  <2>. QED
    BY <2>1, <2>2 DEF TypeOK
<1>4. RowsSound'
  BY <1>2 DEF RowsSound, BookSound, CallSound, Shown, Underway, Copied, Idle
<1>5. Serial'
  <2>1. ~overlapped' => ~overlapped /\ \A d \in Clients : Idle(d)
    BY DEF Begun, TypeOK
  <2>. QED
    BY <1>2, <2>1 DEF Serial, Alone, CopiesLast, Idle, Copied
<1>. QED
  BY <1>3, <1>4, <1>5

LEMMA CreateInv ==
    ASSUME Inv, NEW c \in Clients, NEW l \in Leads,
           NEW s \in {"idea_only", "deep_validation_rejected"}, Create(c, l, s)
    PROVE  Inv'
<1>. USE DEF Inv, Create
<1>1. call[c] \in Call
  BY DEF TypeOK
<1>2. /\ call'[c].at = "read" /\ call'[c].lead = l /\ call'[c].row = Fresh(s)
      /\ \A d \in Clients \ {c} : call'[d] = call[d]
  BY <1>1 DEF TypeOK, Call
<1>3. TypeOK'
  <2>1. calls' \in Nat /\ overlapped' \in BOOLEAN
    BY DEF Begun, TypeOK
  <2>2. call' \in [Clients -> Call]
    BY <1>1, Blank DEF TypeOK, Call, Ops
  <2>. QED
    BY <2>1, <2>2 DEF TypeOK
<1>4. RowsSound'
  BY <1>2, Blank DEF RowsSound, BookSound, CallSound, Shown, Sound, Underway, Copied, Idle
<1>5. Serial'
  <2>1. ~overlapped' => ~overlapped /\ \A d \in Clients : Idle(d)
    BY DEF Begun, TypeOK
  <2>. QED
    BY <1>2, <2>1 DEF Serial, Alone, CopiesLast, Idle, Copied
<1>. QED
  BY <1>3, <1>4, <1>5

LEMMA GetInv == ASSUME Inv, NEW c \in Clients, Get(c) PROVE Inv'
<1>. USE DEF Inv, Get
<1>1. PICK r \in Got(c) : call' = [call EXCEPT ![c].at = "read", ![c].row = r]
  OBVIOUS
<1>2. call[c] \in Call /\ ~Idle(c)
  BY DEF TypeOK, Idle
<1>3. /\ call[c].lead \in Leads /\ Readable(book) /\ book # Torn /\ book \in Book
      /\ r \in Outcomes(call[c].op, book[call[c].lead])
  BY <1>1, <1>2 DEF Got, Readable, RowsSound, CallSound, TypeOK
<1>4. book[call[c].lead] \in Row /\ Valid(book[call[c].lead]) /\ call[c].op \in Ops
  BY <1>2, <1>3 DEF Book, Readable, Call
<1>5. r \in Row /\ Sound(r)
  BY <1>3, <1>4, OutcomesSound
<1>6. inspected \subseteq inspected' /\ inspected' \subseteq Leads
  BY <1>3 DEF TypeOK
<1>7. Shown(call[c].lead, r)'
  <2>1. Shown(call[c].lead, book[call[c].lead])
    BY <1>3 DEF RowsSound, BookSound
  <2>2. r.approved \/ r.inspection = "completed" => call[c].lead \in inspected'
    BY <1>3, <1>4, <2>1, OutcomesSound DEF Shown
  <2>. QED
    BY <1>1, <1>2, <2>2 DEF Shown, TypeOK, Call
<1>8. /\ call'[c].at = "read" /\ call'[c].lead = call[c].lead /\ call'[c].row = r
      /\ \A d \in Clients \ {c} : call'[d] = call[d]
  BY <1>1, <1>2 DEF TypeOK, Call
<1>9. TypeOK'
  BY <1>1, <1>2, <1>5, <1>6 DEF TypeOK, Call
<1>10. RowsSound'
  BY <1>3, <1>5, <1>6, <1>7, <1>8
     DEF RowsSound, BookSound, CallSound, Shown, Underway, Copied, Idle
<1>11. Serial'
  BY <1>2, <1>8 DEF Serial, Alone, CopiesLast, Idle, Copied
<1>. QED
  BY <1>9, <1>10, <1>11

(* A call that ends without writing leaves less to show.                   *)
LEMMA EndsInv ==
    ASSUME Inv, NEW c \in Clients, Ends(c),
           UNCHANGED <<book, calls, inspected, last, overlapped>>
    PROVE  Inv'
<1>. USE DEF Inv, Ends
<1>1. /\ call'[c] = Rest /\ \A d \in Clients \ {c} : call'[d] = call[d]
  BY DEF TypeOK
<1>2. TypeOK'
  BY Blank DEF TypeOK
<1>3. RowsSound'
  BY <1>1 DEF RowsSound, BookSound, CallSound, Shown, Underway, Copied, Idle, Rest
<1>4. Serial'
  BY <1>1 DEF Serial, Alone, CopiesLast, Idle, Copied, Rest
<1>. QED
  BY <1>2, <1>3, <1>4

LEMMA ReadInv == ASSUME Inv, NEW c \in Clients, Read(c) PROVE Inv'
<1>1. call[c] \in Call /\ book # Torn /\ book \in Book /\ ~Idle(c)
  BY DEF Inv, TypeOK, Read, Readable, Idle
<1>2. /\ call'[c].at = "open" /\ call'[c].copy = book
      /\ call'[c].lead = call[c].lead /\ call'[c].row = call[c].row
      /\ \A d \in Clients \ {c} : call'[d] = call[d]
      /\ UNCHANGED <<book, inspected, last, overlapped>>
  BY <1>1 DEF Inv, TypeOK, Call, Read
<1>3. TypeOK'
  BY <1>1 DEF Inv, TypeOK, Call, Read
<1>4. RowsSound'
  <2>1. BookSound' /\ \A l \in Leads : Shown(l, book[l]) /\ Sound(book[l])
    BY <1>1, <1>2 DEF Inv, RowsSound, BookSound, Shown
  <2>2. Underway(c) /\ CallSound(c)
    BY <1>1 DEF Inv, RowsSound, Read, Underway
  <2>3. CallSound(c)'
    BY <1>1, <1>2, <2>1, <2>2 DEF CallSound, Shown, Underway, Copied
  <2>4. \A d \in Clients \ {c} : CallSound(d)'
    BY <1>2 DEF Inv, RowsSound, CallSound, Shown, Underway, Copied, Idle
  <2>. QED
    BY <2>1, <2>3, <2>4 DEF RowsSound
<1>5. Serial'
  BY <1>1, <1>2 DEF Inv, Serial, Alone, CopiesLast, Idle, Copied
<1>. QED
  BY <1>3, <1>4, <1>5 DEF Inv

LEMMA OpenInv == ASSUME Inv, NEW c \in Clients, Open(c) PROVE Inv'
<1>. USE DEF Inv, Open, Goto
<1>1. call[c] \in Call
  BY DEF TypeOK
<1>2. /\ call'[c].at = "fill" /\ call'[c].copy = call[c].copy
      /\ call'[c].lead = call[c].lead /\ call'[c].row = call[c].row
      /\ \A d \in Clients \ {c} : call'[d] = call[d]
  BY <1>1 DEF TypeOK, Call
<1>3. TypeOK'
  BY <1>1 DEF TypeOK, Call
<1>4. RowsSound'
  BY <1>1, <1>2 DEF RowsSound, BookSound, CallSound, Shown, Underway, Copied, Idle
<1>5. Serial'
  BY <1>1, <1>2 DEF Serial, Alone, CopiesLast, Idle, Copied
<1>. QED
  BY <1>3, <1>4, <1>5

LEMMA FillInv == ASSUME Inv, NEW c \in Clients, Fill(c) PROVE Inv'
<1>. USE DEF Inv, Fill, Ends
<1>1. call[c] \in Call /\ ~Idle(c) /\ call[c].lead \in Leads
  BY DEF TypeOK, Idle, RowsSound, CallSound
<1>2. call'[c] = Rest /\ \A d \in Clients \ {c} : call'[d] = call[d]
  BY DEF TypeOK
<1>. DEFINE new == Upserted(call[c].copy, call[c].lead, call[c].row)
<1>3. /\ call[c].copy \in Book /\ call[c].row \in Row /\ new \in Book
      /\ new[call[c].lead] = call[c].row
      /\ \A l \in Leads \ {call[c].lead} : new[l] = call[c].copy[l]
  BY <1>1 DEF Call, Upserted, Book
<1>4. book' = new \/ book' = Torn
  OBVIOUS
<1>5. TypeOK'
  BY <1>1, <1>3, <1>4, Blank DEF TypeOK, Book
<1>6. \A l \in Leads : Shown(l, new[l]) /\ Sound(new[l])
  BY <1>1, <1>3 DEF RowsSound, CallSound, Underway, Copied
<1>7. RowsSound'
  BY <1>2, <1>4, <1>6 DEF RowsSound, BookSound, CallSound, Shown, Underway, Copied, Idle, Rest
<1>8. ASSUME ~overlapped PROVE \A d \in Clients : Idle(d)'
  BY <1>1, <1>2, <1>8 DEF Serial, Alone, Idle, Rest
<1>9. ASSUME ~overlapped PROVE book' # Torn => book' = last'
  BY <1>1, <1>3, <1>4, <1>9 DEF Serial, CopiesLast, Copied, Upserted, TypeOK
<1>10. Serial'
  BY <1>8, <1>9 DEF Serial, Alone, CopiesLast, Idle, Copied
<1>. QED
  BY <1>5, <1>7, <1>10

LEMMA NextInv == Inv /\ [Next]_vars => Inv'
<1>. SUFFICES ASSUME Inv, [Next]_vars PROVE Inv'
  OBVIOUS
<1>1. CASE UNCHANGED vars
  BY <1>1 DEF vars, Inv, TypeOK, RowsSound, BookSound, CallSound, Shown, Serial, Alone,
              CopiesLast, Idle, Underway, Copied
<1>2. ASSUME NEW c \in Clients, NEW l \in Leads,
             \/ \E op \in Ops \ {"create"} : Change(c, op, l)
             \/ \E s \in {"idea_only", "deep_validation_rejected"} : Create(c, l, s)
      PROVE  Inv'
  BY <1>2, ChangeInv, CreateInv
<1>3. ASSUME NEW c \in Clients, Get(c) \/ Read(c) \/ Open(c) \/ Fill(c)
      PROVE  Inv'
  BY <1>3, GetInv, ReadInv, OpenInv, FillInv
<1>4. ASSUME NEW c \in Clients, Refused(c) \/ Die(c)
      PROVE  Inv'
  BY <1>4, EndsInv DEF Refused, Die
<1>. QED
  BY <1>1, <1>2, <1>3, <1>4 DEF Next

LEMMA AlwaysInv == Spec => []Inv
BY InitInv, NextInv, PTL DEF Spec

-----------------------------------------------------------------------------
(* The theorems.                                                           *)

(* File, calls and history keep their types.                               *)
THEOREM LeadBookTypeCorrect == Spec => []TypeOK
<1>1. Inv => TypeOK
  BY DEF Inv
<1>. QED
  BY <1>1, AlwaysInv, PTL

(* No interleaving of commands, jobs and crashes approves a lead that was  *)
(* not inspected (approve_after_human_inspection).                         *)
THEOREM ApprovedLeadsWereInspected == Spec => []ApprovalsAreInspected
<1>1. Inv => ApprovalsAreInspected
  BY DEF Inv, RowsSound, BookSound, Shown, ApprovalsAreInspected
<1>. QED
  BY <1>1, AlwaysInv, PTL

(* Calls that do not overlap lose and revive no row, whatever crashes      *)
(* (upsert).                                                               *)
THEOREM SerialWritesAreKept == Spec => []WritesAreKept
<1>1. Inv => WritesAreKept
  BY DEF Inv, Serial, WritesAreKept
<1>. QED
  BY <1>1, AlwaysInv, PTL

(* Only a repeated inspection request spoils the book                      *)
(* (request_human_inspection).                                             *)
THEOREM OnlyRequestsSpoil == Spec => []SpoiledOnlyByRequest
<1>1. Inv => SpoiledOnlyByRequest
  BY DEF Inv, RowsSound, BookSound, Sound, Spoiled, SpoiledOnlyByRequest
<1>. QED
  BY <1>1, AlwaysInv, PTL
=============================================================================
