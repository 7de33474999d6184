------------------------- MODULE TradingEngine_proofs -------------------------
(***************************************************************************)
(* Theorems about the engine, for any signals, any requests of the         *)
(* operator console, and any number of refused, late, lost or raising      *)
(* requests and of crashes: its types, that no signal is entered twice,    *)
(* that a signal opens its row with both protective orders placed or in    *)
(* safe mode, unless the console or a check that was overtaken changes the *)
(* safety status meanwhile, and that without faults the store knows every  *)
(* position the exchange has.                                              *)
(*                                                                         *)
(* OneEntryPerSignal is not inductive: it needs to be known that a signal  *)
(* in hand is reserved, that only reserved signals have entries, and that  *)
(* the one in hand has none while its handler may still come to Enter,     *)
(* wherever in a reconciliation it waits.  The other two rest on what the  *)
(* lock excludes: Locked, and with it Calm, Unwritten and Agreed.          *)
(***************************************************************************)
EXTENDS TradingEngine, TLAPS

(* Where a task waits inside a reconciliation or a check, and what it does *)
(* only while it holds the lock.                                           *)
Waits == {"read", "query", "notice", "write", "raise", "clear", "mark"}
Alone == {"refresh", "refreshed", "overdue", "basis", "cancel", "close", "closeRow"}
Handling == {"rest", "refresh", "refreshed", "check", "decide", "sync", "cancel", "close",
             "confirmClose", "closeRow", "enter", "confirmEntry", "protect", "open"}
Phases == Parts \cup Waits \cup Alone \cup Handling
Nexts == Parts \cup {"refreshed", "overdue", "basis", "check"}
Saws == {"none", "stale_market_data", "heartbeat_loss", "reconciliation_stale",
         "reconciliation_mismatch"}
PosRows == [dir : {-1, 0, 1}, sig : Signals \cup {None}, held : SUBSET Kinds]
Frames == [at : Phases, sig : Signals \cup {None}, row : PosRows, net : Int,
           kept : SUBSET Kinds, ok : BOOLEAN, then : Nexts, saw : Saws]

Typed == /\ TypeOK
         /\ task \in [Tasks -> Frames]
         /\ entries \in [Signals -> Nat]
         /\ At("signal", "rest") \/ task["signal"].sig \in reserved

(* The handler may still come to its entry order, or to its row.           *)
Before(t) ==
    \/ t.at \in {"refresh", "refreshed", "check", "decide", "cancel", "close",
                 "confirmClose", "closeRow", "enter"}
    \/ t.at \in Waits /\ t.then # "rest"
Entering == {"confirmEntry", "protect", "open"}
ToOpen(t) == Before(t) \/ t.at \in Entering

Once == \A s \in Signals : entries[s] <= 1 /\ (s \in reserved \/ entries[s] = 0)
NotYet == Before(task["signal"]) => entries[task["signal"].sig] = 0

(* A signal holds the lock from its reservation to its end.  A poller      *)
(* holds it to check execution health, to close and to bootstrap, and not  *)
(* in a market check or an order-stream reconciliation.                    *)
HandlerPlace(t, holder) ==
    /\ t.at \in Handling \cup Waits
    /\ t.at # "rest" => holder = "signal"
    /\ t.at \in Waits => t.then \in {"rest", "refreshed", "check"}

PollerPlace(c, t, holder) ==
    /\ t.at \in Parts \cup Waits \cup Alone
    /\ t.at \in Alone \cup {"mark"} => holder = c
    /\ t.at \in Waits /\ t.then \notin Parts =>
          holder = c /\ t.then \in {"refreshed", "overdue", "basis"}
    /\ c = "monitor" /\ t.at \in Waits /\ t.then \notin {"supervise", "health"} => holder = c

Place(c, t, holder) ==
    IF c = "signal" THEN HandlerPlace(t, holder) ELSE PollerPlace(c, t, holder)

Locked == \A c \in Tasks : Place(c, task[c], lock)

Inv == Typed /\ Locked /\ Once /\ NotYet

(* What a step makes of the handler's frame, if it is not the last.        *)
Onward(t, u) ==
    \/ u.at = "rest"
    \/ /\ t.at # "rest" /\ u.sig = t.sig
       /\ Before(u) => Before(t)
       /\ ToOpen(u) => ToOpen(t)

(* What a step of task c may do to the frames and the lock.                *)
Moves(c) ==
    /\ task' \in [Tasks -> Frames]
    /\ \A d \in Tasks : d # c => task'[d] = task[d]
    /\ lock' = lock \/ lock \in {c, None}
    /\ Place(c, task'[c], lock')
    /\ task'[c].row \in {task[c].row, row, FlatRow}
    /\ c = "signal" => Onward(task[c], task'[c])

(* Where task c may go on, and what it may go on to after a wait.          *)
Goes(c, p) ==
    IF c = "signal"
    THEN p = "rest" \/ (p \in {"refreshed", "check", "decide", "enter"} /\ Before(task[c]))
    ELSE p \in Parts \/ (p \in Alone /\ lock = c)

MayWait(c, w, n) ==
    IF c = "signal"
    THEN n \in {"rest", "refreshed", "check"} /\ (n # "rest" => Before(task[c]))
    ELSE /\ n \in Parts \/ (n \in {"refreshed", "overdue", "basis"} /\ lock = c)
         /\ w = "mark" => lock = c
         /\ c = "monitor" /\ n \notin {"supervise", "health"} => lock = c

-----------------------------------------------------------------------------
(* Lemmas.                                                                 *)

LEMMA TaskFacts ==
    /\ "signal" \in Tasks /\ "monitor" \in Tasks /\ "monitor" \in Pollers
    /\ "signal" \notin Pollers /\ None \notin Tasks
    /\ \A c \in Tasks : c = "signal" \/ c \in Pollers
    /\ \A c \in Pollers : c \in Tasks /\ (c = "monitor" \/ c \in Consoles)
BY DirectionAssumption DEF Tasks, Pollers

LEMMA FrameFacts ==
    ASSUME Inv, NEW c \in Tasks
    PROVE  /\ task \in [Tasks -> Frames] /\ task[c] \in Frames
           /\ Place(c, task[c], lock)
           /\ task[c].row \in PosRows /\ task[c].then \in Nexts /\ task[c].saw \in Saws
           /\ task[c].kept \subseteq Kinds /\ task[c].net \in Int
           /\ task[c].sig \in Signals \cup {None}
BY DEF Inv, Typed, Frames, Locked

LEMMA RestTyped ==
    /\ FlatRow \in PosRows /\ FlatRow.dir = 0 /\ FlatRow.sig = None
    /\ Rest \in Frames /\ Rest.at = "rest" /\ Rest.row = FlatRow
<1>1. FlatRow \in PosRows /\ FlatRow.dir = 0 /\ FlatRow.sig = None
  BY DEF FlatRow, PosRows
<1>2. Rest \in Frames /\ Rest.at = "rest" /\ Rest.row = FlatRow
  BY <1>1 DEF Rest, Frames, Phases, Parts, Nexts, Saws
<1>. QED
  BY <1>1, <1>2

(* The order of the parts of a call.                                       *)
LEMMA AfterFacts ==
    /\ \A part : After("signal", part) = "rest"
    /\ \A c \in Tasks : \A part : After(c, part) \in Parts
    /\ After("monitor", "market") = "health" /\ After("monitor", "sync") = "supervise"
<1>1. \A part : After("signal", part) = "rest"
  BY DEF After
<1>2. /\ Order["loop"] = [market |-> "health", health |-> "sync",
                          sync |-> "supervise", supervise |-> "market"]
      /\ Order["snapshot"] = [market |-> "sync", sync |-> "health"]
      /\ Order["refresh"] = [market |-> "health"]
      /\ Order["reconcile"] = [sync |-> "bootstrap"]
      /\ Order["supervise"] = [sync |-> "supervise"]
  BY DEF Order
<1>3. ASSUME NEW c \in Tasks, NEW part
      PROVE  After(c, part) \in Parts
  <2>1. c = "signal" \/ c = "monitor" \/ (c \in Consoles /\ Call[c] \in Calls)
    BY DirectionAssumption DEF Tasks, Pollers
  <2>2. CASE c = "signal"
    BY <1>1, <2>2 DEF Parts
  <2>3. \A call \in Calls \cup {"loop"} : \A p \in DOMAIN Order[call] : Order[call][p] \in Parts
    BY <1>2 DEF Calls, Parts
  <2>4. CASE c = "monitor"
    BY <2>3, <2>4 DEF After, Parts
  <2>5. CASE c \in Consoles /\ Call[c] \in Calls /\ c # "monitor" /\ c # "signal"
    BY <2>3, <2>5 DEF After, Parts
  <2>. QED
    BY <2>1, <2>2, <2>4, <2>5
<1>4. After("monitor", "market") = "health" /\ After("monitor", "sync") = "supervise"
  BY <1>2 DEF After
<1>. QED
  BY <1>1, <1>3, <1>4

(* The frame a task goes on with.                                          *)
LEMMA FreshTyped ==
    ASSUME Inv, NEW c \in Tasks, NEW p \in Phases
    PROVE  /\ Fresh(c, p) \in Frames
           /\ Fresh(c, p).at = p /\ Fresh(c, p).row = FlatRow
           /\ Fresh(c, p).sig = IF p = "rest" THEN None ELSE task[c].sig
BY RestTyped, FrameFacts DEF Fresh, Rest, Frames

LEMMA FreshThenTyped ==
    ASSUME Inv, NEW c \in Tasks, NEW p \in Waits, NEW n \in Nexts, NEW r \in Saws,
           NEW f, f = FreshThen(c, p, n) \/ f = [FreshThen(c, p, n) EXCEPT !.saw = r]
    PROVE  /\ f \in Frames
           /\ f.at = p /\ f.then = n /\ f.row = FlatRow /\ f.sig = task[c].sig
<1>1. p \in Phases /\ p # "rest"
  BY DEF Waits, Phases
<1>. DEFINE g == Fresh(c, p)
            h == [g EXCEPT !.then = n]
<1>2. g \in Frames /\ g.at = p /\ g.row = FlatRow /\ g.sig = task[c].sig
  BY <1>1, FreshTyped
<1>. HIDE DEF g
<1>3. /\ h \in Frames /\ h.at = p /\ h.row = FlatRow /\ h.sig = task[c].sig /\ h.then = n
  BY <1>2 DEF Frames
<1>4. FreshThen(c, p, n) = h
  BY DEF FreshThen, g
<1>. HIDE DEF h
<1>5. CASE f = FreshThen(c, p, n)
  BY <1>3, <1>4, <1>5
<1>6. CASE f = [FreshThen(c, p, n) EXCEPT !.saw = r]
  <2>1. f = [h EXCEPT !.saw = r]
    BY <1>4, <1>6
  <2>. QED
    BY <1>3, <2>1 DEF Frames
<1>. QED
  BY <1>5, <1>6

(* A step that puts one frame in place of another.                         *)
LEMMA MoveTo ==
    ASSUME Inv, NEW c \in Tasks, NEW f \in Frames,
           task' = [task EXCEPT ![c] = f],
           lock' = lock \/ lock \in {c, None},
           Place(c, f, lock'),
           f.row \in {task[c].row, row, FlatRow},
           c = "signal" => Onward(task[c], f)
    PROVE  Moves(c)
BY FrameFacts DEF Moves

LEMMA GoOnMoves ==
    ASSUME Inv, NEW c \in Tasks, NEW p \in Phases, GoOn(c, p), Goes(c, p), ~At(c, "rest")
    PROVE  Moves(c)
<1>1. /\ Fresh(c, p) \in Frames /\ Fresh(c, p).at = p /\ Fresh(c, p).row = FlatRow
      /\ Fresh(c, p).sig = IF p = "rest" THEN None ELSE task[c].sig
  BY FreshTyped
<1>2. /\ task' = [task EXCEPT ![c] = Fresh(c, p)]
      /\ lock' = IF lock = c /\ p \in Parts THEN None ELSE lock
  BY DEF GoOn
<1>3. Place(c, Fresh(c, p), lock') /\ (c = "signal" => Onward(task[c], Fresh(c, p)))
  <2>1. CASE c = "signal"
    <3>1. lock = "signal"
      BY <2>1, FrameFacts DEF Place, HandlerPlace, At
    <3>2. p = "rest" \/ p \notin Parts \cup Waits
      BY <2>1 DEF Goes, Parts, Waits
    <3>3. p \in Handling
      BY <2>1 DEF Goes, Handling
    <3>4. Place(c, Fresh(c, p), lock')
      BY <1>1, <1>2, <2>1, <3>1, <3>2, <3>3 DEF Place, HandlerPlace, Parts, Waits
    <3>5. Onward(task[c], Fresh(c, p))
      BY <1>1, <2>1 DEF Goes, Onward, ToOpen, Entering, At
    <3>. QED
      BY <3>4, <3>5
  <2>2. CASE c # "signal"
    <3>1. p \notin Waits
      BY <2>2 DEF Goes, Parts, Alone, Waits
    <3>2. p \in Alone \cup {"mark"} => lock' = c
      BY <1>2, <2>2 DEF Goes, Parts, Alone
    <3>. QED
      BY <1>1, <2>2, <3>1, <3>2 DEF Goes, Place, PollerPlace
  <2>. QED
    BY <2>1, <2>2
<1>. QED
  BY <1>1, <1>2, <1>3, MoveTo

LEMMA WaitMoves ==
    ASSUME Inv, NEW c \in Tasks, NEW w \in Waits, NEW n \in Nexts, NEW r \in Saws, NEW f,
           f = FreshThen(c, w, n) \/ f = [FreshThen(c, w, n) EXCEPT !.saw = r],
           task' = [task EXCEPT ![c] = f], lock' = lock,
           MayWait(c, w, n), ~At(c, "rest")
    PROVE  Moves(c)
<1>1. /\ f \in Frames /\ f.at = w /\ f.then = n /\ f.row = FlatRow /\ f.sig = task[c].sig
  BY FreshThenTyped
<1>2. Place(c, f, lock') /\ (c = "signal" => Onward(task[c], f))
  <2>1. CASE c = "signal"
    <3>1. lock = "signal"
      BY <2>1, FrameFacts DEF Place, HandlerPlace, At
    <3>2. Place(c, f, lock')
      BY <1>1, <2>1, <3>1 DEF Place, HandlerPlace, MayWait
    <3>3. w \notin Entering /\ (Before(f) => n # "rest")
      BY <1>1 DEF Waits, Entering, Before
    <3>4. Onward(task[c], f)
      BY <1>1, <2>1, <3>3 DEF MayWait, Onward, ToOpen, At
    <3>. QED
      BY <3>2, <3>4
  <2>2. CASE c # "signal"
    BY <1>1, <2>2 DEF MayWait, Place, PollerPlace, Alone, Waits
  <2>. QED
    BY <2>1, <2>2
<1>. QED
  BY <1>1, <1>2, MoveTo

LEMMA ClearIfMoves ==
    ASSUME Inv, NEW c \in Tasks, NEW r \in Saws, NEW n \in Nexts, ClearIf(c, r, n),
           Goes(c, n), MayWait(c, "clear", n), ~At(c, "rest")
    PROVE  Moves(c)
<1>1. CASE safety = r
  <2>1. /\ task' = [task EXCEPT ![c] = [FreshThen(c, "clear", n) EXCEPT !.saw = r]]
        /\ lock' = lock
    BY <1>1 DEF ClearIf
  <2>2. "clear" \in Waits
    BY DEF Waits
  <2>. QED
    BY <2>1, <2>2, WaitMoves
<1>2. CASE safety # r
  BY <1>2, GoOnMoves DEF ClearIf, Phases, Nexts, Alone, Handling
<1>. QED
  BY <1>1, <1>2

LEMMA MarkIfMoves ==
    ASSUME Inv, NEW c \in Tasks, NEW n \in Nexts, MarkIf(c, n),
           Goes(c, n), MayWait(c, "mark", n), ~At(c, "rest")
    PROVE  Moves(c)
<1>1. CASE safety \in {"none", "reconciliation_stale"}
  <2>1. task' = [task EXCEPT ![c] = FreshThen(c, "mark", n)] /\ lock' = lock
    BY <1>1 DEF MarkIf
  <2>2. "mark" \in Waits /\ "none" \in Saws
    BY DEF Waits, Saws
  <2>. QED
    BY <2>1, <2>2, WaitMoves
<1>2. CASE safety \notin {"none", "reconciliation_stale"}
  BY <1>2, GoOnMoves DEF MarkIf, Phases, Nexts, Alone, Handling
<1>. QED
  BY <1>1, <1>2

(* After a wait the task goes on to what the wait is for, or waits again.  *)
LEMMA ThenGoes ==
    ASSUME Inv, NEW c \in Tasks, task[c].at \in Waits
    PROVE  /\ task[c].then \in Nexts /\ Goes(c, task[c].then)
           /\ \A w : w # "mark" => MayWait(c, w, task[c].then)
           /\ ~At(c, "rest")
<1>1. Place(c, task[c], lock) /\ task[c].then \in Nexts
  BY FrameFacts
<1>2. ~At(c, "rest")
  BY DEF At, Waits
<1>3. CASE c = "signal"
  BY <1>1, <1>2, <1>3 DEF Place, HandlerPlace, Goes, MayWait, Before
<1>4. CASE c # "signal"
  BY <1>1, <1>2, <1>4 DEF Place, PollerPlace, Goes, MayWait, Alone
<1>. QED
  BY <1>3, <1>4

(* A step of the handler that changes only the phase, or the row and the   *)
(* answer it has seen too.                                                 *)
LEMMA SignalMoves ==
    ASSUME Inv, ~At("signal", "rest"), NEW f \in Frames,
           task' = [task EXCEPT !["signal"] = f], lock' = lock,
           f.at \in Handling \ {"rest"},
           f.sig = task["signal"].sig, f.row \in {task["signal"].row, row},
           Before(f) => Before(task["signal"]), ToOpen(f) => ToOpen(task["signal"])
    PROVE  Moves("signal")
<1>1. lock = "signal" /\ f.at \notin Waits
  BY TaskFacts, FrameFacts DEF Place, HandlerPlace, At, Waits, Handling
<1>2. Place("signal", f, lock')
  BY <1>1 DEF Place, HandlerPlace
<1>3. Onward(task["signal"], f)
  BY DEF Onward, At
<1>. QED
  BY <1>2, <1>3, TaskFacts, MoveTo

LEMMA GotoFrame ==
    ASSUME Inv, NEW c \in Tasks, NEW p \in Phases
    PROVE  /\ [task[c] EXCEPT !.at = p] \in Frames
           /\ [task[c] EXCEPT !.at = p].at = p
           /\ [task[c] EXCEPT !.at = p].sig = task[c].sig
           /\ [task[c] EXCEPT !.at = p].row = task[c].row
           /\ [task[c] EXCEPT !.at = p].then = task[c].then
           /\ [task[c] EXCEPT !.at = p].ok = task[c].ok
           /\ Goto(c, p) = [task EXCEPT ![c] = [task[c] EXCEPT !.at = p]]
BY FrameFacts DEF Frames, Goto

LEMMA SignalGotoMoves ==
    ASSUME Inv, NEW p \in Handling \ {"rest"}, task' = Goto("signal", p), lock' = lock,
           ~At("signal", "rest"),
           p \in {"close", "confirmClose", "closeRow", "enter"} => Before(task["signal"]),
           p \notin {"sync", "close", "confirmClose", "closeRow", "enter"} =>
               p \in Entering /\ ToOpen(task["signal"])
    PROVE  Moves("signal")
<1>. DEFINE f == [task["signal"] EXCEPT !.at = p]
<1>1. /\ f \in Frames /\ f.at = p /\ f.sig = task["signal"].sig
      /\ f.row = task["signal"].row /\ task' = [task EXCEPT !["signal"] = f]
  BY TaskFacts, GotoFrame DEF Phases
<1>. HIDE DEF f
<1>2. (Before(f) => Before(task["signal"])) /\ (ToOpen(f) => ToOpen(task["signal"]))
  BY <1>1 DEF Before, ToOpen, Entering, Waits
<1>. QED
  BY <1>1, <1>2, SignalMoves

(* What is left of the invariant after the frames are taken care of.       *)
LEMMA MoveInv ==
    ASSUME Inv, TypeOK', NEW c \in Tasks, Moves(c), UNCHANGED <<reserved, entries>>
    PROVE  Inv'
<1>1. task' \in [Tasks -> Frames] /\ \A d \in Tasks : d # c => task'[d] = task[d]
  BY DEF Moves
<1>2. Onward(task["signal"], task'["signal"]) \/ task'["signal"] = task["signal"]
  BY <1>1, TaskFacts DEF Moves
<1>3. Typed'
  BY <1>1, <1>2 DEF Inv, Typed, Onward, At
<1>4. Locked'
  <2>1. ASSUME NEW d \in Tasks, d # c PROVE Place(d, task'[d], lock')
    <3>1. Place(d, task[d], lock) /\ d # None /\ task'[d] = task[d]
      BY <1>1, <2>1, TaskFacts, FrameFacts
    <3>2. lock = d => lock' = d
      BY <2>1, <3>1 DEF Moves
    <3>. QED
      BY <3>1, <3>2 DEF Place, HandlerPlace, PollerPlace
  <2>2. Place(c, task'[c], lock')
    BY DEF Moves
  <2>. QED
    BY <2>1, <2>2 DEF Locked
<1>5. Once' /\ NotYet'
  BY <1>2 DEF Inv, Once, NotYet, Onward, Before, Waits
<1>. QED
  BY <1>3, <1>4, <1>5 DEF Inv

-----------------------------------------------------------------------------
(* The steps.                                                              *)

LEMMA GoOnLock ==
    ASSUME Inv, NEW c \in Tasks
    PROVE  /\ \A p : GoOn(c, p) => lock' \in Tasks \cup {None}
           /\ \A r, p : ClearIf(c, r, p) => lock' \in Tasks \cup {None}
           /\ \A p : MarkIf(c, p) => lock' \in Tasks \cup {None}
<1>1. lock \in Tasks \cup {None}
  BY DEF Inv, Typed, TypeOK
<1>. QED
  BY <1>1 DEF GoOn, ClearIf, MarkIf

LEMMA StatusMoves ==
    ASSUME Inv, NEW c \in Tasks, StatusStep(c)
    PROVE  TypeOK' /\ Moves(c) /\ UNCHANGED <<reserved, entries, row>>
<1>1. /\ task[c].at \in Waits /\ GoOn(c, task[c].then)
      /\ UNCHANGED <<exchange, row, reserved, called, entries>>
      /\ safety' \in Reasons
  BY DEF StatusStep, Clear, Mark, RaiseMismatch, At, Waits, history, Reasons, Cleared
<1>2. TypeOK'
  BY <1>1, GoOnLock DEF Inv, Typed, TypeOK, exchange
<1>3. Moves(c)
  BY <1>1, ThenGoes, GoOnMoves DEF Phases, Nexts, Alone, Handling
<1>. QED
  BY <1>1, <1>2, <1>3

LEMMA ReadRowMoves ==
    ASSUME Inv, NEW c \in Tasks, ReadRow(c)
    PROVE  TypeOK' /\ Moves(c)
<1>1. TypeOK'
  BY DEF Inv, Typed, TypeOK, ReadRow, exchange, store, history
<1>. DEFINE f == [task[c] EXCEPT !.at = "query", !.row = row]
<1>2. task[c] \in Frames /\ row \in PosRows /\ task[c].at = "read" /\ Place(c, task[c], lock)
  BY FrameFacts DEF Inv, Typed, TypeOK, PosRows, ReadRow, At
<1>3. /\ f \in Frames /\ f.at = "query" /\ f.sig = task[c].sig /\ f.row = row
      /\ f.then = task[c].then
  BY <1>2 DEF Frames, Phases, Waits
<1>4. task' = [task EXCEPT ![c] = f] /\ lock' = lock
  BY DEF ReadRow
<1>. HIDE DEF f
<1>5. Place(c, f, lock')
  BY <1>2, <1>3, <1>4 DEF Place, HandlerPlace, PollerPlace, Waits, Alone
<1>6. Onward(task[c], f)
  BY <1>2, <1>3 DEF Onward, ToOpen, Before, Entering, Waits
<1>. QED
  BY <1>1, <1>3, <1>4, <1>5, <1>6, MoveTo

LEMMA QueryMoves ==
    ASSUME Inv, NEW c \in Tasks, Query(c)
    PROVE  TypeOK' /\ Moves(c)
<1>1. TypeOK' /\ lock' = lock
  BY DEF Inv, Typed, TypeOK, Query, exchange, store, history
<1>2. /\ task[c] \in Frames /\ task[c].at = "query" /\ Place(c, task[c], lock)
      /\ task[c].at \in Waits
  BY FrameFacts DEF Query, At, Waits
<1>3. CASE Mismatch(task[c].row, net)
  <2>1. task' = [task EXCEPT ![c] = FreshThen(c, "raise", task[c].then)]
    BY <1>3 DEF Query
  <2>2. "raise" \in Waits /\ "none" \in Saws /\ "raise" # "mark"
    BY DEF Waits, Saws
  <2>. QED
    BY <1>1, <1>2, <2>1, <2>2, ThenGoes, WaitMoves
<1>4. CASE ~Mismatch(task[c].row, net)
  <2>. DEFINE k == IF net = 0 THEN {} ELSE Kept(task[c].row, orders)
              f == [task[c] EXCEPT !.at = "notice", !.net = net, !.kept = k]
  <2>1. task' = [task EXCEPT ![c] = f]
    BY <1>4 DEF Query
  <2>2. k \subseteq Kinds /\ net \in Int
    BY FrameFacts DEF Kept, PosRows, Inv, Typed, TypeOK
  <2>. HIDE DEF k
  <2>3. /\ f \in Frames /\ f.at = "notice" /\ f.sig = task[c].sig /\ f.row = task[c].row
        /\ f.then = task[c].then
    BY <1>2, <2>2 DEF Frames, Phases, Waits
  <2>. HIDE DEF f
  <2>4. Place(c, f, lock')
    BY <1>1, <1>2, <2>3 DEF Place, HandlerPlace, PollerPlace, Waits, Alone
  <2>5. Onward(task[c], f)
    BY <1>2, <2>3 DEF Onward, ToOpen, Before, Entering, Waits
  <2>. QED
    BY <1>1, <2>1, <2>3, <2>4, <2>5, MoveTo
<1>. QED
  BY <1>3, <1>4

LEMMA BeginFacts ==
    ASSUME Inv, NEW c \in Tasks
    PROVE  Begin(c) \in Phases /\ Goes(c, Begin(c)) /\ (c = "signal" => Begin(c) = "rest")
BY DEF Begin, Phases, Parts, Goes

LEMMA QueryRaisesMoves ==
    ASSUME Inv, NEW c \in Tasks, QueryRaises(c)
    PROVE  TypeOK' /\ Moves(c) /\ UNCHANGED <<reserved, entries, row>>
<1>1. \/ GoOn(c, Begin(c))
      \/ GoOn(c, "refreshed") /\ task[c].at = "query" /\ task[c].then = "refreshed"
  BY DEF QueryRaises, End, At
<1>2. TypeOK' /\ UNCHANGED <<reserved, entries, row>>
  BY <1>1, GoOnLock DEF Inv, Typed, TypeOK, QueryRaises, exchange, store
<1>3. ~At(c, "rest")
  BY DEF QueryRaises, At
<1>4. CASE GoOn(c, Begin(c))
  BY <1>2, <1>3, <1>4, BeginFacts, GoOnMoves
<1>5. CASE GoOn(c, "refreshed") /\ task[c].at = "query" /\ task[c].then = "refreshed"
  BY <1>2, <1>3, <1>5, ThenGoes, GoOnMoves DEF Waits, Phases, Alone
<1>. QED
  BY <1>1, <1>4, <1>5

LEMMA NoticeMoves ==
    ASSUME Inv, NEW c \in Tasks, Notice(c)
    PROVE  TypeOK' /\ Moves(c)
<1>1. task[c] \in Frames /\ task[c].at = "notice" /\ Place(c, task[c], lock)
  BY FrameFacts DEF Notice, At
<1>2. CASE task[c].row.dir # 0
  <2>. DEFINE r == IF safety = "reconciliation_mismatch" THEN safety ELSE "none"
              f == [task[c] EXCEPT !.at = "write", !.saw = r]
  <2>1. task' = [task EXCEPT ![c] = f] /\ lock' = lock
    BY <1>2 DEF Notice
  <2>2. r \in Saws
    BY DEF Saws
  <2>. HIDE DEF r
  <2>3. /\ f \in Frames /\ f.at = "write" /\ f.sig = task[c].sig /\ f.row = task[c].row
        /\ f.then = task[c].then
    BY <1>1, <2>2 DEF Frames, Phases, Waits
  <2>. HIDE DEF f
  <2>4. Place(c, f, lock')
    BY <1>1, <2>1, <2>3 DEF Place, HandlerPlace, PollerPlace, Waits, Alone
  <2>5. Onward(task[c], f)
    BY <1>1, <2>3 DEF Onward, ToOpen, Before, Entering, Waits
  <2>6. TypeOK'
    BY <2>1 DEF Inv, Typed, TypeOK, Notice, exchange, store, history
  <2>. QED
    BY <2>1, <2>3, <2>4, <2>5, <2>6, MoveTo
<1>3. CASE task[c].row.dir = 0
  <2>1. ClearIf(c, "reconciliation_mismatch", task[c].then)
    BY <1>3 DEF Notice
  <2>2. TypeOK'
    BY <2>1, GoOnLock DEF Inv, Typed, TypeOK, Notice, exchange, store, history
  <2>. QED
    BY <1>1, <2>1, <2>2, ThenGoes, ClearIfMoves DEF Waits, Saws
<1>. QED
  BY <1>2, <1>3

LEMMA WriteRowMoves ==
    ASSUME Inv, NEW c \in Tasks, WriteRow(c)
    PROVE  TypeOK' /\ Moves(c)
<1>1. task[c] \in Frames /\ task[c].at = "write"
  BY FrameFacts DEF WriteRow, At
<1>2. CASE task[c].saw = "none"
  <2>1. GoOn(c, task[c].then)
    BY <1>2 DEF WriteRow
  <2>. QED
    <3>1. Moves(c)
      BY <1>1, <2>1, ThenGoes, GoOnMoves DEF Waits, Phases, Nexts, Alone, Handling
    <3>2. row' \in PosRows
      BY FrameFacts, RestTyped DEF WriteRow, Persisted, Reconciled, PosRows
    <3>3. TypeOK'
      BY <2>1, <3>2, GoOnLock DEF Inv, Typed, TypeOK, WriteRow, exchange, PosRows
    <3>. QED
      BY <3>1, <3>3
<1>3. CASE task[c].saw # "none"
  <2>1. /\ task' = [task EXCEPT ![c] = [FreshThen(c, "clear", task[c].then)
                                           EXCEPT !.saw = task[c].saw]]
        /\ lock' = lock
    BY <1>3 DEF WriteRow
  <2>2. Moves(c)
    BY <1>1, <2>1, FrameFacts, ThenGoes, WaitMoves DEF Waits
  <2>3. row' \in PosRows
    BY FrameFacts, RestTyped DEF WriteRow, Persisted, Reconciled, PosRows
  <2>4. TypeOK'
    BY <2>1, <2>3 DEF Inv, Typed, TypeOK, WriteRow, exchange, PosRows
  <2>. QED
    BY <2>2, <2>4
<1>. QED
  BY <1>2, <1>3

LEMMA SyncMoves ==
    ASSUME Inv, NEW c \in Tasks, Sync(c)
    PROVE  TypeOK' /\ Moves(c)
<1>. DEFINE n == After(c, "sync")
<1>1. ~At(c, "rest") /\ n \in Nexts /\ n \in Phases /\ Goes(c, n) /\ MayWait(c, "read", n)
  BY AfterFacts, TaskFacts DEF Sync, At, Nexts, Phases, Goes, MayWait
<1>. HIDE DEF n
<1>2. \/ task' = [task EXCEPT ![c] = FreshThen(c, "read", n)] /\ lock' = lock
      \/ GoOn(c, n)
  BY DEF Sync, n
<1>3. TypeOK'
  BY <1>2, GoOnLock DEF Inv, Typed, TypeOK, Sync, exchange, store, history
<1>4. "read" \in Waits /\ "none" \in Saws
  BY DEF Waits, Saws
<1>. QED
  BY <1>1, <1>2, <1>3, <1>4, GoOnMoves, WaitMoves

LEMMA RefreshMoves ==
    ASSUME Inv, NEW c \in Tasks, Refresh(c)
    PROVE  TypeOK' /\ Moves(c)
<1>. DEFINE n == IF c = "signal" THEN "check" ELSE "basis"
<1>1. task[c].at = "refresh" /\ Place(c, task[c], lock)
  BY FrameFacts DEF Refresh, At
<1>2. /\ ~At(c, "rest") /\ n \in Nexts /\ Goes(c, n) /\ MayWait(c, "clear", n)
      /\ "refreshed" \in Nexts /\ MayWait(c, "read", "refreshed")
  BY <1>1 DEF At, Nexts, Goes, MayWait, Place, HandlerPlace, PollerPlace, Alone, Before
<1>. HIDE DEF n
<1>3. \/ task' = [task EXCEPT ![c] = FreshThen(c, "read", "refreshed")] /\ lock' = lock
      \/ ClearIf(c, "reconciliation_stale", n)
  BY DEF Refresh, n
<1>4. TypeOK'
  BY <1>3, GoOnLock DEF Inv, Typed, TypeOK, Refresh, exchange, store, history
<1>5. "read" \in Waits /\ "none" \in Saws /\ "reconciliation_stale" \in Saws
  BY DEF Waits, Saws
<1>. QED
  BY <1>2, <1>3, <1>4, <1>5, ClearIfMoves, WaitMoves

LEMMA RefreshedMoves ==
    ASSUME Inv, NEW c \in Tasks, Refreshed(c)
    PROVE  TypeOK' /\ Moves(c)
<1>1. task[c].at = "refreshed" /\ Place(c, task[c], lock)
  BY FrameFacts DEF Refreshed, At
<1>2. PICK n \in IF c = "signal" THEN {"check"} ELSE {"basis", "overdue"} :
         MarkIf(c, n) \/ GoOn(c, n)
  BY DEF Refreshed
<1>3. ~At(c, "rest") /\ n \in Nexts /\ n \in Phases /\ Goes(c, n) /\ MayWait(c, "mark", n)
  BY <1>1 DEF At, Nexts, Goes, MayWait, Place, HandlerPlace, PollerPlace, Alone, Before, Phases,
     Handling
<1>4. TypeOK'
  BY <1>2, GoOnLock DEF Inv, Typed, TypeOK, Refreshed, exchange, store, history
<1>. QED
  BY <1>2, <1>3, <1>4, GoOnMoves, MarkIfMoves

(* A step of a poller that holds the lock.                                 *)
LEMMA PollerGotoMoves ==
    ASSUME Inv, NEW c \in Pollers, NEW p \in Alone, task' = Goto(c, p), lock' = c,
           lock \in {c, None}
    PROVE  Moves(c)
<1>. DEFINE f == [task[c] EXCEPT !.at = p]
<1>1. c \in Tasks /\ c # "signal" /\ p \in Phases
  BY TaskFacts DEF Phases
<1>2. f \in Frames /\ f.at = p /\ f.row = task[c].row /\ task' = [task EXCEPT ![c] = f]
  BY <1>1, GotoFrame
<1>. HIDE DEF f
<1>3. Place(c, f, lock')
  BY <1>1, <1>2 DEF Place, PollerPlace, Alone, Waits
<1>. QED
  BY <1>1, <1>2, <1>3, MoveTo

LEMMA CancelOrdersMoves ==
    ASSUME Inv, NEW c \in Tasks, CancelOrders(c)
    PROVE  TypeOK' /\ Moves(c)
<1>1. TypeOK'
  BY DEF Inv, Typed, TypeOK, CancelOrders, exchange, store
<1>2. task[c].at = "cancel" /\ task' = Goto(c, "close") /\ lock' = lock /\ Place(c, task[c], lock)
  BY FrameFacts DEF CancelOrders, At
<1>3. CASE c = "signal"
  BY <1>1, <1>2, <1>3, SignalGotoMoves DEF At, Handling, Before
<1>4. CASE c # "signal"
  BY <1>1, <1>2, <1>4, TaskFacts, PollerGotoMoves DEF Place, PollerPlace, Alone
<1>. QED
  BY <1>3, <1>4

LEMMA CloseOrderMoves ==
    ASSUME Inv, NEW c \in Tasks, CloseOrder(c)
    PROVE  TypeOK' /\ Moves(c)
<1>1. TypeOK'
  <2>1. net \in Int /\ Sign(net) \in {-1, 0, 1} /\ (net # 0 => Sign(net) \in {-1, 1})
    BY DEF Inv, Typed, TypeOK, Sign
  <2>2. net' \in Int
    BY <2>1 DEF CloseOrder
  <2>3. net # 0 => [entry |-> FALSE, dir |-> Sign(net)] \in [entry : BOOLEAN, dir : {1, -1}]
    BY <2>1
  <2>4. late' \subseteq [entry : BOOLEAN, dir : {1, -1}]
    BY <2>3 DEF CloseOrder, Inv, Typed, TypeOK
  <2>. QED
    BY <2>2, <2>4 DEF Inv, Typed, TypeOK, CloseOrder, store
<1>2. /\ task[c].at = "close" /\ lock' = lock /\ Place(c, task[c], lock)
      /\ task' = Goto(c, IF c = "signal" THEN "confirmClose" ELSE "closeRow")
  BY FrameFacts DEF CloseOrder, At
<1>3. CASE c = "signal"
  BY <1>1, <1>2, <1>3, SignalGotoMoves DEF At, Handling, Before
<1>4. CASE c # "signal"
  BY <1>1, <1>2, <1>4, TaskFacts, PollerGotoMoves DEF Place, PollerPlace, Alone
<1>. QED
  BY <1>3, <1>4

LEMMA CloseRowMoves ==
    ASSUME Inv, NEW c \in Tasks, CloseRow(c)
    PROVE  TypeOK' /\ Moves(c)
<1>. DEFINE n == IF c = "signal" THEN "enter" ELSE After(c, "supervise")
<1>1. GoOn(c, n) /\ task[c].at = "closeRow" /\ row' = FlatRow
  BY DEF CloseRow, At
<1>2. n \in Phases /\ Goes(c, n) /\ ~At(c, "rest")
  BY <1>1, AfterFacts DEF Phases, Handling, Goes, Before, At
<1>. HIDE DEF n
<1>3. TypeOK'
  BY <1>1, GoOnLock, RestTyped DEF Inv, Typed, TypeOK, CloseRow, exchange, PosRows
<1>. QED
  BY <1>1, <1>2, <1>3, GoOnMoves

-----------------------------------------------------------------------------
(* The handler's own steps.                                                *)

LEMMA CheckMoves ==
    ASSUME Inv, Check
    PROVE  TypeOK' /\ Moves("signal")
<1>. USE TaskFacts
<1>1. GoOn("signal", "rest") \/ GoOn("signal", "decide")
  BY DEF Check, End, Begin
<1>2. TypeOK'
  BY <1>1, GoOnLock DEF Inv, Typed, TypeOK, Check, Reasons, exchange, history
<1>3. /\ ~At("signal", "rest") /\ Goes("signal", "rest") /\ Goes("signal", "decide")
      /\ "rest" \in Phases /\ "decide" \in Phases
  BY DEF Check, At, Goes, Before, Phases, Handling
<1>. QED
  BY <1>1, <1>2, <1>3, GoOnMoves

LEMMA DecideMoves ==
    ASSUME Inv, Decide
    PROVE  TypeOK' /\ Moves("signal")
<1>. USE TaskFacts
<1>1. TypeOK' /\ lock' = lock
  BY DEF Inv, Typed, TypeOK, Decide, Accepted, exchange, store, history
<1>2. task["signal"].at = "decide" /\ task["signal"] \in Frames /\ row \in PosRows
  BY FrameFacts DEF Decide, At, Inv, Typed, TypeOK, PosRows
<1>3. CASE task' = Goto("signal", "sync")
  BY <1>1, <1>2, <1>3, SignalGotoMoves DEF At, Handling
<1>4. CASE task' = [task EXCEPT !["signal"].at = Accepted, !["signal"].row = row]
  <2>. DEFINE f == [task["signal"] EXCEPT !.at = Accepted, !.row = row]
  <2>1. Accepted \in {"cancel", "enter"}
    BY DEF Accepted
  <2>2. f \in Frames /\ f.at = Accepted /\ f.sig = task["signal"].sig /\ f.row = row
    BY <1>2, <2>1 DEF Frames, Phases, Alone, Handling
  <2>3. task' = [task EXCEPT !["signal"] = f]
    BY <1>4
  <2>. HIDE DEF f
  <2>4. f.at \in Handling \ {"rest"} /\ Before(task["signal"]) /\ ToOpen(task["signal"])
    BY <1>2, <2>1, <2>2 DEF Handling, Before, ToOpen
  <2>. QED
    BY <1>1, <1>2, <2>2, <2>3, <2>4, SignalMoves DEF At
<1>. QED
  BY <1>3, <1>4 DEF Decide

LEMMA ConfirmCloseMoves ==
    ASSUME Inv, ConfirmClose
    PROVE  TypeOK' /\ Moves("signal")
<1>. USE TaskFacts
<1>1. \/ GoOn("signal", "rest")
      \/ task' = Goto("signal", "closeRow") /\ lock' = lock
  BY DEF ConfirmClose, End, Begin
<1>2. TypeOK'
  BY <1>1, GoOnLock DEF Inv, Typed, TypeOK, ConfirmClose, Reasons, exchange, history
<1>3. /\ ~At("signal", "rest") /\ Goes("signal", "rest") /\ Before(task["signal"])
      /\ "rest" \in Phases /\ "closeRow" \in Handling \ {"rest"}
  BY DEF ConfirmClose, At, Goes, Before, Phases, Handling
<1>. QED
  BY <1>1, <1>2, <1>3, GoOnMoves, SignalGotoMoves

LEMMA ConfirmEntryMoves ==
    ASSUME Inv, ConfirmEntry
    PROVE  TypeOK' /\ Moves("signal")
<1>. USE TaskFacts
<1>1. TypeOK' /\ lock' = lock
  BY DEF Inv, Typed, TypeOK, ConfirmEntry, Reasons, exchange, history
<1>2. /\ task' = Goto("signal", "protect") \/ task' = Goto("signal", "sync")
      /\ task["signal"].at = "confirmEntry"
  BY DEF ConfirmEntry, At
<1>. QED
  BY <1>1, <1>2, SignalGotoMoves DEF At, Handling, Entering, ToOpen

LEMMA ProtectMoves ==
    ASSUME Inv, Protect
    PROVE  TypeOK' /\ Moves("signal")
<1>. USE TaskFacts
<1>1. TypeOK' /\ lock' = lock
  BY DEF Inv, Typed, TypeOK, Protect, Protections, Kinds, AfterProtections, Reasons,
     exchange, store, At
<1>2. task' = Goto("signal", "open") /\ task["signal"].at = "protect"
  BY DEF Protect, At
<1>. QED
  BY <1>1, <1>2, SignalGotoMoves DEF At, Handling, Entering, ToOpen

LEMMA OpenRowMoves ==
    ASSUME Inv, OpenRow
    PROVE  TypeOK' /\ Moves("signal")
<1>. USE TaskFacts
<1>1. Dir \in {1, -1} /\ task["signal"].sig \in Signals
  BY DirectionAssumption DEF Inv, Typed, TypeOK, OpenRow, At, Dir
<1>2. row' \in [dir : {-1, 0, 1}, sig : Signals \cup {None}, held : SUBSET Kinds]
  BY <1>1 DEF Inv, Typed, TypeOK, OpenRow
<1>3. TypeOK' /\ lock' = lock
  BY <1>2 DEF Inv, Typed, TypeOK, OpenRow, Reasons, exchange, history
<1>4. task' = Goto("signal", "sync") /\ task["signal"].at = "open"
  BY DEF OpenRow, At
<1>. QED
  BY <1>3, <1>4, SignalGotoMoves DEF At, Handling

-----------------------------------------------------------------------------
(* The pollers' own steps.                                                 *)

LEMMA MarketMoves ==
    ASSUME Inv, NEW c \in Pollers, NEW healthy \in BOOLEAN, Market(c, healthy)
    PROVE  TypeOK' /\ Moves(c)
<1>. DEFINE n == After(c, "market")
<1>1. /\ c \in Tasks /\ ~At(c, "rest") /\ n \in Nexts /\ n \in Phases /\ Goes(c, n)
      /\ MayWait(c, "clear", n)
  BY AfterFacts, TaskFacts DEF Market, At, Nexts, Phases, Goes, MayWait
<1>. HIDE DEF n
<1>2. ClearIf(c, "stale_market_data", n) \/ GoOn(c, n)
  BY DEF Market, n
<1>3. TypeOK'
  BY <1>1, <1>2, GoOnLock DEF Inv, Typed, TypeOK, Market, Reasons, exchange, history
<1>. QED
  BY <1>1, <1>2, <1>3, GoOnMoves, ClearIfMoves DEF Saws

LEMMA StreamDownMoves ==
    ASSUME Inv, NEW c \in Pollers, StreamDown(c)
    PROVE  TypeOK' /\ Moves(c)
<1>. DEFINE n == After(c, "health")
<1>1. c \in Tasks /\ ~At(c, "rest") /\ n \in Phases /\ Goes(c, n)
  BY AfterFacts, TaskFacts DEF StreamDown, At, Nexts, Phases, Goes
<1>. HIDE DEF n
<1>2. GoOn(c, n)
  BY DEF StreamDown, n
<1>3. TypeOK'
  BY <1>1, <1>2, GoOnLock DEF Inv, Typed, TypeOK, StreamDown, Reasons, exchange, history
<1>. QED
  BY <1>1, <1>2, <1>3, GoOnMoves

LEMMA StreamUpMoves ==
    ASSUME Inv, NEW c \in Pollers, StreamUp(c)
    PROVE  TypeOK' /\ Moves(c)
<1>1. c \in Tasks /\ lock = None /\ lock' = c /\ task' = Goto(c, "refresh")
  BY TaskFacts DEF StreamUp
<1>2. TypeOK'
  BY <1>1 DEF Inv, Typed, TypeOK, StreamUp, exchange, store, history
<1>. QED
  BY <1>1, <1>2, PollerGotoMoves DEF Alone

LEMMA OverdueMoves ==
    ASSUME Inv, NEW c \in Pollers, Overdue(c)
    PROVE  TypeOK' /\ Moves(c)
<1>. DEFINE n == After(c, "health")
<1>1. c \in Tasks /\ c # "signal" /\ n \in Parts
  BY AfterFacts, TaskFacts
<1>2. lock = c /\ ~At(c, "rest")
  BY <1>1, FrameFacts DEF Overdue, At, Place, PollerPlace, Alone
<1>3. n \in Nexts /\ n \in Phases /\ Goes(c, n) /\ MayWait(c, "mark", n)
  BY <1>1, <1>2 DEF Nexts, Phases, Goes, MayWait
<1>. HIDE DEF n
<1>4. MarkIf(c, n) \/ GoOn(c, n)
  BY DEF Overdue, n
<1>5. TypeOK'
  BY <1>1, <1>4, GoOnLock DEF Inv, Typed, TypeOK, Overdue, exchange, store, history
<1>. QED
  BY <1>1, <1>2, <1>3, <1>4, <1>5, GoOnMoves, MarkIfMoves

LEMMA BasisMoves ==
    ASSUME Inv, NEW c \in Pollers, NEW healthy \in BOOLEAN, Basis(c, healthy)
    PROVE  TypeOK' /\ Moves(c)
<1>. DEFINE n == After(c, "health")
<1>1. c \in Tasks /\ c # "signal" /\ n \in Parts
  BY AfterFacts, TaskFacts
<1>2. lock = c /\ ~At(c, "rest")
  BY <1>1, FrameFacts DEF Basis, At, Place, PollerPlace, Alone
<1>3. n \in Nexts /\ n \in Phases /\ Goes(c, n) /\ MayWait(c, "clear", n)
  BY <1>1, <1>2 DEF Nexts, Phases, Goes, MayWait
<1>. HIDE DEF n
<1>4. ClearIf(c, "heartbeat_loss", n) \/ GoOn(c, n)
  BY DEF Basis, n
<1>5. TypeOK'
  BY <1>1, <1>4, GoOnLock DEF Inv, Typed, TypeOK, Basis, Reasons, exchange, history
<1>. QED
  BY <1>1, <1>2, <1>3, <1>4, <1>5, GoOnMoves, ClearIfMoves DEF Saws

LEMMA SuperviseMoves ==
    ASSUME Inv, NEW c \in Pollers, NEW exits \in BOOLEAN, Supervise(c, exits)
    PROVE  TypeOK' /\ Moves(c)
<1>. DEFINE n == After(c, "supervise")
<1>1. /\ c \in Tasks /\ c # "signal" /\ n \in Parts /\ ~At(c, "rest") /\ lock = None
      /\ task[c] \in Frames /\ row \in PosRows /\ task[c].at = "supervise"
  BY AfterFacts, TaskFacts, FrameFacts DEF Supervise, At, Inv, Typed, TypeOK, PosRows
<1>2. n \in Phases /\ Goes(c, n)
  BY <1>1 DEF Phases, Goes
<1>. HIDE DEF n
<1>3. CASE GoOn(c, n)
  <2>1. TypeOK'
    BY <1>1, <1>3, GoOnLock DEF Inv, Typed, TypeOK, Supervise, exchange, store, history
  <2>. QED
    BY <1>1, <1>2, <1>3, <2>1, GoOnMoves
<1>4. CASE lock' = c /\ task' = [task EXCEPT ![c].at = "cancel", ![c].row = row]
  <2>. DEFINE f == [task[c] EXCEPT !.at = "cancel", !.row = row]
  <2>1. f \in Frames /\ f.at = "cancel" /\ f.row = row
    BY <1>1 DEF Frames, Phases, Alone
  <2>2. task' = [task EXCEPT ![c] = f]
    BY <1>4
  <2>. HIDE DEF f
  <2>3. Place(c, f, lock')
    BY <1>1, <1>4, <2>1 DEF Place, PollerPlace, Alone, Waits
  <2>4. TypeOK'
    BY <1>1, <1>4 DEF Inv, Typed, TypeOK, Supervise, exchange, store, history
  <2>. QED
    BY <1>1, <1>4, <2>1, <2>2, <2>3, <2>4, MoveTo
<1>. QED
  BY <1>3, <1>4 DEF Supervise, n

LEMMA BootstrapMoves ==
    ASSUME Inv, NEW c \in Pollers, Bootstrap(c)
    PROVE  TypeOK' /\ Moves(c)
<1>. DEFINE n == After(c, "bootstrap")
            f == FreshThen(c, "read", n)
<1>1. c \in Tasks /\ c # "signal" /\ n \in Parts
  BY AfterFacts, TaskFacts
<1>2. n \in Nexts /\ "read" \in Waits /\ "none" \in Saws
  BY <1>1 DEF Nexts, Waits, Saws
<1>3. task' = [task EXCEPT ![c] = f] /\ lock = None /\ lock' = c
  BY DEF Bootstrap
<1>. HIDE DEF n
<1>4. f \in Frames /\ f.at = "read" /\ f.then = n /\ f.row = FlatRow
  BY <1>1, <1>2, FreshThenTyped
<1>. HIDE DEF f
<1>5. Place(c, f, lock')
  BY <1>1, <1>3, <1>4 DEF Place, PollerPlace, Alone, Waits, n
<1>6. TypeOK'
  BY <1>1, <1>3 DEF Inv, Typed, TypeOK, Bootstrap, exchange, store, history
<1>. QED
  BY <1>1, <1>3, <1>4, <1>5, <1>6, MoveTo

(* The route or command begins: a step of a task that was at rest.         *)
LEMMA PollMoves ==
    ASSUME Inv, NEW c \in Consoles, Poll(c)
    PROVE  TypeOK' /\ Moves(c)
<1>1. PICK p \in {"market", "sync"} : task' = Goto(c, p)
  BY DEF Poll
<1>2. c \in Tasks /\ c # "signal" /\ p \in Phases
  BY DirectionAssumption DEF Tasks, Pollers, Phases, Parts
<1>3. /\ [task[c] EXCEPT !.at = p] \in Frames /\ [task[c] EXCEPT !.at = p].at = p
      /\ [task[c] EXCEPT !.at = p].row = task[c].row
      /\ task' = [task EXCEPT ![c] = [task[c] EXCEPT !.at = p]]
  BY <1>1, <1>2, GotoFrame
<1>4. TypeOK' /\ lock' = lock
  BY <1>1 DEF Inv, Typed, TypeOK, Poll, exchange, store
<1>5. Place(c, [task[c] EXCEPT !.at = p], lock')
  BY <1>2, <1>3 DEF Place, PollerPlace, Parts, Alone, Waits
<1>. QED
  BY <1>2, <1>3, <1>4, <1>5, MoveTo

-----------------------------------------------------------------------------
(* The steps that count, and those that are of no task.                    *)

LEMMA ReceiveInv ==
    ASSUME Inv, NEW s \in Signals, Receive(s)
    PROVE  Inv'
<1>. DEFINE f == [Rest EXCEPT !.at = "refresh", !.sig = s]
<1>1. /\ s \notin reserved /\ reserved' = reserved \cup {s} /\ entries' = entries
      /\ task' = [task EXCEPT !["signal"] = f]
      /\ lock = None /\ lock' = "signal"
      /\ UNCHANGED <<exchange, here, row, safety, called>>
  BY DEF Receive, history
<1>2. f \in Frames /\ f.at = "refresh" /\ f.sig = s
  BY RestTyped DEF Frames, Phases, Alone
<1>. HIDE DEF f
<1>3. /\ task' \in [Tasks -> Frames] /\ task'["signal"] = f
      /\ \A d \in Tasks : d # "signal" => task'[d] = task[d]
  BY <1>1, <1>2, TaskFacts DEF Inv, Typed
<1>4. Typed'
  BY <1>1, <1>2, <1>3, TaskFacts DEF Inv, Typed, TypeOK, exchange
<1>5. Locked'
  <2>1. Place("signal", f, lock')
    BY <1>1, <1>2 DEF Place, HandlerPlace, Handling, Waits
  <2>2. ASSUME NEW d \in Tasks, d # "signal" PROVE Place(d, task'[d], lock')
    BY <1>1, <1>3, <2>2, TaskFacts, FrameFacts DEF Place, PollerPlace
  <2>. QED
    BY <1>3, <2>1, <2>2 DEF Locked
<1>6. Once' /\ NotYet'
  BY <1>1, <1>2, <1>3 DEF Inv, Once, NotYet
<1>. QED
  BY <1>4, <1>5, <1>6 DEF Inv

(* Enter is the only step that counts, and leaves the handler past it.     *)
LEMMA EnterMoves ==
    ASSUME Inv, Enter
    PROVE  TypeOK' /\ Moves("signal") /\ task'["signal"].at = "confirmEntry"
<1>. USE TaskFacts
<1>1. task["signal"].at = "enter" /\ task["signal"] \in Frames /\ task["signal"].sig \in Signals
  BY FrameFacts DEF Enter, At, Inv, Typed, TypeOK
<1>2. Dir \in {1, -1}
  BY <1>1, DirectionAssumption DEF Dir
<1>3. TypeOK' /\ lock' = lock
  <2>1. net' \in Int
    BY <1>2 DEF Enter, Inv, Typed, TypeOK
  <2>2. [entry |-> TRUE, dir |-> Dir] \in [entry : BOOLEAN, dir : {1, -1}]
    BY <1>2
  <2>3. late' \subseteq late \cup {[entry |-> TRUE, dir |-> Dir]}
    BY DEF Enter
  <2>4. late' \subseteq [entry : BOOLEAN, dir : {1, -1}]
    BY <2>2, <2>3 DEF Inv, Typed, TypeOK
  <2>. QED
    BY <2>1, <2>4 DEF Enter, Inv, Typed, TypeOK, store
<1>4. PICK f \in Frames : /\ task' = [task EXCEPT !["signal"] = f]
                          /\ f.at = "confirmEntry" /\ f.sig = task["signal"].sig
                          /\ f.row = task["signal"].row
  <2>1. CASE task' = Goto("signal", "confirmEntry")
    <3>. DEFINE f == [task["signal"] EXCEPT !.at = "confirmEntry"]
    <3>1. "confirmEntry" \in Phases
      BY DEF Phases, Handling
    <3>2. /\ f \in Frames /\ f.sig = task["signal"].sig /\ f.at = "confirmEntry"
          /\ f.row = task["signal"].row /\ task' = [task EXCEPT !["signal"] = f]
      BY <2>1, <3>1, GotoFrame
    <3>. QED
      BY <3>2
  <2>2. CASE task' = [task EXCEPT !["signal"].at = "confirmEntry", !["signal"].ok = TRUE]
    <3>. DEFINE f == [task["signal"] EXCEPT !.at = "confirmEntry", !.ok = TRUE]
    <3>1. /\ f \in Frames /\ f.sig = task["signal"].sig /\ f.at = "confirmEntry"
          /\ f.row = task["signal"].row
      BY <1>1 DEF Frames, Phases, Handling
    <3>2. task' = [task EXCEPT !["signal"] = f]
      BY <2>2
    <3>. QED
      BY <3>1, <3>2
  <2>. QED
    BY <2>1, <2>2 DEF Enter
<1>5. ~Before(f) /\ ToOpen(task["signal"])
  BY <1>1, <1>4 DEF Before, ToOpen, Waits
<1>6. Moves("signal")
  BY <1>1, <1>3, <1>4, <1>5, SignalMoves DEF Handling, At
<1>. QED
  BY <1>1, <1>3, <1>4, <1>6, FrameFacts

LEMMA EnterInv ==
    ASSUME Inv, Enter
    PROVE  Inv'
<1>. USE TaskFacts
<1>. DEFINE s == task["signal"].sig
<1>1. s \in reserved /\ s \in Signals /\ entries[s] = 0 /\ entries \in [Signals -> Nat]
  BY DEF Inv, Typed, TypeOK, NotYet, Before, Enter, At
<1>2. entries' = [entries EXCEPT ![s] = @ + 1] /\ reserved' = reserved
  BY DEF Enter, store
<1>3. TypeOK' /\ Moves("signal") /\ task'["signal"].at = "confirmEntry"
  BY EnterMoves
<1>4. task'["signal"].sig = s
  BY <1>3 DEF Moves, Onward
<1>5. Typed'
  BY <1>1, <1>2, <1>3, <1>4 DEF Typed, Moves
<1>6. Locked'
  <2>1. ASSUME NEW d \in Tasks, d # "signal" PROVE Place(d, task'[d], lock')
    <3>1. lock = "signal" /\ d # None
      BY FrameFacts DEF Place, HandlerPlace, Enter, At
    <3>2. lock' = lock
      BY DEF Enter
    <3>. QED
      BY <1>3, <2>1, <3>2, FrameFacts DEF Moves
  <2>. QED
    BY <1>3, <2>1 DEF Locked, Moves
<1>7. Once'
  <2>1. entries' = [t \in Signals |-> IF t = s THEN 1 ELSE entries[t]]
    <3>1. entries' = [t \in Signals |-> IF t = s THEN entries[s] + 1 ELSE entries[t]]
      BY <1>1, <1>2
    <3>. QED
      BY <1>1, <3>1
  <2>. QED
    BY <1>1, <1>2, <2>1 DEF Inv, Once
<1>8. NotYet'
  BY <1>3 DEF NotYet, Before, Waits
<1>. QED
  BY <1>5, <1>6, <1>7, <1>8 DEF Inv

(* Steps of the exchange, the stream and time do not touch the tasks.      *)
LEMMA OutsideFacts ==
    ASSUME Inv, ExchangeStep \/ Age
    PROVE  /\ UNCHANGED <<row, safety, task, lock, called, reserved, entries>>
           /\ TypeOK'
<1>1. UNCHANGED <<row, safety, task, lock, called, reserved, entries>>
  <2>1. CASE ExchangeStep
    BY <2>1 DEF ExchangeStep, Trigger, Land, Forget, Deliver, Lose, store, history
  <2>2. CASE Age
    BY <2>2 DEF Age, history
  <2>. QED
    BY <2>1, <2>2
<1>2. orders' \subseteq orders /\ late' \subseteq late
  <2>1. CASE ExchangeStep
    BY <2>1 DEF ExchangeStep, Trigger, Land, Forget, Deliver, Lose
  <2>2. CASE Age
    BY <2>2 DEF Age, exchange
  <2>. QED
    BY <2>1, <2>2
<1>3. net' \in Int
  <2>1. ASSUME NEW o \in orders, Trigger(o)
        PROVE  net' \in Int
    BY <2>1 DEF Inv, Typed, TypeOK, Trigger, Sign
  <2>2. ASSUME NEW o \in late, Land(o)
        PROVE  net' \in Int
    <3>1. o.dir \in Int
      BY DEF Inv, Typed, TypeOK
    <3>. QED
      BY <2>2, <3>1 DEF Inv, Typed, TypeOK, Land
  <2>3. CASE net' = net
    BY <2>3 DEF Inv, Typed, TypeOK
  <2>4. \/ \E o \in orders : Trigger(o)
        \/ \E o \in late : Land(o)
        \/ net' = net
    BY DEF ExchangeStep, Forget, Deliver, Lose, Age, exchange
  <2>. QED
    BY <2>1, <2>2, <2>3, <2>4
<1>. QED
  BY <1>1, <1>2, <1>3 DEF Inv, Typed, TypeOK

LEMMA SameInv ==
    ASSUME Inv, TypeOK', UNCHANGED <<task, lock, reserved, entries>>
    PROVE  Inv'
BY DEF Inv, Typed, Once, NotYet, Before, Locked, Place, HandlerPlace, PollerPlace, At

(* Where the tasks are when the process has been started.                  *)
LEMMA Started ==
    ASSUME NEW idle, idle = [c \in Tasks |-> [Rest EXCEPT !.at = Begin(c)]]
    PROVE  /\ idle \in [Tasks -> Frames]
           /\ \A c \in Tasks : /\ idle[c].at = Begin(c) /\ idle[c].row = FlatRow
                               /\ Place(c, idle[c], None)
           /\ idle["signal"].at = "rest"
<1>1. \A c \in Tasks : [Rest EXCEPT !.at = Begin(c)] \in Frames
  BY RestTyped DEF Frames, Begin, Phases, Parts
<1>2. \A c \in Tasks : idle[c].at = Begin(c) /\ idle[c].row = FlatRow
  BY RestTyped DEF Frames
<1>3. Begin("signal") = "rest" /\ \A c \in Tasks : Begin(c) \in {"rest", "market"}
  BY DEF Begin
<1>4. ASSUME NEW c \in Tasks PROVE Place(c, idle[c], None)
  BY <1>2, <1>3 DEF Place, HandlerPlace, PollerPlace, Handling, Parts, Alone, Waits
<1>. QED
  BY <1>1, <1>2, <1>3, <1>4, TaskFacts

LEMMA CrashInv ==
    ASSUME Inv, Crash
    PROVE  Inv'
<1>1. /\ task' \in [Tasks -> Frames] /\ task'["signal"].at = "rest"
      /\ \A c \in Tasks : Place(c, task'[c], lock')
  BY Started DEF Crash
<1>2. TypeOK'
  BY DEF Inv, Typed, TypeOK, Crash, store
<1>3. UNCHANGED <<entries, reserved>>
  BY DEF Crash, store
<1>. QED
  BY <1>1, <1>2, <1>3 DEF Inv, Typed, Locked, Once, NotYet, Before, Waits, At

-----------------------------------------------------------------------------
(* The invariant.                                                          *)

LEMMA InitInv == Init => Inv
<1>. SUFFICES ASSUME Init PROVE Inv
  OBVIOUS
<1>1. /\ task \in [Tasks -> Frames] /\ task["signal"].at = "rest"
      /\ \A c \in Tasks : Place(c, task[c], lock)
  BY Started DEF Init
<1>2. TypeOK
  BY RestTyped DEF Init, TypeOK, PosRows, Reasons
<1>3. entries \in [Signals -> Nat] /\ Once
  BY DEF Init, Once
<1>. QED
  BY <1>1, <1>2, <1>3 DEF Inv, Typed, Locked, NotYet, Before, Waits, At

LEMMA ReconcileMoves ==
    ASSUME Inv, NEW c \in Tasks, ReconcileStep(c)
    PROVE  TypeOK' /\ Moves(c) /\ UNCHANGED <<reserved, entries>>
<1>1. TypeOK' /\ Moves(c)
  BY ReadRowMoves, QueryMoves, QueryRaisesMoves, NoticeMoves, WriteRowMoves, SyncMoves,
     RefreshMoves, RefreshedMoves DEF ReconcileStep
<1>2. UNCHANGED <<reserved, entries>>
  BY DEF ReconcileStep, ReadRow, Query, QueryRaises, Notice, WriteRow, Sync, Refresh, Refreshed,
     store, history
<1>. QED
  BY <1>1, <1>2

LEMMA CloseMoves ==
    ASSUME Inv, NEW c \in Tasks, CloseStep(c)
    PROVE  TypeOK' /\ Moves(c) /\ UNCHANGED <<reserved, entries>>
<1>1. TypeOK' /\ Moves(c)
  BY CancelOrdersMoves, CloseOrderMoves, CloseRowMoves DEF CloseStep
<1>2. UNCHANGED <<reserved, entries>>
  BY DEF CloseStep, CancelOrders, CloseOrder, CloseRow, store
<1>. QED
  BY <1>1, <1>2

LEMMA HandlerMoves ==
    ASSUME Inv, SignalStep, ~Enter
    PROVE  TypeOK' /\ Moves("signal") /\ UNCHANGED <<reserved, entries>>
<1>1. TypeOK' /\ Moves("signal")
  BY CheckMoves, DecideMoves, ConfirmCloseMoves, ConfirmEntryMoves, ProtectMoves, OpenRowMoves
     DEF SignalStep
<1>2. UNCHANGED <<reserved, entries>>
  BY DEF SignalStep, Check, Decide, ConfirmClose, ConfirmEntry, Protect, OpenRow, store, history
<1>. QED
  BY <1>1, <1>2

LEMMA PollerMoves ==
    ASSUME Inv, NEW c \in Pollers, PollerStep(c)
    PROVE  TypeOK' /\ Moves(c) /\ UNCHANGED <<exchange, here, row, reserved, history>>
<1>1. TypeOK' /\ Moves(c)
  BY MarketMoves, StreamDownMoves, StreamUpMoves, OverdueMoves, BasisMoves, SuperviseMoves,
     BootstrapMoves DEF PollerStep
<1>2. UNCHANGED <<exchange, here, row, reserved, history>>
  BY DEF PollerStep, Market, StreamDown, StreamUp, Overdue, Basis, Supervise, Bootstrap, store
<1>. QED
  BY <1>1, <1>2

(* Every step but a receipt, an entry, a crash or one of the exchange is a *)
(* move of one task.                                                       *)
LEMMA StepMoves ==
    ASSUME Inv, NEW c \in Tasks, TaskStep(c)
    PROVE  TypeOK' /\ Moves(c)
BY StatusMoves, ReconcileMoves, CloseMoves, HandlerMoves, PollerMoves, EnterMoves
   DEF TaskStep, SignalStep

LEMMA NextInv == Inv /\ [Next]_vars => Inv'
<1>. SUFFICES ASSUME Inv, [Next]_vars PROVE Inv'
  OBVIOUS
<1>1. ASSUME NEW s \in Signals, Receive(s) PROVE Inv'
  BY <1>1, ReceiveInv
<1>2. ASSUME NEW c \in Consoles, Poll(c) PROVE Inv'
  <2>1. TypeOK' /\ Moves(c) /\ c \in Tasks
    BY <1>2, PollMoves DEF Tasks, Pollers
  <2>2. UNCHANGED <<reserved, entries>>
    BY <1>2 DEF Poll, store
  <2>. QED
    BY <2>1, <2>2, MoveInv
<1>3. ASSUME NEW c \in Tasks, TaskStep(c) PROVE Inv'
  <2>1. CASE StatusStep(c)
    BY <2>1, StatusMoves, MoveInv
  <2>2. CASE ReconcileStep(c)
    BY <2>2, ReconcileMoves, MoveInv
  <2>3. CASE CloseStep(c)
    BY <2>3, CloseMoves, MoveInv
  <2>4. CASE SignalStep
    BY <2>4, HandlerMoves, EnterInv, MoveInv, TaskFacts
  <2>5. CASE c \in Pollers /\ PollerStep(c)
    BY <2>5, PollerMoves, MoveInv DEF history
  <2>. QED
    BY <1>3, <2>1, <2>2, <2>3, <2>4, <2>5 DEF TaskStep
<1>4. CASE ExchangeStep \/ Age
  BY <1>4, OutsideFacts, SameInv
<1>5. CASE Crash
  BY <1>5, CrashInv
<1>6. CASE UNCHANGED vars
  BY <1>6, SameInv DEF Inv, Typed, TypeOK, vars, state, exchange, store, history
<1>. QED
  BY <1>1, <1>2, <1>3, <1>4, <1>5, <1>6 DEF Next, Step

LEMMA AlwaysInv == Spec => []Inv
BY InitInv, NextInv, PTL DEF Spec

(* Every value a task of the engine, the store and the exchange hold has   *)
(* its type: a reason of the safety status is always one the code names.   *)
THEOREM EngineTypeCorrect == Spec => []TypeOK
<1>1. Inv => TypeOK
  BY DEF Inv, Typed
<1>. QED
  BY <1>1, AlwaysInv, PTL

(* However often a signal is delivered, whatever request fails and however *)
(* often the process dies, at most one entry order is sent for it: the     *)
(* reservation is stored before the handler's first request.               *)
THEOREM SignalsEnterOnce == Spec => []OneEntryPerSignal
<1>1. Inv => OneEntryPerSignal
  BY DEF Inv, Once, OneEntryPerSignal
<1>. QED
  BY <1>1, AlwaysInv, PTL

-----------------------------------------------------------------------------
(* Safe mode.  While a signal is in hand the loop gets at most one step    *)
(* that writes the safety status before it waits for the lock: market data *)
(* or one reconciliation.  Until it has taken it, and unless the console   *)
(* or an overtaken check has changed the status, that is clear or the      *)
(* signal's own, which no check of the loop reads as its own.              *)

Calm ==
    InHand /\ ~crossed /\ task["monitor"].at \in {"market", "sync"} \cup Waits
        => safety \in {"none", "position_ambiguity"}

SafeStays == InHand /\ SafeMode => SafeMode' \/ crossed'

(* What the phases of the tasks are after the three kinds of going on.     *)
LEMMA GoneOn ==
    ASSUME Inv, NEW c \in Tasks
    PROVE  /\ \A p : GoOn(c, p) => /\ task'[c].at = p
                                   /\ \A d \in Tasks : d # c => task'[d] = task[d]
           /\ \A r, p : ClearIf(c, r, p) => /\ task'[c].at \in {p, "clear"}
                                            /\ \A d \in Tasks : d # c => task'[d] = task[d]
           /\ \A p : MarkIf(c, p) => /\ task'[c].at \in {p, "mark"}
                                     /\ \A d \in Tasks : d # c => task'[d] = task[d]
<1>1. task \in [Tasks -> Frames] /\ DOMAIN task = Tasks
  BY FrameFacts
<1>2. \A p : Fresh(c, p).at = p
  BY DEF Fresh, Rest
<1>3. \A p, n : FreshThen(c, p, n).at = p
  BY DEF FreshThen, Fresh, Rest
<1>4. \A p, n, r : [FreshThen(c, p, n) EXCEPT !.saw = r].at = p
  BY DEF FreshThen, Fresh, Rest
<1>5. \A p : GoOn(c, p) => /\ task'[c].at = p
                           /\ \A d \in Tasks : d # c => task'[d] = task[d]
  BY <1>1, <1>2 DEF GoOn
<1>6. ASSUME NEW r, NEW p, ClearIf(c, r, p)
      PROVE  /\ task'[c].at \in {p, "clear"}
             /\ \A d \in Tasks : d # c => task'[d] = task[d]
  <2>1. CASE task' = [task EXCEPT ![c] = [FreshThen(c, "clear", p) EXCEPT !.saw = r]]
    <3>1. [FreshThen(c, "clear", p) EXCEPT !.saw = r].at = "clear"
      BY <1>4
    <3>. QED
      BY <1>1, <2>1, <3>1
  <2>2. CASE GoOn(c, p)
    BY <1>5, <2>2
  <2>. QED
    BY <1>6, <2>1, <2>2 DEF ClearIf
<1>7. \A p : MarkIf(c, p) => /\ task'[c].at \in {p, "mark"}
                             /\ \A d \in Tasks : d # c => task'[d] = task[d]
  BY <1>1, <1>3, <1>5 DEF MarkIf
<1>. QED
  BY <1>5, <1>6, <1>7

LEMMA AfterMoves ==
    /\ \A c \in Tasks : After(c, "market") # "market"
    /\ \A c \in Tasks : After(c, "health") # "health"
<1>1. /\ Order["loop"] = [market |-> "health", health |-> "sync",
                          sync |-> "supervise", supervise |-> "market"]
      /\ Order["snapshot"] = [market |-> "sync", sync |-> "health"]
      /\ Order["refresh"] = [market |-> "health"]
      /\ Order["reconcile"] = [sync |-> "bootstrap"]
      /\ Order["supervise"] = [sync |-> "supervise"]
  BY DEF Order
<1>2. \A call \in Calls \cup {"loop"} : \A p \in DOMAIN Order[call] : Order[call][p] # p
  BY <1>1 DEF Calls
<1>3. ASSUME NEW c \in Tasks, NEW p \in {"market", "health"}
      PROVE  After(c, p) # p
  <2>1. c = "signal" \/ c = "monitor" \/ (c \in Consoles /\ Call[c] \in Calls)
    BY DirectionAssumption DEF Tasks, Pollers
  <2>2. CASE c = "signal"
    BY <2>2 DEF After
  <2>3. CASE c = "monitor"
    BY <1>2, <2>3 DEF After
  <2>4. CASE c \in Consoles /\ Call[c] \in Calls /\ c # "monitor" /\ c # "signal"
    BY <1>2, <2>4 DEF After
  <2>. QED
    BY <2>1, <2>2, <2>3, <2>4
<1>. QED
  BY <1>3

(* A poller that changes the safety status goes on.                        *)
LEMMA ChangeMoves ==
    ASSUME Inv, NEW c \in Pollers, TaskStep(c), safety' # safety
    PROVE  task'[c] # task[c]
<1>1. c \in Tasks /\ c # "signal"
  BY TaskFacts
<1>2. CASE StatusStep(c)
  <2>1. task[c].at \in Waits /\ GoOn(c, task[c].then)
    BY <1>2 DEF StatusStep, Clear, Mark, RaiseMismatch, At, Waits
  <2>2. task[c].then \in Nexts
    BY <1>1, FrameFacts
  <2>3. task'[c].at = task[c].then
    BY <1>1, <2>1, GoneOn
  <2>. QED
    BY <2>1, <2>2, <2>3 DEF Nexts, Parts, Waits
<1>3. CASE ReconcileStep(c) \/ CloseStep(c)
  BY <1>3 DEF ReconcileStep, ReadRow, Query, QueryRaises, Notice, WriteRow, Sync, Refresh,
     Refreshed, CloseStep, CancelOrders, CloseOrder, CloseRow, store
<1>4. CASE PollerStep(c)
  <2>1. \/ task[c].at \in {"market", "health"} /\ GoOn(c, After(c, task[c].at))
        \/ task[c].at = "basis" /\ GoOn(c, After(c, "health"))
    BY <1>4 DEF PollerStep, Market, StreamDown, StreamUp, Overdue, Basis, Supervise, Bootstrap,
       store, At
  <2>2. After(c, task[c].at) # task[c].at \/ task[c].at = "basis"
    BY <1>1, <2>1, AfterMoves
  <2>3. After(c, "health") # "basis"
    BY <1>1, AfterFacts DEF Parts
  <2>. QED
    BY <1>1, <2>1, <2>2, <2>3, GoneOn
<1>. QED
  BY <1>1, <1>2, <1>3, <1>4 DEF TaskStep

(* The status while a signal is in hand: the signal raises it, or nothing. *)
LEMMA SignalSafety ==
    ASSUME Inv, TaskStep("signal")
    PROVE  /\ InHand => \/ safety' \in {safety, "position_ambiguity"}
                        \/ safety' = "order_timeout" /\ ~InHand'
           /\ ~InHand /\ InHand' => safety' = "none"
<1>. USE TaskFacts
<1>1. /\ task \in [Tasks -> Frames] /\ task["signal"].then \in Nexts
      /\ task["signal"].at \in Waits => task["signal"].then \in {"rest", "refreshed", "check"}
  BY FrameFacts DEF Place, HandlerPlace
<1>2. CASE StatusStep("signal")
  <2>1. task["signal"].at \in Waits /\ GoOn("signal", task["signal"].then)
    BY <1>2 DEF StatusStep, Clear, Mark, RaiseMismatch, At, Waits
  <2>2. task'["signal"].at \in {"rest", "refreshed", "check"}
    BY <1>1, <2>1, GoneOn
  <2>. QED
    BY <2>1, <2>2 DEF InHand, Waits
<1>3. CASE ReconcileStep("signal")
  <2>1. safety' = safety
    BY <1>3 DEF ReconcileStep, ReadRow, Query, QueryRaises, Notice, WriteRow, Sync, Refresh,
       Refreshed, store
  <2>2. ~InHand'
    <3>1. Begin("signal") = "rest" /\ After("signal", "sync") = "rest"
      BY AfterFacts DEF Begin
    <3>2. /\ \A p, n : FreshThen("signal", p, n).at = p
          /\ \A n, r : [FreshThen("signal", "clear", n) EXCEPT !.saw = r].at = "clear"
      BY DEF FreshThen, Fresh, Rest
    <3>3. CASE ReadRow("signal")
      BY <1>1, <3>3 DEF ReadRow, InHand, Waits, Frames
    <3>4. CASE Query("signal")
      BY <1>1, <3>2, <3>4 DEF Query, InHand, Waits, Frames
    <3>5. CASE QueryRaises("signal")
      BY <3>1, <3>5, GoneOn DEF QueryRaises, End, InHand
    <3>6. CASE Notice("signal")
      <4>1. \/ task' = [task EXCEPT !["signal"].at = "write", !["signal"].saw =
                            IF safety = "reconciliation_mismatch" THEN safety ELSE "none"]
            \/ ClearIf("signal", "reconciliation_mismatch", task["signal"].then)
        BY <3>6 DEF Notice
      <4>2. task["signal"].then \in {"rest", "refreshed", "check"}
        BY <1>1, <3>6 DEF Notice, At, Waits
      <4>. QED
        BY <1>1, <4>1, <4>2, GoneOn DEF InHand, Waits, Frames
    <3>7. CASE WriteRow("signal")
      <4>1. \/ task' = [task EXCEPT !["signal"] = [FreshThen("signal", "clear", task["signal"].then)
                                                     EXCEPT !.saw = task["signal"].saw]]
            \/ GoOn("signal", task["signal"].then)
        BY <3>7 DEF WriteRow
      <4>2. task["signal"].then \in {"rest", "refreshed", "check"}
        BY <1>1, <3>7 DEF WriteRow, At, Waits
      <4>3. [FreshThen("signal", "clear", task["signal"].then)
                EXCEPT !.saw = task["signal"].saw].at = "clear"
        BY <3>2
      <4>4. task'["signal"].at \in {"clear", "rest", "refreshed", "check"}
        BY <1>1, <4>1, <4>2, <4>3, GoneOn
      <4>. QED
        BY <4>4 DEF InHand
    <3>8. CASE Sync("signal") \/ Refresh("signal")
      BY <1>1, <3>1, <3>2, <3>8, GoneOn DEF Sync, Refresh, InHand, Waits
    <3>9. CASE Refreshed("signal")
      BY <3>9, GoneOn DEF Refreshed, InHand, Waits
    <3>. QED
      BY <1>3, <3>3, <3>4, <3>5, <3>6, <3>7, <3>8, <3>9 DEF ReconcileStep
  <2>. QED
    BY <2>1, <2>2
<1>4. CASE CloseStep("signal")
  <2>1. safety' = safety /\ InHand
    BY <1>4 DEF CloseStep, CancelOrders, CloseOrder, CloseRow, store, At, InHand
  <2>. QED
    BY <2>1
<1>5. CASE Check
  <2>1. GoOn("signal", "rest") \/ (GoOn("signal", "decide") /\ safety' = "none")
    <3>1. End("signal") => GoOn("signal", "rest")
      BY DEF End, Begin
    <3>2. End("signal") \/ (GoOn("signal", "decide") /\ ~SafeMode /\ safety' = safety)
      BY <1>5 DEF Check
    <3>. QED
      BY <3>1, <3>2 DEF SafeMode
  <2>2. ~InHand
    BY <1>5 DEF Check, At, InHand
  <2>. QED
    BY <2>1, <2>2, GoneOn DEF InHand
<1>6. CASE Decide \/ Enter \/ Protect \/ ConfirmClose
  BY <1>6 DEF Decide, Enter, Protect, ConfirmClose, AfterProtections, store, At, InHand
<1>7. CASE ConfirmEntry \/ OpenRow
  <2>1. InHand
    BY <1>7 DEF ConfirmEntry, OpenRow, At, InHand
  <2>2. \/ safety' = safety
        \/ safety' = "order_timeout" /\ task' = Goto("signal", "sync")
    BY <1>7 DEF ConfirmEntry, OpenRow
  <2>3. task' = Goto("signal", "sync") => task'["signal"].at = "sync"
    BY <1>1 DEF Goto, Frames
  <2>. QED
    BY <2>1, <2>2, <2>3 DEF InHand
<1>. QED
  BY <1>2, <1>3, <1>4, <1>5, <1>6, <1>7 DEF TaskStep, SignalStep

(* What the monitor can do while a signal is in hand.                      *)
LEMMA MonitorSafety ==
    ASSUME Inv, TaskStep("monitor"), InHand
    PROVE  \/ /\ task["monitor"].at \in {"market", "sync"} \cup Waits
              /\ safety' = safety
           \/ /\ safety' # "none"
              /\ task'["monitor"].at \notin {"market", "sync"} \cup Waits
           \/ /\ safety' = "none" /\ task["monitor"].at = "clear"
<1>. USE TaskFacts
<1>1. /\ lock = "signal"
      /\ task \in [Tasks -> Frames] /\ task["monitor"].then \in Nexts
      /\ PollerPlace("monitor", task["monitor"], lock)
  BY FrameFacts DEF Place, HandlerPlace, InHand
<1>2. task["monitor"].at \in Parts \cup (Waits \ {"mark"})
  BY <1>1 DEF PollerPlace
<1>3. CASE StatusStep("monitor")
  <2>1. CASE Clear("monitor")
    BY <2>1 DEF Clear, Cleared, At
  <2>2. CASE Mark("monitor")
    BY <1>2, <2>2 DEF Mark, At, Parts
  <2>3. CASE RaiseMismatch("monitor")
    <3>1. /\ task["monitor"].at = "raise" /\ GoOn("monitor", task["monitor"].then)
          /\ safety' # "none"
      BY <2>3 DEF RaiseMismatch, At
    <3>2. task["monitor"].then \in {"supervise", "health"}
      BY <1>1, <3>1 DEF PollerPlace, Waits
    <3>. QED
      BY <3>1, <3>2, GoneOn DEF Waits
  <2>. QED
    BY <1>3, <2>1, <2>2, <2>3 DEF StatusStep
<1>4. CASE ReconcileStep("monitor")
  <2>1. safety' = safety
    BY <1>4 DEF ReconcileStep, ReadRow, Query, QueryRaises, Notice, WriteRow, Sync, Refresh,
       Refreshed, store
  <2>2. task["monitor"].at \in Waits \cup {"sync", "confirmClose", "confirmEntry", "refresh",
                                           "refreshed"}
    BY <1>4 DEF ReconcileStep, ReadRow, Query, QueryRaises, Notice, WriteRow, Sync, Refresh,
       Refreshed, At, Waits
  <2>. QED
    BY <1>2, <2>1, <2>2 DEF Parts
<1>5. CASE CloseStep("monitor")
  BY <1>2, <1>5 DEF CloseStep, CancelOrders, CloseOrder, CloseRow, At, Parts, Waits
<1>6. ASSUME NEW healthy \in BOOLEAN, Market("monitor", healthy)
      PROVE  \/ task["monitor"].at = "market" /\ safety' = safety
             \/ safety' # "none" /\ task'["monitor"].at = "health"
  BY <1>6, AfterFacts, GoneOn DEF Market, At
<1>7. ASSUME NEW healthy \in BOOLEAN, Basis("monitor", healthy) PROVE FALSE
  BY <1>2, <1>7 DEF Basis, At, Parts, Waits
<1>8. CASE StreamDown("monitor") \/ StreamUp("monitor") \/ Overdue("monitor")
           \/ Bootstrap("monitor")
  BY <1>1, <1>2, <1>8 DEF StreamDown, StreamUp, Overdue, Bootstrap, At, Parts, Waits
<1>9. ASSUME NEW exits \in BOOLEAN, Supervise("monitor", exits) PROVE FALSE
  BY <1>1, <1>9 DEF Supervise
<1>10. CASE PollerStep("monitor")
  BY <1>6, <1>7, <1>8, <1>9, <1>10 DEF PollerStep, Waits
<1>. QED
  BY <1>3, <1>4, <1>5, <1>10 DEF TaskStep

LEMMA CalmNext ==
    ASSUME Inv, Calm, [Next]_vars
    PROVE  Calm' /\ SafeStays
<1>. USE TaskFacts
<1>. DEFINE Done == Calm' /\ SafeStays
<1>1. CASE UNCHANGED vars
  BY <1>1 DEF vars, state, store, Calm, SafeStays, SafeMode, InHand
<1>. SUFFICES ASSUME Next PROVE Done
  BY <1>1
<1>2. crossed' = (InHand' /\ (crossed \/ Crossing))
  BY DEF Next
(* A step that leaves the handler, the loop and the status where they are. *)
<1>3. ASSUME UNCHANGED <<task["signal"], task["monitor"], safety>> PROVE Done
  BY <1>2, <1>3 DEF Calm, SafeStays, SafeMode, InHand
<1>4. ASSUME NEW s \in Signals, Receive(s) PROVE Done
  <2>1. task["signal"].at = "rest" /\ task'["signal"].at = "refresh"
    BY <1>4, FrameFacts DEF Receive, At, Rest
  <2>. QED
    BY <2>1 DEF Calm, SafeStays, InHand
<1>5. ASSUME NEW c \in Consoles, Poll(c) PROVE Done
  <2>1. c \in Tasks /\ c # "signal" /\ c # "monitor"
    BY DirectionAssumption DEF Tasks, Pollers
  <2>2. UNCHANGED <<task["signal"], task["monitor"], safety>>
    BY <1>5, <2>1, PollMoves DEF Moves, Poll, store
  <2>. QED
    BY <1>3, <2>2
<1>6. ASSUME NEW c \in Consoles, TaskStep(c) PROVE Done
  <2>1. c \in Pollers /\ c \in Tasks /\ c # "signal" /\ c # "monitor"
    BY DirectionAssumption DEF Tasks, Pollers
  <2>2. UNCHANGED <<task["signal"], task["monitor"]>>
    BY <1>6, <2>1, StepMoves DEF Moves
  <2>3. CASE safety' = safety
    BY <1>3, <2>2, <2>3
  <2>4. CASE safety' # safety
    <3>1. Crossing
      BY <1>6, <2>1, <2>4, ChangeMoves DEF Crossing
    <3>. QED
      BY <1>2, <2>2, <3>1 DEF Calm, SafeStays, InHand
  <2>. QED
    BY <2>3, <2>4
<1>7. CASE TaskStep("signal")
  <2>1. UNCHANGED <<task["monitor"]>>
    BY <1>7, StepMoves DEF Moves
  <2>. QED
    BY <1>2, <1>7, <2>1, SignalSafety DEF Calm, SafeStays, SafeMode
<1>8. CASE TaskStep("monitor")
  <2>1. UNCHANGED <<task["signal"]>>
    BY <1>8, StepMoves DEF Moves
  <2>2. InHand' <=> InHand
    BY <2>1 DEF InHand
  <2>. SUFFICES ASSUME InHand PROVE Done
    BY <2>2 DEF Calm, SafeStays
  <2>3. CASE task["monitor"].at \in {"market", "sync"} \cup Waits /\ safety' = safety
    BY <1>2, <2>2, <2>3 DEF Calm, SafeStays, SafeMode
  <2>4. CASE safety' # "none" /\ task'["monitor"].at \notin {"market", "sync"} \cup Waits
    BY <2>4 DEF Calm, SafeStays, SafeMode
  <2>5. CASE safety' = "none" /\ task["monitor"].at = "clear"
    <3>1. CASE safety = "none" \/ crossed
      BY <1>2, <2>2, <2>5, <3>1 DEF Calm, SafeStays, SafeMode
    <3>2. CASE safety # "none" /\ ~crossed
      <4>1. safety = "position_ambiguity"
        BY <2>5, <3>2 DEF Calm, Waits
      <4>2. task["monitor"].saw # safety
        BY <4>1, FrameFacts DEF Saws
      <4>3. Crossing
        BY <1>8, <2>5, <3>2, <4>2, ChangeMoves DEF Crossing, At
      <4>. QED
        BY <1>2, <2>2, <4>3 DEF Calm, SafeStays
    <3>. QED
      BY <3>1, <3>2
  <2>. QED
    BY <1>8, <2>3, <2>4, <2>5, MonitorSafety
<1>9. CASE ExchangeStep \/ Age
  BY <1>3, <1>9, OutsideFacts
<1>10. CASE Crash
  <2>1. task'["signal"].at = "rest" /\ safety' = safety
    BY <1>10, Started DEF Crash, store
  <2>. QED
    BY <2>1 DEF Calm, SafeStays, SafeMode, InHand
<1>. QED
  BY <1>4, <1>5, <1>6, <1>7, <1>8, <1>9, <1>10 DEF Next, Step, Tasks, Pollers

LEMMA CalmInit == Init => Calm
BY DEF Init, Calm

LEMMA AlwaysCalm == Spec => [](Inv /\ Calm)
BY InitInv, NextInv, CalmInit, CalmNext, PTL DEF Spec

LEMMA RefusalRaisesSafeMode ==
    ASSUME Inv, [Next]_vars, At("signal", "protect"), At("signal", "open")'
    PROVE  Protections \subseteq orders' \/ SafeMode'
<1>. USE TaskFacts
<1>1. task["signal"].at = "protect" /\ task'["signal"].at = "open"
  BY DEF At
<1>2. CASE Protect
  BY <1>2 DEF Protect, AfterProtections, SafeMode
<1>3. ASSUME NEW c \in Tasks, TaskStep(c), c # "signal" PROVE FALSE
  BY <1>1, <1>3, StepMoves DEF Moves
<1>4. CASE TaskStep("signal") /\ ~Protect
  BY <1>1, <1>4 DEF TaskStep, StatusStep, Clear, Mark, RaiseMismatch, ReconcileStep, ReadRow,
     Query, QueryRaises, Notice, WriteRow, Sync, Refresh, Refreshed, CloseStep, CancelOrders,
     CloseOrder, CloseRow, SignalStep, Check, Decide, ConfirmClose, Enter, ConfirmEntry,
     OpenRow, At
<1>5. ASSUME NEW c \in Consoles, Poll(c) PROVE FALSE
  <2>1. c \in Tasks /\ c # "signal"
    BY DirectionAssumption DEF Tasks, Pollers
  <2>. QED
    BY <1>1, <1>5, <2>1, PollMoves DEF Moves
<1>6. ASSUME NEW s \in Signals, Receive(s) PROVE FALSE
  BY <1>1, <1>6 DEF Receive, At
<1>7. CASE ExchangeStep \/ Age \/ UNCHANGED vars
  BY <1>1, <1>7, OutsideFacts DEF vars, state
<1>8. CASE Crash
  BY <1>1, <1>8, Started DEF Crash
<1>. QED
  BY <1>2, <1>3, <1>4, <1>5, <1>6, <1>7, <1>8 DEF Next, Step

(* A signal opens the row with both protective orders placed, or with safe *)
(* mode on: a refused order raises it, and no check of the loop, no        *)
(* reconciliation, crash or close clears one, whatever its reason, before  *)
(* the signal is done; only a console call can, or a check that had read   *)
(* the status before it was set.                                           *)
THEOREM SignalsOpenProtectedOrSafe == Spec => OpensProtectedOrSafe
<1>1. Inv /\ Calm /\ [Next]_vars =>
        [/\ At("signal", "protect") /\ At("signal", "open")' =>
               Protections \subseteq orders' \/ SafeMode'
         /\ InHand /\ SafeMode => SafeMode' \/ crossed']_vars
  BY CalmNext, RefusalRaisesSafeMode DEF SafeStays
<1>. QED
  BY <1>1, AlwaysCalm, PTL DEF Spec, OpensProtectedOrSafe

-----------------------------------------------------------------------------
(* Rows.  A row that a task has read, or that the store has, is of a       *)
(* signal that was reserved, and not of the one in hand until that one     *)
(* writes its own.                                                         *)

Unwritten ==
    /\ row.sig \in reserved \cup {None}
    /\ \A c \in Tasks : task[c].row.sig \in reserved \cup {None}
    /\ ToOpen(task["signal"]) =>
          /\ row.sig # task["signal"].sig
          /\ \A c \in Tasks : task[c].row.sig # task["signal"].sig

LEMMA UnwrittenKept ==
    ASSUME Inv, Unwritten, reserved' = reserved, NEW c \in Tasks,
           row'.sig \in {row.sig, None, task[c].row.sig},
           \A d \in Tasks : task'[d].row.sig \in {row.sig, None, task[d].row.sig},
           ToOpen(task'["signal"]) => /\ ToOpen(task["signal"])
                                      /\ task'["signal"].sig = task["signal"].sig
    PROVE  Unwritten'
<1>1. ToOpen(task["signal"]) => task["signal"].sig # None
  <2>1. ToOpen(task["signal"]) => task["signal"].sig \in reserved
    BY DEF ToOpen, Before, Entering, Waits, Inv, Typed, At
  <2>. QED
    BY <2>1, DirectionAssumption DEF Inv, Typed, TypeOK
<1>2. /\ row'.sig \in reserved \cup {None}
      /\ \A d \in Tasks : task'[d].row.sig \in reserved \cup {None}
  BY DEF Unwritten
<1>3. ASSUME ToOpen(task'["signal"])
      PROVE  /\ row'.sig # task'["signal"].sig
             /\ \A d \in Tasks : task'[d].row.sig # task'["signal"].sig
  BY <1>1, <1>3 DEF Unwritten
<1>. QED
  BY <1>2, <1>3 DEF Unwritten

LEMMA MoveUnwritten ==
    ASSUME Inv, Unwritten, NEW c \in Tasks, Moves(c), reserved' = reserved,
           row'.sig \in {row.sig, None, task[c].row.sig}
    PROVE  Unwritten'
<1>1. \A d \in Tasks : task'[d].row.sig \in {row.sig, None, task[d].row.sig}
  BY RestTyped DEF Moves
<1>2. ToOpen(task'["signal"]) => /\ ToOpen(task["signal"])
                                 /\ task'["signal"].sig = task["signal"].sig
  <2>1. CASE c = "signal"
    BY <2>1 DEF Moves, Onward, ToOpen, Before, Entering, Waits
  <2>2. CASE c # "signal"
    BY <2>2, TaskFacts DEF Moves
  <2>. QED
    BY <2>1, <2>2
<1>. QED
  BY <1>1, <1>2, UnwrittenKept

LEMMA RowStep ==
    ASSUME Inv, NEW c \in Tasks, TaskStep(c), ~OpenRow
    PROVE  row'.sig \in {row.sig, None, task[c].row.sig} /\ reserved' = reserved
<1>1. reserved' = reserved
  BY DEF TaskStep, StatusStep, Clear, Mark, RaiseMismatch, ReconcileStep, ReadRow,
     Query, QueryRaises, Notice, WriteRow, Sync, Refresh, Refreshed, CloseStep, CancelOrders,
     CloseOrder, CloseRow, SignalStep, Check, Decide, ConfirmClose, Enter, ConfirmEntry,
     Protect, PollerStep, Market, StreamDown, StreamUp, Overdue, Basis, Supervise, Bootstrap, store
<1>2. CASE WriteRow(c)
  <2>1. task[c].row \in PosRows
    BY FrameFacts
  <2>2. Reconciled(task[c].row, task[c].net, task[c].kept).sig \in {None, task[c].row.sig}
    BY <2>1, RestTyped DEF Reconciled, PosRows
  <2>. QED
    BY <1>1, <1>2, <2>2 DEF WriteRow, Persisted
<1>3. CASE CloseRow(c)
  BY <1>1, <1>3, RestTyped DEF CloseRow
<1>4. CASE ~WriteRow(c) /\ ~CloseRow(c)
  <2>1. row' = row
    BY <1>4 DEF TaskStep, StatusStep, Clear, Mark, RaiseMismatch, ReconcileStep, ReadRow,
       Query, QueryRaises, Notice, Sync, Refresh, Refreshed, CloseStep, CancelOrders,
       CloseOrder, SignalStep, Check, Decide, ConfirmClose, Enter, ConfirmEntry,
       Protect, PollerStep, Market, StreamDown, StreamUp, Overdue, Basis, Supervise, Bootstrap,
       store
  <2>. QED
    BY <1>1, <2>1
<1>. QED
  BY <1>2, <1>3, <1>4

LEMMA UnwrittenNext ==
    ASSUME Inv, Unwritten, [Next]_vars
    PROVE  Unwritten'
<1>. USE TaskFacts
<1>1. ASSUME NEW s \in Signals, Receive(s) PROVE Unwritten'
  <2>. DEFINE f == [Rest EXCEPT !.at = "refresh", !.sig = s]
  <2>1. f.sig = s /\ f.row.sig = None
    BY RestTyped DEF Rest
  <2>2. /\ s \notin reserved /\ s # None /\ reserved' = reserved \cup {s} /\ row' = row
        /\ task'["signal"] = f
        /\ \A d \in Tasks : d # "signal" => task'[d] = task[d]
    BY <1>1, FrameFacts, DirectionAssumption DEF Receive
  <2>. HIDE DEF f
  <2>. QED
    BY <2>1, <2>2 DEF Unwritten
<1>2. ASSUME NEW c \in Consoles, Poll(c) PROVE Unwritten'
  <2>1. c \in Tasks /\ Moves(c)
    BY <1>2, PollMoves DEF Tasks, Pollers
  <2>2. reserved' = reserved /\ row' = row
    BY <1>2 DEF Poll, store
  <2>. QED
    BY <2>1, <2>2, MoveUnwritten
<1>3. ASSUME NEW c \in Tasks, TaskStep(c), ~OpenRow PROVE Unwritten'
  BY <1>3, StepMoves, RowStep, MoveUnwritten
<1>4. CASE OpenRow
  <2>1. /\ task' = Goto("signal", "sync") /\ reserved' = reserved
        /\ row'.sig \in {row.sig, task["signal"].sig} /\ task["signal"].at = "open"
    BY <1>4 DEF OpenRow, At
  <2>2. /\ \A d \in Tasks : d # "signal" => task'[d] = task[d]
        /\ task'["signal"].at = "sync" /\ task'["signal"].row = task["signal"].row
    BY <2>1, FrameFacts DEF Goto, Frames
  <2>3. task["signal"].sig \in reserved /\ ~ToOpen(task'["signal"])
    BY <2>1, <2>2 DEF Inv, Typed, At, ToOpen, Before, Entering, Waits
  <2>. QED
    BY <2>1, <2>2, <2>3 DEF Unwritten
<1>5. CASE ExchangeStep \/ Age \/ UNCHANGED vars
  <2>1. UNCHANGED <<row, reserved, task>>
    BY <1>5, OutsideFacts DEF vars, state, store
  <2>. QED
    BY <2>1 DEF Unwritten, ToOpen, Before
<1>6. CASE Crash
  <2>1. /\ UNCHANGED <<row, reserved>> /\ task'["signal"].at = "rest"
        /\ \A c \in Tasks : task'[c].row = FlatRow
    BY <1>6, Started DEF Crash, store
  <2>. QED
    BY <2>1, RestTyped DEF Unwritten, ToOpen, Before, Entering, Waits
<1>. QED
  BY <1>1, <1>2, <1>3, <1>4, <1>5, <1>6 DEF Next, Step

-----------------------------------------------------------------------------
(* Agreement.  While nothing has gone wrong and no row was written over a  *)
(* newer one, a position the store does not know is one the signal in hand *)
(* is just entering, and a reconciliation that was told the position is    *)
(* gone is right about the row it read.                                    *)

Clean == faults = 0 /\ ~raced
Told == {"notice", "write"}

Agreed ==
    /\ late = {} /\ net \in {-1, 0, 1}
    /\ task["signal"].at \in Entering => net \in {0, Dir} /\ task["signal"].ok = TRUE
    /\ task["signal"].at \notin Entering /\ net # 0 => row.dir = net
    /\ task["signal"].at = "enter" => net = 0 /\ row.dir = 0
    /\ \A c \in Tasks : task[c].at = "closeRow" => net = 0
    /\ \A c \in Tasks :
          task[c].at \in Told /\ task[c].net = 0 /\ row.dir # 0 /\ task[c].row.sig = row.sig
             => net = 0

CleanInv == faults \in Nat /\ (Clean => Agreed)

(* A step of one task that leaves the position and whose it is.            *)
LEMMA AgreedQuiet ==
    ASSUME Agreed, NEW c \in Tasks, \A d \in Tasks : d # c => task'[d] = task[d],
           UNCHANGED <<net, late>>, row'.dir = row.dir,
           row'.dir = 0 \/ row'.sig = row.sig,
           c = "signal" =>
              /\ task[c].at \in Entering => task'[c].at \in Entering \/ net = 0
              /\ task'[c].at \in Entering => /\ task[c].at \in Entering
                                             /\ task'[c].sig = task[c].sig
                                             /\ task'[c].ok = task[c].ok
              /\ task'[c].at = "enter" => net = 0 /\ row.dir = 0,
           task'[c].at = "closeRow" => net = 0,
           task'[c].at \in Told =>
              \/ task'[c].net = net
              \/ /\ task[c].at \in Told /\ task'[c].net = task[c].net
                 /\ task'[c].row.sig = task[c].row.sig
    PROVE  Agreed'
<1>. USE TaskFacts
<1>1. CASE c = "signal"
  BY <1>1 DEF Agreed, Dir
<1>2. CASE c # "signal"
  BY <1>2 DEF Agreed, Dir
<1>. QED
  BY <1>1, <1>2

(* A step after which there is no position.                                *)
LEMMA AgreedFlat ==
    ASSUME Agreed, late' = {}, net' = 0,
           task'["signal"].at \in Entering =>
              task["signal"].at \in Entering /\ task'["signal"].ok = task["signal"].ok,
           task'["signal"].at = "enter" => row'.dir = 0
    PROVE  Agreed'
BY DEF Agreed

LEMMA HistoryGrows ==
    ASSUME [Next]_vars
    PROVE  (faults' = faults \/ Fault) /\ (raced => raced')
<1>1. faults' = faults \/ Fault
  <2>1. ASSUME NEW c \in Tasks, StatusStep(c) \/ CloseStep(c) PROVE faults' = faults \/ Fault
    BY <2>1 DEF StatusStep, Clear, Mark, RaiseMismatch, CloseStep, CancelOrders, CloseOrder,
       CloseRow, NoFault, history
  <2>2. ASSUME NEW c \in Tasks, ReconcileStep(c) PROVE faults' = faults \/ Fault
    BY <2>2 DEF ReconcileStep, ReadRow, Query, QueryRaises, Notice, WriteRow, Sync, Refresh,
       Refreshed, history
  <2>3. CASE SignalStep
    BY <2>3 DEF SignalStep, Check, Decide, ConfirmClose, Enter, ConfirmEntry, Protect, OpenRow,
       NoFault, history
  <2>4. ASSUME NEW c \in Pollers, PollerStep(c) PROVE faults' = faults \/ Fault
    BY <2>4 DEF PollerStep, Market, StreamDown, StreamUp, Overdue, Basis, Supervise, Bootstrap,
       history
  <2>5. CASE (\E s \in Signals : Receive(s)) \/ \E c \in Consoles : Poll(c)
    BY <2>5 DEF Receive, Poll, history
  <2>6. CASE ExchangeStep \/ Age \/ Crash \/ UNCHANGED vars
    BY <2>6 DEF ExchangeStep, Trigger, Land, Forget, Deliver, Lose, Age, Crash, vars, state,
       history
  <2>. QED
    BY <2>1, <2>2, <2>3, <2>4, <2>5, <2>6 DEF Next, Step, TaskStep
<1>2. raced => raced'
  <2>1. ASSUME NEW c \in Tasks, StatusStep(c) \/ CloseStep(c) PROVE raced => raced'
    BY <2>1 DEF StatusStep, Clear, Mark, RaiseMismatch, CloseStep, CancelOrders, CloseOrder,
       CloseRow, history
  <2>2. ASSUME NEW c \in Tasks, ReconcileStep(c) PROVE raced => raced'
    BY <2>2 DEF ReconcileStep, ReadRow, Query, QueryRaises, Notice, WriteRow, Sync, Refresh,
       Refreshed, history
  <2>3. CASE SignalStep
    BY <2>3 DEF SignalStep, Check, Decide, ConfirmClose, Enter, ConfirmEntry, Protect, OpenRow,
       history
  <2>4. ASSUME NEW c \in Pollers, PollerStep(c) PROVE raced => raced'
    BY <2>4 DEF PollerStep, Market, StreamDown, StreamUp, Overdue, Basis, Supervise, Bootstrap,
       history
  <2>5. CASE (\E s \in Signals : Receive(s)) \/ \E c \in Consoles : Poll(c)
    BY <2>5 DEF Receive, Poll, history
  <2>6. CASE ExchangeStep \/ Age \/ Crash \/ UNCHANGED vars
    BY <2>6 DEF ExchangeStep, Trigger, Land, Forget, Deliver, Lose, Age, Crash, vars, state,
       history
  <2>. QED
    BY <2>1, <2>2, <2>3, <2>4, <2>5, <2>6 DEF Next, Step, TaskStep
<1>. QED
  BY <1>1, <1>2

LEMMA CleanBefore ==
    ASSUME CleanInv, [Next]_vars, Clean'
    PROVE  Clean /\ Agreed /\ ~Fault
<1>1. Fault => faults' = faults + 1
  BY DEF Fault
<1>2. faults \in Nat /\ faults' = 0 /\ ~raced'
  BY DEF CleanInv, Clean
<1>3. ~Fault
  BY <1>1, <1>2
<1>. QED
  BY <1>2, <1>3, HistoryGrows DEF CleanInv, Clean

(* A reconciliation's or a check's step that leaves the position and the   *)
(* row, and is not the answer of the exchange.                             *)
LEMMA AgreedPassing ==
    ASSUME Inv, Agreed, NEW c \in Tasks, ~InHand \/ c # "signal", UNCHANGED <<net, late, row>>,
           \A d \in Tasks : d # c => task'[d] = task[d],
           task'[c].at \notin {"closeRow", "enter"} \cup Told \cup Entering
    PROVE  Agreed'
BY AgreedQuiet DEF InHand, Entering

LEMMA AgreedStatus ==
    ASSUME Inv, Agreed, NEW c \in Tasks, StatusStep(c)
    PROVE  Agreed'
<1>1. /\ task[c].at \in Waits /\ GoOn(c, task[c].then) /\ UNCHANGED <<net, late, row>>
  BY DEF StatusStep, Clear, Mark, RaiseMismatch, At, Waits, exchange
<1>2. task'[c].at \in Nexts /\ \A d \in Tasks : d # c => task'[d] = task[d]
  BY <1>1, GoneOn, FrameFacts
<1>3. ~InHand \/ c # "signal"
  BY <1>1 DEF InHand, Waits
<1>. QED
  BY <1>1, <1>2, <1>3, AgreedPassing DEF Nexts, Parts, Told, Entering

LEMMA AgreedReconcile ==
    ASSUME Inv, Agreed, ~Fault, ~raced', NEW c \in Tasks, ReconcileStep(c)
    PROVE  Agreed'
<1>1. /\ task \in [Tasks -> Frames] /\ task[c] \in Frames /\ row \in PosRows
      /\ task[c].then \in Nexts /\ FlatRow.dir = 0
  BY FrameFacts, RestTyped DEF Inv, Typed, TypeOK, PosRows
<1>2. ~QueryRaises(c)
  BY DEF QueryRaises
<1>3. ~InHand \/ c # "signal"
  BY <1>2 DEF ReconcileStep, ReadRow, Query, Notice, WriteRow, Sync, Refresh, Refreshed, At, InHand
<1>4. /\ UNCHANGED <<net, late>>
      /\ ~WriteRow(c) => row' = row
  BY <1>2 DEF ReconcileStep, ReadRow, Query, Notice, WriteRow, Sync, Refresh, Refreshed,
     exchange, store
<1>5. /\ \A p, n : FreshThen(c, p, n).at = p
      /\ \A p, n, r : [FreshThen(c, p, n) EXCEPT !.saw = r].at = p
  BY DEF FreshThen, Fresh, Rest
<1>6. CASE ReadRow(c)
  <2>1. task'[c].at = "query" /\ \A d \in Tasks : d # c => task'[d] = task[d]
    BY <1>1, <1>6 DEF ReadRow, Frames
  <2>. QED
    BY <1>3, <1>4, <1>6, <2>1, AgreedPassing DEF Told, Entering, ReadRow, store
<1>7. CASE Query(c)
  <2>1. /\ \/ task'[c].at = "raise"
           \/ task'[c].at = "notice" /\ task'[c].net = net
        /\ \A d \in Tasks : d # c => task'[d] = task[d]
        /\ row' = row
    BY <1>1, <1>5, <1>7 DEF Query, Frames, store
  <2>. QED
    BY <1>3, <1>4, <2>1, AgreedQuiet DEF Told, Entering, InHand
<1>8. CASE Notice(c)
  <2>1. row' = row /\ task[c].at = "notice"
    BY <1>8 DEF Notice, store, At
  <2>2. CASE task[c].row.dir # 0
    <3>1. /\ task'[c].at = "write" /\ task'[c].net = task[c].net /\ task'[c].row = task[c].row
          /\ \A d \in Tasks : d # c => task'[d] = task[d]
      BY <1>1, <1>8, <2>2 DEF Notice, Frames
    <3>. QED
      BY <1>3, <1>4, <2>1, <3>1, AgreedQuiet DEF Told, Entering, InHand
  <2>3. CASE task[c].row.dir = 0
    <3>1. ClearIf(c, "reconciliation_mismatch", task[c].then)
      BY <1>8, <2>3 DEF Notice
    <3>2. /\ task'[c].at \in Nexts \cup {"clear"}
          /\ \A d \in Tasks : d # c => task'[d] = task[d]
      BY <1>1, <3>1, GoneOn
    <3>. QED
      BY <1>3, <1>4, <2>1, <3>2, AgreedPassing DEF Nexts, Parts, Told, Entering
  <2>. QED
    BY <2>2, <2>3
<1>9. CASE WriteRow(c)
  <2>1. /\ task[c].at = "write" /\ task[c].row \in PosRows /\ task[c].net \in Int
        /\ row' = Reconciled(task[c].row, task[c].net, task[c].kept)
        /\ row = task[c].row
    BY <1>9, FrameFacts DEF WriteRow, Persisted, At
  <2>2. /\ task'[c].at \in Nexts \cup {"clear"}
        /\ \A d \in Tasks : d # c => task'[d] = task[d]
    <3>1. \/ GoOn(c, task[c].then)
          \/ task' = [task EXCEPT ![c] = [FreshThen(c, "clear", task[c].then)
                                             EXCEPT !.saw = task[c].saw]]
      BY <1>9 DEF WriteRow
    <3>2. [FreshThen(c, "clear", task[c].then) EXCEPT !.saw = task[c].saw].at = "clear"
      BY <1>5
    <3>. QED
      BY <1>1, <3>1, <3>2, GoneOn
  <2>3. CASE task[c].net = 0
    <3>1. row' = FlatRow
      BY <2>1, <2>3 DEF Reconciled
    <3>2. CASE row.dir # 0
      <4>1. net = 0
        BY <2>1, <2>3, <3>2 DEF Agreed, Told
      <4>. QED
        BY <1>1, <1>3, <1>4, <2>2, <3>1, <4>1, AgreedFlat, TaskFacts
           DEF Agreed, Nexts, Parts, Entering, InHand
    <3>3. CASE row.dir = 0
      BY <1>1, <1>3, <1>4, <2>2, <3>1, <3>3, AgreedQuiet
         DEF Nexts, Parts, Told, Entering, InHand
    <3>. QED
      BY <3>2, <3>3
  <2>4. CASE task[c].net # 0
    <3>1. row' = [row EXCEPT !.held = task[c].kept]
      BY <2>1, <2>4 DEF Reconciled
    <3>2. row'.dir = row.dir /\ row'.sig = row.sig
      BY <1>1, <3>1 DEF PosRows
    <3>. QED
      BY <1>3, <1>4, <2>2, <3>2, AgreedQuiet DEF Nexts, Parts, Told, Entering, InHand
  <2>. QED
    BY <2>3, <2>4
<1>10. CASE Sync(c)
  <2>1. /\ task'[c].at \in Parts \cup {"read"}
        /\ \A d \in Tasks : d # c => task'[d] = task[d]
        /\ row' = row
    <3>1. \/ task' = [task EXCEPT ![c] = FreshThen(c, "read", After(c, "sync"))]
          \/ GoOn(c, After(c, "sync"))
      BY <1>10 DEF Sync
    <3>2. row' = row /\ After(c, "sync") \in Parts
      BY <1>10, AfterFacts DEF Sync, store
    <3>. QED
      BY <1>1, <1>5, <3>1, <3>2, GoneOn
  <2>. QED
    BY <1>3, <1>4, <2>1, AgreedPassing DEF Parts, Told, Entering
<1>11. CASE Refresh(c)
  <2>1. /\ task'[c].at \in {"read", "clear", "check", "basis"}
        /\ \A d \in Tasks : d # c => task'[d] = task[d]
        /\ row' = row
    <3>1. \/ task' = [task EXCEPT ![c] = FreshThen(c, "read", "refreshed")]
          \/ ClearIf(c, "reconciliation_stale", "check")
          \/ ClearIf(c, "reconciliation_stale", "basis")
      BY <1>11 DEF Refresh
    <3>2. row' = row
      BY <1>11 DEF Refresh, store
    <3>. QED
      BY <1>1, <1>5, <3>1, <3>2, GoneOn
  <2>. QED
    BY <1>3, <1>4, <2>1, AgreedPassing DEF Told, Entering
<1>12. CASE Refreshed(c)
  <2>1. /\ task'[c].at \in {"mark", "check", "basis", "overdue"}
        /\ \A d \in Tasks : d # c => task'[d] = task[d]
        /\ row' = row
    <3>1. PICK n \in {"check", "basis", "overdue"} : MarkIf(c, n) \/ GoOn(c, n)
      BY <1>12 DEF Refreshed
    <3>2. row' = row
      BY <1>12 DEF Refreshed, store
    <3>. QED
      BY <3>1, <3>2, GoneOn
  <2>. QED
    BY <1>3, <1>4, <2>1, AgreedPassing DEF Told, Entering
<1>. QED
  BY <1>2, <1>6, <1>7, <1>8, <1>9, <1>10, <1>11, <1>12 DEF ReconcileStep

(* Closing, by the handler or by a poller.                                 *)
LEMMA AgreedClose ==
    ASSUME Inv, Agreed, ~Fault, NEW c \in Tasks, CloseStep(c)
    PROVE  Agreed'
<1>1. task \in [Tasks -> Frames] /\ task[c] \in Frames /\ FlatRow.dir = 0
  BY FrameFacts, RestTyped
<1>2. CASE CancelOrders(c)
  <2>1. /\ UNCHANGED <<net, late, row>>
        /\ task[c].at = "cancel" /\ task'[c].at = "close"
        /\ \A d \in Tasks : d # c => task'[d] = task[d]
    BY <1>1, <1>2 DEF CancelOrders, At, Goto, Frames, store
  <2>. QED
    BY <2>1, AgreedQuiet DEF Entering, Told
<1>3. CASE CloseOrder(c)
  <2>1. /\ net' = net - Sign(net) /\ UNCHANGED <<late, row>>
        /\ task[c].at = "close" /\ task'[c].at \in {"confirmClose", "closeRow"}
        /\ \A d \in Tasks : d # c => task'[d] = task[d]
    BY <1>1, <1>3 DEF CloseOrder, At, Goto, Frames, store
  <2>2. net' = 0 /\ late' = {}
    BY <2>1 DEF Agreed, Sign
  <2>3. /\ task'["signal"].at \in Entering => task'["signal"] = task["signal"]
        /\ task'["signal"].at = "enter" => task'["signal"] = task["signal"]
    BY <2>1, TaskFacts DEF Entering
  <2>4. task["signal"].at = "enter" => row'.dir = 0
    BY <2>1 DEF Agreed
  <2>. QED
    BY <2>2, <2>3, <2>4, AgreedFlat
<1>4. CASE CloseRow(c)
  <2>1. /\ UNCHANGED <<net, late>> /\ row' = FlatRow /\ task[c].at = "closeRow"
        /\ GoOn(c, IF c = "signal" THEN "enter" ELSE After(c, "supervise"))
    BY <1>4 DEF CloseRow, At, exchange
  <2>2. net' = 0 /\ late' = {} /\ row'.dir = 0
    BY <1>1, <2>1 DEF Agreed
  <2>3. task'["signal"].at \in Entering => task'["signal"] = task["signal"]
    BY <2>1, GoneOn, TaskFacts DEF Entering
  <2>. QED
    BY <2>2, <2>3, AgreedFlat
<1>. QED
  BY <1>2, <1>3, <1>4 DEF CloseStep

(* The handler.                                                            *)
LEMMA AgreedSignal ==
    ASSUME Inv, Unwritten, Agreed, ~Fault, SignalStep
    PROVE  Agreed'
<1>. USE TaskFacts
<1>1. /\ task \in [Tasks -> Frames] /\ task["signal"] \in Frames /\ row \in PosRows
      /\ \A d \in Tasks : d # "signal" => task'[d] = task[d]
  <2>1. Moves("signal")
    BY CheckMoves, DecideMoves, ConfirmCloseMoves, EnterMoves, ConfirmEntryMoves, ProtectMoves,
       OpenRowMoves DEF SignalStep
  <2>. QED
    BY <2>1, FrameFacts DEF Moves, Inv, Typed, TypeOK, PosRows
<1>2. CASE Check
  <2>1. UNCHANGED <<net, late, row>> /\ ~InHand
    BY <1>2 DEF Check, exchange, At, InHand
  <2>2. task'["signal"].at \in {"rest", "decide"}
    <3>1. GoOn("signal", "rest") \/ GoOn("signal", "decide")
      BY <1>2 DEF Check, End, Begin
    <3>. QED
      BY <3>1, GoneOn
  <2>. QED
    BY <1>1, <2>1, <2>2, AgreedPassing DEF Told, Entering
<1>3. CASE Decide
  <2>1. /\ UNCHANGED <<net, late, row>>
        /\ task["signal"].at = "decide"
        /\ task'["signal"].at \in {"cancel", "enter", "sync"}
        /\ task'["signal"].at = "enter" => ~Open
    BY <1>1, <1>3 DEF Decide, Accepted, At, Goto, Frames, exchange, store
  <2>2. ~Open => row.dir = 0 /\ net = 0
    BY <2>1 DEF Open, Agreed, Entering
  <2>. QED
    BY <1>1, <2>1, <2>2, AgreedQuiet DEF Entering, Told
<1>4. CASE ConfirmClose
  <2>1. UNCHANGED <<net, late, row>> /\ task["signal"].at = "confirmClose"
    BY <1>4 DEF ConfirmClose, At, exchange
  <2>2. \/ task'["signal"].at = "closeRow" /\ net = 0
        \/ task'["signal"].at = "rest"
    <3>1. \/ task' = Goto("signal", "closeRow") /\ net = 0
          \/ GoOn("signal", "rest")
      BY <1>4 DEF ConfirmClose, End, Begin
    <3>2. task' = Goto("signal", "closeRow") => task'["signal"].at = "closeRow"
      BY <1>1 DEF Goto, Frames
    <3>. QED
      BY <3>1, <3>2, GoneOn
  <2>. QED
    BY <1>1, <2>1, <2>2, AgreedQuiet DEF Entering, Told
<1>5. CASE Enter
  <2>1. /\ net' = net + Dir /\ UNCHANGED <<late, row>>
        /\ task["signal"].at = "enter"
        /\ task' = [task EXCEPT !["signal"].at = "confirmEntry", !["signal"].ok = TRUE]
    BY <1>5 DEF Enter, At, store
  <2>2. /\ task'["signal"].at = "confirmEntry" /\ task'["signal"].ok = TRUE
        /\ task'["signal"].sig = task["signal"].sig
    BY <1>1, <2>1 DEF Frames
  <2>3. Dir \in {1, -1} /\ Dir' = Dir
    <3>1. task["signal"].sig \in Signals
      BY <2>1 DEF Inv, Typed, TypeOK, At
    <3>. QED
      BY <2>2, <3>1, DirectionAssumption DEF Dir
  <2>4. net' = Dir /\ late' = {} /\ row'.dir = 0
    BY <2>1, <2>3 DEF Agreed
  <2>5. \A d \in Tasks : task'[d].at # "closeRow"
    <3>1. ASSUME NEW d \in Tasks, d # "signal" PROVE task[d].at # "closeRow"
      <4>1. lock = "signal"
        BY <2>1, FrameFacts DEF Place, HandlerPlace
      <4>. QED
        BY <3>1, <4>1, FrameFacts DEF Place, PollerPlace, Alone
    <3>. QED
      BY <1>1, <2>2, <3>1
  <2>. QED
    BY <2>2, <2>3, <2>4, <2>5 DEF Agreed, Entering
<1>6. CASE ConfirmEntry \/ Protect
  <2>1. PICK phase \in {"protect", "open", "sync"} :
           /\ task' = Goto("signal", phase)
           /\ phase = "sync" => net = 0
    BY <1>6 DEF ConfirmEntry, Protect
  <2>2. UNCHANGED <<net, late, row>> /\ task["signal"].at \in Entering
    BY <1>6 DEF ConfirmEntry, Protect, At, exchange, store, Entering
  <2>3. /\ task'["signal"].at = phase
        /\ task'["signal"].sig = task["signal"].sig /\ task'["signal"].ok = task["signal"].ok
    BY <1>1, <2>1 DEF Goto, Frames
  <2>. QED
    BY <1>1, <2>1, <2>2, <2>3, AgreedQuiet DEF Entering, Told
<1>7. CASE OpenRow
  <2>1. /\ task["signal"].at = "open" /\ UNCHANGED <<net, late>>
        /\ task'["signal"].at = "sync"
        /\ task["signal"].ok = TRUE
    BY <1>1, <1>7 DEF OpenRow, At, Goto, Frames, exchange, Agreed, Entering
  <2>2. row'.dir = Dir /\ row'.sig = task["signal"].sig
    BY <1>7, <2>1 DEF OpenRow
  <2>3. /\ net \in {0, Dir} /\ \A c \in Tasks : task[c].row.sig # task["signal"].sig
    BY <2>1 DEF Agreed, Entering, Unwritten, ToOpen
  <2>4. \A d \in Tasks : task'[d].at = "closeRow" => net = 0
    BY <1>1, <2>1 DEF Agreed
  <2>5. \A d \in Tasks : task'[d].at \in Told => task'[d].row.sig # row'.sig
    BY <1>1, <2>1, <2>2, <2>3 DEF Told
  <2>. QED
    BY <2>1, <2>2, <2>3, <2>4, <2>5 DEF Agreed, Entering
<1>. QED
  BY <1>2, <1>3, <1>4, <1>5, <1>6, <1>7 DEF SignalStep

(* What a poller does besides reconciling and closing.                     *)
LEMMA AgreedPoller ==
    ASSUME Inv, Agreed, NEW c \in Pollers, PollerStep(c)
    PROVE  Agreed'
<1>1. c \in Tasks /\ c # "signal" /\ task \in [Tasks -> Frames]
  BY TaskFacts, FrameFacts
<1>2. /\ \A d \in Tasks : d # c => task'[d] = task[d]
      /\ UNCHANGED <<net, late, row>>
  BY <1>1, PollerMoves DEF Moves, exchange
<1>3. \A part : After(c, part) \in Parts
  BY <1>1, AfterFacts
<1>4. task'[c].at \in Parts \cup {"clear", "mark", "refresh", "cancel", "read"}
  <2>1. \/ \E part, r : GoOn(c, After(c, part)) \/ ClearIf(c, r, After(c, part))
                          \/ MarkIf(c, After(c, part))
        \/ task' = Goto(c, "refresh")
        \/ task' = [task EXCEPT ![c].at = "cancel", ![c].row = row]
        \/ \E n : task' = [task EXCEPT ![c] = FreshThen(c, "read", n)]
    BY DEF PollerStep, Market, StreamDown, StreamUp, Overdue, Basis, Supervise, Bootstrap
  <2>2. \A n : FreshThen(c, "read", n).at = "read"
    BY DEF FreshThen, Fresh, Rest
  <2>3. task' = Goto(c, "refresh") => task'[c].at = "refresh"
    BY <1>1 DEF Goto, Frames
  <2>4. task' = [task EXCEPT ![c].at = "cancel", ![c].row = row] => task'[c].at = "cancel"
    BY <1>1 DEF Frames
  <2>. QED
    BY <1>1, <1>3, <2>1, <2>2, <2>3, <2>4, GoneOn
<1>. QED
  BY <1>1, <1>2, <1>4, AgreedPassing DEF Parts, Told, Entering

LEMMA AgreedNext ==
    ASSUME Inv, Unwritten, CleanInv, [Next]_vars
    PROVE  CleanInv'
<1>1. faults' \in Nat
  <2>1. faults' = faults \/ faults' = faults + 1
    BY HistoryGrows DEF Fault
  <2>. QED
    BY <2>1 DEF CleanInv
<1>. SUFFICES ASSUME Clean' PROVE Agreed'
  BY <1>1 DEF CleanInv
<1>2. Agreed /\ ~Fault /\ ~raced'
  BY CleanBefore DEF Clean
<1>3. task \in [Tasks -> Frames]
  BY TaskFacts, FrameFacts
<1>4. ASSUME NEW s \in Signals, Receive(s) PROVE Agreed'
  <2>1. [Rest EXCEPT !.at = "refresh", !.sig = s].at = "refresh"
    BY DEF Rest
  <2>2. /\ UNCHANGED <<net, late, row>> /\ task["signal"].at = "rest"
        /\ task'["signal"].at = "refresh"
        /\ \A d \in Tasks : d # "signal" => task'[d] = task[d]
    BY <1>3, <1>4, <2>1, TaskFacts DEF Receive, At, exchange
  <2>. QED
    BY <1>2, <2>2, TaskFacts, AgreedPassing DEF InHand, Told, Entering
<1>5. ASSUME NEW c \in Consoles, Poll(c) PROVE Agreed'
  <2>1. c \in Tasks /\ c # "signal"
    BY DirectionAssumption DEF Tasks, Pollers
  <2>2. PICK p \in {"market", "sync"} : task' = Goto(c, p)
    BY <1>5 DEF Poll
  <2>3. /\ UNCHANGED <<net, late, row>> /\ task'[c].at = p
        /\ \A d \in Tasks : d # c => task'[d] = task[d]
    BY <1>3, <1>5, <2>1, <2>2 DEF Poll, Goto, Frames, exchange, store
  <2>. QED
    BY <1>2, <2>1, <2>3, AgreedPassing DEF Told, Entering
<1>6. ASSUME NEW c \in Tasks, TaskStep(c) PROVE Agreed'
  BY <1>2, <1>6, AgreedStatus, AgreedReconcile, AgreedClose, AgreedSignal, AgreedPoller
     DEF TaskStep
<1>7. CASE ExchangeStep \/ Age \/ UNCHANGED vars
  <2>1. late = {}
    BY <1>2 DEF Agreed
  <2>2. UNCHANGED <<row, task, late>> /\ net' \in {net, net - Sign(net)}
    BY <1>7, <2>1 DEF ExchangeStep, Trigger, Deliver, Lose, Age, vars, state, exchange, store
  <2>3. CASE net' = net
    BY <1>2, <2>2, <2>3 DEF Agreed, Dir
  <2>4. CASE net' = net - Sign(net)
    <3>1. net' = 0
      BY <1>2, <2>4 DEF Agreed, Sign
    <3>. QED
      BY <1>2, <2>2, <3>1, AgreedFlat DEF Agreed
  <2>. QED
    BY <2>2, <2>3, <2>4
<1>8. CASE Crash
  BY <1>2, <1>8 DEF Crash
<1>. QED
  BY <1>4, <1>5, <1>6, <1>7, <1>8 DEF Next, Step

LEMMA CleanInit == Init => Unwritten /\ CleanInv
<1>. SUFFICES ASSUME Init PROVE Unwritten /\ CleanInv
  OBVIOUS
<1>1. /\ task["signal"].at = "rest"
      /\ \A c \in Tasks : task[c].row = FlatRow /\ task[c].at = Begin(c)
  BY Started DEF Init
<1>2. Unwritten
  BY <1>1, RestTyped DEF Init, Unwritten, ToOpen, Before, Entering, Waits
<1>3. CleanInv
  BY <1>1 DEF Init, CleanInv, Clean, Agreed, Entering, Told, Begin
<1>. QED
  BY <1>2, <1>3

LEMMA AlwaysClean == Spec => [](Inv /\ Unwritten /\ CleanInv)
<1>1. Init => Inv /\ Unwritten /\ CleanInv
  BY InitInv, CleanInit
<1>2. Inv /\ Unwritten /\ CleanInv /\ [Next]_vars => (Inv /\ Unwritten /\ CleanInv)'
  BY NextInv, UnwrittenNext, AgreedNext
<1>. QED
  BY <1>1, <1>2, PTL DEF Spec

(* While every request is carried out, no event is lost, nothing crashes   *)
(* and no row is written over a newer one, the exchange has no position    *)
(* between two signals that the store does not know, however the unlocked  *)
(* reconciliations of loop and console, and their closes, fall among the   *)
(* handler's steps.                                                        *)
THEOREM CleanRunsAlwaysAgree == Spec => []CleanRunsAgree
<1>1. CleanInv => CleanRunsAgree
  BY DEF CleanInv, Clean, Agreed, CleanRunsAgree, Diverged, At, Entering
<1>. QED
  BY <1>1, AlwaysClean, PTL
=============================================================================
