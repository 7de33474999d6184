---------------------------- MODULE TradingEngine ----------------------------
(***************************************************************************)
(* The compatibility runtime's engine in live mode on one symbol: signals  *)
(* that enter or flip a position, the server's monitor loop that checks    *)
(* health, applies order-stream events and supervises exits, the operator  *)
(* console's calls that do the same things on request, one safety status,  *)
(* and an exchange that answers, refuses, or carries a request out after   *)
(* the engine stopped waiting for it.  They are tasks of one event loop.   *)
(* Signals, execution health, supervision and the bootstrap reconciliation *)
(* exclude each other by _op_lock; refresh_market_data_health and          *)
(* sync_execution_events take no lock when loop or console call them.      *)
(*                                                                         *)
(* An await is a point where another task may run.  One step here is one   *)
(* request to the exchange or one store call, with the calls before it     *)
(* that only read; the two queries of a reconciliation are one, and a      *)
(* request whose answer is only reported is one step with the status it    *)
(* sets.  A check that reads the safety status and then clears or sets it  *)
(* is two steps.  Every entry has the configured order size, one unit.     *)
(* Prices, vetoes and exit rules are choices.  Shadow and paper mode, mode *)
(* switches and the testnet cleanup command are left out.                  *)
(***************************************************************************)
EXTENDS Integers, FiniteSets

CONSTANTS Signals,     \* signal ids
          Direction,   \* signal -> 1 for long, -1 for short
          Consoles,    \* requests of the operator console, none if it is
                       \*        disabled; each is a task of its own
          Call,        \* console request -> what it calls
          None,        \* no signal, nobody
          Loads,       \* bound: the sets of signals and console requests that
                       \*        come in one behaviour
          MaxFaults,   \* bound: requests refused, late or raising, events
                       \*        lost, and crashes
          MayCrash     \* whether the process may die

Pollers == {"monitor"} \cup Consoles
Tasks == {"signal"} \cup Pollers
Calls == {"snapshot", "refresh", "reconcile", "supervise"}

ASSUME DirectionAssumption ==
    /\ Direction \in [Signals -> {1, -1}]
    /\ Call \in [Consoles -> Calls]
    /\ {"signal", "monitor"} \cap Consoles = {}
    /\ None \notin Signals \cup Tasks
    /\ Loads \subseteq SUBSET (Signals \cup Consoles)
    /\ MaxFaults \in Nat /\ MayCrash \in BOOLEAN

VARIABLES net,        \* exchange: position in units, negative when short
          orders,     \* exchange: resting protective orders
          late,       \* requests the engine gave up on that may still land
          sent,       \* stream: an event of the symbol is on its way
          here,       \* stream: one is in the adapter's queue
          row,        \* store: position_state of the symbol
          aged,       \* store: the row's last reconcile is too long ago
          safety,     \* store: reason of the safety status
          reserved,   \* store: signals reserved
          task,       \* where the tasks are, and what they have read
          lock,       \* holder of _op_lock
          called,     \* history: console requests made
          entries,    \* history: entry orders sent for a signal
          faults,     \* history: how many of them
          raced,      \* history: a row was written over a newer one
          crossed     \* history: see Crossing

exchange == <<net, orders, late, sent>>
store == <<row, aged, safety, reserved>>
history == <<called, entries, faults, raced>>
state == <<exchange, here, store, task, lock, history>>
vars == <<state, crossed>>

Kinds == {"tp", "sl"}
Reasons == {"none", "stale_market_data", "heartbeat_loss", "reconciliation_stale",
            "reconciliation_mismatch", "position_ambiguity", "order_timeout"}

FlatRow == [dir |-> 0, sig |-> None, held |-> {}]
Rest == [at |-> "rest", sig |-> None, row |-> FlatRow, net |-> 0, kept |-> {},
         ok |-> FALSE, then |-> "rest", saw |-> "none"]

(* The parts a poller's call consists of.  It holds no lock between them.  *)
Parts == {"rest", "market", "health", "sync", "supervise", "bootstrap"}

Order == [loop      |-> [market |-> "health", health |-> "sync",
                         sync |-> "supervise", supervise |-> "market"],
          snapshot  |-> [market |-> "sync", sync |-> "health"],
          refresh   |-> [market |-> "health"],
          reconcile |-> [sync |-> "bootstrap"],
          supervise |-> [sync |-> "supervise"]]

After(c, part) ==
    IF c = "signal" THEN "rest"
    ELSE LET next == Order[IF c = "monitor" THEN "loop" ELSE Call[c]]
         IN IF part \in DOMAIN next THEN next[part] ELSE "rest"

Sign(n) == IF n > 0 THEN 1 ELSE IF n < 0 THEN -1 ELSE 0
Open == row.dir # 0
At(c, phase) == task[c].at = phase
Goto(c, phase) == [task EXCEPT ![c].at = phase]
SafeMode == safety # "none"
Stale == Open /\ aged

(* What a task keeps when it goes on: its signal.                          *)
Fresh(c, phase) == [Rest EXCEPT !.at = phase,
                                !.sig = IF phase = "rest" THEN None ELSE task[c].sig]
FreshThen(c, phase, next) == [Fresh(c, phase) EXCEPT !.then = next]

GoOn(c, phase) == /\ task' = [task EXCEPT ![c] = Fresh(c, phase)]
                  /\ lock' = IF lock = c /\ phase \in Parts THEN None ELSE lock

(* The call, or the loop's iteration, is over.                             *)
Begin(c) == IF c = "monitor" THEN "market" ELSE "rest"
End(c) == GoOn(c, Begin(c))

(* Something goes wrong: with a request to the exchange, or the process.   *)
Fault == faults < MaxFaults /\ faults' = faults + 1
NoFault == UNCHANGED faults

-----------------------------------------------------------------------------
(* The safety status.  A check reads it, and clears it if the reason is    *)
(* its own, or, for stale rows, sets it if there is none or its own.       *)

ClearIf(c, reason, next) ==
    IF safety = reason
    THEN /\ task' = [task EXCEPT ![c] = [FreshThen(c, "clear", next) EXCEPT !.saw = reason]]
         /\ UNCHANGED lock
    ELSE GoOn(c, next)

MarkIf(c, next) ==
    IF safety \in {"none", "reconciliation_stale"}
    THEN task' = [task EXCEPT ![c] = FreshThen(c, "mark", next)] /\ UNCHANGED lock
    ELSE GoOn(c, next)

(* Mutant: the reason is cleared to a null.                                *)
Mut_Cleared == None
Cleared == "none"

(* clear_safe_mode, whatever the status is by now.                         *)
Clear(c) ==
    /\ At(c, "clear")
    /\ safety' = Cleared
    /\ GoOn(c, task[c].then)
    /\ UNCHANGED <<exchange, here, row, aged, reserved, history>>

Mark(c) ==
    /\ At(c, "mark")
    /\ safety' = "reconciliation_stale"
    /\ GoOn(c, task[c].then)
    /\ UNCHANGED <<exchange, here, row, aged, reserved, history>>

-----------------------------------------------------------------------------
(* Reconciliation (_reconcile_symbol_state), in any task.                  *)

ReadRow(c) ==
    /\ At(c, "read")
    /\ task' = [task EXCEPT ![c].at = "query", ![c].row = row]
    /\ UNCHANGED <<exchange, here, store, lock, history>>

Matches(r, n) == r.dir = n

Mismatch(r, n) == IF r.dir = 0 THEN n # 0 ELSE n # 0 /\ ~Matches(r, n)

Kept(r, resting) == {k \in r.held : [sig |-> r.sig, kind |-> k] \in resting}

(* With a mismatch, nothing is made of the status that is read next.       *)
Query(c) ==
    /\ At(c, "query")
    /\ LET r == task[c].row
       IN task' = IF Mismatch(r, net)
                  THEN [task EXCEPT ![c] = FreshThen(c, "raise", task[c].then)]
                  ELSE [task EXCEPT ![c].at = "notice", ![c].net = net,
                            ![c].kept = IF net = 0 THEN {} ELSE Kept(r, orders)]
    /\ UNCHANGED <<exchange, here, store, lock, history>>

(* The exchange cannot be queried.  A refresh of stale rows goes on, any   *)
(* other caller raises.                                                    *)
QueryRaises(c) ==
    /\ \E phase \in {"query", "confirmClose", "confirmEntry"} : At(c, phase)
    /\ Fault
    /\ IF At(c, "query") /\ task[c].then = "refreshed" THEN GoOn(c, "refreshed") ELSE End(c)
    /\ UNCHANGED <<exchange, here, store, called, entries, raced>>

RaiseMismatch(c) ==
    /\ At(c, "raise")
    /\ safety' = "reconciliation_mismatch"
    /\ GoOn(c, task[c].then)
    /\ UNCHANGED <<exchange, here, row, aged, reserved, history>>

(* The status is read before a row is written, and cleared after.          *)
Notice(c) ==
    /\ At(c, "notice")
    /\ IF task[c].row.dir # 0
       THEN /\ task' = [task EXCEPT ![c].at = "write", ![c].saw =
                            IF safety = "reconciliation_mismatch" THEN safety ELSE "none"]
            /\ UNCHANGED lock
       ELSE ClearIf(c, "reconciliation_mismatch", task[c].then)
    /\ UNCHANGED <<exchange, here, store, history>>

(* Mutant: a row whose position is gone is only stamped.                   *)
Mut_Reconciled(r, n, kept) == [r EXCEPT !.held = kept]

Reconciled(r, n, kept) == IF n = 0 THEN FlatRow ELSE [r EXCEPT !.held = kept]

(* Mutant: the row is read again when the exchange has answered.           *)
Mut_Persisted(c) == row

(* The row is the one read before the exchange was asked.                  *)
Persisted(c) == task[c].row

WriteRow(c) ==
    /\ At(c, "write")
    /\ row' = Reconciled(Persisted(c), task[c].net, task[c].kept)
    /\ aged' = FALSE
    /\ raced' = (raced \/ row # Persisted(c))
    /\ IF task[c].saw = "none" THEN GoOn(c, task[c].then)
       ELSE /\ task' = [task EXCEPT ![c] = [FreshThen(c, "clear", task[c].then)
                                               EXCEPT !.saw = task[c].saw]]
            /\ UNCHANGED lock
    /\ UNCHANGED <<exchange, here, safety, reserved, called, entries, faults>>

(* sync_execution_events: drain the queue, reconcile if anything was in it.*)
Sync(c) ==
    /\ At(c, "sync")
    /\ IF here
       THEN /\ task' = [task EXCEPT ![c] = FreshThen(c, "read", After(c, "sync"))]
            /\ here' = FALSE /\ UNCHANGED lock
       ELSE GoOn(c, After(c, "sync")) /\ UNCHANGED here
    /\ UNCHANGED <<exchange, store, history>>

(* _refresh_reconciliation_health_locked, for a signal or for the health   *)
(* check.                                                                  *)
Refresh(c) ==
    /\ At(c, "refresh")
    /\ IF Stale
       THEN task' = [task EXCEPT ![c] = FreshThen(c, "read", "refreshed")] /\ UNCHANGED lock
       ELSE ClearIf(c, "reconciliation_stale", IF c = "signal" THEN "check" ELSE "basis")
    /\ UNCHANGED <<exchange, here, store, history>>

Refreshed(c) ==
    /\ At(c, "refreshed")
    /\ LET next(fine) == IF c = "signal" THEN "check" ELSE IF fine THEN "basis" ELSE "overdue"
       IN IF Stale THEN MarkIf(c, next(FALSE)) ELSE GoOn(c, next(TRUE))
    /\ UNCHANGED <<exchange, here, store, history>>

-----------------------------------------------------------------------------
(* Orders.                                                                 *)

(* build_close_intents: cancel the orders the row names, then close.  A    *)
(* cancellation that fails is reported and not looked at.                  *)
CancelOrders(c) ==
    /\ At(c, "cancel")
    /\ LET named == {[sig |-> task[c].row.sig, kind |-> k] : k \in task[c].row.held}
       IN \/ orders' = orders \ named /\ NoFault
          \/ \E gone \in SUBSET named : gone # named /\ orders' = orders \ gone /\ Fault
    /\ sent' = TRUE
    /\ task' = Goto(c, "close")
    /\ UNCHANGED <<net, late, here, store, lock, called, entries, raced>>

(* market_close takes the side of the position it finds and only reduces.  *)
CloseOrder(c) ==
    /\ At(c, "close")
    /\ \/ net' = net - Sign(net) /\ sent' = TRUE /\ NoFault /\ UNCHANGED late
       \/ UNCHANGED <<net, late, sent>> /\ Fault
       \/ net # 0 /\ late' = late \cup {[entry |-> FALSE, dir |-> Sign(net)]}
          /\ UNCHANGED <<net, sent>> /\ Fault
    /\ task' = Goto(c, IF c = "signal" THEN "confirmClose" ELSE "closeRow")
    /\ UNCHANGED <<orders, here, store, lock, called, entries, raced>>

(* _close_position, with the row the caller read.                          *)
CloseRow(c) ==
    /\ At(c, "closeRow")
    /\ row' = FlatRow /\ aged' = FALSE
    /\ raced' = (raced \/ (Open /\ row # task[c].row))
    /\ GoOn(c, IF c = "signal" THEN "enter" ELSE After(c, "supervise"))
    /\ UNCHANGED <<exchange, here, safety, reserved, called, entries, faults>>

-----------------------------------------------------------------------------
(* handle_signal.  A signal that is already reserved changes nothing.      *)

Comes(request) == \E load \in Loads : reserved \cup called \cup {request} \subseteq load

(* Mutant: a duplicate is handled like any other signal.                   *)
Mut_Receive(s) ==
    /\ At("signal", "rest") /\ lock = None
    /\ Comes(s)
    /\ reserved' = reserved \cup {s}
    /\ lock' = "signal"
    /\ task' = [task EXCEPT !["signal"] = [Rest EXCEPT !.at = "refresh", !.sig = s]]
    /\ UNCHANGED <<exchange, here, row, aged, safety, history>>

Receive(s) ==
    /\ At("signal", "rest") /\ lock = None
    /\ Comes(s)
    /\ s \notin reserved
    /\ reserved' = reserved \cup {s}
    /\ lock' = "signal"
    /\ task' = [task EXCEPT !["signal"] = [Rest EXCEPT !.at = "refresh", !.sig = s]]
    /\ UNCHANGED <<exchange, here, row, aged, safety, history>>

(* Safe mode refuses the signal; fetching market data may raise.           *)
Check ==
    /\ At("signal", "check")
    /\ \/ End("signal") /\ UNCHANGED safety
       \/ ~SafeMode /\ GoOn("signal", "decide") /\ UNCHANGED safety
       \/ ~SafeMode /\ safety' = "stale_market_data" /\ End("signal")
    /\ UNCHANGED <<exchange, here, row, aged, reserved, history>>

Dir == Direction[task["signal"].sig]

Accepted == IF Open THEN "cancel" ELSE "enter"

Decide ==
    /\ At("signal", "decide")
    /\ \/ row.dir # Dir /\ task' = [task EXCEPT !["signal"].at = Accepted,
                                                !["signal"].row = row]
       \/ task' = Goto("signal", "sync")
    /\ UNCHANGED <<exchange, here, store, lock, history>>

ConfirmClose ==
    /\ At("signal", "confirmClose")
    /\ IF net = 0 THEN task' = Goto("signal", "closeRow") /\ UNCHANGED <<safety, lock>>
       ELSE safety' = "position_ambiguity" /\ End("signal")
    /\ UNCHANGED <<exchange, here, row, aged, reserved, history>>

Enter ==
    /\ At("signal", "enter")
    /\ entries' = [entries EXCEPT ![task["signal"].sig] = @ + 1]
    /\ \/ /\ net' = net + Dir /\ sent' = TRUE /\ NoFault /\ UNCHANGED late
          /\ task' = [task EXCEPT !["signal"].at = "confirmEntry", !["signal"].ok = TRUE]
       \/ /\ late' \in {late, late \cup {[entry |-> TRUE, dir |-> Dir]}}
          /\ Fault /\ UNCHANGED <<net, sent>>
          /\ task' = Goto("signal", "confirmEntry")
    /\ UNCHANGED <<orders, here, store, lock, called, raced>>

(* _entry_confirmed looks for any position of the symbol.                  *)
ConfirmEntry ==
    /\ At("signal", "confirmEntry")
    /\ IF net # 0 THEN task' = Goto("signal", "protect") /\ UNCHANGED safety
       ELSE task' = Goto("signal", "sync") /\ safety' = "order_timeout"
    /\ UNCHANGED <<exchange, here, row, aged, reserved, lock, history>>

(* A protective order that is reported rejected may rest all the same.     *)
Protections == {[sig |-> task["signal"].sig, kind |-> k] : k \in Kinds}

(* Mutant: a refused protective order is only reported.                    *)
Mut_AfterProtections(refused) == safety
AfterProtections(refused) == IF refused THEN "position_ambiguity" ELSE safety

Protect ==
    /\ At("signal", "protect")
    /\ \/ orders' = orders \cup Protections /\ NoFault
          /\ safety' = AfterProtections(FALSE)
       \/ \E placed \in SUBSET Protections : orders' = orders \cup placed /\ Fault
          /\ safety' = AfterProtections(TRUE)
    /\ sent' = TRUE
    /\ task' = Goto("signal", "open")
    /\ UNCHANGED <<net, late, here, row, aged, reserved, lock, called, entries, raced>>

(* _apply_reports: the row is written if the entry was not reported        *)
(* rejected, with both order ids whatever became of the orders.            *)
OpenRow ==
    /\ At("signal", "open")
    /\ IF task["signal"].ok
       THEN /\ row' = [dir |-> Dir, sig |-> task["signal"].sig, held |-> Kinds]
            /\ aged' = FALSE
            /\ UNCHANGED safety
       ELSE safety' = "order_timeout" /\ UNCHANGED <<row, aged>>
    /\ task' = Goto("signal", "sync")
    /\ UNCHANGED <<exchange, here, reserved, lock, history>>

-----------------------------------------------------------------------------
(* The monitor loop of web/app.py and the calls of the operator console.   *)

(* The console's route or command begins.                                  *)
Poll(c) ==
    /\ c \in Consoles /\ At(c, "rest")
    /\ c \notin called /\ Comes(c)
    /\ called' = called \cup {c}
    /\ task' = Goto(c, IF Call[c] \in {"snapshot", "refresh"} THEN "market" ELSE "sync")
    /\ UNCHANGED <<exchange, here, store, lock, entries, faults, raced>>

(* refresh_market_data_health, with no lock.                               *)
Market(c, healthy) ==
    /\ At(c, "market")
    /\ IF healthy THEN ClearIf(c, "stale_market_data", After(c, "market")) /\ UNCHANGED safety
       ELSE GoOn(c, After(c, "market")) /\ safety' = "stale_market_data"
    /\ UNCHANGED <<exchange, here, row, aged, reserved, history>>

(* refresh_execution_health: the stream first, then stale rows, then the   *)
(* basis between the venues.                                               *)
StreamDown(c) ==
    /\ At(c, "health") /\ lock = None
    /\ safety' = "heartbeat_loss"
    /\ GoOn(c, After(c, "health"))
    /\ UNCHANGED <<exchange, here, row, aged, reserved, history>>

StreamUp(c) ==
    /\ At(c, "health") /\ lock = None
    /\ lock' = c
    /\ task' = Goto(c, "refresh")
    /\ UNCHANGED <<exchange, here, store, history>>

Overdue(c) ==
    /\ At(c, "overdue")
    /\ IF Stale THEN MarkIf(c, After(c, "health")) ELSE GoOn(c, After(c, "health"))
    /\ UNCHANGED <<exchange, here, store, history>>

Basis(c, healthy) ==
    /\ At(c, "basis")
    /\ IF healthy THEN ClearIf(c, "heartbeat_loss", After(c, "health")) /\ UNCHANGED safety
       ELSE GoOn(c, After(c, "health")) /\ safety' = "heartbeat_loss"
    /\ UNCHANGED <<exchange, here, row, aged, reserved, history>>

(* supervise_position_live: hold, or close and write the row flat.         *)
Supervise(c, exits) ==
    /\ At(c, "supervise") /\ lock = None
    /\ IF Open /\ exits
       THEN /\ lock' = c
            /\ task' = [task EXCEPT ![c].at = "cancel", ![c].row = row]
       ELSE GoOn(c, After(c, "supervise"))
    /\ UNCHANGED <<exchange, here, store, history>>

(* bootstrap_reconcile.                                                    *)
Bootstrap(c) ==
    /\ At(c, "bootstrap") /\ lock = None
    /\ lock' = c
    /\ task' = [task EXCEPT ![c] = FreshThen(c, "read", After(c, "bootstrap"))]
    /\ UNCHANGED <<exchange, here, store, history>>

-----------------------------------------------------------------------------
(* The exchange, the stream, time and crashes.                             *)

Trigger(o) ==
    /\ o \in orders /\ Sign(net) = Direction[o.sig]
    /\ net' = net - Sign(net)
    /\ orders' = orders \ {o}
    /\ sent' = TRUE
    /\ UNCHANGED <<late, here, store, task, lock, history>>

Land(o) ==
    /\ o \in late
    /\ late' = late \ {o}
    /\ net' = IF o.entry THEN net + o.dir
              ELSE IF Sign(net) = o.dir THEN net - o.dir ELSE net
    /\ sent' = (sent \/ net' # net)
    /\ UNCHANGED <<orders, here, store, task, lock, history>>

Forget(o) ==
    /\ o \in late
    /\ late' = late \ {o}
    /\ UNCHANGED <<net, orders, sent, here, store, task, lock, history>>

Deliver ==
    /\ sent
    /\ sent' = FALSE /\ here' = TRUE
    /\ UNCHANGED <<net, orders, late, store, task, lock, history>>

Age ==
    /\ Open /\ ~aged
    /\ aged' = TRUE
    /\ UNCHANGED <<exchange, here, row, safety, reserved, task, lock, history>>

(* The connection drops while an event is on its way.                      *)
Lose ==
    /\ sent /\ Fault
    /\ sent' = FALSE
    /\ UNCHANGED <<net, orders, late, here, store, task, lock, called, entries, raced>>

(* The process dies and is started again.  It subscribes anew, and the     *)
(* stream may begin with a snapshot of earlier fills.                      *)
Crash ==
    /\ MayCrash /\ Fault
    /\ task' = [c \in Tasks |-> [Rest EXCEPT !.at = Begin(c)]]
    /\ lock' = None
    /\ sent' \in BOOLEAN /\ here' = FALSE
    /\ UNCHANGED <<net, orders, late, store, called, entries, raced>>

Init ==
    /\ net = 0 /\ orders = {} /\ late = {} /\ sent = FALSE /\ here = FALSE
    /\ row = FlatRow /\ aged = FALSE /\ safety = "none" /\ reserved = {}
    /\ task = [c \in Tasks |-> [Rest EXCEPT !.at = Begin(c)]] /\ lock = None
    /\ called = {} /\ crossed = FALSE
    /\ entries = [s \in Signals |-> 0]
    /\ faults = 0 /\ raced = FALSE

StatusStep(c) == Clear(c) \/ Mark(c) \/ RaiseMismatch(c)
ReconcileStep(c) == \/ ReadRow(c) \/ Query(c) \/ QueryRaises(c) \/ Notice(c)
                    \/ WriteRow(c) \/ Sync(c) \/ Refresh(c) \/ Refreshed(c)
CloseStep(c) == CancelOrders(c) \/ CloseOrder(c) \/ CloseRow(c)
SignalStep == \/ Check \/ Decide \/ ConfirmClose \/ Enter \/ ConfirmEntry
              \/ Protect \/ OpenRow
PollerStep(c) == \/ \E healthy \in BOOLEAN : Market(c, healthy) \/ Basis(c, healthy)
                 \/ StreamDown(c) \/ StreamUp(c) \/ Overdue(c)
                 \/ \E exits \in BOOLEAN : Supervise(c, exits)
                 \/ Bootstrap(c)
TaskStep(c) == /\ ~At(c, "rest")
               /\ \/ StatusStep(c) \/ ReconcileStep(c) \/ CloseStep(c)
                  \/ c = "signal" /\ SignalStep
                  \/ c \in Pollers /\ PollerStep(c)
ExchangeStep == \/ \E o \in orders : Trigger(o)
                \/ \E o \in late : Land(o) \/ Forget(o)
                \/ Deliver \/ Lose

Step == \/ \E s \in Signals : Receive(s)
        \/ \E c \in Consoles : Poll(c)
        \/ \E c \in Tasks : TaskStep(c)
        \/ ExchangeStep \/ Age \/ Crash

(* A signal that has passed the safe-mode check is in hand until its row   *)
(* is written or it is given up.                                           *)
InHand == task["signal"].at \in {"decide", "cancel", "close", "confirmClose",
                                 "closeRow", "enter", "confirmEntry", "protect", "open"}

(* The safety status is changed by the console, or cleared by a check that *)
(* had read another.                                                       *)
Crossing ==
    /\ safety' # safety
    /\ \E c \in Pollers : /\ task'[c] # task[c]
                          /\ c \in Consoles \/ (At(c, "clear") /\ task[c].saw # safety)

Next == Step /\ crossed' = (InHand' /\ (crossed \/ Crossing))

Spec == Init /\ [][Next]_vars

(* The event loop goes on with the monitor loop, or with the task the loop *)
(* waits for, time passes, and the stream is up again and again.           *)
Fairness ==
    /\ WF_task(\E c \in {"monitor", lock} \ {None} : TaskStep(c))
    /\ SF_task(StreamUp("monitor")) /\ WF_aged(Age)

FairSpec == Spec /\ Fairness

-----------------------------------------------------------------------------
(* Properties.                                                             *)

TypeOK ==
    /\ net \in Int /\ late \subseteq [entry : BOOLEAN, dir : {1, -1}]
    /\ orders \subseteq [sig : Signals, kind : Kinds]
    /\ row \in [dir : {-1, 0, 1}, sig : Signals \cup {None}, held : SUBSET Kinds]
    /\ safety \in Reasons /\ reserved \subseteq Signals /\ called \subseteq Consoles
    /\ lock \in Tasks \cup {None}

(* However often a signal is delivered, and whatever crashed or raised     *)
(* while it was handled, at most one entry order is sent for it            *)
(* (reserve_signal is durable before the first request).                   *)
OneEntryPerSignal == \A s \in Signals : entries[s] <= 1

Resting == \A c \in Tasks : At(c, Begin(c))
Settled == Resting /\ ~sent /\ ~here /\ late = {}
Diverged == net # 0 /\ row.dir # net

(* "If local and exchange state diverge in live mode, the engine should    *)
(* fail closed into safe mode." (docs/OPERATOR_GUIDE.md:274)               *)
DivergenceFailsClosed == Settled /\ Diverged => SafeMode

(* As long as the exchange carries every request out, no event is lost,    *)
(* nothing crashes, and no reconciliation writes over a row that changed   *)
(* after it was read, the exchange never keeps a position the store does   *)
(* not know once a signal is done, even with other tasks reconciling or    *)
(* closing in the middle of it (sync_execution_events takes no lock).      *)
CleanRunsAgree == At("signal", "rest") /\ faults = 0 /\ ~raced => ~Diverged

(* A signal that opens its row has both protective orders placed, or safe  *)
(* mode is on: a refused one raises it, and although the loop may set      *)
(* another reason meanwhile, it must wait for _op_lock before its next     *)
(* check could clear that one.  This is so as long as no console call      *)
(* changes the status meanwhile, and no check that was overtaken clears a  *)
(* reason it had not read (handle_signal, refresh_market_data_health).     *)
OpensProtectedOrSafe ==
    [][/\ At("signal", "protect") /\ At("signal", "open")' =>
             Protections \subseteq orders' \/ SafeMode'
       /\ InHand /\ SafeMode => SafeMode' \/ crossed']_vars

(* A row whose position is gone from the exchange, whatever closed it and  *)
(* even if its event was lost, is closed in the end                        *)
(* (max_reconcile_gap_ms).                                                 *)
PhantomsEnd == (Open /\ net = 0) ~> (~Open \/ net # 0)
=============================================================================
