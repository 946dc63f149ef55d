-------------------------------- MODULE Paper --------------------------------
(***************************************************************************)
(* The paper simulator: POST /v1/simulate (apps/api/app/core_routes.py)    *)
(* with its risk check and fill model (simulation_policy.py,               *)
(* simulation.py), the in-memory portfolio (portfolio.py), the SQL fill    *)
(* journal and its sessions (persistence.py), the recovery at startup      *)
(* (portfolio_recovery.py), the replay controls, the kill switch, and the  *)
(* paper autopilot with its bootstrap watchdog (paper_autopilot.py,        *)
(* paper_stop_loss.py, paper_autonomy_bootstrap.py).                       *)
(*                                                                         *)
(* queue is _simulation_lock: its head holds the lock, the others wait in  *)
(* the order asyncio serves them.  An order yields at the two database     *)
(* awaits of append; a timeline change (simulation reset, replay start,    *)
(* restart, seek) yields at start_new_session and does not take the lock.  *)
(* Prices are multiples of a power of two large enough for every average   *)
(* over the bounded number of fills to be an integer.                      *)
(***************************************************************************)
EXTENDS Integers, FiniteSets, Sequences, Functions

CONSTANTS
    Clients,         \* callers of /v1/simulate
    Assets, Prices,
    Quantities,      \* order quantities
    Ids,             \* order ids; a client may send one again
    Conditions,      \* what else the snapshot may be, see market_refuses
    Fee,             \* the fee per unit filled
    MaxOrderNotional, MaxPositionNotional, MaxQuantity, MaxOpen, MaxGross,
    MaxConcentration, \* per cent
    MaxDrawdown,
    Frames,          \* frames of a replay
    Bootstrapped,    \* PROTO_PAPER_AUTONOMY_ENABLED with a valid configuration
    StopMove,        \* stop_loss_fraction, as a price distance
    AutoAsset, AutoQuantity,
    LastTick,        \* bound: the clock
    MaxOrders,       \* bound: orders sent and cycles of the autopilot
    MaxEvents        \* bound: operator requests, failing database calls, restarts

VARIABLES
    runtime,   \* [mode, running, kill]
    replay,    \* [active, paused, cursor]
    port,      \* the PaperPortfolio: [pos, seen, peak]
    store,     \* the sessions' fills; the last session is the active one
    queue,     \* tasks at _simulation_lock, the holder first
    task,      \* the order each task is submitting
    change,    \* the timeline change that is rotating the session, or NoChange
    pilot,     \* the autopilot worker and its armed side
    boot,      \* bootstrap_state.started
    clock,     \* non_decreasing_utc_now of this process
    answered,  \* history: <<id, answer>> given to clients
    revived,   \* history: how the worker the watchdog restarted had ended
    sent, events

vars == <<runtime, replay, port, store, queue, task, change, pilot, boot,
          clock, answered, revived, sent, events>>
bounds == <<sent, events>>

Tasks == Clients \cup {"autopilot"}
Sides == {"BUY", "SELL"}
Idle == [pc |-> "idle"]
NoChange == [op |-> "none", stage |-> "none", cursor |-> 0]
Fresh == [mode |-> "SIMULATION", running |-> TRUE, kill |-> "ARMED"]
NoReplay == [active |-> FALSE, paused |-> TRUE, cursor |-> 0]

----------------------------------------------------------------------------
(* The portfolio.                                                          *)

Abs(n) == IF n < 0 THEN -n ELSE n
Least(a, b) == IF a < b THEN a ELSE b
Most(a, b) == IF a < b THEN b ELSE a
Signed(f) == IF f.side = "BUY" THEN f.qty ELSE -f.qty
SumOver(F(_)) == SumFunction([a \in Assets |-> F(a)])

Flat == [qty |-> 0, avg |-> 0, net |-> 0, last |-> 0]
Portfolio0 == [pos |-> [a \in Assets |-> Flat], seen |-> {}, peak |-> 0]

\* PaperPortfolio.apply_fill raises when the position's clock would go back.
ClockBack(pf, f) == f.at < pf.pos[f.asset].last

Exposure(pf, a) == Abs(pf.pos[a].qty) * pf.pos[a].avg
Net(pf) == SumOver(LAMBDA a : pf.pos[a].net)

\* net is realized_pnl - fees.
Filled(p, f) ==
    LET s == Signed(f)
        q == p.qty + s
        adds == p.qty = 0 \/ p.qty * s > 0
        closing == Least(Abs(p.qty), f.qty)
        gain == (f.price - p.avg) * closing * (IF p.qty > 0 THEN 1 ELSE -1)
    IN  [qty |-> q,
         avg |-> IF adds THEN (Abs(p.qty) * p.avg + f.qty * f.price) \div Abs(q)
                 ELSE IF f.qty > Abs(p.qty) THEN f.price
                 ELSE IF q = 0 THEN 0 ELSE p.avg,
         net |-> p.net - Fee * f.qty + (IF adds THEN 0 ELSE gain),
         last |-> f.at]

apply_fill(pf, f) ==
    IF f.id \in pf.seen THEN pf
    ELSE LET pos == [pf.pos EXCEPT ![f.asset] = Filled(@, f)]
             new == [pos |-> pos, seen |-> pf.seen \cup {f.id}, peak |-> pf.peak]
         IN  [new EXCEPT !.peak = Most(@, Net(new))]

\* snapshot() raises while the reference time predates an open position's
\* latest fill.
SnapshotRaises(pf) == \E a \in Assets : pf.pos[a].qty # 0 /\ clock < pf.pos[a].last
Drawdown(pf) == Most(pf.peak - Net(pf), 0)
OpenCount(pf) == Cardinality({a \in Assets : pf.pos[a].qty # 0})
Gross(pf) == SumOver(LAMBDA a : Exposure(pf, a))

----------------------------------------------------------------------------
(* The risk check of an order r against the portfolio of that moment.      *)

simulation_execution_allowed ==
    /\ runtime.mode \in {"SIMULATION", "SHADOW", "PAPER_TRADING"}
    /\ runtime.running /\ runtime.kill = "ARMED"

Reducing(q, s) == q * s < 0 /\ Abs(s) <= Abs(q)

\* The conditions of the snapshot: stale or future timestamps, a limit on the
\* wrong side of the book, another market, too little depth and too much
\* slippage refuse every order; volatility and the edge gate spare the ones
\* that reduce the position.
market_refuses(cond, reducing) ==
    \/ cond \in {"stale", "off-limit", "mismatch", "thin", "slippery"}
    \/ cond \in {"volatile", "edgeless"} /\ ~reducing

validate(r, pf) ==
    LET q == pf.pos[r.asset].qty
        s == Signed(r)
        reducing == Reducing(q, s)
        projected == Abs(q + s) * r.price
        gross == Most(Gross(pf) - Exposure(pf, r.asset), 0) + projected
    IN  /\ simulation_execution_allowed
        /\ ~ market_refuses(r.cond, reducing)
        /\ r.qty * r.price <= MaxOrderNotional
        /\ Drawdown(pf) < MaxDrawdown \/ reducing
        /\ projected <= MaxPositionNotional
        /\ Abs(q + s) <= MaxQuantity \/ reducing
        /\ q # 0 \/ OpenCount(pf) < MaxOpen
        /\ gross <= MaxGross
        /\ 100 * projected <= MaxConcentration * gross

----------------------------------------------------------------------------
(* The journal and the sessions.                                           *)

Active == Len(store)
JournalledIn(id, n) == \E i \in DOMAIN store[n] : store[n][i].id = id
Insert(n, f) == [store EXCEPT ![n] = Append(@, f)]

\* iter_chronological orders by filled_at, then by insertion.
Chronological(fills) ==
    LET upto[t \in 0..LastTick] ==
          IF t = 0 THEN <<>>
          ELSE upto[t - 1] \o SelectSeq(fills, LAMBDA f : f.at = t)
    IN  upto[LastTick]

recover_paper_portfolio(fills) ==
    LET ordered == Chronological(fills)
        after[n \in 0..Len(ordered)] ==
          IF n = 0 THEN Portfolio0 ELSE apply_fill(after[n - 1], ordered[n])
    IN  after[Len(ordered)]

----------------------------------------------------------------------------
\* start_configured_paper_autonomy at startup, when the operator enabled it.
Bootstrap ==
    [runtime |-> IF Bootstrapped THEN [Fresh EXCEPT !.mode = "PAPER_TRADING"] ELSE Fresh,
     pilot |-> [work |-> IF Bootstrapped THEN "asleep" ELSE "none",
                armed |-> "none", cooled |-> TRUE]]

Init ==
    /\ runtime = Bootstrap.runtime
    /\ replay = NoReplay
    /\ port = Portfolio0
    /\ store = << <<>> >>
    /\ queue = <<>>
    /\ task = [t \in Tasks |-> Idle]
    /\ change = NoChange
    /\ pilot = Bootstrap.pilot
    /\ boot = Bootstrapped
    /\ clock = 1
    /\ answered = {}
    /\ revived = "never"
    /\ sent = 0 /\ events = 0

Event == events < MaxEvents /\ events' = events + 1

(* --- /v1/simulate ------------------------------------------------------ *)

\* A faulty simulate: the order does not wait for _simulation_lock.
NoLock(t) == t \in Tasks
HoldsLock(t) == queue # <<>> /\ Head(queue) = t

\* A task leaves the lock, or the line for it.
Leave(q, t) ==
    LET i == CHOOSE i \in DOMAIN q : q[i] = t
    IN  IF \E j \in DOMAIN q : q[j] = t
        THEN SubSeq(q, 1, i - 1) \o SubSeq(q, i + 1, Len(q))
        ELSE q

\* The end of a task's order, with what the pilot makes of it.  The caller
\* gets the answer and the lock is released.
Settle(t, answer) ==
    /\ task' = [task EXCEPT ![t] = Idle]
    /\ queue' = Leave(queue, t)
    /\ IF t = "autopilot"
       THEN /\ pilot' = IF answer = "error"
                        THEN [pilot EXCEPT !.work = "died"]
                        ELSE [work |-> "asleep", cooled |-> FALSE,
                              armed |-> IF task[t].stop
                                        THEN IF answer = "accepted" THEN "none"
                                             ELSE pilot.armed
                                        ELSE task[t].r.side]
            /\ UNCHANGED answered
       ELSE /\ answered' = answered \cup {<<task[t].r.id, answer>>}
            /\ UNCHANGED pilot

Fill(r) == [id |-> r.id, asset |-> r.asset, side |-> r.side, qty |-> r.qty,
            price |-> r.price, at |-> clock]

\* _simulate_locked up to the first await: the halt check, the portfolio
\* snapshot, the authoritative request and the simulator.
_simulate_locked(t) ==
    /\ task[t].pc = "waiting" /\ HoldsLock(t)
    /\ IF ~ runtime.running \/ runtime.kill # "ARMED" THEN Settle(t, "halted")
       ELSE IF SnapshotRaises(port) THEN Settle(t, "error")
       ELSE IF ~ validate(task[t].r, port) THEN Settle(t, "rejected")
       ELSE /\ task' = [task EXCEPT ![t] =
                           [pc |-> "append", r |-> @.r, stop |-> @.stop,
                            fill |-> Fill(@.r), session |-> 0,
                            seen |-> port.pos[@.r.asset].qty, fresh |-> TRUE]]
            /\ UNCHANGED <<queue, pilot, answered>>
    /\ UNCHANGED <<runtime, replay, port, store, change, boot, clock, revived, bounds>>

\* append's first await: ensure_active_session.
ensure_active_session(t) ==
    /\ task[t].pc = "append"
    /\ task' = [task EXCEPT ![t].pc = "insert", ![t].session = Active]
    /\ UNCHANGED <<runtime, replay, port, store, queue, change, pilot, boot,
                   clock, answered, revived, bounds>>

\* A faulty append: the row is added and never committed.
AppendUncommitted(t) ==
    /\ task[t].pc = "insert"
    /\ task' = [task EXCEPT ![t].pc = "apply"]
    /\ UNCHANGED <<runtime, replay, port, store, queue, change, pilot, boot,
                   clock, answered, revived, bounds>>

\* append's second await: the row is in its session already, or is inserted.
append(t) ==
    /\ task[t].pc = "insert"
    /\ IF JournalledIn(task[t].r.id, task[t].session)
       THEN Settle(t, "duplicate") /\ UNCHANGED store
       ELSE /\ store' = Insert(task[t].session, task[t].fill)
            /\ task' = [task EXCEPT ![t].pc = "apply"]
            /\ UNCHANGED <<queue, pilot, answered>>
    /\ UNCHANGED <<runtime, replay, port, change, boot, clock, revived, bounds>>

\* A database call of append fails; a commit whose answer is lost may stand.
AppendFails(t) ==
    /\ task[t].pc \in {"append", "insert"} /\ Event
    /\ store' \in {store} \cup
         (IF task[t].pc = "insert" /\ ~ JournalledIn(task[t].r.id, task[t].session)
          THEN {Insert(task[t].session, task[t].fill)} ELSE {})
    /\ Settle(t, "unavailable")
    /\ UNCHANGED <<runtime, replay, port, change, boot, clock, revived,
                   sent>>

\* Back from the journal: the portfolio takes the fill.  When its clock would
\* go back it raises, and the caller gets an error.
ApplyFill(t) ==
    /\ task[t].pc = "apply"
    /\ IF task[t].r.id \in port.seen THEN Settle(t, "duplicate") /\ UNCHANGED port
       ELSE IF ClockBack(port, task[t].fill) THEN Settle(t, "error") /\ UNCHANGED port
       ELSE Settle(t, "accepted") /\ port' = apply_fill(port, task[t].fill)
    /\ UNCHANGED <<runtime, replay, store, change, boot, clock, revived, bounds>>

(* --- Callers and operators --------------------------------------------- *)

Request == [id : Ids, asset : Assets, side : Sides, qty : Quantities,
            price : Prices, cond : Conditions]

Enter(t, r, stop) ==
    /\ task' = [task EXCEPT ![t] = [pc |-> "waiting", r |-> r, stop |-> stop]]
    /\ queue' = Append(queue, t)

simulate(c) ==
    /\ task[c].pc = "idle" /\ sent < MaxOrders
    /\ sent' = sent + 1
    /\ \E r \in Request : Enter(c, r, FALSE)
    /\ UNCHANGED <<runtime, replay, port, store, change, pilot, boot, clock,
                   answered, revived, events>>

rest == <<store, queue, boot, clock, answered, revived, sent>>

\* start_runtime: refused, and stopped, unless the kill switch is armed.
start_runtime(mode) ==
    /\ Event
    /\ IF runtime.kill # "ARMED"
       THEN runtime' = [runtime EXCEPT !.running = FALSE] /\ UNCHANGED replay
       ELSE /\ runtime' = [runtime EXCEPT !.mode = mode, !.running = TRUE]
            /\ replay' = NoReplay
    /\ UNCHANGED <<port, task, change, pilot, rest>>

stop_runtime ==
    /\ Event /\ runtime' = [runtime EXCEPT !.running = FALSE]
    /\ UNCHANGED <<replay, port, task, change, pilot, rest>>

killswitch_trigger ==
    /\ Event
    /\ runtime' = [runtime EXCEPT !.kill = "TRIGGERED", !.running = FALSE]
    /\ replay' = [replay EXCEPT !.paused = TRUE]
    /\ UNCHANGED <<port, task, change, pilot, rest>>

killswitch_reset ==
    /\ Event /\ runtime' = [runtime EXCEPT !.kill = "ARMED"]
    /\ UNCHANGED <<replay, port, task, change, pilot, rest>>

(* --- Replay ------------------------------------------------------------ *)

replay_pause ==
    /\ replay.active /\ Event
    /\ replay' = [replay EXCEPT !.paused = TRUE]
    /\ runtime' = [runtime EXCEPT !.running = FALSE]
    /\ UNCHANGED <<port, task, change, pilot, rest>>

replay_resume ==
    /\ runtime.kill = "ARMED" /\ replay.active /\ replay.cursor < Frames /\ Event
    /\ replay' = [replay EXCEPT !.paused = FALSE]
    /\ runtime' = [runtime EXCEPT !.mode = "HISTORICAL_REPLAY", !.running = TRUE]
    /\ UNCHANGED <<port, task, change, pilot, rest>>

\* The last frame, and a step past it, pause the replay and stop the runtime.
replay_step ==
    /\ runtime.kill = "ARMED" /\ replay.active /\ Event
    /\ LET next == Least(replay.cursor + 1, Frames)
           done == next = Frames
       IN  /\ replay' = [replay EXCEPT !.cursor = next, !.paused = @ \/ done]
           /\ runtime' = [runtime EXCEPT !.running = @ /\ ~done]
    /\ UNCHANGED <<port, task, change, pilot, rest>>

replay_reset ==
    /\ Event
    /\ replay' = NoReplay
    /\ runtime' = [runtime EXCEPT !.mode = "HISTORICAL_REPLAY", !.running = FALSE]
    /\ UNCHANGED <<port, task, change, pilot, rest>>

(* --- Timeline changes: rotate the session, then reset the memory -------- *)

\* The four handlers up to the await of start_new_session.
Rotate(op, cursor) ==
    /\ change = NoChange /\ Event
    /\ change' = [op |-> op, stage |-> "rotate", cursor |-> cursor]
    /\ UNCHANGED <<runtime, replay, port, task, pilot, rest>>

simulation_reset == Rotate("reset", 0)
replay_start == runtime.kill = "ARMED" /\ Rotate("start", 0)
replay_restart == runtime.kill = "ARMED" /\ replay.active /\ Rotate("restart", 0)
replay_seek == replay.active /\ \E n \in 0..Frames : Rotate("seek", n)

start_new_session ==
    /\ change.stage = "rotate"
    /\ store' = Append(store, <<>>)
    /\ change' = [change EXCEPT !.stage = "finish"]
    /\ UNCHANGED <<runtime, replay, port, queue, task, pilot, boot, clock,
                   answered, revived, bounds>>

\* 503: nothing in memory changes; the rotation itself may have committed.
RotationFails ==
    /\ change.stage = "rotate" /\ Event
    /\ store' \in {store, Append(store, <<>>)}
    /\ change' = NoChange
    /\ UNCHANGED <<runtime, replay, port, queue, task, pilot, boot, clock,
                   answered, revived, sent>>

\* portfolio.reset, seen by the orders in flight.
ResetPortfolio ==
    /\ port' = Portfolio0
    /\ task' = [t \in Tasks |-> IF task[t].pc \in {"append", "insert", "apply"}
                                THEN [task[t] EXCEPT !.fresh = FALSE] ELSE task[t]]

\* Back from the rotation.  restart and seek raise when the replay session has
\* been reset meanwhile: the new session stands and the portfolio is kept.
FinishTimeline ==
    /\ change.stage = "finish"
    /\ change' = NoChange
    /\ IF change.op \in {"restart", "seek"} /\ ~ replay.active
       THEN UNCHANGED <<runtime, replay, port, task>>
       ELSE /\ ResetPortfolio
            /\ replay' = IF change.op = "reset" THEN NoReplay
                         ELSE [active |-> TRUE, paused |-> change.op = "seek",
                               cursor |-> change.cursor]
            /\ runtime' = CASE change.op = "reset" -> Fresh
                            [] change.op = "seek" -> [runtime EXCEPT !.running = FALSE]
                            [] OTHER -> [runtime EXCEPT !.mode = "HISTORICAL_REPLAY",
                                                        !.running = TRUE]
    /\ UNCHANGED <<store, queue, pilot, boot, clock, answered, revived, bounds>>

(* --- The autopilot ------------------------------------------------------ *)

_paper_runtime_ready ==
    runtime.mode = "PAPER_TRADING" /\ simulation_execution_allowed

\* evaluate_stop_loss on a position the portfolio has an entry for.
StopSide(p, price) ==
    CASE p.qty > 0 /\ price <= p.avg - StopMove -> "SELL"
      [] p.qty < 0 /\ price >= p.avg + StopMove -> "BUY"
      [] OTHER -> "none"

PilotOrder(side, qty, price) ==
    [id |-> 100 + sent, asset |-> AutoAsset, side |-> side, qty |-> qty,
     price |-> price, cond |-> "good"]

\* One cycle on a fresh frame with this price and imbalance ("calm" is below
\* half the trigger, "weak" below the trigger, a side beyond it).  Without the
\* runtime, fresh data, depth or a narrow spread the cycle ends at once.
_cycle(price, imbalance) ==
    /\ pilot.work = "asleep" /\ sent < MaxOrders
    /\ sent' = sent + 1
    /\ _paper_runtime_ready
    /\ LET p == port.pos[AutoAsset]
           known == p.last # 0
           stop == IF known THEN StopSide(p, price) ELSE "none"
           armed == IF imbalance = "calm" THEN "none" ELSE pilot.armed
           quiet == /\ pilot' = [pilot EXCEPT !.armed = armed]
                    /\ UNCHANGED <<task, queue>>
           busy == pilot' = [pilot EXCEPT !.work = "busy"]
       IN  IF SnapshotRaises(port)
           THEN pilot' = [pilot EXCEPT !.work = "died"] /\ UNCHANGED <<task, queue>>
           \* evaluate_stop_loss refuses an average price of zero
           ELSE IF known /\ p.avg = 0 THEN UNCHANGED <<pilot, task, queue>>
           ELSE IF stop # "none"
                THEN busy /\ Enter("autopilot", PilotOrder(stop, Abs(p.qty), price), TRUE)
           ELSE IF imbalance \in Sides /\ pilot.armed # imbalance /\ pilot.cooled
                THEN busy /\ Enter("autopilot", PilotOrder(imbalance, AutoQuantity, price),
                                   FALSE)
           ELSE quiet
    /\ UNCHANGED <<runtime, replay, port, store, change, boot, clock, answered,
                   revived, events>>

\* paper_autopilot.stop cancels the worker where it awaits: an order in flight
\* is dropped there, its insert committed or not.  /paper/stop also stops the
\* runtime.
StopAutopilot(runtimeToo) ==
    /\ pilot.work # "none" /\ Event
    /\ pilot' = [pilot EXCEPT !.work = "stopped", !.armed = "none"]
    /\ task' = [task EXCEPT !["autopilot"] = Idle]
    /\ queue' = Leave(queue, "autopilot")
    /\ store' \in {store} \cup
         (IF task["autopilot"].pc = "insert"
          THEN {Insert(task["autopilot"].session, task["autopilot"].fill)} ELSE {})
    /\ runtime' = IF runtimeToo THEN [runtime EXCEPT !.running = FALSE] ELSE runtime
    /\ UNCHANGED <<replay, port, change, boot, clock, answered, revived,
                   sent>>

\* reconcile_configured_paper_autonomy: a bootstrapped worker that is not
\* running is started again while the runtime is ready.
reconcile_configured_paper_autonomy ==
    /\ boot /\ _paper_runtime_ready
    /\ pilot.work \notin {"asleep", "busy"}
    /\ pilot' = [work |-> "asleep", armed |-> "none", cooled |-> TRUE]
    /\ revived' = pilot.work
    /\ UNCHANGED <<runtime, replay, port, store, queue, task, change, boot,
                   clock, answered, bounds>>

(* --- Time and restarts -------------------------------------------------- *)

Tick ==
    /\ clock < LastTick
    /\ clock' = clock + 1
    /\ pilot' = [pilot EXCEPT !.cooled = TRUE]
    /\ UNCHANGED <<runtime, replay, port, store, queue, task, change, boot,
                   answered, revived, bounds>>

\* The process stops anywhere and starts again, its wall clock possibly behind
\* the one of the last process.
Restart ==
    /\ Event
    /\ clock' \in 1..clock
    /\ port' = recover_paper_portfolio(store[Active])
    /\ runtime' = Bootstrap.runtime
    /\ replay' = NoReplay
    /\ queue' = <<>>
    /\ task' = [t \in Tasks |-> Idle]
    /\ change' = NoChange
    /\ pilot' = Bootstrap.pilot
    /\ boot' = Bootstrapped
    /\ UNCHANGED <<store, answered, revived, sent>>

Next ==
    \/ \E c \in Clients : simulate(c)
    \/ \E t \in Tasks : \/ _simulate_locked(t) \/ ensure_active_session(t)
                        \/ append(t) \/ AppendFails(t) \/ ApplyFill(t)
    \/ \E mode \in {"SIMULATION", "SHADOW", "PAPER_TRADING"} : start_runtime(mode)
    \/ stop_runtime \/ killswitch_trigger \/ killswitch_reset
    \/ replay_pause \/ replay_resume \/ replay_step \/ replay_reset
    \/ simulation_reset \/ replay_start \/ replay_restart \/ replay_seek
    \/ start_new_session \/ RotationFails \/ FinishTimeline
    \/ \E p \in Prices, i \in {"calm", "weak"} \cup Sides : _cycle(p, i)
    \/ \E b \in BOOLEAN : StopAutopilot(b)
    \/ reconcile_configured_paper_autonomy
    \/ Tick \/ Restart

Spec == Init /\ [][Next]_vars

----------------------------------------------------------------------------
InFlight(t) == task[t].pc \in {"append", "insert", "apply"}

TypeOK ==
    /\ runtime.mode \in {"SIMULATION", "SHADOW", "PAPER_TRADING", "HISTORICAL_REPLAY"}
    /\ runtime.running \in BOOLEAN /\ runtime.kill \in {"ARMED", "TRIGGERED"}
    /\ replay \in [active : BOOLEAN, paused : BOOLEAN, cursor : 0..Frames]
    /\ \A a \in Assets : port.pos[a].qty \in Int /\ port.pos[a].last \in 0..LastTick
    /\ store \in Seq(Seq([id : Nat, asset : Assets, side : Sides, qty : Nat,
                          price : Prices, at : 1..LastTick])) /\ store # <<>>
    /\ queue \in Seq(Tasks) /\ IsInjective(queue)
    /\ \A t \in Tasks : task[t].pc # "idle" <=> \E i \in DOMAIN queue : queue[i] = t

\* "Risk check, journal append and portfolio update form one critical section":
\* while an order's fill is on its way to the portfolio, the position is the one
\* its risk check saw, whatever other callers, the autopilot or the operator do
\* meanwhile, unless the whole portfolio was reset under it.
CheckStillHolds ==
    \A t \in Tasks : InFlight(t) /\ task[t].fresh =>
        port.pos[task[t].r.asset].qty = task[t].seen

\* What a caller is told about an order is durable: an order answered as
\* accepted, or as a duplicate of one, has its fill in some session of the
\* journal, across failed commits, retries, resets and restarts.
AnswersAreTrue ==
    \A a \in answered : a[2] \in {"accepted", "duplicate"} =>
        \E n \in DOMAIN store : JournalledIn(a[1], n)

\* "Portfolio state and persistent SQL journal sessions are isolated on replay
\* timeline changes": with no order and no timeline change in flight, every fill
\* the portfolio holds belongs to the active journal session.
TimelinesAreIsolated ==
    (\A t \in Tasks : ~ InFlight(t)) /\ change = NoChange =>
        \A id \in port.seen : JournalledIn(id, Active)

\* The watchdog restarts only a worker that died by itself, never one an
\* operator stopped through /paper/automation/stop.
OnlyTheDeadAreRevived == revived # "stopped"
==============================================================================
