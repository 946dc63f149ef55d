# Verification of Proto

TLA+ models of the parts of Proto in which concurrency, crashes and failing
calls decide whether the terminal keeps its promises: from the signal to the
venue and the ledger, the control plane around that path, and the surfaces and
stores that other people and programs rely on. TLC checks every model on small
instances; TLAPS proves the main safety properties of the order manager, the
executor's halt, the risk controls, the job queue, the watchdog and its coverage, the
journal, the promotion registry, the signal path, the research store, the decision
memory, the connector, the backtester, the ChatGPT profile and the paper simulator for
any number of orders, processes, requests, crashes and failed writes.

`PROJECT.json` lists the runs, the definitions' source lines, the mutations each
property detects, the hazards and the findings. Paths below are relative to
the repository.

## The system

A proposal becomes a trade along one path:

    quotes, alerts -> signal -> agent -> TradeIntent -> Risk Engine (permit)
      -> OMS (order) -> venue adapter -> venue -> ledger

- **Strategies** and the **TradingView webhook** make signals, which are journalled
  once and handed to the **agents** (`services/agents`): slots with a virtual book
  each, whose votes become candidate orders.
- The **Risk Engine** (`services/risk`) issues a signed, single-use permit when
  every limit holds on the **account** (`apps/api/app/oms_surface.py`) and no kill
  switch or lockdown is in force. The controls live in the API's memory and in a
  row of the control store.
- The **OMS** (`services/oms`) spends the permit, saves the order, holds funds in
  the ledger, calls the **venue adapter** once, and applies what it reports.
- The **executor** (`apps/executor`) is a separate process around an OMS. It
  reconciles ledger and venue and halts itself when they disagree.
- The **watchdog** (`services/watchdog`) probes API and executors and halts them.
- The **promotion registry** (`services/promotion`) says which scope may trade at
  which stage; the **research store**, with its sealed holdouts, and the
  **backtester** produce what a promotion is argued with.
- The **journal** (`services/events`) is a hash chain of operational events, the
  **orchestration** (`services/orchestration`) runs jobs from a leased queue, and
  the **decision memory** keeps what was decided and how it turned out.
- The **live monitor** stores public quotes before it shows them; the **paper
  simulator** fills orders against a portfolio of its own, by hand and by an
  autopilot; the **FinRobots** advise.
- The **MCP connector** and the **ChatGPT conversation** open parts of this to an
  external service.

All of it is asyncio over a SQL database. Code between two awaits is atomic
within a process; an await is where another task may run, the call may fail, and
the process may die. The models follow that: **one action is the code from one
await to the next**. Two SQL statements of one transaction are two steps when
another process may commit between them (`Jobs`). Where threads are used (the
MT5 bridge), every call of a handler is a step.

## Modules

| Module | Models | State | Actions |
| --- | --- | --- | --- |
| `OrderStatus` | `services/execution/contracts.py` | statuses, legal transitions | - |
| `Ledger` | `services/oms/ledger.py` | entries, guard, balances (operators) | - |
| `Oms` | `services/oms/manager.py`, `store.py` | memory, rows, ledger, spent permits, venue, the operation holding the lock | submit, resolve, refresh, cancel, recover by await; writes that raise, committed or not; venue moves; late arrivals; crash |
| `OrderLifecycle` | what the OMS promises | stage and fill of each order | open, dispatch, fill, close |
| `OmsProofs` | the proofs about `Oms` | | |
| `Executor` | `apps/executor/runtime.py` | halt in memory and row, submits, reconciliation, release | submit, reconcile, release_halt, watchdog_halt, start, crash |
| `ExecutorProofs` | the proofs about `Executor` | | |
| `RiskControls` | `services/risk/governor.py`, `apps/api/app/risk_surface.py`, `control_state.py` | controls in memory, row, connection, handlers | trigger, release, unlock, assess by await; restart |
| `RiskEngine` | `services/risk/engine.py`, `services/execution/constitution.py` | the checks of an assessment (operators) | - |
| `Account` | `apps/api/app/oms_surface.py` | executor's balances and orders, checkpoint rows, openings seen, requests | assessment, view, rebase, release by await; reads and writes that raise; fills, prices, days, outages, crash |
| `Fusion` | `services/agents/fusion.py`, `review.py` | votes, candidate orders, review (operators) | - |
| `Roster` | `services/agents/roster.py`, `pipeline.py`, `agent_surface.py`, `roster_surface.py` | tables, cache, lock, orders, tasks | evaluation and view by await, fills with fees in money or coins, marks, crash |
| `Signals` | `services/signals/tradingview.py`, `signal_surface.py` | deliveries, dedupe window, journal, hand-overs | webhook, internal signal, record, finish, ages, restart |
| `Strategy` | `services/signals/proto_strategy.py`, `services/research/live.py`, `strategy_surface.py`, quote feeds | books, loop, trend, stops | tick by await, polls, warm-up, replacement, restart |
| `FinRobots` | `services/finrobots`, `finrobot_surface.py` | sources, lock, cycles, history, journal | cycle by await, changes of the system |
| `Jobs` | `services/orchestration` | rows, stream cursor, each supervisor's place | tick, drain, recover, claim, run, finish, crash |
| `DecisionMemory` | `services/orchestration/memory.py` and its callers | table, calls, what they told | record, outcome by await, failing calls |
| `Journal` | `services/events`, `event_state.py` | table, memory of each process, calls | record, load, reconnect, lost rows |
| `JournalProofs` | the proofs about `Journal` | | |
| `Promotion` | `services/promotion`, `promotion_surface.py` | scope records in memory and table | evidence, promote, demote, violation, crash |
| `PromotionProofs` | the proofs about `Promotion` | | |
| `Watchdog` | `services/watchdog` | services, counts, flags, halts | one cycle; changes; releases; restarts |
| `WatchdogProofs` | the proofs about `Watchdog` | | |
| `WatchdogCoverage` | `watchdog_surface.py` | window in memory and store | heartbeat, put, tick, restart |
| `ControlPlane` | `RiskControls`, `Jobs` and `WatchdogCoverage` side by side | theirs | theirs |
| `ControlPlaneProofs` | the proofs about `ControlPlane` | | |
| `Venues` | `services/venues`, `apps/mt5_bridge` | one order at its venue, adapter, call, bridge threads and table | connect, submit, query, cancel, balances request by request; restarts; the market |
| `Live` | `live_monitor.py`, `live_persistence*.py`, `services/market_data` | socket, tick in work, table, snapshots, a client's walk | frames, append, prune, accept, pages, faults |
| `Paper` | `core_routes.py`, `simulation.py`, `portfolio.py`, `persistence.py`, `paper_*.py` | runtime, portfolio, sessions, lock queue, autopilot | orders by await, operator routes, autopilot cycle, restart |
| `Research` | `research_persistence.py`, `holdout_*.py`, `services/validation` | tables, requests | validate, seal, evaluate, promote, lineage by transaction |
| `Backtest` | `services/research/backtest.py`, `walkforward.py` | cash, book, pending order | a bar; a window |
| `Conversation` | `services/chatgpt`, `conversation_surface.py` | credential file, locks, row, tasks | send, models, sign-in, sign-out, refresh by await; cancellation |
| `Connector` | `mcp_oauth.py`, `mcp_surface.py`, `security.py` | clients, codes, grants, saves, row | register, approve, token, revoke, call; put; restart |
| `Records` | `Signals`, `Research`, `DecisionMemory`, `Connector` and `Backtest` side by side | theirs | theirs |
| `RecordsProofs` | the proofs about `Records` | | |
| `Locks` | `Conversation` and `Paper` side by side | theirs | theirs |
| `LocksProofs` | the proofs about `Locks` | | |

(File names without a path are under `apps/api/app/`.)

`Oms` uses `Ledger` and `OrderStatus`, and implements `OrderLifecycle` through
`INSTANCE ... WITH` (stage and fill read from the rows and from what was sent).
`Account` and `Fusion` extend `RiskEngine`, and `Roster` extends `Fusion`: a
permit in `Account` and a candidate in `Roster` come out of the same checks.

`ControlPlane`, `Records`, `Locks` and the modules `MCDesk` and `MCSurfaces` hold
instances of several components that have **no state in common**: the variable
`running` (`locking` in `Locks`) is chosen in the initial state, the behaviour is one
of that component, and the variables of the others stay as they begin or are unused.
The state space is the sum of theirs, and a property `running = "x" => X!P` is exactly
`P` of that instance. The `MC` modules give the constants values; `MCControlPlane` has two
configurations, `MCControlPlane.cfg` for one caller of each component and
`MCControlPlane_shared.cfg` for callers that share what they change (with two more
instances of the controls, `Releases` and `Single`), and `MCSurfaces` extends `Records` and `Locks` with instances of `Venues` and `Live`.

### How data is abstracted

- An order is its intent (one client order id per intent). Quantities, holds and
  prices are small integers: `Hold` per unit is reserved and `Price <= Hold` is
  paid. Ledger entries keep their ids, because idempotency hangs on them.
- A permit is an element of a set bound to an intent; signatures are trusted.
- In `Executor` an account is the orders the venue filled, those the ledger
  booked, and whether something else moved it.
- A control is a set element, so `restore` is a union. `breach` stands for an
  account beyond its daily-loss or drawdown limit.
- `RiskEngine` and `Fusion` compute on integers: fractions are basis points or
  tenths and every quotient is multiplied out, so no comparison is rounded.
  `Account` trades one instrument in one currency at one BRL.
- A journal hash is the sequence of contents it commits to: equal hashes are
  equal histories. Cryptographic collisions are excluded by that. In the same way
  a fingerprint of `Research` is what it is taken of, and tokens of `Connector`
  and `Conversation` are numbered in the order they are made.
- Jobs compare times only with now, so a row carries whether its backoff and
  its lease are over.
- Promotion counts days and the watchdog counts cycles; one evidence kind stands
  for the several real ones, and failing evidence for none.
- In the watchdog a floor is good, bad, missing or garbled. "Bad" covers each
  fault the API reports of itself, for an executor both a divergence and a stale
  reconciliation. Garbled accounts need an API that reports an absent or
  non-finite number; the current one reports `None` or decimals.
- Averages, indicators, plans and Sharpe ratios decide by numbers that are left
  out: in `Strategy` and `Backtest` their outcome is any.
- Money in `Paper` and `Backtest` is in units fine enough for averages, fees and
  slippage to be integers.

## Runs

`tlc -config <cfg> <module>`, as listed in `PROJECT.json`. The first nine pass.

| Run | Shows |
| --- | --- |
| `oms_crash` | A buy with two permits and a sell that needs what the buy brings, filled in parts, with two crashes, submits that arrive late, and at any await a write of permits, rows or ledger that raises, committed or not. An order is sent once, with permit, hold and row behind it. No hold overdraws the account or outlives its order, terminal rows agree with venue and ledger, the lifecycle is implemented, and what the venue is done with ends settled or UNKNOWN, unless a write of that order raised, the record of a fill was lost or an order arrived after it was given up. |
| `exec_halts` | An executor is open only after an agreeing reconciliation, a halt whose write has ended is in its row, and an account that stays moved ends with the executor halted for good. |
| `control_plane` | Risk controls with one request at a time, and one job supervisor: a control set during an outage reaches the row; a claim stays current within `max_attempts`, and jobs finish. |
| `journal` | Two processes on one table, a restart, a driver error and a lost row: one chain, memory is a prefix of the table, answers name stored events, calls are answered. |
| `watchdog` | Outages trip only when sustained, a side is halted only for its own faults, and a fault that stays halts every reachable side for good. |
| `shared` | Two handlers of the controls, two job supervisors and two watchdogs: a control stays in memory and, at rest, in the row until an operator releases it, no permit while a control is owed, one holder for an attempt, gap-free coverage behind WATCHDOG_ACTIVE evidence. The two races of releases and writes that do lose a control are recorded as history and exempted (below). |
| `promotion` | Two scopes of a venue, a failing database call and a crash: CANARY only after clean days since the last violation the registry took in, and no stage in force that nobody granted. |
| `desk` | Two buys competing for funds and filled in steps, with lost answers, failing writes and cancels racing fills: holds and fills are exact, but for an order that lost the record of a fill. The account under outages, days, restarts, a checkpoint table that raises and overlapping requests: the loss baseline is kept unless one request overtakes another, and an outage never loosens a limit. Two agents' overlapping evaluations, fees in money or in coins: one agent per slot, books equal to fills, no sale of another agent's position by an agent that knows its own fills. Entries rest on bars without a gap since their cross and on a trend filter in force when they were handed over, and the council reports the switches as they were. |
| `surfaces` | A token is served only under an approval that still stands. A rotated refresh token is never lost to a race, a profile keeps its account and its answers. Adapters' final reports are complete and refusals definite, but for a terminal that placed an order and answered without a result. What the monitor shows is stored, readiness is of the current connection, and a walk through the history sees every row once. A paper fill is applied to the position that was checked, and answers agree with the journal. Signals are handed over once, verdicts, lineages and decision outcomes are final. Backtest books balance. |
| `oms_double_fill`, `stacked_buys`, `venue_absent` | End with a counterexample, see Findings. |

Every property has at least one mutation of the code that breaks it; a property
that is a conjunction has one for each part, where one exists.

### Bounds

Crashes, failing calls, lost answers, external changes and operator actions have
a budget each (`MaxCrashes`, `MaxFaults`, ...), spent in the action's guard. The
hazards need at most two such events together with two actors, so budgets of one
to three and two actors reach them; every deviation below needs no more. Two orders
compete for funds; quantity 2 gives a partial fill; `MaxAttempts` 2 gives a retry
and a dead letter; grace 2 gives a count that can be interrupted; `MinPaper` 1
and two days let the clean period start over. The journal has one caller per
process, so its in-process lock is met by callers of one process only one after
the other; two processes race on the table. The executor has one order: its
halt does not depend on which order moved the account.

In `desk`, prices 500 and 440 are on the two sides of the daily-loss limit; marks
100 and 10 on the two sides of an agent's elimination; eight time
units with bars of two give a cross, a gap and a confirmation. The account has two
instances, `Account` with one request at a time and `Overlapping`; so have the agents,
`Agents` with overlapping tasks and fees in coins, and `Holders`, which start with a
position each and run one task at a time, so that a sale larger than the book is met
in few steps. In `shared` the controls have three instances: `Controls` of the theorem,
with triggers, assessments, a failing read and write and a restart; `Releases`, with
every request at once, a breach and a failing write, from the state in which the
application's startup leaves an empty store (`restore_controls` is awaited before any
request); and `Single`, one request at a time through a restart, a failing read and two
failing writes. Time 3 lets a gap in the window and its evidence meet, and a second
claim is the smallest race for an attempt. In `surfaces`, a
dedupe window of one and three deliveries give an alert that comes back after its
eviction; pages of one row over rows with equal times, a table of one open position, two
overlapping requests with different claims about one holdout, and two tasks on
one credential file are the smallest cases with a race in them.

Deadlock checking is off where a bounded clock, a bounded supply of work or a
stopped process ends the behaviour, and on in `control_plane` and `watchdog`.
Symmetry is used for interchangeable handlers, scopes and watchdogs, and never in
a run that checks liveness. `Oms` keeps its type invariant in the run, as a
theorem rests on it.

No passing run has the paper venue (`PaperVenue`), which is under the theorems, or
fills between the two reads of the account (`FillsBetweenReads`), which is the run
`stacked_buys`. In `surfaces` the live feed is Binance's; with Coinbase's, the default of
`settings.py`, one property fails (see Deviations).

### Fairness

- `Oms`: the event loop finishes an operation, a supervisor restarts the process
  (weak); the poller gets the FIFO asyncio lock although others hold it in between
  (strong). Nothing is assumed of the operator: `resolve_unknown` has no loop that
  calls it, so an order may end as UNKNOWN.
- `Executor`: the loop reconciles again and again (strong, for the lock), the
  other steps are weakly fair.
- `RiskControls`: awaits end, and proposals keep being assessed.
- `Jobs`: the supervisor task runs, a dead process restarts, time passes.
- `Journal`: coroutines go on and the lock is handed to its waiters in turn.
- `Watchdog`: only that the cycle goes on.

No fairness is assumed of venues, operators' releases or faults, except where a
budget ends them. The modules of `desk` and `surfaces` have safety properties only.

### History variables

Several promises are about what a caller may rely on. `owed` (controls),
`standing` (executor), `earliest` and `granted` (promotion), `blame` (watchdog),
`handed` (signals), `said` (adapters), `told` (research, decision memory), `lost`
and `replied` (conversation), `ever` (live) and the `line` of a grant (connector)
record that and never influence a step. In `Promotion` a violation counts once the
registry's own call has gone through every scope; a crash or an exception before
that is not held against the registry, and is a deviation below.

Others record a race or a fault after which the code does less than it promises, so
that a property can say exactly where it stops to hold, and the deviations below are
what it would say without the exemption:

- `mishaps` of `Oms`: orders that arrived after they were given up (`late`), whose
  posted fill the process did not keep (`cut`), and with a write that raised (`failed`);
- `past` of `RiskControls`: owed controls that a failed release erased when it put its
  snapshot back (`lost`), and that two handlers crossed on the row, until memory, cache
  and row agree again (`crossed`);
- `read` of a request in `Account`: the row it computed from, to tell that another
  request overtook it;
- `past` of `Roster`: agents that sized a sell without all of their own fills (`blind`),
  what a fold left out of the book (`cut`), and an order of an eliminated agent
  (`revived`);
- `silent` of an order in `Venues`: placed by a terminal that then gave no result.

`seen` in `Strategy` records for each signal whether the book had every bar since its
cross.

## Proofs

Eight modules hold theorems, each checked with `tlapm <module>.tla`. A theorem is
stated of the definition a run checks; the run shows it on an instance, the theorem
for every value of the constants that meets the assumptions named. TLC evaluates the
assumptions on the runs.

| Module | Theorem | States |
| --- | --- | --- |
| `OmsProofs` | `TypeCorrect` | `TypeOK` |
| | `NeverResent` | `SentAtMostOnce`: the venue is called at most once for an intent |
| | `AlwaysBacked` | `SentIsBacked`: what was sent has a spent permit, a posted hold and a row past NEW |
| | `AlwaysSettled` | `SettledInFull`: a stored terminal order has released its whole hold |
| | `RowsAreFinal` | `StoredOrderIsFinal`: terminal rows never change, stored fills never shrink |
| | `Refinement` | `ImplementsLifecycle` |
| `ExecutorProofs` | `HaltsAlwaysHold` | `HaltsHold`: open only after an agreeing reconciliation, a written halt is in its row |
| `ControlPlaneProofs` | `PermitsAlwaysRespectControls` | `PermitsRespectControls`; and, when no request releases, what is owed stays in force and none is lost |
| | `EvidenceAlwaysCovered` | `EvidenceIsCovered`: gap-free beats behind WATCHDOG_ACTIVE evidence |
| | `AttemptsHaveOneHolder` | `OneHolderPerAttempt` |
| | `SoleProcessKeepsItsClaims` | `ClaimsAreCurrent`, with one process |
| `JournalProofs` | `AlwaysOneHistory` | `HistoryIsOne`: one chain, memory and answers stand on it |
| `PromotionProofs` | `AlwaysEarned` | `StagesAreEarned` |
| `WatchdogProofs` | `NeverHaltsWithoutCause` | `HaltsHaveCause` |
| `RecordsProofs` | `NeverHandedTwice` | `HandedOnce` of signals |
| | `AnswersStayTrue`, `VerdictsAgree` | `RecordsAreFinal` of the research store; evaluations of one holdout are told one result |
| | `Immutable` | `MemoryIsImmutable` of the decision memory |
| | `AlwaysOneApproval` | `ServedByOneApproval`: honoured tokens descend from one approval that stands |
| | `BooksAlwaysBalance` | `BooksBalance`: a backtest's cash is never negative, and is capital and results when flat |
| `LocksProofs` | `ConversationAlwaysKept` | `ConversationIsKept`: no rotated token is presented again, no stored answer replaced |
| | `AccountAlwaysKept` | `ProfileKeepsItsAccount`, an action property |
| | `CheckAlwaysHolds` | `CheckStillHolds`: a paper fill meets the position its risk check saw |
| | `AnswersAreDurable` | `AnswersAreTrue`: an order answered as accepted or duplicate is in the journal |

None of the invariants is inductive alone. What each needs:

**`OmsProofs`**: every set of intents and permits, every quantity and price, both
kinds of venue, late arrivals or not, any number of crashes and of writes that raise
before or after their commit.
Assumptions: the named `ASSUME`s of `Oms` and `Ledger` (amounts are positive,
`Price <= Hold`, permits are bound to intents, the two assets exist). "Sent at most
once" needs to know that an order about to be sent has not been sent before, which
in turn depends on how far memory may be ahead of the row when the process dies.
`IInv` adds four facts:

- `Lag`: how memory relates to the row while the process is up (an absent memory
  record means an absent row, a terminal row equals memory, a row never has more
  fill);
- `Path`: what the operation under way has behind it at each await (before the
  call to the venue: nothing sent, a permit spent, the row NEW or SUBMITTED, the
  hold posted);
- `Unsent`: an order never sent is unknown to the venue and has no fill;
- `Money`: releases never exceed the hold, and a terminal order about to be saved
  has released all of it.

`InitIInv`, one lemma per action, `NextIInv` and `Invariance` establish it. The
refinement maps a step that writes a row or calls the venue to the lifecycle step
of that order, every other step to a stutter.

**`ExecutorProofs`**: any orders and any number of crashes, drifts, releases, trips
and failing calls. Assumptions: `BoundAssumption` (the bounds are naturals) and
`OrdersAssumption` (no order is called "start", "release" or "job"). The invariant
adds `Owners` (for whom a reconciliation works, and where that caller waits:
otherwise the end of one could end a release that is about to clear the latch) and
`Latched` (a divergence found for a start or a release is still in force when its
row is written), and drops the condition that the executor is up from the durable
half, so that it survives a start.

**`ControlPlaneProofs`, controls and coverage**: any handlers, kill switches, crashes, failing reads and writes,
and any watchdogs, gap and minimum coverage. Assumptions of `ControlPlane`:
`BoundAssumption` and `DogsAssumption` (no watchdog is called "none"). The theorem
about permits is for requests that trigger and assess (`Setting`), any number of
them at once; a release may take a control away, and races of releases are among
the deviations below. `ControlsInv` says where an owed control can be: in force or,
until the saved row has been merged, in that row or in what a handler read of it
(`MemOk`, `CallOk`); every step only adds to what is in force (`Grows`), and nothing is
lost, as no snapshot is put back (`LostStep`): the exemption in the property is empty
there. For the
coverage, `CoverageInv` says of every window, saved, cached or being written, that
its watchdog really beat at its end, and without a gap since its start as long as
that end is recent (`Backed`): late and reordered writes are then harmless.

**`ControlPlaneProofs`, jobs**: any processes, owner ids, registered jobs, attempts, crashes and
faults; assumptions `BoundAssumption` and `JobsAssumption` (`MaxAttempts` is
positive). `JobsInv` adds `Behind`: a process that holds a job has a row that counts
at least its attempt, so the next claim hands out another one. With one process
(`Alone`), `AloneInv` adds that what the supervisor read of a row is still so when it
writes, and that a claimable row has an attempt left. With two processes
`ClaimsAreCurrent` is false, since nothing renews a lease while a job runs.

**`JournalProofs`**: any processes, callers, keys, restarts and failing calls;
`BoundAssumption` is that the bounds are naturals. `IInv` is the state's `Shape` and,
as long as the storage lost no row, `OneChain` (no sequence number missing or taken
twice, rows agree on their common past), `Remembered` (memory holds stored hashes
and keys), `Prepared` (an event being written has a stored predecessor) and
`Answered`. No fact about the lock is needed: the unique columns decide between two
successors. That a non-empty table has a first row is shown with a minimal
sequence number (`WFMin`).

**`PromotionProofs`**: any scopes and venues, paper period, crashes, failing saves
and days; assumptions `ScopesAssumption` (finitely many scopes, "no venue" is not a
venue) and `BoundAssumption`. `IInv` carries the promise to the rows: `Floors` (clean
days and CANARY are no older than the last violation taken in, in memory and in the
row), `Loading` (operations run on loaded records), `Sweep` (how far a violation has
come through the scopes of its venue) and `InStep` (until a call raises, the row
has the stage last granted).

**`WatchdogProofs`**: any nodes, graces, faults, lost messages, releases and
restarts. `WatchdogAssumption`: finitely many nodes, none named like a built-in side,
positive graces. `IInv` adds `Counting` (a count is never ahead of the failures in
a row) and `Causes` (a halt under way, or one the store would bring back, already
has its cause).

**`RecordsProofs`**: any alerts, deliveries, window, experiments, contexts, requests,
decisions, writers, clients, lifetimes, prices, restarts and failing calls. The one
assumption is the backtester's, `LabAssumption`: prices come in units of which the
tenths for fees and slippage are whole, and the capital is positive. `RecordsInv` is
the invariant of whichever part is running.

- `SignalsInv`: what was handed over is in the journal (`Journalled`), a delivery
  which created an event has yet to hand it over (`Creates`), and no two created the
  same one (`OneCreator`). The dedupe window plays no part, which is why it may be
  evicted or lost.
- `ResearchInv`: what a request is about to insert, a whole lineage or rows of none,
  and for an evaluation the consumption row of its own seal (`Inserts`); and that ids
  are keys (`RowsKeyed`). A second lineage of a correlation id then clashes on its
  prediction row, whatever else of it differs.
- `MemoryInv`: one row per id (`TableKeyed`), what a call is about to write belongs
  to its kind (`Purpose`), and an outcome that was answered is one (`Answers`).
- `ConnectorInv`: the tokens in memory, in the save under way and in the row descend
  from approvals and leave each one refresh token (`Descend`). A code that can be
  redeemed has no token yet (`Redeemable`). A save was made by this process and knows
  what was revoked before it (`Saving`), and the row holds nothing a completed save
  recorded as revoked (`Saved`), so a restart brings nothing back.
- `LabInv`: cash, what was paid for the open position and its fee add up to the capital
  and the results (`Balanced`). The property speaks of flat books only; a sale is exact
  because of what an open book has behind it.

**`LocksProofs`**: any tasks, accounts, clients, assets, limits, failing commits and
restarts. `TaskAssumption`: no task has the name that stands for an unheld lock.
`LocksInv` is the invariant of whichever part is running.

- `ProfileInv`: which tasks hold the file lock and what of the file they may rely on
  (`TaskOK`), that the file's refresh token is one the server honours or whose answer
  was lost (`DiskOK`), and that replies are in the row and the row was asked for
  (`Kept`). `AccountAlwaysKept` needs the middle of `TaskOK`: a task about to write the
  file has read the account that is in it.
- `PaperInv`: an order whose fill is on its way holds the lock, its check still stands
  unless the portfolio was reset, and once its insert is over the fill is in some
  session (`Flight`). Sessions are only added and only grow (`Sessions`), so an answer
  once true stays true (`Answered`).

Most leaves are Zenon's and the few that need arithmetic, records or sequences cite
SMT; the composed modules avoid large libraries, since everything a module extends is
part of every obligation.

Only model-checked:

- all liveness, and ENABLED: outside this prover;
- the properties of money that sum over the ledger (`FundsAreSafe`,
  `HoldsFollowFills`, `OnlyLostFillsCountTwice`, `TerminalAgrees`): sums need induction over
  data;
- `ControlsStay`, and `PermitsRespectControls` where requests release: they rest on
  what `past` records of every race;
- `ClaimsAreCurrent` with more than one process: false, as the deviations show;
- the properties of the other modules of `desk` and `surfaces` (`Account`, `Roster`,
  `Strategy`, `FinRobots`, `Venues`, `Live`).

## Findings

- `oms_double_fill`: fill entries are keyed by the cumulative fill. After a crash
  between posting a partial fill and saving the row, and more fill before the order
  is resolved, the first part is counted again. The order manager's document says
  that a fill posted just before the crash is not counted twice.
- `stacked_buys`: the account reads balances and open orders in two awaits. A buy
  that fills in between is in neither, and the next buy is permitted above the
  position budget that, says the engine, stacking buys "can never" exceed.
- `venue_absent`: the MT5 bridge looks an order up in its own table, which its
  submit writes after the terminal has the order. A query in between, after the
  OMS gave up on the submit, gets "not found", and the OMS takes that as "the venue
  confirms it never received the order".

`PROJECT.json` quotes the sentences.

### Deviations

These are other sentences of the repository that the models refute. Each is
reproduced by taking the instance named, with the property in place of its
own properties and the constants changed as shown. "Without" names an exemption
to take out of a property.

| Instance | Property | What happens |
| --- | --- | --- |
| `MCOms_doublefill` | `FillsAlwaysRecorded` | After the same crash the ledger's guard refuses the batch for ever, although fills are "always recorded". |
| `MCOms_crash`, `PaperVenue = TRUE` | `RejectedTradedNothing` | The paper venue forgets an order whose fill is in the ledger; resolving it records REJECTED. |
| `MCOms_crash` | `RejectedStaysAway` | "Not found" only says the order has not arrived yet. |
| `MCExecutor` | `RestartKeepsTheHalt` | A watchdog halt whose row was not written is gone after a restart. |
| `Releases` of `MCControlPlane_shared` | `OnlyOperatorsRelease` without `past.lost` | A release whose write fails puts back a snapshot kept over an await, and erases a control set meanwhile. With two `Kills` and two failing writes one handler is enough. |
| the same | `PermitNeedsNothingOwed` without `past.lost` | After that, a permit is issued although the control is owed. |
| the same | `QuietMeansSaved` without `~past.crossed` | Two writes reach the row in the other order, or a row read before a write is merged after it. |
| `Overlapping` of `MCDesk` | `LossBasisIsKept` without `Overtaken` | Two requests read the checkpoint and write it one after the other (`oms_surface.py:503`, `:520`): the older peak may be written last. |
| `Jobs` of `MCControlPlane_shared` | `OnlyTheHolderFinishes` | A lease is never renewed and all processes sign with one worker id: an old holder records the outcome of a newer attempt. |
| `Jobs` of `MCControlPlane`, one message, no mission | `EventsBecomeJobs` | The cursor passes an event before it is enqueued; a failing enqueue loses it. |
| the same, `Flooded` TRUE | `JobsFinish` | A steady stream keeps the drain from returning; no job runs. |
| `MCJournal` | `FailedRecordsNothing` | A lost acknowledgement is reported as a failed write. |
| `MCJournal` | `CorruptedStays` | A locked journal opens again after a reconnection. |
| `MCJournal`, `MaxEvents = 4` | `OnlyValidWrites` | The integrity is not tested again under the lock. |
| `MCWatchdog` | `UnreadAccountHalts` | The count of an unreadable account is reset each cycle. |
| `MCWatchdog`, `MaxChanges = 3` | `MarketIsSustained` | Misses are added up over cycles without a reading. |
| `Coverage` of `MCControlPlane_shared` | `EvidenceMayHalt` | That halts are disabled is not stored with the window. |
| `Agents` of `MCDesk`, `MaxTasks` 3 | `EliminatedNeverTrades` | An agent eliminated by another task while its evaluation awaits the review still places its order (`roster.py:534`). |
| `Inbox` of `MCSurfaces` | `AcknowledgedIsDurable` | A duplicate is acknowledged while its first delivery is still being journalled, and that write may fail (`signal_surface.py:126`). |
| `Bars` of `MCDesk` | `BarsAreDistinct` | A download that ends after a bar boundary brings the bar that the tick, which keeps its own time, then opens and closes a second time (`strategy_surface.py:169`, `:181`). |
| `Paper` of `MCSurfaces` | `TimelinesAreIsolated` | A timeline change does not take the simulation lock: a fill checked in one session is stored in the next (`core_routes.py:302`, `:366`). |
| `Paper` of `MCSurfaces` | `OnlyTheDeadAreRevived` | The bootstrap starts an autopilot again that an operator has stopped (`paper_autonomy_bootstrap.py:155`). |
| `Store` of `MCSurfaces` | `EligibleHasAHoldout` | A promotion request's own statement about the holdout is believed (`promotion_guard_surface.py:107`). |
| `Lab` of `MCSurfaces` | `EliminatedStopsTrading` | Elimination is forgotten at the next test window (`walkforward.py:145`). |
| `Adapters` of `MCSurfaces` | `PlacedOnce` | The bridge stops between `terminal.send` and the write of its table: the same id submitted again is placed again. The OMS itself submits once. |
| `Feed` of `MCSurfaces`, `Provider` "coinbase" | `AcceptedIsStored` | Sequence numbers start over on a new socket, and a tick whose key is stored already counts as stored (`live_persistence.py:145`). |

Three exemptions of the properties stand for behaviour that nothing in the repository
denies in so many words. A terminal that places an order and returns no result is
answered as REJECTED (`apps/mt5_bridge/service.py:265`). A failing `sync_fills` is not
noticed by the evaluation that called it (`agent_surface.py:264`), so an agent may sell
more than it holds. And when a ledger post raises, memory and row are left as they were:
an order that was SUBMITTED is then not polled, and only a restart resolves it.

One sentence is simply out of date: `docs/executor/isolated-executor.md:141` says that the
halt state "lives in memory", while `runtime.py` keeps a row of it and restores it on
start (`HALT_RESTORED`), as `Executor` models.

Two more follow from the actions `ViolationUnread` and `SaveRaises` of `Promotion`
and are therefore outside its properties: the hook swallows an exception of the
registry, so the violation is lost; and a save that raises inside the loop leaves
the remaining scopes untouched. And a shadow job that is run again after its record
was stored ends with an error (`services/orchestration/memory.py:117`), since its
`recorded_at` differs: the record stays as it was told.

## What is left out

Within the modelled parts:

- `store.heartbeat` of the job queue has no caller.
- The watchdog's and the API's modes with halts turned off only report.
- A registry without an engine never saves; only the durable one is modelled.
- In `Oms`: fees, slippage and tick sizes. The fee is part of `Price`, so a fee
  charged in the base asset or in a third one is not covered (in `Roster` a fee may be in coins).
- An order admitted by the executor just before a halt is sent after it, and a
  fill between the two reads of a reconciliation halts the executor. Both are in
  the model; the code promises neither the contrary nor more.
- `Account`: the in-process backend, and accounts in several currencies.
- `Venues`: a market order converted at a quote, the filters of an instrument,
  deals older than the seven days the bridge asks the terminal for, and a terminal
  whose history lags behind its own list of orders.
- `Paper`: uploads of replay data.
- `Live`: the broadcast to browsers; and an exception of `ingest_tick` other than the
  journal's own, which ends the monitor's task for good (`live_monitor.py:363`): there
  is nothing after it to check.
- `Roster`: several instruments in one slot.
- Clocks that jump: every model reads one clock that does not go back.

Not modelled at all: quant, statistics, indicators and features (floating point
and no state; a model on integers would not say what they compute); pure views and
conversions of state that is modelled elsewhere; the circuit-breaker decision and
the reconciliation guard (functions of one request's arguments); the catalogue and
the sizing formula; drills, user interface, infrastructure and migrations.
`PROJECT.json` lists each with its reason.
