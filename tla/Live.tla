--------------------------------- MODULE Live ---------------------------------
(***************************************************************************)
(* The public live monitor: the WebSocket ticker adapter with its parse    *)
(* errors and reconnections (services/market_data/public_ws_adapter.py),   *)
(* the ingestion of a tick (apps/api/app/live_monitor.py) through data     *)
(* quality (core.py), the durable journal (live_persistence.py and its     *)
(* coordinator), the normalized pipeline (pipeline.py) and the commit to   *)
(* the snapshots, GET /live/ready, and the cursor-paged history.           *)
(*                                                                         *)
(* The monitor is one asyncio task: it yields at the socket, at the        *)
(* journal's commit and prune, and at the publication; status and history  *)
(* requests, cancellation and the clock come in between.                   *)
(***************************************************************************)
EXTENDS Integers, FiniteSets, Sequences, Functions

CONSTANTS
    Symbols,
    Provider,        \* "binance" or "coinbase": whose frames are parsed
    Mids,            \* the market: Mids[t+1] is the mid at t, 0 an unusable quote
    StaleAfter, FutureSkew, SourceStale,
    MaxJump,         \* max_relative_price_jump, per cent
    MaxParseErrors, DedupeLimit,
    Retention, PruneEvery,
    PageLimit,
    Ranges,          \* <<start_at, end_at>> of history queries
    LastTick,        \* bound: the clock
    MaxFrames,       \* bound: ticker frames received
    MaxEvents        \* bound: faults, restarts and history walks

VARIABLES
    now,
    adapter,   \* [connected, gen, errs, heard]; heard is last_message_at
    sent,      \* external: the last sequence_num of the feed on this socket
    task,      \* the monitor's task: [pc, ticks]; the head of ticks is ingested
    mon,       \* [gen, latest, received, symGen]
    pipe,      \* the pipeline: [last, seen]
    per,       \* [journal, required, err, jerr, writes]
    rows,      \* the table live_market_ticks
    walk,      \* a client walking the history with cursors
    ever,      \* history: the ticks that were in the table at some time
    heardNow,  \* history: symbols accepted since the socket was opened
    frames, events

vars == <<now, adapter, sent, task, mon, pipe, per, rows, walk, ever, heardNow,
          frames, events>>

None == [at |-> -1]
NoTick == [s \in Symbols |-> None]
Never == [s \in Symbols |-> -1]
Off == [pc |-> "off", ticks |-> <<>>]
NoWalk == [pc |-> "none"]

Abs(n) == IF n < 0 THEN -n ELSE n

Adapter0 == [connected |-> FALSE, gen |-> 0, errs |-> 0, heard |-> -1]
Monitor0(g) == [gen |-> g, latest |-> NoTick, received |-> Never, symGen |-> Never]
Pipeline0 == [last |-> NoTick, seen |-> <<>>]
Persistence(on) == [journal |-> on, required |-> on, err |-> FALSE,
                    jerr |-> FALSE, writes |-> 0]

Init ==
    /\ now = 0
    /\ adapter = Adapter0 /\ sent = 0 /\ task = Off /\ mon = Monitor0(0) /\ pipe = Pipeline0
    /\ per = Persistence(FALSE)
    /\ rows = {} /\ walk = NoWalk /\ ever = {} /\ heardNow = {}
    /\ frames = 0 /\ events = 0

----------------------------------------------------------------------------
(* Data quality and the parsers.                                           *)

\* DataQualityMonitor.evaluate: no issue, against the last committed tick.
evaluate(previous, t, clock) ==
    /\ t.mid > 0
    /\ clock - t.at <= StaleAfter /\ t.at - clock <= FutureSkew
    /\ previous # None =>
        /\ t.seq > previous.seq /\ t.at >= previous.at
        /\ Abs(t.mid - previous.mid) * 100 <= MaxJump * previous.mid

\* A Binance frame holds one symbol and its event time is the sequence; a
\* Coinbase frame may hold several, under the sequence_num of the connection.
parse(S, at, n) ==
    LET listed == CHOOSE order \in Bijection(1..Cardinality(S), S) : TRUE
    IN  [i \in DOMAIN listed |->
            [symbol |-> listed[i], at |-> at, mid |-> Mids[at + 1],
             seq |-> IF Provider = "binance" THEN at ELSE n]]

FrameSymbols ==
    {S \in SUBSET Symbols : S # {} /\ (Provider = "binance" => Cardinality(S) = 1)}

----------------------------------------------------------------------------
(* The adapter's stream.                                                   *)

Dropped == /\ adapter' = [adapter EXCEPT !.connected = FALSE]
           /\ task' = [pc |-> "sleep", ticks |-> <<>>]

\* The backoff ends and the connection succeeds.
Connect ==
    /\ task.pc \in {"connect", "sleep"} /\ frames < MaxFrames
    /\ adapter' = [adapter EXCEPT !.connected = TRUE, !.gen = @ + 1, !.errs = 0]
    /\ sent' = 0
    /\ task' = [pc |-> "recv", ticks |-> <<>>]
    /\ heardNow' = {}
    /\ UNCHANGED <<now, mon, pipe, per, rows, walk, ever, frames, events>>

\* The handshake, the subscription or the socket fails, or no message came
\* within message_timeout_seconds.
Disconnect ==
    /\ task.pc \in {"connect", "recv"} /\ events < MaxEvents
    /\ Dropped /\ events' = events + 1
    /\ UNCHANGED <<sent, now, mon, pipe, per, rows, walk, ever, heardNow, frames>>

\* A frame that cannot be parsed: the connection is given up at the limit.
Malformed ==
    /\ task.pc = "recv" /\ events < MaxEvents /\ events' = events + 1
    /\ LET a == [adapter EXCEPT !.errs = @ + 1, !.heard = now]
           full == a.errs >= MaxParseErrors
       IN  /\ adapter' = [a EXCEPT !.connected = ~ full]
           /\ task' = [task EXCEPT !.pc = IF full THEN "sleep" ELSE "recv"]
    /\ UNCHANGED <<sent, now, mon, pipe, per, rows, walk, ever, heardNow, frames>>

\* A heartbeat, or a ticker of no supported product.
Heartbeat ==
    /\ task.pc = "recv" /\ adapter.heard # now
    /\ adapter' = [adapter EXCEPT !.heard = now]
    /\ UNCHANGED <<sent, now, task, mon, pipe, per, rows, walk, ever, heardNow,
                   frames, events>>

\* A ticker frame; its time stamp may lag or lead the server's clock.
Ticker(S, at) ==
    /\ task.pc = "recv" /\ frames < MaxFrames /\ frames' = frames + 1
    /\ adapter' = [adapter EXCEPT !.errs = 0, !.heard = now]
    /\ sent' = sent + 1
    /\ task' = [pc |-> "ingest", ticks |-> parse(S, at, sent')]
    /\ UNCHANGED <<now, mon, pipe, per, rows, walk, ever, heardNow, events>>

----------------------------------------------------------------------------
(* ingest_tick.                                                            *)

tick == Head(task.ticks)
NextTick(ticks) == [pc |-> IF Tail(ticks) = <<>> THEN "recv" ELSE "ingest",
                    ticks |-> Tail(ticks)]
At(pc) == [task EXCEPT !.pc = pc]

_sync_connection_generation(m, g) == IF m.gen = g THEN m ELSE Monitor0(g)

\* The quality and sequence checks, up to the journal; received_at is taken.
Ingest ==
    /\ task.pc = "ingest"
    /\ LET m == _sync_connection_generation(mon, adapter.gen)
           p == IF m.gen = mon.gen THEN per ELSE [per EXCEPT !.err = FALSE]
           sound == evaluate(m.latest[tick.symbol], tick, now)
           On(pc) == [pc |-> pc, ticks |-> task.ticks, received |-> now]
       IN  /\ mon' = m
           /\ pipe' = IF m.gen = mon.gen THEN pipe ELSE Pipeline0
           /\ per' = [p EXCEPT !.err = @ \/ (sound /\ p.required /\ ~ p.journal)]
           /\ task' = IF sound /\ p.journal THEN On("append")
                      ELSE IF sound /\ ~ p.required THEN On("publish")
                      ELSE NextTick(task.ticks)
    /\ UNCHANGED <<sent, now, adapter, rows, walk, ever, heardNow, frames, events>>

\* The unique key (venue, symbol, sequence) of the table.
Clashes(t) == \E r \in rows : r.symbol = t.symbol /\ r.seq = t.seq
NextId == 1 + Cardinality(ever)
Stored(t) ==
    IF Clashes(t) THEN UNCHANGED <<rows, ever>>
    ELSE /\ rows' = rows \cup {[id |-> NextId, symbol |-> t.symbol, seq |-> t.seq,
                                at |-> t.at, received |-> task.received,
                                gen |-> adapter.gen]}
         /\ ever' = ever \cup {<<t.symbol, t.seq, t.at, NextId>>}

\* AsyncSqlLiveTickJournal.append: inserted, or the row is already there; every
\* PruneEvery-th insert also prunes.
append ==
    /\ task.pc = "append"
    /\ Stored(tick)
    /\ LET w == IF Clashes(tick) THEN per.writes ELSE per.writes + 1
       IN  /\ per' = [per EXCEPT !.err = FALSE, !.jerr = FALSE,
                                 !.writes = IF w >= PruneEvery THEN 0 ELSE w]
           /\ task' = At(IF w >= PruneEvery THEN "prune" ELSE "publish")
    /\ UNCHANGED <<sent, now, adapter, mon, pipe, walk, heardNow, frames, events>>

\* A faulty persist_before_accept that lets a tick through on a failed write.
AcceptUnwritten(required) == At("publish")

\* persist_before_accept after a failed write.
persist_failed(required) == IF required THEN NextTick(task.ticks) ELSE At("publish")

\* The commit fails; it may have taken effect.
AppendFails(stored) ==
    /\ task.pc = "append" /\ events < MaxEvents /\ events' = events + 1
    /\ IF stored THEN Stored(tick) ELSE UNCHANGED <<rows, ever>>
    /\ per' = [per EXCEPT !.err = TRUE, !.jerr = TRUE]
    /\ task' = persist_failed(per.required)
    /\ UNCHANGED <<sent, now, adapter, mon, pipe, walk, heardNow, frames>>

Expired(cutoff) == {r \in rows : r.received < cutoff}

prune_before ==
    /\ task.pc = "prune"
    /\ rows' = rows \ Expired(task.received - Retention)
    /\ task' = At("publish")
    /\ UNCHANGED <<sent, now, adapter, mon, pipe, per, walk, ever, heardNow, frames, events>>

\* A failed prune is counted and the tick goes on.
PruneFails ==
    /\ task.pc = "prune" /\ events < MaxEvents /\ events' = events + 1
    /\ task' = At("publish")
    /\ UNCHANGED <<sent, now, adapter, mon, pipe, per, rows, walk, ever, heardNow, frames>>

event_id(t) == <<t.symbol, t.at, t.seq>>
_remember_event_id(seen, i) ==
    Append(IF Len(seen) >= DedupeLimit THEN Tail(seen) ELSE seen, i)

\* What MarketDataPipeline.ingest refuses: a duplicate, or a quality issue at
\* the time of receipt.
Refused == \/ event_id(tick) \in Range(pipe.seen)
           \/ ~ evaluate(pipe.last[tick.symbol], tick, task.received)

Committed == [last |-> [pipe.last EXCEPT ![tick.symbol] = tick],
              seen |-> _remember_event_id(pipe.seen, event_id(tick))]

\* The pipeline publishes and commits; then the tick is evaluated again, now,
\* and committed to the snapshots and the fan-out, or dropped.
Accept ==
    /\ task.pc = "publish"
    /\ IF Refused THEN UNCHANGED <<pipe, mon, heardNow>>
       ELSE /\ pipe' = Committed
            /\ IF evaluate(mon.latest[tick.symbol], tick, now)
               THEN /\ mon' = [mon EXCEPT !.latest[tick.symbol] = tick,
                                          !.received[tick.symbol] = task.received,
                                          !.symGen[tick.symbol] = adapter.gen]
                    /\ heardNow' = heardNow \cup {tick.symbol}
               ELSE UNCHANGED <<mon, heardNow>>
    /\ task' = NextTick(task.ticks)
    /\ UNCHANGED <<sent, now, adapter, per, rows, walk, ever, frames, events>>

\* The event bus is down: the frame is rejected.
PublishFails ==
    /\ task.pc = "publish" /\ ~ Refused /\ events < MaxEvents /\ events' = events + 1
    /\ task' = NextTick(task.ticks)
    /\ UNCHANGED <<sent, now, adapter, mon, pipe, per, rows, walk, ever, heardNow, frames>>

----------------------------------------------------------------------------
(* GET /live/ready.                                                        *)

Fresh(t, limit) == t >= 0 /\ now - t <= limit

\* A faulty coverage that does not compare connection generations.
AnyConnection(s) == adapter.connected

\* The symbol was observed on the connection that is open now.
CurrentConnection(s) ==
    adapter.connected /\ adapter.gen > 0 /\ mon.symGen[s] = adapter.gen

\* evaluate_live_coverage for one symbol.
Covered(s) ==
    /\ mon.latest[s] # None /\ CurrentConnection(s)
    /\ Fresh(mon.latest[s].at, StaleAfter) /\ Fresh(mon.received[s], StaleAfter)

\* The health of the stream and of the journal, as the monitor reports them.
source_healthy == adapter.connected /\ Fresh(adapter.heard, SourceStale) /\ adapter.errs = 0
persistence_healthy == per.required => per.journal /\ ~ per.err /\ ~ per.jerr

live_ready ==
    /\ task # Off
    /\ source_healthy /\ persistence_healthy
    /\ \A s \in Symbols : Covered(s)

----------------------------------------------------------------------------
(* GET /live/history/{symbol}.                                             *)

\* A faulty cursor condition without the row id.
PastTimeOnly(r, c) == r.received < c.received

\* The rows after a cursor, going down in (received_at, id).
PastCursor(r, c) ==
    \/ r.received < c.received
    \/ r.received = c.received /\ r.id < c.id

Matching(q) == {r \in rows : r.symbol = q.symbol /\ q.range[1] <= r.received
                                                 /\ r.received <= q.range[2]}
\* The order of the answer, by the time received and the id, both descending.
Newer(x, r) ==
    \/ x.received > r.received
    \/ x.received = r.received /\ x.id > r.id
Newest(R) ==
    [i \in 1..Cardinality(R) |->
        CHOOSE r \in R : Cardinality({x \in R : Newer(x, r)}) = i - 1]

\* The opaque cursor names the last row of the page by (received_at, id).
Cursor(page) == IF page = <<>> THEN None ELSE page[Len(page)]

\* list_page, with the rows past the cursor, if there is one.
list_page(w) ==
    LET found == Newest({r \in Matching(w) : w.pc = "first" \/ PastCursor(r, w.cursor)})
        page == SubSeq(found, 1, IF Len(found) < PageLimit THEN Len(found) ELSE PageLimit)
    IN  [w EXCEPT !.got = @ \o page,
                  !.pc = IF Len(found) > PageLimit THEN "more" ELSE "done",
                  !.cursor = Cursor(page)]

BeginWalk(s, range) ==
    /\ per.journal /\ walk = NoWalk /\ events < MaxEvents /\ events' = events + 1
    /\ LET w == [pc |-> "first", symbol |-> s, range |-> range, cursor |-> None,
                 got |-> <<>>, begin |-> {}]
       IN  walk' = list_page([w EXCEPT !.begin = Matching(w)])
    /\ UNCHANGED <<sent, now, adapter, task, mon, pipe, per, rows, ever, heardNow, frames>>

NextPage ==
    /\ per.journal /\ walk.pc = "more"
    /\ walk' = list_page(walk)
    /\ UNCHANGED <<sent, now, adapter, task, mon, pipe, per, rows, ever, heardNow,
                   frames, events>>

----------------------------------------------------------------------------
(* The application's lifespan, and the clock.                              *)

\* LiveCryptoMonitor.start: the worker task, about to connect.
Started == [pc |-> "connect", ticks |-> <<>>]

\* LiveDurabilityRuntime.start prunes what expired, then the monitor starts;
\* the adapter, the monitor and their state are new with the process.
Boot(on) ==
    /\ task = Off /\ frames < MaxFrames
    /\ rows' = IF on THEN rows \ Expired(now - Retention) ELSE rows
    /\ per' = Persistence(on)
    /\ task' = Started
    /\ adapter' = Adapter0 /\ mon' = Monitor0(0) /\ pipe' = Pipeline0 /\ heardNow' = {}
    /\ UNCHANGED <<sent, now, walk, ever, frames, events>>

\* A shutdown cancels the task wherever it waits, a crash ends it there: a
\* commit under way may still take effect.
Down(stored) ==
    /\ task # Off /\ events < MaxEvents /\ events' = events + 1
    /\ IF stored /\ task.pc = "append" THEN Stored(tick) ELSE UNCHANGED <<rows, ever>>
    /\ task' = Off /\ per' = Persistence(FALSE)
    /\ adapter' = [adapter EXCEPT !.connected = FALSE]
    /\ UNCHANGED <<sent, now, mon, pipe, walk, heardNow, frames>>

Tick == /\ now < LastTick /\ now' = now + 1
        /\ UNCHANGED <<sent, adapter, task, mon, pipe, per, rows, walk, ever, heardNow,
                       frames, events>>

Next ==
    \/ Connect \/ Disconnect \/ Malformed \/ Heartbeat
    \/ \E S \in FrameSymbols, at \in (now - 2..now + 1) \cap (0..LastTick) : Ticker(S, at)
    \/ Ingest \/ append \/ prune_before \/ PruneFails \/ Accept \/ PublishFails
    \/ \E b \in BOOLEAN : AppendFails(b) \/ Boot(b) \/ Down(b)
    \/ \E s \in Symbols, g \in Ranges : BeginWalk(s, g)
    \/ NextPage
    \/ Tick

Spec == Init /\ [][Next]_vars

----------------------------------------------------------------------------
TypeOK ==
    /\ now \in 0..LastTick
    /\ adapter \in [connected : BOOLEAN, gen : Nat, errs : 0..MaxParseErrors,
                    heard : -1..LastTick]
    /\ task.pc \in {"off", "connect", "sleep", "recv", "ingest", "append", "prune",
                    "publish"}
    /\ task.pc \in {"ingest", "append", "prune", "publish"} <=> task.ticks # <<>>
    /\ rows \in SUBSET [id : Nat, symbol : Symbols, seq : Nat, at : Nat,
                        received : Nat, gen : Nat]
    /\ Len(pipe.seen) <= DedupeLimit
    /\ walk.pc \in {"none", "more", "done"}

\* "A tick must be durably committed or confirmed idempotently present before it
\* may enter the accepted snapshot": while persistence is required, the latest
\* tick of every symbol was stored, that observation and not another one under
\* its number, through failed commits, reconnections and restarts.
AcceptedIsStored ==
    \A s \in Symbols : per.required /\ mon.latest[s] # None =>
        \E n \in 1..Cardinality(ever) :
            <<s, mon.latest[s].seq, mon.latest[s].at, n>> \in ever

\* Readiness is about the open connection only: GET /live/ready answers ready
\* only when every symbol was accepted since the socket was opened, never from
\* snapshots of a connection that was lost or from stored history.
ReadyIsCurrent == live_ready => heardNow = Symbols

\* What the live surface shows was stored, and is of the connection that is open.
ShownIsReal == AcceptedIsStored /\ ReadyIsCurrent

\* "Pagination must not duplicate or skip rows": a client that follows the
\* cursors to the end, while ticks are inserted and pruned between its pages,
\* gets no row twice and misses no row that was there when it began and still is.
WalkIsComplete ==
    walk.pc # "none" =>
        /\ IsInjective(walk.got)
        /\ walk.pc = "done" => walk.begin \cap rows \subseteq Range(walk.got)
==============================================================================
