------------------------------ MODULE Strategy ------------------------------
(***************************************************************************)
(* PROTO's own strategies on one instrument: the polled quote, the loop    *)
(* that feeds it to a strategy, the two strategies and the signals they    *)
(* hand to the agents.                                                     *)
(*                                                                         *)
(*   apps/api/app/strategy_surface.py      tick, warm-up, trend, stops     *)
(*   services/signals/proto_strategy.py    EmaCrossStrategy                *)
(*   services/research/live.py             LabSignalStrategy               *)
(*   apps/api/app/b3_quotes.py, us_quotes.py   the polled feed             *)
(*                                                                         *)
(* The loop is one task: between two of its awaits nothing else runs       *)
(* (Suspended).  Time passes everywhere, and tick keeps the time at which  *)
(* it started.  Prices are 0..2.  The averages and the lab plans decide    *)
(* by numbers that are left out: their outcome is chosen at every close.   *)
(***************************************************************************)
EXTENDS Integers, SequencesExt

CONSTANTS
    Kinds,      \* the strategies checked: a subset of {"ema", "lab"}
    BarLen,     \* time units in a bar; a minute is as long
    MaxAge,     \* _MAX_QUOTE_AGE_SECONDS
    Cooldown,   \* policy.cooldown
    Confirm,    \* policy.confirm_bars
    Need,       \* policy.slow + 1: closed bars before a decision
    History,    \* the closed bars a book keeps
    MaxHeld,    \* plan.max_bars
    MaxClock,   \* bound: time units
    MaxMoves    \* bound: polls, faults, fills, replacements, restarts

Prices == 0..2
None == -1

VARIABLES
    clock,    \* the time
    conf,     \* [klines, trend, mine, other]: settings, symbols the executor has
    feed,     \* [at, price, dropped]: the newest quote; the names left out
    task,     \* the loop: [at, now, price, kind, dir, id, seen]
    books,    \* the book of each strategy
    warmed,   \* _ema_warmed and _lab_warmed
    trend,    \* _trend: [at, level], level None when the read failed
    stop_at,  \* _stops_sent: when the last stop was sent
    agent,    \* the agent's own book: [kind, holds, cost, told]
    journal,  \* the ids of the journalled signals
    handed,   \* history: the signals handed to the agents
    moves

vars == <<clock, conf, feed, task, books, warmed, trend, stop_at, agent, journal, handed, moves>>

Idle == [at |-> "idle", now |-> 0, price |-> 0, kind |-> "ema", dir |-> "none", id |-> <<>>,
         seen |-> TRUE]

\* Both _Book classes; cross is history: the bar whose close armed the book last.
Book == [bars |-> <<>>, start |-> None, armed |-> "none", left |-> 0, signal_at |-> None,
         holding |-> FALSE, entry |-> 0, held |-> 0, cross |-> None]

Init ==
    /\ clock = 2 * BarLen
    /\ conf \in [klines : BOOLEAN, trend : BOOLEAN, mine : BOOLEAN, other : BOOLEAN]
    /\ feed = [at |-> None, price |-> 0, dropped |-> {}]
    /\ task = Idle
    /\ books = [k \in Kinds |-> Book]
    /\ warmed = {}
    /\ trend = [at |-> None, level |-> None]
    /\ stop_at = None
    /\ agent \in [kind : Kinds, holds : {FALSE}, cost : {0}, told : {"none"}]
    /\ journal = {}
    /\ handed = {}
    /\ moves = 0

Suspended == task.at \in {"idle", "turn", "download", "trend", "accept"}
Move == moves < MaxMoves /\ moves' = moves + 1
_floor(t) == t \div BarLen
SkipTo(at) == task' = [task EXCEPT !.at = at]

Passes == clock < MaxClock /\ clock' = clock + 1
          /\ UNCHANGED <<conf, feed, task, books, warmed, trend, stop_at, agent, journal, handed, moves>>

-----------------------------------------------------------------------------
\* The polled quote.

\* The executor refuses a request that names a symbol it was not configured for.
Configured == {n \in {"mine", "other"} : conf[n]}

\* skipping_unconfigured: the refused names are dropped and the read is tried
\* once more with the others.
read == LET wanted == {"mine", "other"} \ feed.dropped
        IN  [dropped |-> feed.dropped \cup (wanted \ Configured),
             names   |-> wanted \cap Configured]

\* parse_quote: a missing, crossed or undated quote is no quote.
parse_quote == {[at |-> None, price |-> 0]} \cup {[at |-> clock, price |-> p] : p \in Prices}

\* A refresh. An unusable quote replaces the old one by none; a failed read keeps it.
refresh ==
    /\ Suspended /\ Move
    /\ \/ \E q \in parse_quote :
            feed' = IF "mine" \in read.names
                    THEN [at |-> q.at, price |-> q.price, dropped |-> read.dropped]
                    ELSE [at |-> None, price |-> 0, dropped |-> read.dropped]
       \/ feed' = feed
    /\ UNCHANGED <<clock, conf, task, books, warmed, trend, stop_at, agent, journal, handed>>

\* live_quote: the newest quote, with the time the source gave it.
live_quote == [at |-> feed.at, price |-> feed.price]

-----------------------------------------------------------------------------
\* Books: closed bars are known by their number.

Keep(bars) == IF Len(bars) > History THEN SubSeq(bars, Len(bars) - History + 1, Len(bars)) ELSE bars

\* The klines of a download that ends now: the last bars closed before the one forming.
ClosedBars == [i \in 1..Need |-> _floor(clock) - Need + i - 1]

\* EmaCrossStrategy.warm: an instrument with live history is left alone.
warm_ema(b) == IF b.bars # <<>> THEN b ELSE [b EXCEPT !.bars = Keep(ClosedBars)]

\* LabSignalStrategy.warm: bars older than the first one held and the one forming.
warm_lab(b) ==
    LET cutoffs == (IF b.bars # <<>> THEN {b.bars[1]} ELSE {})
                       \cup (IF b.start # None THEN {b.start} ELSE {})
        older   == SelectSeq(ClosedBars, LAMBDA x : \A c \in cutoffs : x < c)
    IN  [b EXCEPT !.bars = Keep(older \o b.bars)]

\* What a strategy answers: its book after, the direction and the id of its signal.
Says(b, dir, id) == [book |-> b, dir |-> dir, id |-> id]
Silent(b) == Says(b, "none", <<>>)

\* The gaps between the averages before and after the close: 1 is too small to emit.
Gaps == -2..2

\* The cross, if any, of the bar that closed.
Arm(b, before, now) ==
    CASE before <= 0 /\ now > 0 -> [b EXCEPT !.armed = "LONG",  !.left = Confirm, !.cross = Last(b.bars)]
      [] before >= 0 /\ now < 0 -> [b EXCEPT !.armed = "SHORT", !.left = Confirm, !.cross = Last(b.bars)]
      [] OTHER -> b

Disarm(b) == [b EXCEPT !.armed = "none", !.left = 0]

\* A strong enough gap in the direction of the cross emits, unless in the cooldown.
Emit(b, t) ==
    IF b.signal_at # None /\ t - b.signal_at < Cooldown
    THEN Silent(Disarm(b))
    ELSE Says([Disarm(b) EXCEPT !.signal_at = t], b.armed, <<"ema", b.start, b.armed>>)

_decide(armed, now, t) ==
    IF armed.armed = "none"
    THEN Silent(armed)
    ELSE LET later == IF armed.left > 1 THEN [armed EXCEPT !.left = @ - 1] ELSE Disarm(armed)
         IN  CASE (now > 0) # (armed.armed = "LONG") -> Silent(Disarm(armed))
               [] (now > 0) = (armed.armed = "LONG") /\ now \in -1..1 -> Silent(later)
               [] OTHER -> Emit(armed, t)

_evaluate(b, t) ==
    IF Len(b.bars) < Need
    THEN {Silent(b)}
    ELSE {_decide(Arm(b, before, now), now, t) : before \in Gaps, now \in Gaps}

\* A faulty observe: the cross is kept, and confirmed, across skipped bars.
ThroughGap(b, t) ==
    LET start == _floor(t)
        close == [b EXCEPT !.bars = Keep(Append(@, b.start)), !.start = start]
    IN  CASE b.start = None -> {Silent([b EXCEPT !.start = start])}
          [] b.start # None /\ start <= b.start -> {Silent(b)}
          [] OTHER -> _evaluate(close, t)

\* EmaCrossStrategy.observe: the previous bar closed at its last mid. After a
\* skipped bar the pending cross is dropped, before and after, and only an exit comes out.
observe_ema(b, t) ==
    LET start == _floor(t)
        close == [b EXCEPT !.bars = Keep(Append(@, b.start)), !.start = start]
        exits == {IF s.dir = "SHORT" THEN [s EXCEPT !.book = Disarm(@)] ELSE Silent(Disarm(s.book)) :
                    s \in _evaluate(Disarm(close), t)}
    IN  CASE b.start = None -> {Silent([b EXCEPT !.start = start])}
          [] b.start # None /\ start <= b.start -> {Silent(b)}
          [] b.start # None /\ start - b.start = 1 -> _evaluate(close, t)
          [] OTHER -> exits

\* LabSignalStrategy._on_close: a holding runs its exit rule and its bar limit,
\* a flat book its entry rule.
_on_close(b, t, price) ==
    LET closed_at == IF (b.start + 1) * BarLen < t THEN (b.start + 1) * BarLen ELSE t
        aged == [b EXCEPT !.held = IF @ < MaxHeld THEN @ + 1 ELSE @]
        sold == Says([b EXCEPT !.holding = FALSE, !.held = 0], "SHORT", <<"lab", closed_at, "SHORT">>)
        bought == Says([b EXCEPT !.holding = TRUE, !.held = 0, !.entry = price, !.cross = Last(b.bars)], "LONG",
                       <<"lab", closed_at, "LONG">>)
    IN  CASE b.holding /\ aged.held >= MaxHeld -> {sold}
          [] b.holding /\ aged.held < MaxHeld -> {sold, Silent(aged)}
          [] OTHER -> {bought, Silent(b)}

\* LabSignalStrategy.observe: after a skipped bar a flat book decides nothing. A
\* holding is then checked against its stop and its target.
observe_lab(b, t, price) ==
    LET start  == _floor(t)
        append == [b EXCEPT !.bars = Keep(Append(@, b.start))]
        gapped == start - b.start # 1
        closed == IF gapped /\ ~b.holding
                  THEN {Silent(append)}
                  ELSE _on_close(append, t, price)
        stopped(s) == s.dir = "none" /\ s.book.holding /\ price # s.book.entry
        protect(s) == IF stopped(s)
                      THEN Says([s.book EXCEPT !.holding = FALSE, !.held = 0], "SHORT", <<"lab", t, "SHORT">>)
                      ELSE s
    IN  CASE b.start = None -> {Silent([b EXCEPT !.start = start])}
          [] b.start # None /\ start <= b.start -> {protect(Silent(b))}
          [] OTHER -> {protect([s EXCEPT !.book.start = start]) : s \in closed}

observe(kind, b, t, price) == IF kind = "ema" THEN observe_ema(b, t) ELSE observe_lab(b, t, price)

-----------------------------------------------------------------------------
\* The loop.

\* _run starts a tick: the time is read once for every instrument.
_run == /\ task = Idle
        /\ task' = [Idle EXCEPT !.at = "turn", !.now = clock]
        /\ UNCHANGED <<clock, conf, feed, books, warmed, trend, stop_at, agent, journal, handed, moves>>

\* _warm_ema and _warm_lab download once for each strategy and instrument.
NeedsWarm(k) == conf.klines /\ k \notin warmed

\* The instrument's turn in tick: a missing or stale quote feeds nothing.
tick ==
    /\ task.at = "turn"
    /\ IF live_quote.at = None \/ task.now - live_quote.at > MaxAge
       THEN task' = Idle /\ UNCHANGED warmed
       ELSE /\ task' = [task EXCEPT !.at = IF NeedsWarm(agent.kind) THEN "download" ELSE "observe",
                                    !.kind = agent.kind, !.price = live_quote.price]
            /\ warmed' = IF NeedsWarm(agent.kind) THEN warmed \cup {agent.kind} ELSE warmed
    /\ UNCHANGED <<clock, conf, feed, books, trend, stop_at, agent, journal, handed, moves>>

\* The download answers, or fails: the strategy then warms from live mids.
Download ==
    /\ task.at = "download" /\ SkipTo("observe")
    /\ \/ books' = [books EXCEPT ![task.kind] = IF task.kind = "ema" THEN warm_ema(@) ELSE warm_lab(@)]
          /\ UNCHANGED moves
       \/ Move /\ UNCHANGED books
    /\ UNCHANGED <<clock, conf, feed, warmed, trend, stop_at, agent, journal, handed>>

\* _trend_allows_entry is asked about entries of the EMA strategy only.
AsksTrend(dir, kind) == kind = "ema" /\ dir = "LONG" /\ conf.trend /\ conf.klines

\* A faulty filter: a trend once read is never read again.
TrendReadOnce == trend.at = None

\* _TREND_REFRESH after a good read, _TREND_RETRY after a failed one: here a bar.
TrendStale == trend.at = None \/ task.now - trend.at >= BarLen

\* History: the book saw every bar from its cross to the one now forming.
SeenSinceCross(b) == b.cross..b.start - 1 \subseteq Range(b.bars)

Observe ==
    /\ task.at = "observe"
    /\ \E s \in observe(task.kind, books[task.kind], task.now, task.price) :
        /\ books' = [books EXCEPT ![task.kind] = s.book]
        /\ task' = [task EXCEPT !.dir = s.dir, !.id = s.id, !.seen = SeenSinceCross(s.book),
                                !.at = CASE AsksTrend(s.dir, task.kind) /\ TrendStale -> "trend"
                                         [] AsksTrend(s.dir, task.kind) /\ ~TrendStale -> "filter"
                                         [] OTHER -> "choose"]
    /\ UNCHANGED <<clock, conf, feed, warmed, trend, stop_at, agent, journal, handed, moves>>

\* The hourly average is read anew, or the read fails.
ReadTrend ==
    /\ task.at = "trend" /\ SkipTo("filter")
    /\ \E level \in Prices \cup {None} : trend' = [at |-> task.now, level |-> level]
    /\ UNCHANGED <<clock, conf, feed, books, warmed, stop_at, agent, journal, handed, moves>>

\* An entry goes out only above a known trend.
_trend_allows_entry == trend.level # None /\ task.price > trend.level

Filter ==
    /\ task.at = "filter"
    /\ task' = IF _trend_allows_entry
               THEN [task EXCEPT !.at = "choose"]
               ELSE [task EXCEPT !.at = "choose", !.dir = "none"]
    /\ UNCHANGED <<clock, conf, feed, books, warmed, trend, stop_at, agent, journal, handed, moves>>

\* _agent_flat: an exit of the EMA strategy with nothing to sell is not sent.
_agent_flat == task.kind = "ema" /\ task.dir = "SHORT" /\ ~agent.holds

\* stopped_out: the agent's own position under its stop or over its target.
stopped_out == agent.holds /\ task.price # agent.cost

\* _protective_stop: when no signal came out, at most one a minute.
_protective_stop == stopped_out /\ (stop_at = None \/ task.now - stop_at >= BarLen)

Choose ==
    /\ task.at = "choose"
    /\ LET dir == IF _agent_flat THEN "none" ELSE task.dir
       IN  CASE dir # "none" -> SkipTo("accept") /\ UNCHANGED stop_at
             [] dir = "none" /\ _protective_stop ->
                    /\ task' = [task EXCEPT !.at = "accept", !.dir = "SHORT",
                                            !.id = <<"stop", _floor(task.now), "SHORT">>]
                    /\ stop_at' = task.now
             [] OTHER -> task' = Idle /\ UNCHANGED stop_at
    /\ UNCHANGED <<clock, conf, feed, books, warmed, trend, agent, journal, handed, moves>>

\* History: the trend an EMA entry is asked about is known, fresh and below the price.
Above == AsksTrend(task.dir, task.kind) =>
             trend.level # None /\ task.price > trend.level /\ task.now - trend.at < BarLen

\* accept_internal_signal: journalled once, then handed over. Not durable means not accepted.
accept_internal_signal ==
    /\ task.at = "accept" /\ task' = Idle
    /\ \/ /\ journal' = journal \cup {task.id}
          /\ IF task.id \in journal
             THEN UNCHANGED <<handed, agent>>
             ELSE /\ handed' = handed \cup {[dir |-> task.dir, seen |-> task.seen, above |-> Above]}
                  /\ agent' = [agent EXCEPT !.told = task.dir]
          /\ UNCHANGED moves
       \/ Move /\ UNCHANGED <<journal, handed, agent>>
    /\ UNCHANGED <<clock, conf, feed, books, warmed, trend, stop_at>>

-----------------------------------------------------------------------------
\* Around the loop.

\* The agent acts on what it was told: a buy at the quote, or a sale of what it holds.
AgentActs ==
    /\ Suspended /\ agent.told # "none"
    /\ agent' = [agent EXCEPT !.told = "none", !.holds = agent.told = "LONG",
                              !.cost = IF agent.told = "LONG" /\ ~agent.holds THEN feed.price ELSE @]
    /\ UNCHANGED <<clock, conf, feed, task, books, warmed, trend, stop_at, journal, handed, moves>>

\* The roster replaces the agent: _strategy_for then chooses another strategy.
_strategy_for ==
    /\ Suspended /\ Move
    /\ \E k \in Kinds \ {agent.kind} :
        agent' = [kind |-> k, holds |-> FALSE, cost |-> 0, told |-> "none"]
    /\ UNCHANGED <<clock, conf, feed, task, books, warmed, trend, stop_at, journal, handed>>

\* The process restarts: the books are in memory, the journal and the agents' are not.
Restart ==
    /\ Move
    /\ task' = Idle /\ books' = [k \in Kinds |-> Book] /\ warmed' = {} /\ stop_at' = None
    /\ trend' = [at |-> None, level |-> None]
    /\ feed' = [at |-> None, price |-> 0, dropped |-> {}]
    /\ agent' = [agent EXCEPT !.told = "none"]
    /\ UNCHANGED <<clock, conf, journal, handed>>

Next ==
    \/ Passes \/ refresh \/ _run \/ tick \/ Download \/ Observe \/ ReadTrend \/ Filter \/ Choose
    \/ accept_internal_signal \/ AgentActs \/ _strategy_for \/ Restart

Spec == Init /\ [][Next]_vars

-----------------------------------------------------------------------------

\* The loop, the books and the journal keep their shapes.
TypeOK ==
    /\ clock \in 0..MaxClock
    /\ task.at \in {"idle", "turn", "download", "observe", "trend", "filter", "choose", "accept"}
    /\ task.dir \in {"none", "LONG", "SHORT"}
    /\ \A k \in Kinds : Len(books[k].bars) <= History /\ books[k].armed \in {"none", "LONG", "SHORT"}
    /\ handed \subseteq [dir : {"LONG", "SHORT"}, seen : BOOLEAN, above : BOOLEAN]

\* An entry that reaches the agents rests on bars the book really saw: every bar
\* from the one that armed it to the one forming was closed from live mids or from
\* the download, however the polls, the warm-up, the replacements and the restarts
\* fell; and an EMA entry goes out only over a trend read within its refresh time
\* (observe of both strategies, warm, _trend_allows_entry).
EntriesAreUnbroken == \A s \in handed : s.dir = "LONG" => s.seen /\ s.above

\* A book holds each closed bar once, in order, wherever the warm-up fell: warm of
\* both strategies and the close in observe.
BarsAreDistinct ==
    \A k \in Kinds : \A i \in 1..Len(books[k].bars) - 1 : books[k].bars[i] < books[k].bars[i + 1]
=============================================================================
