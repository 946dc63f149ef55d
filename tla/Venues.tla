------------------------------- MODULE Venues -------------------------------
(***************************************************************************)
(* The venue adapters of the executor, and the MT5 bridge: what the OMS is *)
(* told about one client order id, and what the venue really holds.        *)
(*                                                                         *)
(*   services/venues/binance.py     BinanceSpotAdapter                     *)
(*   services/venues/alpaca.py      AlpacaPaperAdapter                     *)
(*   services/venues/xp_mt5.py      XpMt5Adapter                           *)
(*   apps/mt5_bridge/service.py     the bridge, one thread per request     *)
(*   apps/mt5_bridge/gateway.py     the terminal                           *)
(*                                                                         *)
(* The OMS makes one call at a time for an order (its per-order lock), so  *)
(* there is one call; every HTTP request in it is a step.  A request to    *)
(* Binance or Alpaca is handled before its call ends, or never: those      *)
(* venues are external.  The bridge is not: the thread that serves a       *)
(* request keeps running when the adapter gives up on it.                  *)
(***************************************************************************)
EXTENDS Integers, Sequences

CONSTANTS
    Kinds,       \* the adapters checked: a subset of {"binance", "alpaca", "xp"}
    Quantity,    \* the order's quantity, in lots
    MaxSubmits,  \* bound: submits of the id (the OMS makes one)
    MaxCalls,    \* bound: calls of the adapter
    MaxFaults,   \* bound: lost answers, odd replies, bridge restarts
    MaxMoves     \* bound: what the outside world does by itself

VARIABLES
    venue,    \* the adapter in use
    order,    \* [type, tif]: what the OMS asks for
    world,    \* [open, mode]: the exchange session; the account of the terminal
    placed,   \* the orders the venue holds under the id: [state, filled, assets, silent]
    adapter,  \* [up, loaded, env, left_demo, synced]
    call,     \* the call in progress: [op, at, state, filled]
    bridge,   \* the bridge's handler threads, one per operation
    store,    \* the ticket the bridge's table has for the id; 0: no row
    said,     \* what the OMS was told: [refused, absent, final]
    counts    \* [submits, calls, faults, moves]

vars == <<venue, order, world, placed, adapter, call, bridge, store, said, counts>>
told == <<said, order, venue>>

-----------------------------------------------------------------------------
\* Orders and reports.

Working == {"new", "partial", "pending_cancel"}
States == Working \cup {"filled", "canceled", "expired", "rejected", "other"}

Terminal == {"FILLED", "CANCELED", "REJECTED"}

\* The _STATUS tables of the three adapters; a name they do not list is "?".
_STATUS ==
    [s \in States |->
        CASE s = "filled" -> "FILLED"
          [] s \in {"canceled", "expired"} -> "CANCELED"
          [] s = "rejected" -> "REJECTED"
          [] s = "partial" -> "PARTIALLY_FILLED"
          [] s \in {"new", "pending_cancel"} -> "ACKNOWLEDGED"
          [] OTHER -> "?"]

\* An acknowledged order with fills is reported as partially filled.
StatusOf(state, filled) ==
    IF _STATUS[state] = "ACKNOWLEDGED" /\ filled > 0 THEN "PARTIALLY_FILLED" ELSE _STATUS[state]

\* report() of the bridge: the deals decide before the state of the order does.
bridge_status(state, filled) ==
    CASE filled >= Quantity -> "FILLED"
      [] filled < Quantity /\ state \in {"canceled", "expired"} -> "CANCELED"
      [] filled < Quantity /\ state = "rejected" -> "REJECTED"
      [] filled < Quantity /\ filled > 0 /\ state \notin {"canceled", "expired", "rejected"} ->
            "PARTIALLY_FILLED"
      [] filled = 0 /\ state = "none" -> "?"    \* UNKNOWN, which the adapter does not map
      [] OTHER -> "ACKNOWLEDGED"

Idle == [op |-> "none", at |-> "idle", state |-> "new", filled |-> 0]
NoThread == [at |-> "none", ticket |-> 0, state |-> "new"]
NoFinal == [ticket |-> 0, filled |-> 0, fee |-> 0]

At(op, at) == call.op = op /\ call.at = at
Goto(at) == call' = [call EXCEPT !.at = at]
Fault == counts.faults < MaxFaults /\ counts' = [counts EXCEPT !.faults = @ + 1]
Move == counts.moves < MaxMoves /\ counts' = [counts EXCEPT !.moves = @ + 1]

\* The call raises: VenueOutcomeUnknown, LookupError or a refusal. The OMS learns nothing.
Raises == call' = Idle /\ UNCHANGED told

\* submit returns a REJECTED report made by the adapter itself.
_rejected == call' = Idle /\ said' = [said EXCEPT !.refused = TRUE] /\ UNCHANGED <<order, venue>>

\* query returns None.
ReturnsNone == call' = Idle /\ said' = [said EXCEPT !.absent = TRUE] /\ UNCHANGED <<order, venue>>

\* A report: an unmapped status and fees in two assets raise instead. What a
\* final report says is remembered, with the order of the venue it is about.
_report(status, ticket, filled, fee, assets) ==
    IF status = "?" \/ assets = {"base", "quote"}
    THEN Raises
    ELSE /\ call' = Idle
         /\ said' = IF status \in Terminal
                    THEN [said EXCEPT !.final = [ticket |-> ticket, filled |-> filled, fee |-> fee]]
                    ELSE said
         /\ UNCHANGED <<order, venue>>

Last == placed[Len(placed)]

-----------------------------------------------------------------------------
\* Connecting, and the calls of the OMS.

Init ==
    /\ venue \in Kinds
    /\ order \in [type : {"LIMIT", "MARKET"}, tif : {"IOC", "DAY", "GTC"}]
    /\ world \in [open : BOOLEAN, mode : IF venue = "xp" THEN {"DEMO", "REAL"} ELSE {"DEMO"}]
    /\ placed = <<>>
    /\ adapter = [up |-> FALSE, loaded |-> FALSE, env |-> "TESTNET", left_demo |-> FALSE,
                  synced |-> FALSE]
    /\ call = Idle
    /\ bridge = [op \in {"submit", "query", "cancel"} |-> NoThread]
    /\ store = 0
    /\ said = [refused |-> FALSE, absent |-> FALSE, final |-> NoFinal]
    /\ counts = [submits |-> 0, calls |-> 0, faults |-> 0, moves |-> 0]

\* An MT5 login that is not DEMO is LIVE; the other adapters are pinned to a test account.
EnvironmentOf(mode) == IF mode = "DEMO" THEN "TESTNET" ELSE "LIVE"

\* Whether the order's instrument is among the loaded ones: a symbol the venue
\* does not list, or does not trade now, is left out.
load_instruments == BOOLEAN

\* connect: the account and the grids are read before any order.
connect ==
    /\ ~adapter.up
    /\ \E loaded \in load_instruments :
        adapter' = [adapter EXCEPT !.up = TRUE, !.loaded = loaded,
                                   !.env = EnvironmentOf(world.mode)]
    /\ UNCHANGED <<told, world, placed, call, bridge, store, counts>>

\* A call starts: a bridge request gets a thread, the others a first request.
Begin(op, at) ==
    /\ adapter.up /\ call = Idle /\ counts.calls < MaxCalls
    /\ call' = [Idle EXCEPT !.op = op, !.at = IF venue = "xp" THEN "wait" ELSE at]
    /\ bridge' = IF venue = "xp" THEN [bridge EXCEPT ![op].at = "start"] ELSE bridge
    /\ venue = "xp" => bridge[op] = NoThread

\* What an adapter refuses by itself, before any request.
NotSent ==
    \/ ~adapter.loaded
    \/ venue = "binance" /\ order.tif = "DAY"
    \/ venue = "alpaca" /\ (order.type # "LIMIT" \/ order.tif = "GTC")
    \/ venue = "xp" /\ adapter.left_demo

\* submit: the OMS passes nothing to an adapter whose money is real.
submit ==
    /\ adapter.env = "TESTNET" /\ ~NotSent
    /\ counts.submits < MaxSubmits
    /\ Begin("submit", IF venue = "alpaca" THEN "clock" ELSE "post")
    /\ counts' = [counts EXCEPT !.submits = @ + 1, !.calls = @ + 1]
    /\ UNCHANGED <<told, world, placed, adapter, store>>

refuse_submit ==
    /\ adapter.up /\ call = Idle /\ adapter.env = "TESTNET" /\ NotSent
    /\ counts.submits < MaxSubmits
    /\ _rejected
    /\ counts' = [counts EXCEPT !.submits = @ + 1]
    /\ UNCHANGED <<world, placed, adapter, bridge, store>>

\* query and cancel address an id that was sent (the OMS stores it first).
query ==
    /\ counts.submits > 0
    /\ Begin("query", "lookup")
    /\ counts' = [counts EXCEPT !.calls = @ + 1]
    /\ UNCHANGED <<told, world, placed, adapter, store>>

cancel ==
    /\ counts.submits > 0
    /\ Begin("cancel", IF venue = "alpaca" THEN "find" ELSE "delete")
    /\ counts' = [counts EXCEPT !.calls = @ + 1]
    /\ UNCHANGED <<told, world, placed, adapter, store>>

\* balances: an MT5 login that left DEMO is latched, never back.
balances ==
    /\ adapter.up /\ call = Idle /\ venue = "xp" /\ world.mode # "DEMO"
    /\ adapter' = [adapter EXCEPT !.env = "LIVE", !.left_demo = TRUE]
    /\ UNCHANGED <<told, world, placed, call, bridge, store, counts>>

-----------------------------------------------------------------------------
\* Requests to Binance and Alpaca. _send raises VenueOutcomeUnknown when no
\* readable answer comes; a 4xx is a definite refusal.

Http(at) == venue # "xp" /\ call.at = at /\ (venue = "binance" => adapter.synced)

\* _sync_clock: Binance's time is read before the first signed request.
_sync_clock ==
    /\ venue = "binance" /\ call # Idle /\ ~adapter.synced
    /\ adapter' = [adapter EXCEPT !.synced = TRUE]
    /\ UNCHANGED <<told, world, placed, call, bridge, store, counts>>

\* Any request of a call but the order itself may go unanswered.
Unanswered ==
    /\ venue # "xp" /\ call.at \in {"find", "lookup", "trades", "delete"}
    /\ Fault /\ Raises
    /\ UNCHANGED <<world, placed, adapter, bridge, store>>

\* market_open: Alpaca's clock; an unreadable one is closed.
market_open ==
    /\ Http("clock")
    /\ \/ world.open /\ Goto("post") /\ UNCHANGED <<told, counts>>
       \/ ~world.open /\ _rejected /\ UNCHANGED counts
       \/ world.open /\ Fault /\ _rejected
    /\ UNCHANGED <<world, placed, adapter, bridge, store>>

\* What an order may look like when the venue answers the request that placed it.
Immediate ==
    {[state |-> "new", filled |-> 0, assets |-> {}, silent |-> FALSE],
     [state |-> "filled", filled |-> Quantity, assets |-> {"base"}, silent |-> FALSE],
     [state |-> "expired", filled |-> 0, assets |-> {}, silent |-> FALSE]}

\* A faulty adapter: it takes a request that was not answered for a refusal.
PostNeverInDoubt ==
    /\ Http("post") /\ placed = <<>>
    /\ \E o \in Immediate :
        /\ placed' = <<o>>
        /\ \/ /\ _report(StatusOf(o.state, o.filled), 1, o.filled, o.filled, o.assets)
              /\ UNCHANGED counts
           \/ Fault /\ _rejected
    /\ UNCHANGED <<world, adapter, bridge, store>>

\* The order is placed and the answer comes, or does not.
Post ==
    /\ Http("post") /\ placed = <<>>
    /\ \E o \in Immediate :
        /\ placed' = <<o>>
        /\ \/ /\ _report(StatusOf(o.state, o.filled), 1, o.filled, o.filled, o.assets)
              /\ UNCHANGED counts
           \/ Fault /\ Raises
    /\ UNCHANGED <<world, adapter, bridge, store>>

\* A definite refusal; Binance's clock is read again after a refused timestamp.
PostRefused ==
    /\ Http("post") /\ placed = <<>>
    /\ _rejected
    /\ \E synced \in BOOLEAN :
        adapter' = [adapter EXCEPT !.synced = IF venue = "binance" THEN synced ELSE @]
    /\ UNCHANGED <<world, placed, bridge, store, counts>>

\* The request never reached the venue.
PostLost ==
    /\ Http("post") /\ Fault /\ Raises
    /\ UNCHANGED <<world, placed, adapter, bridge, store>>

\* The id is taken: the order the venue holds is looked up.
PostDuplicate ==
    /\ Http("post") /\ placed # <<>> /\ Goto("lookup")
    /\ UNCHANGED <<told, world, placed, adapter, bridge, store, counts>>

\* _by_client_id before a cancel of Alpaca's.
_by_client_id ==
    /\ Http("find")
    /\ IF placed = <<>> THEN Raises ELSE Goto("delete") /\ UNCHANGED told
    /\ UNCHANGED <<world, placed, adapter, bridge, store, counts>>

\* DELETE: an order that is no longer working is left alone; the call goes on
\* to report what the venue holds.
Delete ==
    /\ Http("delete") /\ Goto("lookup")
    /\ \E asked \in {"canceled", "pending_cancel"} :
        placed' = [i \in DOMAIN placed |->
            IF placed[i].state \in Working THEN [placed[i] EXCEPT !.state = asked] ELSE placed[i]]
    /\ UNCHANGED <<told, world, adapter, bridge, store, counts>>

\* The order is read by its client id. An id the venue does not know is None
\* for a query and an error for a cancel (a duplicate id is always known).
\* Binance's fees are a second request.
Lookup ==
    /\ Http("lookup")
    /\ IF placed = <<>>
       THEN IF call.op = "query" THEN ReturnsNone ELSE Raises
       ELSE IF venue = "binance" /\ Last.filled > 0
       THEN /\ call' = [call EXCEPT !.at = "trades", !.state = Last.state, !.filled = Last.filled]
            /\ UNCHANGED told
       ELSE _report(StatusOf(Last.state, Last.filled), 1, Last.filled, Last.filled, {})
    /\ UNCHANGED <<world, placed, adapter, bridge, store, counts>>

\* A faulty query: the status is read once more, the quantity is not.
StatusReread ==
    /\ Http("trades")
    /\ _report(StatusOf(Last.state, call.filled), 1, call.filled, Last.filled, Last.assets)
    /\ UNCHANGED <<world, placed, adapter, bridge, store, counts>>

\* myTrades: the fees of the fills the venue has by now.
Trades ==
    /\ Http("trades")
    /\ _report(StatusOf(call.state, call.filled), 1, call.filled, Last.filled, Last.assets)
    /\ UNCHANGED <<world, placed, adapter, bridge, store, counts>>

-----------------------------------------------------------------------------
\* The MT5 bridge. A thread reads the account, the store and the terminal in
\* separate steps, and answers the adapter if it is still waiting.

Thread(op, at) == venue = "xp" /\ bridge[op].at = at
Runs(op, at) == bridge' = [bridge EXCEPT ![op].at = at]

\* The thread ends with an answer the adapter turns into the given outcome.
Replies(op, Outcome) ==
    /\ bridge' = [bridge EXCEPT ![op] = NoThread]
    /\ IF At(op, "wait") THEN Outcome ELSE UNCHANGED <<call, told>>

\* BridgeRefused: a refusal of submit is a REJECTED report; of the others, an error.
Refuses(op) == Replies(op, IF op = "submit" THEN _rejected ELSE Raises)

\* demo_only: orders and cancels are refused on any other account.
demo_only(op) ==
    /\ Thread(op, "start") /\ op \in {"submit", "cancel"}
    /\ IF world.mode = "DEMO"
       THEN Runs(op, "get") /\ UNCHANGED <<call, told>>
       ELSE Refuses(op)
    /\ UNCHANGED <<world, placed, adapter, store, counts>>

\* store.get: an id that has a ticket is reported; submit goes on to the
\* terminal without one, query and cancel answer 404.
store_get(op) ==
    /\ Thread(op, IF op = "query" THEN "start" ELSE "get")
    /\ \/ /\ store # 0
          /\ bridge' = [bridge EXCEPT ![op].ticket = store,
                                      ![op].at = IF op = "cancel" THEN "remove" ELSE "state"]
          /\ UNCHANGED <<call, told>>
       \/ store = 0 /\ op = "submit" /\ Runs(op, "send") /\ UNCHANGED <<call, told>>
       \/ store = 0 /\ op = "query" /\ Replies(op, ReturnsNone)
       \/ store = 0 /\ op = "cancel" /\ Refuses(op)
    /\ UNCHANGED <<world, placed, adapter, store, counts>>

\* What the terminal may make of an order: a market order fills at once, a limit
\* order rests (also an IOC one).
Sent == {o \in Immediate : order.type = "LIMIT" => o.state = "new"}

\* terminal.send: accepted, with the number of the order; or refused, also by the
\* bridge when it has no quote for a market order. Whatever else order_send
\* returns (nothing, the code of a timeout or of a lost connection, no number)
\* is answered as REJECTED too, though the order may have been placed.
TerminalSend ==
    /\ Thread("submit", "send")
    /\ \/ /\ \E o \in Sent : placed' = Append(placed, o)
          /\ bridge' = [bridge EXCEPT !["submit"].at = "put",
                                      !["submit"].ticket = Len(placed) + 1]
          /\ UNCHANGED <<call, told, counts>>
       \/ Refuses("submit") /\ UNCHANGED <<placed, counts>>
       \/ /\ Fault /\ Refuses("submit")
          /\ \E o \in Sent : placed' = Append(placed, [o EXCEPT !.silent = TRUE])
    /\ UNCHANGED <<world, adapter, store>>

\* store.put: only now does the id have a ticket.
store_put ==
    /\ Thread("submit", "put")
    /\ store' = bridge["submit"].ticket
    /\ Runs("submit", "state")
    /\ UNCHANGED <<told, call, world, placed, adapter, counts>>

\* A cancel removes an order that is still active.
TerminalRemove ==
    /\ Thread("cancel", "remove") /\ Runs("cancel", "state")
    /\ LET t == bridge["cancel"].ticket IN
        placed' = [placed EXCEPT ![t].state = IF @ \in Working THEN "canceled" ELSE @]
    /\ UNCHANGED <<told, call, world, adapter, store, counts>>

\* report: the order, while it is active.
report_active(op) ==
    /\ Thread(op, "state")
    /\ LET state == placed[bridge[op].ticket].state
       IN  IF state \in Working
           THEN bridge' = [bridge EXCEPT ![op].state = state, ![op].at = "deals"]
           ELSE Runs(op, "history")
    /\ UNCHANGED <<told, call, world, placed, adapter, store, counts>>

\* report: the order of the history, which the terminal may not have yet.
report_history(op) ==
    /\ Thread(op, "history")
    /\ \/ /\ bridge' = [bridge EXCEPT ![op].state = placed[bridge[op].ticket].state,
                                      ![op].at = "deals"]
          /\ UNCHANGED counts
       \/ Fault /\ bridge' = [bridge EXCEPT ![op].state = "none", ![op].at = "deals"]
    /\ UNCHANGED <<told, call, world, placed, adapter, store>>

\* report: the deals, and the answer.
report_deals(op) ==
    /\ Thread(op, "deals")
    /\ LET t == bridge[op].ticket
           filled == placed[t].filled
       IN  Replies(op, _report(bridge_status(bridge[op].state, filled), t, filled, filled, {}))
    /\ UNCHANGED <<world, placed, adapter, store, counts>>

\* The adapter gives up on a request (timeout, reset, 5xx, unreadable answer).
\* A thread that only reads is of no more use; the others go on.
GivesUp ==
    /\ venue = "xp" /\ call.at = "wait" /\ Fault /\ Raises
    /\ bridge' = IF call.op = "query" THEN [bridge EXCEPT !["query"] = NoThread] ELSE bridge
    /\ UNCHANGED <<world, placed, adapter, store>>

\* The bridge restarts: its threads are gone, its table is not.
BridgeRestart ==
    /\ venue = "xp" /\ \E op \in DOMAIN bridge : bridge[op] # NoThread
    /\ Fault
    /\ bridge' = [op \in DOMAIN bridge |-> NoThread]
    /\ IF call.at = "wait" THEN Raises ELSE UNCHANGED <<call, told>>
    /\ UNCHANGED <<world, placed, adapter, store>>

-----------------------------------------------------------------------------
\* The outside world.

\* A fill, with the asset its fee is charged in.
Fills ==
    /\ Move
    /\ \E i \in DOMAIN placed, a \in IF venue = "binance" THEN {"base", "quote"} ELSE {"quote"} :
        /\ placed[i].state \in Working \cup {"other"}
        /\ LET n == placed[i].filled + 1 IN
            placed' = [placed EXCEPT ![i].filled = n, ![i].assets = @ \cup {a},
                           ![i].state = IF n = Quantity THEN "filled"
                                        ELSE IF @ = "new" THEN "partial" ELSE @]
    /\ UNCHANGED <<told, world, adapter, call, bridge, store>>

\* The venue ends an order, or gives it a state the adapters do not know.
Ends ==
    /\ Move
    /\ \E i \in DOMAIN placed,
          s \in {"canceled", "expired", "rejected"} \cup IF venue = "xp" THEN {} ELSE {"other"} :
        /\ placed[i].state \in Working
        /\ s = "rejected" => placed[i].filled = 0
        /\ placed' = [placed EXCEPT ![i].state = s]
    /\ UNCHANGED <<told, world, adapter, call, bridge, store>>

\* The session opens or closes; somebody logs the terminal into another account.
WorldChanges ==
    /\ Move
    /\ \/ venue # "xp" /\ world' = [world EXCEPT !.open = ~@]
       \/ venue = "xp" /\ world' = [world EXCEPT !.mode = IF @ = "DEMO" THEN "REAL" ELSE "DEMO"]
    /\ UNCHANGED <<told, placed, adapter, call, bridge, store>>

Next ==
    \/ connect \/ submit \/ refuse_submit \/ query \/ cancel \/ balances
    \/ _sync_clock \/ Unanswered \/ market_open
    \/ Post \/ PostRefused \/ PostLost \/ PostDuplicate
    \/ _by_client_id \/ Delete \/ Lookup \/ Trades
    \/ \E op \in {"submit", "cancel"} : demo_only(op)
    \/ \E op \in {"submit", "query", "cancel"} :
        store_get(op) \/ report_active(op) \/ report_history(op) \/ report_deals(op)
    \/ TerminalSend \/ store_put \/ TerminalRemove \/ GivesUp \/ BridgeRestart
    \/ Fills \/ Ends \/ WorldChanges

Spec == Init /\ [][Next]_vars

-----------------------------------------------------------------------------
TypeOK ==
    /\ venue \in {"binance", "alpaca", "xp"}
    /\ \A i \in DOMAIN placed :
        placed[i].state \in States /\ placed[i].filled \in 0 .. Quantity
    /\ call.op \in {"none", "submit", "query", "cancel"}
    /\ call.at \in {"idle", "wait", "clock", "post", "find", "delete", "lookup", "trades"}
    /\ store \in 0 .. Len(placed)
    /\ said.final.ticket \in 0 .. Len(placed)

\* A final report is complete: what it says was filled, and the fees it charges,
\* are all that the order will ever have, although the state, the fills and the
\* fees of one report are read in separate requests (binance.py query, the
\* bridge's report) while the order trades.
FinalReportIsComplete ==
    said.final # NoFinal =>
        LET o == placed[said.final.ticket] IN
            o.state \notin Working /\ o.filled = said.final.filled /\ o.filled = said.final.fee

\* A refusal is definite: once submit has answered REJECTED by itself, the venue
\* holds no order of that submit and none will appear (the OMS gives the
\* reservation back), whatever was lost, delayed or restarted on the way. The
\* exception is an order the MT5 terminal placed without telling the bridge:
\* service.py:265 turns every answer that is not an acceptance into REJECTED.
RefusedIsNeverPlaced ==
    said.refused /\ counts.submits = 1 => \A i \in DOMAIN placed : placed[i].silent

\* What an adapter reports as definite is so: a final state with everything that
\* was filled, and a refusal with nothing placed, unless the MT5 terminal kept it
\* to itself.
ReportsAreDefinite == FinalReportIsComplete /\ RefusedIsNeverPlaced


\* An id is placed once, also when it is submitted again.
PlacedOnce == Len(placed) <= 1

=============================================================================
