------------------------------ MODULE Account ------------------------------
(* The account the Risk Engine decides on (apps/api/app/oms_surface.py,    *)
(* executor backend, one quote currency and one instrument) and the        *)
(* requests that read it: an assessment that ends in a dispatched order    *)
(* (apps/api/app/risk_surface.py), the ledger view, the operator's rebase  *)
(* of the loss baseline and the release of a lockdown. Balances and open   *)
(* orders are two reads of the isolated executor; start-of-day and peak    *)
(* equity are rows of a durable table. Code between two awaits is a step.  *)
EXTENDS RiskEngine, TLC, FiniteSetsExt

CONSTANTS
  Intents,            \* the proposals, each assessed once
  Intent,             \* its side, quantity, price, reduce_only and stage
  Openings,           \* holdings the venue may have had before PROTO traded
  Prices,             \* mid prices of the instrument
  MarkedElsewhere,    \* another currency of the venue marks the same asset
  AutomaticKill,      \* settings.risk_automatic_kill
  Overlap,            \* requests may run concurrently
  FillsBetweenReads,  \* an order may fill between the two executor reads
  MaxEvents,          \* disturbances: moves, new days, outages, crashes, halts
  MaxRequests         \* operator requests

VARIABLES
  venue,       \* the executor: cash, base, and its orders
  opening,     \* base held before PROTO traded: a snapshot that never changes
  price,       \* the mid price
  quoted,      \* whether a live quote is at hand
  reachable,   \* whether the executor answers
  today,
  rows,        \* the checkpoint table: key -> day, start of day, peak
  seen,        \* _last_openings: {} until a read succeeded
  lockdown,    \* the governor's latch
  killed,      \* the venue's kill switch
  call,        \* the requests in flight
  left,        \* what the environment may still do
  overBudget   \* a buy was permitted beyond the position budget

vars == <<venue, opening, price, quoted, reachable, today, rows, seen, lockdown,
          killed, call, left, overBudget>>

Requests == {"rebase", "release", "view"}
Calls == Intents \cup Requests
Keys == {"quote", "own"}
Cash == REFERENCE_CAPITAL
BRL == 1    \* BRL per unit of the quote currency

NoAccount == [equity |-> 0, start |-> 0, peak |-> 0, known |-> FALSE, exposure |-> 0,
              position |-> 0, open_buys |-> 0, reference |-> reference_capital_in(BRL)]
Idle == [pc |-> "idle", cash |-> 0, exposure |-> 0, position |-> 0, marked |-> TRUE,
         buys |-> 0, day |-> 0, read |-> <<>>, saved |-> <<>>, account |-> NoAccount,
         quote |-> 0]

(* A row saved when equity still included the opening holdings             *)
(* (_checkpoint_key).                                                      *)
Legacy == LET equity == Cash + opening * price
          IN [day |-> 0, start |-> equity, peak |-> equity]

Init ==
  /\ opening \in Openings
  /\ venue = [cash |-> Cash, base |-> opening,
              orders |-> [i \in Intents |-> [status |-> "none", filled |-> 0]]]
  /\ price \in Prices
  /\ quoted = TRUE
  /\ reachable = TRUE
  /\ today = 0
  /\ rows \in {[k \in {} |-> 0], "quote" :> Legacy}
  /\ seen = {}
  /\ lockdown = "none"
  /\ killed = FALSE
  /\ call = [c \in Calls |-> Idle]
  /\ left = [events |-> MaxEvents, requests |-> MaxRequests]
  /\ overBudget = FALSE

-----------------------------------------------------------------------------
\* PROTO's own position: what it bought, not what the venue already held.
Own(base) == Greatest(base - opening, 0)

(* Own-book accounting moves only a currency with opening holdings to a    *)
(* key of its own (_checkpoint_key).                                       *)
CheckpointKey(held) == IF held > 0 THEN "own" ELSE "quote"

Get(key) == IF key \in DOMAIN rows THEN <<rows[key]>> ELSE <<>>
Put(key, row) == rows' = (key :> row) @@ rows

Working(i) == venue.orders[i].status = "working"

\* Base quantity of the buys still working at the venue (_open_buys).
OpenBuys ==
  LET buys == {i \in Intents : Working(i) /\ Intent[i].side = "BUY"}
  IN MapThenSumSet(LAMBDA i : Intent[i].quantity - venue.orders[i].filled, buys)

Busy == \E c \in Calls : call[c].pc \notin {"idle", "done"}

Goto(c, pc) == call' = [call EXCEPT ![c].pc = pc]

\* The state is handed to the caller, who takes the live quote in the same step.
Answer(c, account) ==
  call' = [call EXCEPT ![c] = [Idle EXCEPT
             !.pc = "answered", !.account = account,
             !.quote = IF quoted THEN price ELSE 0]]

Disturb == left.events > 0 /\ left' = [left EXCEPT !.events = @ - 1]

Environment == <<venue, opening, price, quoted, reachable, today>>
Governor == <<lockdown, killed>>

-----------------------------------------------------------------------------
(* account_state: balances, marks, open buys, checkpoint.                  *)

Begin(c) ==
  /\ call[c].pc = "idle"
  /\ Overlap \/ ~Busy
  /\ c = "rebase" => reachable          \* _non_real_money asks the executor first
  /\ c \in Requests => left.requests > 0
  /\ left' = IF c \in Requests THEN [left EXCEPT !.requests = @ - 1] ELSE left
  /\ Goto(c, "totals")
  /\ UNCHANGED <<Environment, rows, seen, Governor, overBudget>>

ReadTotals(c) ==
  /\ call[c].pc = "totals"
  /\ reachable
  /\ seen' = {opening}
  /\ LET position == Own(venue.base)
     IN call' = [call EXCEPT ![c] = [@ EXCEPT
                   !.pc = "orders", !.cash = venue.cash, !.position = position,
                   !.exposure = IF quoted THEN position * price ELSE 0,
                   !.marked = position = 0 \/ quoted \/ MarkedElsewhere]]
  /\ UNCHANGED <<Environment, rows, Governor, left, overBudget>>

\* The balances cannot be read: the checkpoint stands in for them.
TotalsUnavailable(c) ==
  /\ call[c].pc = "totals"
  /\ ~reachable
  /\ Goto(c, IF seen = {} THEN "cold" ELSE "outage")
  /\ UNCHANGED <<Environment, rows, seen, Governor, left, overBudget>>

OutageAccount(saved) ==
  LET baseline == IF saved = <<>> THEN REFERENCE_CAPITAL ELSE saved[1].start
  IN [NoAccount EXCEPT !.equity = baseline, !.start = baseline,
        !.peak = IF saved = <<>> THEN baseline ELSE Greatest(saved[1].peak, baseline)]

OutageRow(c) ==
  /\ call[c].pc = "outage"
  /\ Answer(c, OutageAccount(Get(CheckpointKey(CHOOSE o \in seen : TRUE))))
  /\ UNCHANGED <<Environment, rows, seen, Governor, left, overBudget>>

(* After a cold start the basis is unknown: both rows are read, one after  *)
(* the other, and the lower start of day and the higher peak are kept.     *)
ColdOwnRow(c) ==
  /\ call[c].pc = "cold"
  /\ call' = [call EXCEPT ![c].pc = "cold quote", ![c].saved = Get("own")]
  /\ UNCHANGED <<Environment, rows, seen, Governor, left, overBudget>>

\* A faulty choice that trusts the quote currency's own row when there is one.
QuoteFirst(a, b) == IF b = <<>> THEN a ELSE b

Stricter(a, b) ==
  IF a = <<>> THEN b
  ELSE IF b = <<>> THEN a
  ELSE <<[a[1] EXCEPT !.start = Least(@, b[1].start), !.peak = Greatest(@, b[1].peak)]>>

ColdQuoteRow(c) ==
  /\ call[c].pc = "cold quote"
  /\ Answer(c, OutageAccount(Stricter(call[c].saved, Get("quote"))))
  /\ UNCHANGED <<Environment, rows, seen, Governor, left, overBudget>>

\* The resting buys; unknown, they block new risk like an unmarked holding. The
\* date is taken before the row is asked for.
ReadOrders(c) ==
  /\ call[c].pc = "orders"
  /\ call' = [call EXCEPT ![c] = [@ EXCEPT
                !.pc = "row",
                !.buys = IF reachable THEN OpenBuys ELSE 0,
                !.marked = @ /\ reachable,
                !.day = today]]
  /\ UNCHANGED <<Environment, rows, seen, Governor, left, overBudget>>

\* A faulty checkpoint whose peak starts anew with the day.
PeakOfTheDay(saved, equity, day) ==
  IF saved = <<>> \/ saved[1].day # day
  THEN [day |-> day, start |-> equity, peak |-> equity]
  ELSE [saved[1] EXCEPT !.peak = Greatest(@, equity)]

\* The row to be kept: a new day starts at the equity, the peak only rises.
Checkpoint(saved, equity, day) ==
  LET row == IF saved = <<>> THEN [day |-> day, start |-> equity, peak |-> equity]
             ELSE saved[1]
  IN [day |-> day,
      start |-> IF row.day = day THEN row.start ELSE equity,
      peak |-> Greatest(row.peak, equity)]

StateOf(c, row) ==
  [equity |-> call[c].cash + call[c].exposure, start |-> row.start, peak |-> row.peak,
   known |-> TRUE, exposure |-> call[c].exposure, position |-> call[c].position,
   open_buys |-> call[c].buys, reference |-> reference_capital_in(BRL)]

UnmarkedState(c, saved) ==
  LET equity == call[c].cash + call[c].exposure
      row == IF saved = <<>> THEN [start |-> equity, peak |-> equity] ELSE saved[1]
  IN [NoAccount EXCEPT !.equity = row.start, !.start = row.start,
        !.peak = Greatest(row.peak, row.start),
        !.position = call[c].position, !.open_buys = call[c].buys]

GetRow(c) ==
  /\ call[c].pc = "row"
  /\ LET saved == Get(CheckpointKey(opening))
         row == Checkpoint(saved, call[c].cash + call[c].exposure, call[c].day)
     IN IF ~call[c].marked THEN Answer(c, UnmarkedState(c, saved))
        ELSE IF <<row>> = saved THEN Answer(c, StateOf(c, row))
        ELSE call' = [call EXCEPT ![c].pc = "put", ![c].read = saved,
                                  ![c].saved = <<row>>]
  /\ UNCHANGED <<Environment, rows, seen, Governor, left, overBudget>>

PutRow(c) ==
  /\ call[c].pc = "put"
  /\ Put(CheckpointKey(opening), call[c].saved[1])
  /\ Answer(c, StateOf(c, call[c].saved[1]))
  /\ UNCHANGED <<Environment, seen, Governor, left, overBudget>>

-----------------------------------------------------------------------------
(* assess, then _dispatch of an approved proposal.                         *)

QuoteOf(c) ==
  LET mid == call[c].quote
  IN [known |-> mid > 0, bid |-> mid - 1, ask |-> mid + 1, age |-> 0]

Market ==
  [known |-> TRUE, session |-> "CONTINUOUS_24_7", weekday |-> 0, minute |-> 0,
   grid |-> [min_quantity |-> 1, lot_size |-> 1, tick_size |-> 1, min_notional |-> 1]]

\* What PROTO holds, has working and has been permitted but not yet sent.
Committed ==
  LET unsent == {i \in Intents : call[i].pc = "permit" /\ Intent[i].side = "BUY"}
  IN Own(venue.base) + OpenBuys + MapThenSumSet(LAMBDA i : Intent[i].quantity, unsent)

Decide(c) ==
  /\ c \in Intents
  /\ call[c].pc = "answered"
  /\ LET account == call[c].account
         approved == Approved(Intent[c], account,
                              [killed |-> killed, lockdown |-> lockdown],
                              QuoteOf(c), Market, "PAPER", canary_capital_in(BRL))
     IN /\ Goto(c, IF approved THEN "permit" ELSE "done")
        /\ lockdown' = IF lockdown = "none" THEN account_breach(account) ELSE lockdown
        /\ overBudget' =
             \/ overBudget
             \/ /\ approved /\ Intent[c].side = "BUY"
                /\ ~WithinPositionBudget(Committed + Intent[c].quantity,
                      OrderPrice(Intent[c], QuoteOf(c)),
                      conservative_equity(account.equity, account.reference))
  /\ UNCHANGED <<Environment, rows, seen, killed, left>>

(* The executor takes the order or not; when it does not answer, the API   *)
(* cannot tell (ORDER_DISPATCH_UNKNOWN) and does not send it again. An     *)
(* executor that reports itself halted has its venue killed here as well.  *)
Dispatch(c) ==
  /\ c \in Intents
  /\ call[c].pc = "permit"
  /\ \E taken \in BOOLEAN, halted \in BOOLEAN :
       /\ halted => taken /\ reachable /\ left.events > 0
       /\ venue' = IF taken THEN [venue EXCEPT !.orders[c].status = "working"] ELSE venue
       /\ killed' = (killed \/ (halted /\ AutomaticKill))
       /\ left' = IF halted THEN [left EXCEPT !.events = @ - 1] ELSE left
  /\ call' = [call EXCEPT ![c] = [Idle EXCEPT !.pc = "done"]]
  /\ UNCHANGED <<opening, price, quoted, reachable, today, rows, seen, lockdown,
                 overBudget>>

-----------------------------------------------------------------------------
(* The operator's requests.                                                *)

Finish(c) == call' = [call EXCEPT ![c] = Idle]

\* GET /v1/oms/ledger: the account is computed, and its checkpoint with it.
View ==
  /\ call["view"].pc = "answered"
  /\ Finish("view")
  /\ UNCHANGED <<Environment, rows, seen, Governor, left, overBudget>>

Rebased ==
  LET equity == call["rebase"].account.equity
  IN [day |-> call["rebase"].day, start |-> equity, peak |-> equity]

\* POST /v1/oms/baseline/rebase: refused while the exposure is unknown.
RebaseRow ==
  /\ call["rebase"].pc = "answered"
  /\ IF call["rebase"].account.known
     THEN call' = [call EXCEPT !["rebase"].pc = "rebase put", !["rebase"].day = today]
     ELSE Finish("rebase")
  /\ UNCHANGED <<Environment, rows, seen, Governor, left, overBudget>>

RebasePut ==
  /\ call["rebase"].pc = "rebase put"
  /\ Put(CheckpointKey(CHOOSE o \in seen : TRUE), Rebased)
  /\ Finish("rebase")
  /\ UNCHANGED <<Environment, seen, Governor, left, overBudget>>

(* The checkpoint table raises and the request ends with it; a row it was  *)
(* being given may have been committed all the same.                       *)
StoreFails(c) ==
  /\ call[c].pc \in {"outage", "cold", "cold quote", "row", "put", "rebase put"}
  /\ Disturb
  /\ \/ UNCHANGED rows
     \/ call[c].pc = "put" /\ Put(CheckpointKey(opening), call[c].saved[1])
     \/ call[c].pc = "rebase put" /\ Put(CheckpointKey(CHOOSE o \in seen : TRUE), Rebased)
  /\ call' = [call EXCEPT ![c] = IF c \in Intents THEN [Idle EXCEPT !.pc = "done"] ELSE Idle]
  /\ UNCHANGED <<Environment, seen, Governor, overBudget>>

\* POST /v1/risk/lockdown/release: refused while the account still breaches.
ReleaseLockdown ==
  /\ call["release"].pc = "answered"
  /\ lockdown' = IF account_breach(call["release"].account) = "none" THEN "none"
                 ELSE lockdown
  /\ Finish("release")
  /\ UNCHANGED <<Environment, rows, seen, killed, left, overBudget>>

\* POST /v1/oms/reconcile: a divergence kills the venue, unless switched off.
Reconcile ==
  /\ reachable
  /\ Disturb
  /\ \E consistent \in BOOLEAN : killed' = (killed \/ (~consistent /\ AutomaticKill))
  /\ UNCHANGED <<Environment, rows, seen, lockdown, call, overBudget>>

-----------------------------------------------------------------------------
(* The executor, the market, the calendar and the process.                 *)

BetweenReads == \E c \in Calls : call[c].pc = "orders"

FillOrder(i) ==
  /\ Working(i)
  /\ FillsBetweenReads \/ ~BetweenReads
  /\ LET sign == IF Intent[i].side = "BUY" THEN 1 ELSE -1
         filled == venue.orders[i].filled + 1
     IN /\ venue.base - opening + sign >= 0
        /\ venue' = [cash |-> venue.cash - sign * price, base |-> venue.base + sign,
                     orders |-> [venue.orders EXCEPT ![i] =
                       [status |-> IF filled = Intent[i].quantity THEN "done" ELSE "working",
                        filled |-> filled]]]
  /\ UNCHANGED <<opening, price, quoted, reachable, today, rows, seen, Governor, call,
                 left, overBudget>>

CancelOrder(i) ==
  /\ Working(i)
  /\ venue' = [venue EXCEPT !.orders[i].status = "done"]
  /\ UNCHANGED <<opening, price, quoted, reachable, today, rows, seen, Governor, call,
                 left, overBudget>>

MarketMoves ==
  /\ Disturb
  /\ \E p \in Prices, q \in BOOLEAN :
       <<p, q>> # <<price, quoted>> /\ price' = p /\ quoted' = q
  /\ UNCHANGED <<venue, opening, reachable, today, rows, seen, Governor, call, overBudget>>

NewDay ==
  /\ Disturb
  /\ today' = today + 1
  /\ UNCHANGED <<venue, opening, price, quoted, reachable, rows, seen, Governor, call,
                 overBudget>>

Outage ==
  /\ reachable
  /\ Disturb
  /\ reachable' = FALSE
  /\ UNCHANGED <<venue, opening, price, quoted, today, rows, seen, Governor, call,
                 overBudget>>

Back ==
  /\ ~reachable
  /\ reachable' = TRUE
  /\ UNCHANGED <<venue, opening, price, quoted, today, rows, seen, Governor, call, left,
                 overBudget>>

\* The API process restarts: requests and the memory of the openings are gone.
Crash ==
  /\ Disturb
  /\ call' = [c \in Calls |-> IF c \in Intents /\ call[c].pc # "idle"
                              THEN [Idle EXCEPT !.pc = "done"] ELSE Idle]
  /\ seen' = {}
  /\ UNCHANGED <<Environment, rows, Governor, overBudget>>

-----------------------------------------------------------------------------
Serve(c) ==
  \/ Begin(c) \/ ReadTotals(c) \/ TotalsUnavailable(c)
  \/ OutageRow(c) \/ ColdOwnRow(c) \/ ColdQuoteRow(c)
  \/ ReadOrders(c) \/ GetRow(c) \/ PutRow(c) \/ StoreFails(c)
  \/ Decide(c) \/ Dispatch(c)

Next ==
  \/ \E c \in Calls : Serve(c)
  \/ View \/ RebaseRow \/ RebasePut \/ ReleaseLockdown \/ Reconcile
  \/ \E i \in Intents : FillOrder(i) \/ CancelOrder(i)
  \/ MarketMoves \/ NewDay \/ Outage \/ Back \/ Crash

Spec == Init /\ [][Next]_vars

-----------------------------------------------------------------------------
Pcs == {"idle", "totals", "outage", "cold", "cold quote", "orders", "row", "put",
        "answered", "permit", "rebase put", "done"}

TypeOK ==
  /\ venue.base \in Nat
  /\ \A i \in Intents :
       /\ venue.orders[i].status \in {"none", "working", "done"}
       /\ venue.orders[i].filled \in 0 .. Intent[i].quantity
  /\ DOMAIN rows \subseteq Keys
  /\ seen \subseteq {opening}
  /\ lockdown \in {"none", "DAILY_LOSS", "DRAWDOWN"}
  /\ \A c \in Calls : call[c].pc \in Pcs

(* Stacking buys never builds a position above the budget: a buy is only   *)
(* permitted when it fits together with everything that is held, working   *)
(* or already permitted at that moment (RiskEngine.evaluate counts the     *)
(* position and the open buys that account_state read).                    *)
BuysStayInBudget == ~overBudget

(* The row a request is about to save was computed from one that another   *)
(* request has replaced meanwhile, or for a day that has passed.           *)
Overtaken(c) ==
  LET key == CheckpointKey(opening)
  IN /\ call[c].pc = "put"
     /\ \/ Get(key) # call[c].read
        \/ key \in DOMAIN rows /\ rows[key].day > call[c].day

(* How a step may change the saved loss baselines.                         *)
BasisKept ==
  \A k \in DOMAIN rows :
    /\ k \in DOMAIN rows'
    /\ \/ /\ rows'[k].peak >= rows[k].peak
          /\ rows'[k].day > rows[k].day \/ rows'[k] = [rows[k] EXCEPT !.peak = rows'[k].peak]
       \/ call["rebase"].pc = "rebase put"
       \/ k = CheckpointKey(opening) /\ \E c \in Calls : Overtaken(c)

(* The loss baseline survives restarts, outages, missing quotes, failing   *)
(* reads and writes and new days: a saved peak never falls and a start of  *)
(* day changes only when the day advances, unless the operator rebases     *)
(* or two requests overlap, one of them saving what it computed before     *)
(* the other one did (account_state, rebase_baseline).                     *)
LossBasisIsKept == [][BasisKept]_vars

(* An executor that cannot be read never makes the account look better: an *)
(* account answered blind shows at least the drawdown of the row kept on   *)
(* its real basis, even after a cold start (_outage_checkpoint).           *)
OutageIsConservative ==
  \A c \in Calls :
    LET key == CheckpointKey(opening)
        account == call[c].account
    IN call[c].pc = "answered" /\ ~account.known /\ key \in DOMAIN rows
         => /\ account.equity <= rows[key].start
            /\ account.peak >= rows[key].peak
=============================================================================
