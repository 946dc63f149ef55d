------------------------------- MODULE Roster -------------------------------
(* The trader agents (services/agents/roster.py) and the tasks that drive  *)
(* them (apps/api/app/agent_surface.py and roster_surface.py): one virtual *)
(* book per agent, fills attributed through the intent, elimination and    *)
(* replacement. The roster is a cache of two tables; every change is one   *)
(* transaction under one asyncio lock, but tasks read the cache without    *)
(* it. One instrument; prices are the mid, one unit of quote is one BRL.   *)
EXTENDS Fusion, Sequences, SequencesExt

CONSTANTS
  Slots,           \* the kinds of slot of the instrument, in seeding order
  Capacity,        \* agents the reference capital can fund
  Prices,          \* marks; 0: no live mark
  OpeningPrices,   \* marks the market may start at
  SignalSets,      \* what the signal buffer may hold for an agent
  Reviewer,        \* "deterministic", "claude" or "unavailable"
  Overlap,         \* tasks may run concurrently
  Bought,          \* units every agent holds at the start; 0: nobody was seeded yet
  CoinFees,        \* whether the venue charges a buy in coins: a set of answers
  MaxTasks, MaxMoves, MaxFaults

VARIABLES
  db,       \* the tables agent_roster and agent_orders
  mem,      \* the cache: loaded, agents, orders
  lock,     \* the task holding the roster's lock, or "free"
  venue,    \* the orders of the OMS, oldest first, with their cumulative fills
  price,
  task,     \* the evaluations (one per slot at a time) and the roster view
  left,     \* what the environment may still do
  past      \* history: [revived, blind, cut], whether an agent was eliminated when one of
            \* its orders reached the OMS, the agents that sized a sell without all of their
            \* own fills, and what the folds of an order left out of the book

vars == <<db, mem, lock, venue, price, task, left, past>>

AGENT_STARTING_CAPITAL == 200
ELIMINATION_FLOOR_BRL == 30
SLOPE == 30                    \* MIN_SCORE_SURVIVAL_SLOPE, in hundredths

SlotSet == Range(Slots)
Tasks == SlotSet \cup {"view"}
Grid == [min_quantity |-> 1, lot_size |-> 1, tick_size |-> 1, min_notional |-> 1]

-----------------------------------------------------------------------------
(* An agent's book and what it may trade.                                  *)

EmptyBook == [quantity |-> 0, cost |-> 0, realized |-> 0, fees |-> 0]

\* Cost of `quantity` of the position, at average cost.
Released(book, quantity) ==
  IF quantity = book.quantity THEN book.cost
  ELSE (book.cost * quantity) \div book.quantity

Release(book, quantity) ==
  LET taken == Least(quantity, book.quantity)
  IN IF taken <= 0 THEN book
     ELSE [book EXCEPT !.quantity = @ - taken, !.cost = @ - Released(book, taken)]

\* A sell of more than is held is cut to what is held, its proceeds with it.
Trade(book, side, quantity, notional) ==
  IF side = "BUY"
  THEN [book EXCEPT !.quantity = @ + quantity, !.cost = @ + notional]
  ELSE LET sold == Least(quantity, book.quantity)
           proceeds == IF sold = quantity THEN notional ELSE (notional * sold) \div quantity
           after == Release(book, sold)
       IN [after EXCEPT !.realized = @ + proceeds - (book.cost - after.cost)]

\* A fee in coins leaves the position at its average cost.
apply_fill(book, side, quantity, notional, fee_quote, fee_base) ==
  LET traded == Trade(book, side, quantity, notional)
      after == Release(traded, fee_base)
  IN [after EXCEPT !.fees = @ + fee_quote + traded.cost - after.cost]

\* Equity in BRL; -1 when the position cannot be marked.
Unknown == -1
equity_brl(book, mark) ==
  IF book.quantity > 0 /\ mark = 0 THEN Unknown
  ELSE Greatest(0, AGENT_STARTING_CAPITAL + book.realized - book.fees
                     + book.quantity * mark - book.cost)

\* Hundredths of the starting capital, clamped: gains never loosen anything.
survival_ratio(equity) ==
  Least((equity * 100) \div AGENT_STARTING_CAPITAL, 100)
entry_min_score(equity) ==
  Least(DEFAULT_MIN_SCORE + (SLOPE * (100 - survival_ratio(equity))) \div 100, 100)

(* A faulty shape that cuts a sell to the account's position only.         *)
ShapeBuysOnly(intent, held, equity) ==
  IF intent = NoIntent \/ intent.side = "SELL" THEN intent
  ELSE Accepted(Grid, [intent EXCEPT !.quantity =
                         Least(@, Greatest(0, equity - held * intent.price) \div intent.price)])

(* Shrinks a reviewed proposal: a sell to the agent's own position, a buy  *)
(* by the squared survival ratio and to 1.0x of the agent's equity.        *)
shape_for_agent(intent, held, equity) ==
  LET ratio == survival_ratio(equity)
      headroom == equity - held * intent.price
      size == IF intent.side = "SELL" THEN Least(intent.quantity, held)
              ELSE Least((intent.quantity * ratio * ratio) \div 10000,
                         headroom \div intent.price)
  IN IF intent = NoIntent \/ (intent.side = "BUY" /\ headroom <= 0) \/ size <= 0
     THEN NoIntent
     ELSE Accepted(Grid, [intent EXCEPT !.quantity = Least(size, @)])

-----------------------------------------------------------------------------
(* The roster.                                                             *)

Agent(slot, generation) ==
  [slot |-> slot, status |-> "ACTIVE", generation |-> generation, book |-> EmptyBook]

Active(agents) == {n \in DOMAIN agents : agents[n].status = "ACTIVE"}
ActiveFor(agents, slot) == {n \in Active(agents) : agents[n].slot = slot}
Admitted(n) == n \in Active(mem.agents)

\* The agent's number is its sequence: numbers are never used again.
Spawned(agents, slot) ==
  Append(agents, Agent(slot, Cardinality({n \in DOMAIN agents : agents[n].slot = slot})))
AllocationRefused(agents) == Cardinality(Active(agents)) + 1 > Capacity

NoOrder == [agent |-> 0, side |-> "NONE", quantity |-> 0, notional |-> 0, fee |-> 0]
Orders == 1 .. MaxTasks + Len(Slots)   \* one a task, and those before it

Ended == [pc |-> "idle", agent |-> 0, equity |-> 0, intent |-> NoIntent, number |-> 0,
          todo |-> <<>>, before |-> EmptyBook, final |-> FALSE]

(* Every slot has an agent whose one order was filled and folded before.   *)
EarlierOrders ==
  [k \in DOMAIN Slots |->
     [number |-> MaxTasks + k, side |-> "BUY", filled |-> Bought, quantity |-> Bought,
      notional |-> Bought * price, fee |-> Bought, coin |-> FALSE, working |-> FALSE]]
EarlierAgents ==
  [k \in DOMAIN Slots |-> [Agent(Slots[k], 0) EXCEPT
     !.book = apply_fill(@, "BUY", Bought, Bought * price, Bought, 0)]]
EarlierRows ==
  [i \in Orders |-> IF i <= MaxTasks THEN NoOrder ELSE
     [agent |-> i - MaxTasks, side |-> "BUY", quantity |-> Bought,
      notional |-> Bought * price, fee |-> Bought]]

Init ==
  /\ price \in OpeningPrices
  /\ venue = IF Bought > 0 THEN EarlierOrders ELSE <<>>
  /\ db = IF Bought > 0 THEN [agents |-> EarlierAgents, orders |-> EarlierRows]
          ELSE [agents |-> <<>>, orders |-> [i \in Orders |-> NoOrder]]
  /\ mem = [loaded |-> FALSE, agents |-> <<>>, orders |-> [i \in Orders |-> NoOrder]]
  /\ lock = "free"
  /\ task = [t \in Tasks |-> Ended]
  /\ left = [tasks |-> MaxTasks, moves |-> MaxMoves, faults |-> MaxFaults]
  /\ past = [revived |-> FALSE, blind |-> {},
             cut |-> [i \in Orders |-> [quantity |-> 0, notional |-> 0]]]

Loaded ==
  IF mem.loaded THEN mem ELSE [loaded |-> TRUE, agents |-> db.agents, orders |-> db.orders]

Goto(t, pc) == task' = [task EXCEPT ![t].pc = pc]
End(t) == task' = [task EXCEPT ![t] = Ended]
Fault == left.faults > 0 /\ left' = [left EXCEPT !.faults = @ - 1]
Market == <<venue, price, past>>

\* A faulty seeding that does not skip the slots that have an agent.
EverySlot(agents) == Slots

Vacant(agents) == SelectSeq(Slots, LAMBDA s : ActiveFor(agents, s) = {})
Staffed(agents) == Vacant(agents) = <<>> \/ AllocationRefused(agents)

(* A signal starts an evaluation of its slot, an operator a view; either   *)
(* seeds first: under the lock, every vacant slot gets an agent while      *)
(* capital lasts. (Waiting for the lock changes nothing, so the task       *)
(* starts when it takes it.)                                               *)
Start(t) ==
  /\ task[t].pc = "idle"
  /\ lock = "free"
  /\ Overlap \/ \A u \in Tasks : task[u].pc = "idle"
  /\ left.tasks > 0
  /\ left' = [left EXCEPT !.tasks = @ - 1]
  /\ mem' = Loaded
  /\ LET ready == Staffed(mem'.agents)
     IN /\ lock' = IF ready THEN "free" ELSE t
        /\ task' = [task EXCEPT ![t].pc = IF ready THEN "read" ELSE "seeding",
                      ![t].number = left.tasks]
  /\ UNCHANGED <<db, Market>>

SpawnInto(slot) ==
  /\ db' = [db EXCEPT !.agents = Spawned(mem.agents, slot)]
  /\ mem' = [mem EXCEPT !.agents = Spawned(@, slot)]

SeedSlot(t) ==
  /\ task[t].pc = "seeding"
  /\ SpawnInto(Head(Vacant(mem.agents)))
  /\ IF Staffed(mem'.agents)
     THEN lock' = "free" /\ Goto(t, "read")
     ELSE UNCHANGED <<lock, task>>
  /\ UNCHANGED <<left, Market>>

\* A transaction that fails ends the task; what it had changed in memory is put back.
WriteFails(t) ==
  /\ Fault
  /\ \/ /\ task[t].pc \in {"seeding", "attributing", "replacing"}
        /\ task[t].pc = "replacing" => ~AllocationRefused(mem.agents)
        /\ UNCHANGED mem
     \/ /\ task[t].pc = "folding"
        /\ mem' = [mem EXCEPT !.agents[task[t].agent].book = task[t].before]
     \/ /\ task[t].pc = "eliminating"
        /\ mem' = [mem EXCEPT !.agents[task[t].agent].status = "ACTIVE"]
  /\ lock' = "free"
  /\ End(t)
  /\ UNCHANGED <<db, Market>>

-----------------------------------------------------------------------------
(* Reading the OMS and folding fills into the books.                       *)

\* sync_fills: the orders of the venue, or none when they cannot be read.
ReadOrders(t) ==
  /\ task[t].pc = "read"
  /\ \/ task' = [task EXCEPT ![t].pc = "fold", ![t].todo = venue] /\ UNCHANGED left
     \/ Fault /\ Goto(t, "fold")
  /\ UNCHANGED <<db, mem, lock, Market>>

Skip(t) == task' = [task EXCEPT ![t].pc = "fold", ![t].todo = Tail(@)]

\* A faulty difference that takes the order's cumulative fill as new.
Cumulative(o) == [quantity |-> o.filled, notional |-> o.notional, fee |-> o.fee]

\* What of the order is not in the books yet: going backwards is nothing.
Delta(o) ==
  LET applied == mem.orders[o.number]
  IN [quantity |-> o.filled - applied.quantity,
      notional |-> o.notional - applied.notional, fee |-> o.fee - applied.fee]
Nothing(d) == d.quantity < 0 \/ d.fee < 0 \/ (d.quantity = 0 /\ d.fee = 0)

\* A faulty fold that books every fee in cash.
FeesInCash(book, o) ==
  apply_fill(book, o.side, Delta(o).quantity, Delta(o).notional, Delta(o).fee, 0)

\* A fee in the instrument's base asset leaves the position, any other one the cash.
Folded(book, o) ==
  LET d == Delta(o)
  IN apply_fill(book, o.side, d.quantity, d.notional,
                IF o.coin THEN 0 ELSE d.fee, IF o.coin THEN d.fee ELSE 0)

\* What of a sell the book did not hold: it is logged and ignored.
LeftOut(book, o) ==
  LET d == Delta(o)
      sold == Least(d.quantity, book.quantity)
  IN IF o.side = "BUY" \/ sold = d.quantity THEN [quantity |-> 0, notional |-> 0]
     ELSE [quantity |-> d.quantity - sold,
           notional |-> d.notional - (d.notional * sold) \div d.quantity]

(* record_order and apply_order: the book changes in memory, then the book *)
(* and the applied fill are written together.                              *)
Fold(t) ==
  /\ task[t].pc = "fold"
  /\ task[t].todo # <<>>
  /\ LET o == Head(task[t].todo)
         owner == mem.orders[o.number].agent
     IN IF owner = 0
        THEN Skip(t) /\ UNCHANGED <<mem, lock>>
        ELSE /\ lock = "free"
             /\ IF Nothing(Delta(o))
                THEN Skip(t) /\ UNCHANGED <<mem, lock>>
                ELSE /\ lock' = t
                     /\ mem' = [mem EXCEPT !.agents[owner].book = Folded(@, o)]
                     /\ task' = [task EXCEPT ![t].pc = "folding", ![t].agent = owner,
                                   ![t].before = mem.agents[owner].book]
  /\ UNCHANGED <<db, left, Market>>

FoldCommit(t) ==
  /\ task[t].pc = "folding"
  /\ LET o == Head(task[t].todo)
         n == task[t].agent
         applied == [mem.orders[o.number] EXCEPT
                       !.quantity = o.filled, !.notional = o.notional, !.fee = o.fee]
     IN /\ mem' = [mem EXCEPT !.orders[o.number] = applied]
        /\ db' = [db EXCEPT !.orders[o.number] = applied,
                            !.agents[n].book = mem.agents[n].book]
        /\ past' = [past EXCEPT !.cut[o.number] =
             LET out == LeftOut(task[t].before, o)
             IN [quantity |-> @.quantity + out.quantity, notional |-> @.notional + out.notional]]
        /\ task' = [task EXCEPT ![t] = [@ EXCEPT
                      !.todo = Tail(@), !.before = EmptyBook,
                      !.pc = IF Admitted(n) THEN "weigh" ELSE "fold"]]
  /\ lock' = "free"
  /\ UNCHANGED <<left, venue, price>>

\* survive, after a fold: an agent that cannot place an order is eliminated.
Broke(n) ==
  LET equity == equity_brl(mem.agents[n].book, price)
  IN Admitted(n) /\ equity # Unknown /\ equity < ELIMINATION_FLOOR_BRL

Resume(t) == task' = [task EXCEPT ![t].pc = "fold", ![t].agent = 0]

Weigh(t) ==
  /\ task[t].pc = "weigh"
  /\ IF Broke(task[t].agent) THEN Goto(t, "eliminate") ELSE Resume(t)
  /\ UNCHANGED <<db, mem, lock, left, Market>>

\* After the last order: the view is answered, an order's task is over, or the agent is picked.
Pick(t) ==
  /\ task[t].pc = "fold"
  /\ task[t].todo = <<>>
  /\ IF task[t].final \/ t = "view" \/ ActiveFor(mem.agents, t) = {}
     THEN End(t)
     ELSE task' = [task EXCEPT ![t].pc = "value", ![t].final = TRUE,
                     ![t].agent = CHOOSE n \in ActiveFor(mem.agents, t) : TRUE]
  /\ UNCHANGED <<db, mem, lock, left, Market>>

-----------------------------------------------------------------------------
(* Elimination and replacement, in one hold of the lock.                   *)

Eliminate(t) ==
  /\ task[t].pc = "eliminate"
  /\ lock = "free"
  /\ IF Admitted(task[t].agent)
     THEN /\ lock' = t
          /\ mem' = [mem EXCEPT !.agents[task[t].agent].status = "ELIMINATED"]
          /\ Goto(t, "eliminating")
     ELSE Resume(t) /\ UNCHANGED <<mem, lock>>
  /\ UNCHANGED <<db, left, Market>>

EliminateCommit(t) ==
  /\ task[t].pc = "eliminating"
  /\ db' = [db EXCEPT !.agents[task[t].agent].status = "ELIMINATED"]
  /\ Goto(t, "replacing")
  /\ UNCHANGED <<mem, lock, left, Market>>

Replace(t) ==
  /\ task[t].pc = "replacing"
  /\ IF AllocationRefused(mem.agents)
     THEN UNCHANGED <<db, mem>>
     ELSE SpawnInto(mem.agents[task[t].agent].slot)
  /\ lock' = "free"
  /\ Resume(t)
  /\ UNCHANGED <<left, Market>>

-----------------------------------------------------------------------------
(* An agent's decision: valued, fused, sized, reviewed, shaped and sent.   *)

\* An agent that cannot be valued abstains; one that is broke is eliminated.
Value(t) ==
  /\ task[t].pc = "value"
  /\ LET n == task[t].agent
         equity == equity_brl(mem.agents[n].book, price)
     IN IF ~Admitted(n) \/ equity = Unknown THEN End(t)
        ELSE IF Broke(n) THEN Goto(t, "eliminate")
        ELSE task' = [task EXCEPT ![t].pc = "portfolio", ![t].equity = equity]
  /\ UNCHANGED <<db, mem, lock, left, Market>>

\* What an order has moved of the base asset, a fee in coins included.
Signed(o) == (IF o.side = "BUY" THEN o.filled ELSE -o.filled) - (IF o.coin THEN o.fee ELSE 0)
Position == MapThenSumSet(LAMBDA i : Signed(venue[i]), DOMAIN venue)

Quote == [known |-> price > 0, bid |-> price - 1, ask |-> price, age |-> 0]

\* The pipeline: the account's position is read, then the signals are fused and sized.
Propose(t) ==
  /\ task[t].pc = "portfolio"
  /\ \E signals \in SignalSets :
       LET decision == fuse(signals, 0, entry_min_score(task[t].equity))
           candidate == build_candidate(decision, Quote, REFERENCE_CAPITAL, Position,
                                        REFERENCE_CAPITAL, Grid)
       IN IF candidate = NoIntent THEN End(t)
          ELSE task' = [task EXCEPT ![t].pc = "review", ![t].intent = candidate]
  /\ UNCHANGED <<db, mem, lock, left, Market>>

\* An order of the agent may still fill, or has fills that are not in its book.
Unsettled(n) ==
  \E i \in DOMAIN venue :
    LET applied == mem.orders[venue[i].number]
    IN applied.agent = n /\ (venue[i].working \/ venue[i].filled # applied.quantity)

\* The review comes back; the proposal is shaped to the book as it is now.
Review(t) ==
  /\ task[t].pc = "review"
  /\ \E review \in ReviewsOf(Reviewer) :
       LET n == task[t].agent
           allowed == apply_review(task[t].intent, review, Grid)
           shaped == shape_for_agent(allowed, mem.agents[n].book.quantity, task[t].equity)
       IN IF shaped = NoIntent THEN End(t) /\ UNCHANGED past
          ELSE /\ task' = [task EXCEPT ![t].pc = "attribute", ![t].intent = shaped]
               /\ past' = [past EXCEPT !.blind =
                    IF shaped.side = "SELL" /\ Unsettled(n) THEN @ \cup {n} ELSE @]
  /\ UNCHANGED <<db, mem, lock, left, venue, price>>

\* submit_for_agent: an eliminated agent's intent is dropped, another's is attributed.
Attribute(t) ==
  /\ task[t].pc = "attribute"
  /\ lock = "free"
  /\ IF Admitted(task[t].agent)
     THEN lock' = t /\ Goto(t, "attributing")
     ELSE End(t) /\ UNCHANGED lock
  /\ UNCHANGED <<db, mem, left, Market>>

AttributeCommit(t) ==
  /\ task[t].pc = "attributing"
  /\ LET row == [NoOrder EXCEPT !.agent = task[t].agent, !.side = task[t].intent.side]
     IN /\ db' = [db EXCEPT !.orders[task[t].number] = row]
        /\ mem' = [mem EXCEPT !.orders[task[t].number] = row]
  /\ lock' = "free"
  /\ Goto(t, "send")
  /\ UNCHANGED <<left, Market>>

\* The Risk Engine permits it (a sell only reduces the account) and the OMS takes it,
\* or not. The venue may charge a buy in coins.
Send(t) ==
  /\ task[t].pc = "send"
  /\ \/ End(t) /\ UNCHANGED <<venue, past>>
     \/ \E coin \in CoinFees :
          LET intent == task[t].intent
          IN /\ intent.side = "SELL" => intent.quantity <= Position
             /\ venue' = Append(venue,
                  [number |-> task[t].number, side |-> intent.side, filled |-> 0,
                   quantity |-> intent.quantity, notional |-> 0, fee |-> 0,
                   coin |-> coin /\ intent.side = "BUY",
                   working |-> TRUE])
             /\ past' = [past EXCEPT
                  !.revived = @ \/ db.agents[task[t].agent].status = "ELIMINATED"]
             /\ Goto(t, "answer")
  /\ UNCHANGED <<db, mem, lock, price, left>>

OrderOf(t) == CHOOSE i \in DOMAIN venue : venue[i].number = task[t].number

\* An IOC order is final when it is answered; its task folds it into the book.
Answer(t) ==
  /\ task[t].pc = "answer"
  /\ venue' = [venue EXCEPT ![OrderOf(t)].working = FALSE]
  /\ task' = [task EXCEPT ![t].pc = "fold", ![t].todo = <<venue'[OrderOf(t)]>>]
  /\ UNCHANGED <<db, mem, lock, price, left, past>>

\* The answer is lost: the order may be final, or go on without its task.
AnswerLost(t) ==
  /\ task[t].pc = "answer"
  /\ Fault
  /\ \E on \in BOOLEAN : venue' = [venue EXCEPT ![OrderOf(t)].working = on]
  /\ End(t)
  /\ UNCHANGED <<db, mem, lock, price, past>>

-----------------------------------------------------------------------------
\* The venue fills a working order at the current price, in one or two pieces.
FillOrder(i) ==
  /\ venue[i].working
  /\ price > 0
  /\ venue[i].filled < venue[i].quantity
  /\ \E q \in {1, venue[i].quantity} :
       LET more == q - venue[i].filled
       IN /\ more > 0
          /\ venue[i].side = "SELL" => Position >= more
          /\ venue' = [venue EXCEPT ![i] = [@ EXCEPT
                         !.filled = q, !.notional = @ + more * price,
                         !.fee = IF venue[i].coin THEN q \div 2 ELSE q]]
  /\ UNCHANGED <<db, mem, lock, price, task, left, past>>

MarketMoves ==
  /\ left.moves > 0
  /\ left' = [left EXCEPT !.moves = @ - 1]
  /\ price' \in Prices \ {price}
  /\ UNCHANGED <<db, mem, lock, venue, task, past>>

\* The API restarts: cache, lock and tasks are gone, the executor's orders are not.
Crash ==
  /\ Fault
  /\ mem' = [loaded |-> FALSE, agents |-> <<>>, orders |-> [i \in Orders |-> NoOrder]]
  /\ lock' = "free"
  /\ task' = [t \in Tasks |-> Ended]
  /\ \E on \in BOOLEAN :
       venue' = [i \in DOMAIN venue |-> [venue[i] EXCEPT !.working = @ /\ on]]
  /\ UNCHANGED <<db, price, past>>

Step(t) ==
  \/ Start(t) \/ SeedSlot(t) \/ ReadOrders(t) \/ Fold(t) \/ FoldCommit(t)
  \/ Weigh(t) \/ Pick(t) \/ Eliminate(t) \/ EliminateCommit(t) \/ Replace(t)
  \/ Value(t) \/ Propose(t) \/ Review(t) \/ Attribute(t) \/ AttributeCommit(t)
  \/ Send(t) \/ Answer(t) \/ AnswerLost(t) \/ WriteFails(t)

Next ==
  \/ \E t \in Tasks : Step(t)
  \/ \E i \in DOMAIN venue : FillOrder(i)
  \/ MarketMoves
  \/ Crash

Spec == Init /\ [][Next]_vars

-----------------------------------------------------------------------------
TypeOK ==
  /\ lock \in Tasks \cup {"free"}
  /\ Len(venue) <= Cardinality(Orders)
  /\ \A n \in DOMAIN db.agents :
       /\ db.agents[n].slot \in SlotSet
       /\ db.agents[n].status \in {"ACTIVE", "ELIMINATED"}
       /\ db.agents[n].book.quantity \in Nat

(* However tasks interleave, fail or restart, the stored roster never has  *)
(* two ACTIVE agents in a slot nor more capital out than the reference     *)
(* capital (seed, _spawn and eliminate under the roster's lock).           *)
StaffingIsBounded ==
  /\ \A s \in SlotSet : Cardinality(ActiveFor(db.agents, s)) <= 1
  /\ Cardinality(Active(db.agents)) <= Capacity

\* Sum over the attributions of agent n.
Total(n, value(_)) == MapThenSumSet(value, {i \in Orders : db.orders[i].agent = n})

Direction(i) == IF db.orders[i].side = "BUY" THEN 1 ELSE -1
PaidInCoins(i) == \E j \in DOMAIN venue : venue[j].number = i /\ venue[j].coin

(* Every fill is in exactly one book, once: a stored book is the sum of    *)
(* what its attributions say was applied, less the coins paid as fees and  *)
(* what a fold left out of a sell the book did not hold, across repeated   *)
(* reads, stale reads, failed transactions and restarts (apply_order).     *)
BooksMatchFills ==
  \A n \in DOMAIN db.agents :
    LET book == db.agents[n].book
        coins(i) == IF PaidInCoins(i) THEN db.orders[i].fee ELSE 0
        cash(i) == IF PaidInCoins(i) THEN 0 ELSE db.orders[i].fee
        moved(i) == Direction(i) * (db.orders[i].quantity - past.cut[i].quantity) - coins(i)
        spent(i) == Direction(i) * (db.orders[i].notional - past.cut[i].notional) + cash(i)
    IN /\ book.quantity = Total(n, moved)
       /\ book.cost - book.realized + book.fees = Total(n, spent)

(* A sell closes only the agent's own position, never the account's other  *)
(* holdings (shape_for_agent): no agent's orders ever sell more than its   *)
(* orders bought, and no fold leaves a part of a sell out, except of an    *)
(* agent that sized a sell while an order of its own could still fill or   *)
(* had fills its book did not know (sync_fills failing is not noticed).    *)
SellsOwnPosition ==
  \A n \in DOMAIN db.agents \ past.blind :
    /\ MapThenSumSet(LAMBDA i : Signed(venue[i]),
                     {i \in DOMAIN venue : db.orders[venue[i].number].agent = n}) >= 0
    /\ \A i \in Orders : db.orders[i].agent = n => past.cut[i].quantity = 0

(* The stored roster adds up: one agent a slot within the capital, every   *)
(* fill in one book, and no agent that knows its fills selling what        *)
(* another one bought.                                                     *)
RosterAddsUp == StaffingIsBounded /\ BooksMatchFills /\ SellsOwnPosition

(* An eliminated agent code can never trade again (AgentEliminated): no    *)
(* order of it reaches the OMS.                                            *)
EliminatedNeverTrades == ~past.revived
=============================================================================
