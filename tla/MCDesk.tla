------------------------------- MODULE MCDesk -------------------------------
(***************************************************************************)
(* The trading desk: orders that fill in steps, the account as the Risk    *)
(* Engine sees it, the agents' books, the strategies they follow, and the  *)
(* FinRobots council.                                                      *)
(* The components have no state in common; a behaviour is one of theirs.   *)
(***************************************************************************)
EXTENDS Integers

VARIABLE running   \* the component of this behaviour
VARIABLES mem, db, ledger, spent, venue, inflight, sent, phase, pending, call,
          crashes, writeFaults, mishaps, opening, price, quoted, reachable, today, rows,
          seen, lockdown, killed, left, overBudget, lock, task, past, clock,
          conf, feed, books, warmed, trend, stop_at, agent, journal, handed,
          moves, system, cycles, history, counts

all == <<running, mem, db, ledger, spent, venue, inflight, sent, phase, pending,
         call, crashes, writeFaults, mishaps, opening, price, quoted, reachable, today,
         rows, seen, lockdown, killed, left, overBudget, lock, task, past,
         clock, conf, feed, books, warmed, trend, stop_at, agent, journal,
         handed, moves, system, cycles, history, counts>>

Ample == [base |-> 2, quote |-> 8]
TwoBuys == [p1 |-> "buy", p2 |-> "buy2", p3 |-> "odd"]

\* The votes of one strategy, for both slots on one instrument.
Vote(direction) ==
    {[source |-> "PROTO_STRATEGY", strategy |-> "ema", direction |-> direction,
      strength |-> 10, observed |-> 0, received |-> 0]}
Votes == {Vote("LONG"), Vote("SHORT")}

Buy(quantity) ==
    [side |-> "BUY", quantity |-> quantity, price |-> 0, reduce_only |-> FALSE, stage |-> "PAPER"]
Proposals == [b1 |-> Buy(2)]

VenueEach == [i \in {"i1", "i2"} |-> IF i = "i1" THEN "v1" ELSE "v2"]

Orders == INSTANCE Oms WITH
    Assets <- {"base", "quote"}, Opening <- Ample,
    Intents <- {"buy", "buy2", "odd"}, Buys <- {"buy", "buy2"},
    Unsupported <- {"odd"}, Permits <- {"p1", "p2", "p3"},
    PermitFor <- TwoBuys, Qty <- 2, Hold <- 2, Price <- 1,
    PaperVenue <- FALSE, LateArrival <- FALSE, MaxCrashes <- 0,
    MaxWriteFaults <- 1

Account == INSTANCE Account WITH
    Intents <- {"b1"}, Intent <- Proposals, Openings <- {1},
    Prices <- {500, 440}, MarkedElsewhere <- FALSE, AutomaticKill <- TRUE,
    Overlap <- FALSE, FillsBetweenReads <- FALSE, MaxEvents <- 2,
    MaxRequests <- 1

\* The same account, its requests overlapping.
Overlapping == INSTANCE Account WITH
    Intents <- {"b1"}, Intent <- Proposals, Openings <- {1},
    Prices <- {500, 440}, MarkedElsewhere <- FALSE, AutomaticKill <- TRUE,
    Overlap <- TRUE, FillsBetweenReads <- FALSE, MaxEvents <- 2,
    MaxRequests <- 1

Agents == INSTANCE Roster WITH
    Slots <- <<"EMA", "TV">>, Capacity <- 2, Prices <- {10, 100},
    OpeningPrices <- {100}, Overlap <- TRUE, Bought <- 0, CoinFees <- {TRUE}, SignalSets <- Votes,
    Reviewer <- "deterministic", MaxTasks <- 2, MaxMoves <- 1, MaxFaults <- 2

\* The same agents holding a position, one task at a time.
Holders == INSTANCE Roster WITH
    Slots <- <<"EMA", "TV">>, Capacity <- 2, Prices <- {10, 100},
    OpeningPrices <- {100}, Overlap <- FALSE, Bought <- 2, CoinFees <- {FALSE},
    SignalSets <- Votes, Reviewer <- "deterministic", MaxTasks <- 3,
    MaxMoves <- 0, MaxFaults <- 2

Bars == INSTANCE Strategy WITH
    Kinds <- {"ema", "lab"}, BarLen <- 2, MaxAge <- 1, Cooldown <- 2,
    Confirm <- 2, Need <- 2, History <- 3, MaxHeld <- 2, MaxClock <- 8,
    MaxMoves <- 2

Council == INSTANCE FinRobots WITH
    Instruments <- {"i1", "i2"}, VenueOf <- VenueEach, HISTORY_CAPACITY <- 2,
    MaxEvents <- 2, MaxCycles <- 2, MaxFaults <- 1

\* What the variables of the other components hold.
Unused == "unused"

Init ==
    \/ /\ running = "orders" /\ Orders!Init
       /\ opening = Unused /\ price = Unused /\ quoted = Unused /\ reachable = Unused
       /\ today = Unused /\ rows = Unused /\ seen = Unused /\ lockdown = Unused
       /\ killed = Unused /\ left = Unused /\ overBudget = Unused /\ lock = Unused
       /\ task = Unused /\ past = Unused /\ clock = Unused /\ conf = Unused
       /\ feed = Unused /\ books = Unused /\ warmed = Unused /\ trend = Unused
       /\ stop_at = Unused /\ agent = Unused /\ journal = Unused /\ handed = Unused
       /\ moves = Unused /\ system = Unused /\ cycles = Unused /\ history = Unused
       /\ counts = Unused
    \/ /\ \/ running = "account" /\ Account!Init
          \/ running = "overlapping" /\ Overlapping!Init
       /\ mem = Unused /\ db = Unused /\ ledger = Unused /\ spent = Unused
       /\ inflight = Unused /\ sent = Unused /\ phase = Unused /\ pending = Unused
       /\ crashes = Unused /\ writeFaults = Unused /\ mishaps = Unused /\ lock = Unused /\ task = Unused
       /\ past = Unused /\ clock = Unused /\ conf = Unused /\ feed = Unused
       /\ books = Unused /\ warmed = Unused /\ trend = Unused /\ stop_at = Unused
       /\ agent = Unused /\ journal = Unused /\ handed = Unused /\ moves = Unused
       /\ system = Unused /\ cycles = Unused /\ history = Unused /\ counts = Unused
    \/ /\ \/ running = "roster" /\ Agents!Init
          \/ running = "holders" /\ Holders!Init
       /\ ledger = Unused /\ spent = Unused /\ inflight = Unused /\ sent = Unused
       /\ phase = Unused /\ pending = Unused /\ call = Unused /\ crashes = Unused
       /\ writeFaults = Unused /\ mishaps = Unused /\ opening = Unused /\ quoted = Unused
       /\ reachable = Unused /\ today = Unused /\ rows = Unused /\ seen = Unused
       /\ lockdown = Unused /\ killed = Unused /\ overBudget = Unused
       /\ clock = Unused /\ conf = Unused /\ feed = Unused /\ books = Unused
       /\ warmed = Unused /\ trend = Unused /\ stop_at = Unused /\ agent = Unused
       /\ journal = Unused /\ handed = Unused /\ moves = Unused /\ system = Unused
       /\ cycles = Unused /\ history = Unused /\ counts = Unused
    \/ /\ running = "strategy" /\ Bars!Init
       /\ mem = Unused /\ db = Unused /\ ledger = Unused /\ spent = Unused
       /\ venue = Unused /\ inflight = Unused /\ sent = Unused /\ phase = Unused
       /\ pending = Unused /\ call = Unused /\ crashes = Unused
       /\ writeFaults = Unused /\ mishaps = Unused /\ opening = Unused /\ price = Unused
       /\ quoted = Unused /\ reachable = Unused /\ today = Unused /\ rows = Unused
       /\ seen = Unused /\ lockdown = Unused /\ killed = Unused /\ left = Unused
       /\ overBudget = Unused /\ lock = Unused /\ past = Unused /\ system = Unused
       /\ cycles = Unused /\ history = Unused /\ counts = Unused
    \/ /\ running = "council" /\ Council!Init
       /\ mem = Unused /\ db = Unused /\ ledger = Unused /\ spent = Unused
       /\ venue = Unused /\ inflight = Unused /\ sent = Unused /\ phase = Unused
       /\ pending = Unused /\ call = Unused /\ crashes = Unused
       /\ writeFaults = Unused /\ mishaps = Unused /\ opening = Unused /\ price = Unused
       /\ quoted = Unused /\ reachable = Unused /\ today = Unused /\ rows = Unused
       /\ seen = Unused /\ lockdown = Unused /\ killed = Unused /\ left = Unused
       /\ overBudget = Unused /\ task = Unused /\ past = Unused /\ clock = Unused
       /\ conf = Unused /\ feed = Unused /\ books = Unused /\ warmed = Unused
       /\ trend = Unused /\ stop_at = Unused /\ agent = Unused /\ handed = Unused
       /\ moves = Unused

Next ==
    \/ /\ running = "orders" /\ Orders!Next
       /\ UNCHANGED <<running, opening, price, quoted, reachable, today, rows,
                       seen, lockdown, killed, left, overBudget, lock, task,
                       past, clock, conf, feed, books, warmed, trend, stop_at,
                       agent, journal, handed, moves, system, cycles, history,
                       counts>>
    \/ /\ \/ running = "account" /\ Account!Next
          \/ running = "overlapping" /\ Overlapping!Next
       /\ UNCHANGED <<running, mem, db, ledger, spent, inflight, sent, phase,
                       pending, crashes, writeFaults, mishaps, lock, task, past, clock,
                       conf, feed, books, warmed, trend, stop_at, agent,
                       journal, handed, moves, system, cycles, history, counts>>
    \/ /\ \/ running = "roster" /\ Agents!Next
          \/ running = "holders" /\ Holders!Next
       /\ UNCHANGED <<running, ledger, spent, inflight, sent, phase, pending,
                       call, crashes, writeFaults, mishaps, opening, quoted, reachable,
                       today, rows, seen, lockdown, killed, overBudget, clock,
                       conf, feed, books, warmed, trend, stop_at, agent,
                       journal, handed, moves, system, cycles, history, counts>>
    \/ /\ running = "strategy" /\ Bars!Next
       /\ UNCHANGED <<running, mem, db, ledger, spent, venue, inflight, sent,
                       phase, pending, call, crashes, writeFaults, mishaps, opening,
                       price, quoted, reachable, today, rows, seen, lockdown,
                       killed, left, overBudget, lock, past, system, cycles,
                       history, counts>>
    \/ /\ running = "council" /\ Council!Next
       /\ UNCHANGED <<running, mem, db, ledger, spent, venue, inflight, sent,
                       phase, pending, call, crashes, writeFaults, mishaps, opening,
                       price, quoted, reachable, today, rows, seen, lockdown,
                       killed, left, overBudget, task, past, clock, conf,
                       feed, books, warmed, trend, stop_at, agent, handed,
                       moves>>

Spec == Init /\ [][Next]_all

-----------------------------------------------------------------------------
\* While orders compete for a balance, what may still fill is covered by its hold
\* and what was filled can be booked, through lost answers, cancels racing fills and
\* a failing row write (_post_fill, _release_rest).
HoldsFollowFills == running = "orders" => Orders!HoldsFollowFills

\* No order is booked beyond what the venue executed, whatever is refreshed,
\* cancelled, resolved or fails meanwhile, except one that lost the record of a fill
\* already posted (_apply and the ids of fill entries).
OnlyLostFillsCountTwice == running = "orders" => Orders!OnlyLostFillsCountTwice

\* A saved peak never falls and a start of day changes only when the day advances,
\* through restarts, outages, missing quotes and failing steps, unless the operator
\* rebases or a request saves a row it computed before an overlapping request saved
\* its own (account_state, rebase_baseline).
LossBasisIsKept ==
    [][/\ running = "account" => Account!BasisKept
       /\ running = "overlapping" => Overlapping!BasisKept]_all

\* While the executor cannot be read, requests one at a time never see an account
\* better than the row kept on its real basis, even after a cold start
\* (_outage_checkpoint).
OutageIsConservative == running = "account" => Account!OutageIsConservative

\* One agent a slot within the capital, every fill in one book, and no agent selling
\* what another one bought, though evaluations, views and failing transactions
\* interleave (seed, apply_order, shape_for_agent, eliminate).
RosterAddsUp ==
    /\ running = "roster" => Agents!RosterAddsUp
    /\ running = "holders" => Holders!RosterAddsUp

\* No entry reaches the agents that was decided across a gap of the feed or against
\* the trend filter (observe, tick).
EntriesAreUnbroken == running = "strategy" => Bars!EntriesAreUnbroken

\* The council blocks new risk where a kill switch was thrown and nowhere else, and
\* its latest record never goes back (decide, run_cycle).
CouncilFollowsSwitches == running = "council" => Council!CouncilFollowsSwitches
=============================================================================
