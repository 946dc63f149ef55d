----------------------------- MODULE MCSurfaces -----------------------------
(***************************************************************************)
(* The surfaces around the desk: the books of Records and the tasks of     *)
(* Locks, the venue adapters (Venues) and live market data (Live).  The    *)
(* components have no state in common; a behaviour is one of theirs.       *)
(***************************************************************************)
EXTENDS Records, Locks

VARIABLES venue, order, world, placed, adapter, call, bridge, holding, said, calls   \* Venues
VARIABLES now, emitted, mon, pipe, per, walk, ever, heardNow, frames, upsets, ticks,
          stream, socket   \* Live

adapterVars == <<venue, order, world, placed, adapter, call, bridge, holding, said,
                 calls>>
feedVars == <<now, emitted, mon, pipe, per, walk, ever, heardNow, frames, upsets,
              ticks, stream, socket>>
all == <<records, locks, adapterVars, feedVars>>

\* A control, a candidate that claims all it needs, and one that lacks a measure.
Claim(kind, overfitting) ==
    [kind |-> kind, sharpe |-> 1, overfitting |-> overfitting, control |-> 0,
     passed |-> TRUE, consumed |-> TRUE, seal |-> <<"seal", "e1", "c1">>]
Claims ==
    {Claim("CONTROL", 0), Claim("ALPHA_CANDIDATE", 0), Claim("ALPHA_CANDIDATE", -1)}
Policies == {[minimum |-> 1, maximum |-> 0]}

Adapters == INSTANCE Venues WITH
    Kinds <- {"binance", "alpaca", "xp"}, Quantity <- 2, MaxSubmits <- 2,
    MaxCalls <- 3, MaxFaults <- 1, MaxMoves <- 2, store <- holding, counts <- calls

Feed == INSTANCE Live WITH
    Symbols <- {"BTC"}, Provider <- "binance", Mids <- <<10, 11, 0, 20>>,
    StaleAfter <- 1, FutureSkew <- 0, SourceStale <- 2, MaxJump <- 20,
    MaxParseErrors <- 2, DedupeLimit <- 2, Retention <- 1, PruneEvery <- 2,
    PageLimit <- 1, Ranges <- {<<0, 3>>}, LastTick <- 3, MaxFrames <- 4,
    MaxEvents <- 2, adapter <- socket, task <- stream, rows <- ticks,
    sent <- emitted, events <- upsets

NoRecords ==
    /\ NoInbox /\ NoStore /\ NoMemory /\ NoConnector /\ NoLab /\ secret = Unused
    /\ hits = Unused /\ clock = Unused /\ told = Unused /\ counts = Unused
NoLocks == locking = Unused /\ NoProfile /\ NoPaper /\ task = Unused
NoAdapters ==
    /\ venue = Unused /\ order = Unused /\ world = Unused /\ placed = Unused
    /\ adapter = Unused /\ call = Unused /\ bridge = Unused /\ holding = Unused
    /\ said = Unused /\ calls = Unused
NoFeed ==
    /\ now = Unused /\ emitted = Unused /\ mon = Unused /\ pipe = Unused
    /\ per = Unused /\ walk = Unused /\ ever = Unused /\ heardNow = Unused
    /\ frames = Unused /\ upsets = Unused /\ ticks = Unused /\ stream = Unused
    /\ socket = Unused

Init ==
    \/ RecordsInit /\ NoLocks /\ NoAdapters /\ NoFeed
    \/ LocksInit /\ running = Unused /\ NoRecords /\ NoAdapters /\ NoFeed
    \/ running = "venues" /\ Adapters!Init /\ NoRecords /\ NoLocks /\ NoFeed
    \/ running = "live" /\ Feed!Init /\ NoRecords /\ NoLocks /\ NoAdapters

Next ==
    \/ RecordsNext /\ UNCHANGED <<locks, adapterVars, feedVars>>
    \/ LocksNext /\ UNCHANGED <<records, adapterVars, feedVars>>
    \/ running = "venues" /\ Adapters!Next /\ UNCHANGED <<records, locks, feedVars>>
    \/ running = "live" /\ Feed!Next /\ UNCHANGED <<records, locks, adapterVars>>

Spec == Init /\ [][Next]_all

-----------------------------------------------------------------------------
\* A final report has all the order will ever fill and a refusal means nothing was
\* placed, though a report is read in several requests and answers are lost (submit,
\* query, cancel); except what the MT5 terminal placed without telling the bridge,
\* which answers REJECTED for it.
ReportsAreDefinite == running = "venues" => Adapters!ReportsAreDefinite

\* The latest tick was stored and readiness is about the open connection, through
\* failed commits, reconnections and restarts (ingest, live_ready).
ShownIsReal == running = "live" => Feed!ShownIsReal

\* A client that follows the history cursors gets no row twice and misses none that
\* stayed, while rows are inserted and pruned (history pages).
WalkIsComplete == running = "live" => Feed!WalkIsComplete
=============================================================================
