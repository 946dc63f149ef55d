------------------------------- MODULE Signals -------------------------------
(***************************************************************************)
(* The way of a signal into PROTO: the TradingView webhook and the signals *)
(* PROTO's strategies make, the in-memory dedupe window of the ingestor,   *)
(* the journal and the agents.                                             *)
(*                                                                         *)
(*   apps/api/app/signal_surface.py     tradingview_webhook,               *)
(*                                      accept_internal_signal             *)
(*   services/signals/tradingview.py    TradingViewIngestor                *)
(*   apps/api/app/security.py           SlidingWindowRateLimiter           *)
(*                                                                         *)
(* Several deliveries are in flight; a delivery awaits its body and then   *)
(* the journal.  The journal keeps one event for an idempotency key; a     *)
(* write that fails may have been committed.                               *)
(***************************************************************************)
EXTENDS Integers, Sequences, Functions

CONSTANTS
    Alerts,      \* (strategy_id, alert_id) pairs TradingView sends
    Own,         \* ids of the signals of PROTO's strategies
    Deliveries,  \* deliveries that may be in flight together
    Capacity,    \* dedupe_capacity of the ingestor
    Limit,       \* requests a rate window admits
    MaxFaults,   \* bound: failed writes and restarts
    MaxArrivals  \* bound: deliveries that arrive

Ids == Alerts \cup Own

VARIABLES
    secret,    \* whether the webhook is configured
    age,       \* of each alert: "early", "timely" or "late"
    flight,    \* the deliveries: [at, id, created]
    seen,      \* _seen: the dedupe window, oldest first
    hits,      \* requests in the rate window
    journal,   \* the ids that have an event
    handed,    \* history: how often each id was handed to the agents
    answered,  \* history: the [id, outcome] pairs that were answered
    counts     \* [faults, arrivals]

vars == <<secret, age, flight, seen, hits, journal, handed, answered, counts>>

NoDelivery == [at |-> "none", id |-> "none", created |-> FALSE]

Init ==
    /\ secret \in BOOLEAN
    /\ age \in [Alerts -> {"early", "timely"}]
    /\ flight = [d \in Deliveries |-> NoDelivery]
    /\ seen = <<>>
    /\ hits = 0
    /\ journal = {}
    /\ handed = [i \in Ids |-> 0]
    /\ answered = {}
    /\ counts = [faults |-> 0, arrivals |-> 0]

Fault == counts.faults < MaxFaults /\ counts' = [counts EXCEPT !.faults = @ + 1]
Answer(d, outcome) ==
    /\ flight' = [flight EXCEPT ![d] = NoDelivery]
    /\ answered' = answered \cup {[id |-> flight[d].id, outcome |-> outcome]}
Refuse(d) == flight' = [flight EXCEPT ![d] = NoDelivery] /\ UNCHANGED answered

\* Time passes for an alert: the clock skew that is tolerated, then the allowed age.
Ages(a) ==
    /\ age[a] # "late"
    /\ age' = [age EXCEPT ![a] = IF @ = "early" THEN "timely" ELSE "late"]
    /\ UNCHANGED <<secret, flight, seen, hits, journal, handed, answered, counts>>

\* The oldest hit leaves the rate window.
WindowMoves ==
    /\ hits > 0 /\ hits' = hits - 1
    /\ UNCHANGED <<secret, age, flight, seen, journal, handed, answered, counts>>

-----------------------------------------------------------------------------
\* The webhook.

Arrives(d, id, at) ==
    /\ flight[d] = NoDelivery /\ counts.arrivals < MaxArrivals
    /\ counts' = [counts EXCEPT !.arrivals = @ + 1]
    /\ flight' = [flight EXCEPT ![d] = [at |-> at, id |-> id, created |-> FALSE]]

\* allow of the rate limiter: a refused request is not a hit.
allow == hits < Limit

\* A webhook request is let in: it then awaits its body. One that is refused
\* (not configured, rate limited, declared too large) changes nothing else.
tradingview_webhook(d) ==
    /\ secret /\ allow
    /\ hits' = hits + 1
    /\ \E a \in Alerts : Arrives(d, a, "body")
    /\ UNCHANGED <<secret, age, seen, journal, handed, answered>>

\* The body is refused: a foreign address, an oversized or unreadable body, a
\* wrong secret, an invalid alert or an instrument that is not allowed.
SignalRejected(d) ==
    /\ flight[d].at = "body" /\ Refuse(d)
    /\ UNCHANGED <<secret, age, seen, hits, journal, handed, counts>>

\* The alert is too old, or from the future.
RejectedByAge(d) ==
    /\ flight[d].at = "body" /\ age[flight[d].id] # "timely" /\ Refuse(d)
    /\ UNCHANGED <<secret, age, seen, hits, journal, handed, counts>>

\* The window without a pair.
Without(a) == SelectSeq(seen, LAMBDA b : b # a)

\* A repeated pair is answered from the window, and becomes its newest entry.
IngestDuplicate(d) ==
    /\ flight[d].at = "body"
    /\ LET a == flight[d].id
       IN  /\ age[a] = "timely" /\ a \in Range(seen)
           /\ seen' = Append(Without(a), a)
    /\ Answer(d, "DUPLICATE")
    /\ UNCHANGED <<secret, age, hits, journal, handed, counts>>

\* A new pair enters the window, whose oldest entry leaves when it is full.
ingest(d) ==
    /\ flight[d].at = "body"
    /\ LET a   == flight[d].id
           now == Append(seen, a)
       IN  /\ age[a] = "timely" /\ a \notin Range(seen)
           /\ seen' = IF Len(now) > Capacity THEN Tail(now) ELSE now
    /\ flight' = [flight EXCEPT ![d].at = "record"]
    /\ UNCHANGED <<secret, age, hits, journal, handed, answered, counts>>

\* accept_internal_signal: a strategy's signal goes to the journal at once.
accept_internal_signal(d) ==
    /\ \E i \in Own : Arrives(d, i, "record")
    /\ UNCHANGED <<secret, age, seen, hits, journal, handed, answered>>

-----------------------------------------------------------------------------
\* The journal, and after it.

\* record: the event is stored, or one with its key is found.
record(d) ==
    /\ flight[d].at = "record"
    /\ journal' = journal \cup {flight[d].id}
    /\ flight' = [flight EXCEPT ![d] = [at |-> "recorded", id |-> flight[d].id,
                                        created |-> flight[d].id \notin journal]]
    /\ UNCHANGED <<secret, age, seen, hits, handed, answered, counts>>

\* forget undoes the dedupe of an alert that could not be recorded.
forget(a) == Without(a)

\* JournalUnavailable: the caller gets 503 and a retry is let through. The event
\* may have been stored all the same.
JournalUnavailable(d) ==
    /\ flight[d].at = "record" /\ Fault
    /\ journal' \in {journal, journal \cup {flight[d].id}}
    /\ seen' = IF flight[d].id \in Alerts THEN forget(flight[d].id) ELSE seen
    /\ Refuse(d)
    /\ UNCHANGED <<secret, age, hits, handed>>

\* A faulty ending: a signal already in the journal is handed over again.
HandsAgain(d) ==
    /\ flight[d].at = "recorded"
    /\ handed' = [handed EXCEPT ![flight[d].id] = @ + 1]
    /\ Answer(d, IF flight[d].created THEN "ACCEPTED" ELSE "DUPLICATE")
    /\ UNCHANGED <<secret, age, seen, hits, journal, counts>>

\* The event was created: on_signal_accepted, once. Otherwise it was journalled
\* before a restart or after the window had evicted it.
Finish(d) ==
    /\ flight[d].at = "recorded"
    /\ IF flight[d].created
       THEN handed' = [handed EXCEPT ![flight[d].id] = @ + 1] /\ Answer(d, "ACCEPTED")
       ELSE UNCHANGED handed /\ Answer(d, "DUPLICATE")
    /\ UNCHANGED <<secret, age, seen, hits, journal, counts>>

\* A restart, or a change of the settings: the window and the limiter are in memory.
reset_signal_state ==
    /\ Fault
    /\ flight' = [d \in Deliveries |-> NoDelivery] /\ seen' = <<>> /\ hits' = 0
    /\ UNCHANGED <<secret, age, journal, handed, answered>>

Next ==
    \/ \E a \in Alerts : Ages(a)
    \/ WindowMoves \/ reset_signal_state
    \/ \E d \in Deliveries :
        \/ tradingview_webhook(d) \/ SignalRejected(d) \/ RejectedByAge(d) \/ IngestDuplicate(d)
        \/ ingest(d) \/ accept_internal_signal(d)
        \/ record(d) \/ JournalUnavailable(d) \/ Finish(d)

Spec == Init /\ [][Next]_vars

-----------------------------------------------------------------------------

\* The deliveries, the window and the answers keep their shapes.
TypeOK ==
    /\ \A d \in Deliveries : flight[d].at \in {"none", "body", "record", "recorded"}
    /\ Len(seen) <= Capacity /\ IsInjective(seen)
    /\ hits \in 0..Limit /\ journal \subseteq Ids
    /\ answered \subseteq [id : Ids, outcome : {"ACCEPTED", "DUPLICATE"}]

\* A signal is handed to the agents at most once, however often it is delivered,
\* evicted from the window, retried after a failed write or sent again after a
\* restart: tradingview_webhook and accept_internal_signal.
HandedOnce == \A i \in Ids : handed[i] <= 1

\* An alert that was acknowledged, as accepted or as a duplicate, is in the journal
\* once nothing is being recorded for it any more: tradingview_webhook.
AcknowledgedIsDurable ==
    \A x \in answered : x.id \in journal \/ \E d \in Deliveries : flight[d].id = x.id
=============================================================================
