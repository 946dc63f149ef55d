------------------------------ MODULE Records ------------------------------
(***************************************************************************)
(* The parts that keep books: the signal journal behind the webhook        *)
(* (Signals), the research store (Research), the decision memory           *)
(* (DecisionMemory), the connector's tokens (Connector) and the cash of a  *)
(* backtest (Backtest).                                                    *)
(*                                                                         *)
(* They have no state in common; a behaviour is one of theirs, and the     *)
(* variables it does not use hold Unused.                                  *)
(***************************************************************************)
EXTENDS Integers

CONSTANTS Alerts, Own, Deliveries, Capacity, Limit, MaxAlertFaults, MaxArrivals

CONSTANTS Experiments, Contexts, Requests, Ops, PromotionPolicies, Evidence

CONSTANTS Decisions, Autopilot, Writers, Outcomes

CONSTANTS Secrets, MaxClients, MaxTokens, ApprovalLimit, Window, CodeTTL, AccessTTL,
          RefreshTTL, Messages, LastTick, MaxMade, MaxRegistered, MaxRestarts

CONSTANTS Levels, Capital, Floor, RiskQty, MinNotional, max_bars, WindowLen, Windows

CONSTANTS MaxCalls, MaxFaults   \* bounds of the research store and of the memory

VARIABLE running    \* the component of this behaviour
VARIABLES age, flight, seen, journal, handed, answered   \* Signals
VARIABLES durable, rows, reqs                            \* Research
VARIABLES table, tasks, failures                         \* DecisionMemory
VARIABLES clients, codes, grants, saving, waiting, stored, answer, registered,
          restarts, revoked, gone, made   \* Connector
VARIABLES at, cash, book, pending, eliminated, pnl, fallen, revived   \* Backtest
VARIABLES secret, hits, clock, told, counts              \* of several

inboxVars == <<age, flight, seen, journal, handed, answered>>
storeVars == <<durable, rows, reqs>>
memoryVars == <<table, tasks, failures>>
connectorVars == <<clients, codes, grants, saving, waiting, stored, answer,
                   registered, restarts, revoked, gone, made>>
labVars == <<at, cash, book, pending, eliminated, pnl, fallen, revived>>
records == <<running, inboxVars, storeVars, memoryVars, connectorVars, labVars,
             secret, hits, clock, told, counts>>

Inbox == INSTANCE Signals WITH MaxFaults <- MaxAlertFaults

Store == INSTANCE Research

Memory == INSTANCE DecisionMemory

Connector == INSTANCE Connector

Lab == INSTANCE Backtest

-----------------------------------------------------------------------------
\* Prices are in units of which slippage and fees, a tenth each, leave whole ones;
\* capital is positive.
ASSUME LabAssumption ==
    /\ \A l \in Levels : l \in Nat /\ l > 0 /\ l % 100 = 0
    /\ Capital \in Nat \ {0} /\ RiskQty \in Int

-----------------------------------------------------------------------------
\* What the variables of the other components hold.
Unused == "unused"

NoInbox ==
    /\ age = Unused /\ flight = Unused /\ seen = Unused /\ journal = Unused
    /\ handed = Unused /\ answered = Unused
NoStore == durable = Unused /\ rows = Unused /\ reqs = Unused
NoMemory == table = Unused /\ tasks = Unused /\ failures = Unused
NoConnector ==
    /\ clients = Unused /\ codes = Unused /\ grants = Unused /\ saving = Unused
    /\ waiting = Unused /\ stored = Unused /\ answer = Unused /\ registered = Unused
    /\ restarts = Unused /\ revoked = Unused /\ gone = Unused /\ made = Unused
NoLab ==
    /\ at = Unused /\ cash = Unused /\ book = Unused /\ pending = Unused
    /\ eliminated = Unused /\ pnl = Unused /\ fallen = Unused /\ revived = Unused

RecordsInit ==
    \/ /\ running = "signals" /\ Inbox!Init
       /\ NoStore /\ NoMemory /\ NoConnector /\ NoLab /\ clock = Unused
       /\ told = Unused
    \/ /\ running = "research" /\ Store!Init
       /\ NoInbox /\ NoMemory /\ NoConnector /\ NoLab /\ secret = Unused
       /\ hits = Unused /\ clock = Unused
    \/ /\ running = "memory" /\ Memory!Init
       /\ NoInbox /\ NoStore /\ NoConnector /\ NoLab /\ secret = Unused
       /\ hits = Unused
    \/ /\ running = "connector" /\ Connector!Init
       /\ NoInbox /\ NoStore /\ NoMemory /\ NoLab /\ told = Unused /\ counts = Unused
    \/ /\ running = "backtest" /\ Lab!Init
       /\ NoInbox /\ NoStore /\ NoMemory /\ NoConnector /\ secret = Unused
       /\ hits = Unused /\ clock = Unused /\ told = Unused /\ counts = Unused

RecordsNext ==
    \/ /\ running = "signals" /\ Inbox!Next
       /\ UNCHANGED <<running, storeVars, memoryVars, connectorVars, labVars, clock,
                       told>>
    \/ /\ running = "research" /\ Store!Next
       /\ UNCHANGED <<running, inboxVars, memoryVars, connectorVars, labVars, secret,
                       hits, clock>>
    \/ /\ running = "memory" /\ Memory!Next
       /\ UNCHANGED <<running, inboxVars, storeVars, connectorVars, labVars, secret,
                       hits>>
    \/ /\ running = "connector" /\ Connector!Next
       /\ UNCHANGED <<running, inboxVars, storeVars, memoryVars, labVars, told, counts>>
    \/ /\ running = "backtest" /\ Lab!Next
       /\ UNCHANGED <<running, inboxVars, storeVars, memoryVars, connectorVars,
                       secret, hits, clock, told, counts>>

RecordsSpec == RecordsInit /\ [][RecordsNext]_records

-----------------------------------------------------------------------------
\* A signal is handed to the agents at most once, however often it is delivered,
\* evicted, retried after a failed write or sent again after a restart
\* (tradingview_webhook, accept_internal_signal).
HandedOnce == running = "signals" => Inbox!HandedOnce

\* A frozen holdout has one verdict and a stored lineage is whole, though writers
\* race, fail after their commit and retry (consume_frozen_holdout_decision,
\* persist_quant_lineage).
RecordsAreFinal == running = "research" => Store!RecordsAreFinal

\* What a caller was told of a decision or its outcome is what the table holds from
\* then on (record, record_outcome).
MemoryIsImmutable == running = "memory" => Memory!MemoryIsImmutable

\* Every token the connector honours descends from one approval under the token now
\* configured, and none of a revoked one, though saves fail, race or are cut off by
\* a restart (token, revoke_all, restore_oauth).
ServedByOneApproval == running = "connector" => Connector!ServedByOneApproval

\* Cash never goes below zero and is the capital and the results whenever the agent
\* is flat, fees and slippage included (run, walk_forward).
BooksBalance == running = "backtest" => Lab!BooksBalance
=============================================================================
