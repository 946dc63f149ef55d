--------------------------- MODULE DecisionMemory ---------------------------
(***************************************************************************)
(* The decision memory: what was decided, and how it turned out.           *)
(*                                                                         *)
(*   services/orchestration/memory.py       DecisionMemoryStore            *)
(*   apps/api/app/orchestration_state.py    _shadow_decision_job           *)
(*   apps/api/app/paper_autopilot.py        _record_decision               *)
(*                                                                         *)
(* Writers run side by side: every call reads the row in one await and     *)
(* writes it in another.  A shadow job may run again after an attempt that *)
(* was stored, with a later recorded_at; the autopilot records every order *)
(* under an id of its own.  Timestamps are ticks of one clock.             *)
(***************************************************************************)
EXTENDS Integers

CONSTANTS
    Decisions,     \* decision ids
    Autopilot,     \* those that are ids of the autopilot's orders
    Writers,       \* tasks that may run together
    Outcomes,      \* what may be said of a decision
    MaxCalls,      \* bound: calls made
    MaxFaults      \* bound: failed database calls

NoOutcome == [text |-> "none", resolved_at |-> -1]

VARIABLES
    clock,     \* the wall clock
    table,     \* decision_memory: a set of [id, entry, outcome]
    tasks,     \* the calls in progress: [op, at, id, value]
    told,      \* history: what calls answered: [op, id, value]
    failures,  \* decision_memory_failures of the autopilot
    counts     \* [calls, faults]

vars == <<clock, table, tasks, told, failures, counts>>

Stages == {"SHADOW_ONLY", "PAPER_EXECUTED", "RISK_REJECTED"}
Entry(stage, observed) == [stage |-> stage, observed_at |-> observed, recorded_at |-> clock]
NoTask == [op |-> "none", at |-> "none", id |-> "none", value |-> NoOutcome]
RowsOf(d) == {x \in table : x.id = d}

Init ==
    /\ clock = 1
    /\ table = {} /\ told = {} /\ failures = 0
    /\ tasks = [w \in Writers |-> NoTask]
    /\ counts = [calls |-> 0, faults |-> 0]

\* Time passes between any two calls.
Call(w, op, d, value) ==
    /\ tasks[w] = NoTask /\ counts.calls < MaxCalls
    /\ counts' = [counts EXCEPT !.calls = @ + 1]
    /\ clock' = clock + 1
    /\ tasks' = [tasks EXCEPT ![w] = [op |-> op, at |-> "get", id |-> d, value |-> value]]
    /\ UNCHANGED <<table, told, failures>>

\* A job names its decision and what it observed; its recorded_at is the attempt's.
_shadow_decision_job(w) ==
    \E d \in Decisions \ Autopilot : Call(w, "job", d, Entry("SHADOW_ONLY", 1))

\* The autopilot records an order once, when its result is known.
_record_decision(w) ==
    \E d \in Autopilot, accepted \in BOOLEAN :
        /\ RowsOf(d) = {} /\ \A v \in Writers : tasks[v].id # d
        /\ Call(w, "autopilot", d, Entry(IF accepted THEN "PAPER_EXECUTED" ELSE "RISK_REJECTED", clock))

ResolveDecision(w) ==
    \E d \in Decisions, o \in Outcomes, t \in 0..clock :
        Call(w, "outcome", d, [text |-> o, resolved_at |-> t])

-----------------------------------------------------------------------------

\* The call ends: with an answer, or with an exception, which the autopilot
\* counts and everyone else passes on.
Return(w, value) ==
    /\ told' = told \cup {[op |-> tasks[w].op, id |-> tasks[w].id, value |-> value]}
    /\ tasks' = [tasks EXCEPT ![w] = NoTask]
    /\ UNCHANGED failures

Raise(w) ==
    /\ failures' = failures + IF tasks[w].op = "autopilot" THEN 1 ELSE 0
    /\ tasks' = [tasks EXCEPT ![w] = NoTask]
    /\ UNCHANGED told

ReturnStored(w, stored) == IF stored = tasks[w].value THEN Return(w, stored) ELSE Raise(w)
Proceed(w, at) == tasks' = [tasks EXCEPT ![w].at = at] /\ UNCHANGED <<told, failures>>

\* record: an entry that is there is answered when it is the same one.
get_entry(w) ==
    /\ tasks[w].op \in {"job", "autopilot"} /\ tasks[w].at = "get"
    /\ \/ \E x \in RowsOf(tasks[w].id) : ReturnStored(w, x.entry)
       \/ RowsOf(tasks[w].id) = {} /\ Proceed(w, "insert")
    /\ UNCHANGED <<clock, table, counts>>

\* The insert is refused by the primary key when another task was first.
record(w) ==
    /\ tasks[w].at = "insert"
    /\ IF RowsOf(tasks[w].id) # {} THEN Raise(w) /\ UNCHANGED table
       ELSE /\ table' = table \cup {[id |-> tasks[w].id, entry |-> tasks[w].value, outcome |-> NoOutcome]}
            /\ Return(w, tasks[w].value)
    /\ UNCHANGED <<clock, counts>>

\* record_outcome: of a decision that is known, has no other outcome and was
\* observed before it was resolved.
get_decision(w) ==
    /\ tasks[w].op = "outcome" /\ tasks[w].at = "get"
    /\ \/ RowsOf(tasks[w].id) = {} /\ Raise(w)
       \/ \E x \in RowsOf(tasks[w].id) :
            IF x.outcome # NoOutcome THEN ReturnStored(w, x.outcome)
            ELSE IF tasks[w].value.resolved_at < x.entry.observed_at THEN Raise(w)
            ELSE Proceed(w, "update")
    /\ UNCHANGED <<clock, table, counts>>

Resolved(x, w) == [x EXCEPT !.outcome = tasks[w].value]

\* A faulty update: of the row, whatever its outcome is by now.
UpdateAnyway(w) ==
    /\ tasks[w].at = "update"
    /\ \E x \in RowsOf(tasks[w].id) :
        /\ table' = (table \ {x}) \cup {Resolved(x, w)}
        /\ Return(w, tasks[w].value)
    /\ UNCHANGED <<clock, counts>>

\* The row is updated where it has no outcome, and read again where it has one.
record_outcome(w) ==
    /\ tasks[w].at = "update"
    /\ \E x \in RowsOf(tasks[w].id) :
        IF x.outcome # NoOutcome THEN Proceed(w, "again") /\ UNCHANGED table
        ELSE table' = (table \ {x}) \cup {Resolved(x, w)} /\ Return(w, tasks[w].value)
    /\ UNCHANGED <<clock, counts>>

get_again(w) ==
    /\ tasks[w].at = "again"
    /\ \E x \in RowsOf(tasks[w].id) : ReturnStored(w, x.outcome)
    /\ UNCHANGED <<clock, table, counts>>

\* A database call fails; what it wrote may have been committed.
CallFails(w) ==
    /\ tasks[w] # NoTask /\ counts.faults < MaxFaults
    /\ counts' = [counts EXCEPT !.faults = @ + 1]
    /\ \/ UNCHANGED table
       \/ /\ tasks[w].at = "insert" /\ RowsOf(tasks[w].id) = {}
          /\ table' = table \cup {[id |-> tasks[w].id, entry |-> tasks[w].value, outcome |-> NoOutcome]}
       \/ /\ tasks[w].at = "update"
          /\ \E x \in RowsOf(tasks[w].id) :
                x.outcome = NoOutcome /\ table' = (table \ {x}) \cup {Resolved(x, w)}
    /\ Raise(w)
    /\ UNCHANGED clock

Next ==
    \E w \in Writers :
        \/ _shadow_decision_job(w) \/ _record_decision(w) \/ ResolveDecision(w)
        \/ get_entry(w) \/ record(w) \/ get_decision(w) \/ record_outcome(w) \/ get_again(w)
        \/ CallFails(w)

Spec == Init /\ [][Next]_vars

-----------------------------------------------------------------------------

\* The calls and rows are where they can be.
TypeOK ==
    /\ \A x \in table : x.id \in Decisions /\ x.entry.stage \in Stages
    /\ \A w \in Writers : tasks[w].at \in {"none", "get", "insert", "update", "again"}
    /\ failures \in 0..MaxFaults

\* Whatever a caller was told of a decision or of its outcome is what the table
\* holds of it from then on, and of every caller alike: record, record_outcome
\* with competing writers, retried jobs and calls that failed after their commit.
MemoryIsImmutable ==
    \A a \in told : \E x \in table :
        x.id = a.id /\ a.value = IF a.op = "outcome" THEN x.outcome ELSE x.entry
=============================================================================
