------------------------------ MODULE Journal ------------------------------
(***************************************************************************)
(* The operational journal: the hash chain (services/events/journal.py),   *)
(* its table (services/events/journal_store.py) and the writer of an API   *)
(* process (OperationalJournal in apps/api/app/event_state.py), which the  *)
(* control plane starts again after every outage of the database           *)
(* (apps/api/app/control_state.py).                                        *)
(*                                                                         *)
(* A hash stands for everything it commits to, so it is modelled by the    *)
(* sequence of the contents of the chain it closes: two hashes are equal   *)
(* exactly when the whole histories are.  GENESIS is the empty sequence    *)
(* and the head's sequence number is its length.                           *)
(***************************************************************************)
EXTENDS Naturals, Sequences, FiniteSets

CONSTANTS
    Procs,          \* API processes with a journal on the same table
    Callers,        \* concurrent requests of a process that record an event
    Keys,           \* idempotency keys
    NoKey,          \* an event recorded without a key
    MaxEvents,      \* bound: events ever prepared
    MaxRestarts,    \* bound: process restarts and reconnections
    MaxFaults,      \* bound: database calls that raise
    MaxLost         \* bound: rows the storage loses

ASSUME BoundAssumption == {MaxEvents, MaxRestarts, MaxFaults, MaxLost} \subseteq Nat

VARIABLES
    table,      \* the rows of operational_journal
    mem,        \* mem[p]: the in-memory chain and integrity state of p
    call,       \* call[p][c]: the record() call c of p has in progress
    fresh,      \* contents used so far: event ids are never repeated
    left        \* restarts, faults and losses still allowed

vars == <<table, mem, call, fresh, left>>

Hash   == UNION {[1..n -> 1..MaxEvents] : n \in 0..MaxEvents}
Event  == [seq : 1..MaxEvents, key : Keys \cup {NoKey}, prev : Hash, hash : Hash]
NoEvent == [seq |-> 0]
Free   == "free"
Loader == "start"

TypeOK ==
    /\ table \subseteq Event
    /\ mem \in [Procs -> [integrity : {"UNVERIFIED", "VALID", "CORRUPTED"}, head : Hash,
                          keys : SUBSET Keys, lock : Callers \cup {Free, Loader}]]
    /\ call \in [Procs -> [Callers ->
                   [at : {"idle", "waiting", "appending", "lookup"},
                    key : Keys \cup {NoKey}, event : Event \cup {NoEvent},
                    answer : {"none", "created", "duplicate", "unavailable"}]]]
    /\ fresh \in 0..MaxEvents
    /\ left \in [restart : 0..MaxRestarts, fault : 0..MaxFaults, lost : 0..MaxLost]

Idle == [at |-> "idle", key |-> NoKey, event |-> NoEvent, answer |-> "none"]
Boot == [integrity |-> "UNVERIFIED", head |-> <<>>, keys |-> {}, lock |-> Loader]

\* Every process starts with the load of the history (main.py's lifespan).
Init ==
    /\ table = {}
    /\ mem = [p \in Procs |-> Boot]
    /\ call = [p \in Procs |-> [c \in Callers |-> Idle]]
    /\ fresh = 0
    /\ left = [restart |-> MaxRestarts, fault |-> MaxFaults, lost |-> MaxLost]

Spend(what) == left[what] > 0 /\ left' = [left EXCEPT ![what] = @ - 1]

-----------------------------------------------------------------------------
(***************************************************************************)
(* start(): restore the rows in sequence order, each checked against the   *)
(* head.  Each row is read in a batch of its own, so another writer may    *)
(* append meanwhile.                                                       *)
(***************************************************************************)
After(p) == {e \in table : e.seq > Len(mem[p].head)}
First(rows) == CHOOSE e \in rows : \A f \in rows : e.seq <= f.seq

Links(e, head) == e.seq = Len(head) + 1 /\ e.prev = head

\* The hash of the content is checked too; a stored row always carries its own.
Restored(m, e) == [m EXCEPT !.head = e.hash, !.keys = @ \cup ({e.key} \cap Keys)]

Restore(p) ==
    /\ mem[p].lock = Loader
    /\ After(p) # {}
    /\ LET e == First(After(p)) IN
         mem' = [mem EXCEPT ![p] =
                   IF Links(e, @.head) THEN Restored(@, e)
                   ELSE [@ EXCEPT !.integrity = "CORRUPTED", !.lock = Free]]
    /\ UNCHANGED <<table, call, fresh, left>>

RestoreDone(p) ==
    /\ mem[p].lock = Loader
    /\ After(p) = {}
    /\ mem' = [mem EXCEPT ![p].integrity = "VALID", ![p].lock = Free]
    /\ UNCHANGED <<table, call, fresh, left>>

\* The database error propagates to the control plane, which tries again later.
RestoreFails(p) ==
    /\ mem[p].lock = Loader
    /\ Spend("fault")
    /\ mem' = [mem EXCEPT ![p].lock = Free]
    /\ UNCHANGED <<table, call, fresh>>

\* start(), called again by ensure(): it takes the lock, forgets the chain and
\* loads it anew.  Retry follows a load that failed, Reconnect an outage that a
\* reader of the control plane met.
Reload(p) ==
    /\ mem[p].lock = Free
    /\ mem' = [mem EXCEPT ![p] = Boot]
    /\ UNCHANGED <<table, call, fresh>>

Retry(p) == mem[p].integrity = "UNVERIFIED" /\ Reload(p) /\ UNCHANGED left

Reconnect(p) == Spend("restart") /\ Reload(p)

Restart(p) ==
    /\ Spend("restart")
    /\ mem' = [mem EXCEPT ![p] = Boot]
    /\ call' = [call EXCEPT ![p] = [c \in Callers |-> Idle]]
    /\ UNCHANGED <<table, fresh>>

-----------------------------------------------------------------------------
(***************************************************************************)
(* record(): the integrity test comes first, then the wait for the lock;   *)
(* under it the event is prepared on the head, stored, and only then       *)
(* committed to memory.                                                    *)
(***************************************************************************)
Ends(p, c, answer) ==
    [call EXCEPT ![p][c] =
       [at |-> "idle", key |-> @.key, event |-> @.event, answer |-> answer]]

\* The bound on events: one is kept for every call that waits for the lock.
Waiting == {w \in Procs \X Callers : call[w[1]][w[2]].at = "waiting"}

Record(p, c, k) ==
    /\ call[p][c].at = "idle"
    /\ fresh + Cardinality(Waiting) < MaxEvents
    /\ call' = IF mem[p].integrity = "VALID"
               THEN [call EXCEPT ![p][c] = [Idle EXCEPT !.at = "waiting", !.key = k]]
               ELSE [call EXCEPT ![p][c] = [Idle EXCEPT !.key = k, !.answer = "unavailable"]]
    /\ UNCHANGED <<table, mem, fresh, left>>

Extend(head, k) ==
    [seq |-> Len(head) + 1, key |-> k, prev |-> head, hash |-> Append(head, fresh + 1)]

PrepareCommits(p, c) ==
    /\ call[p][c].at = "waiting"
    /\ mem[p].lock = Free
    /\ fresh' = fresh + 1
    /\ LET e == Extend(mem[p].head, call[p][c].key) IN
         /\ mem' = [mem EXCEPT ![p] = [Restored(@, e) EXCEPT !.lock = c]]
         /\ call' = [call EXCEPT ![p][c].at = "appending", ![p][c].event = e]
    /\ UNCHANGED <<table, left>>

Prepare(p, c) ==
    /\ call[p][c].at = "waiting"
    /\ mem[p].lock = Free
    /\ IF call[p][c].key \in mem[p].keys
       THEN /\ call' = Ends(p, c, "duplicate")
            /\ UNCHANGED <<mem, fresh>>
       ELSE /\ fresh' = fresh + 1
            /\ mem' = [mem EXCEPT ![p].lock = c]
            /\ call' = [call EXCEPT ![p][c] =
                           [at |-> "appending", key |-> @.key,
                            event |-> Extend(mem[p].head, @.key), answer |-> "none"]]
    /\ UNCHANGED <<table, left>>

\* The unique columns of the table.
ClashOnKeyOnly(e, f) == e.key # NoKey /\ e.key = f.key

Clash(e, f) ==
    \/ e.seq = f.seq \/ e.prev = f.prev \/ e.hash = f.hash
    \/ e.key # NoKey /\ e.key = f.key

Committed(p, e) ==
    [mem EXCEPT ![p] = [Restored(@, e) EXCEPT !.lock = Free]]

Stored(p, c) ==
    LET e == call[p][c].event IN
    /\ call[p][c].at = "appending"
    /\ ~\E f \in table : Clash(e, f)
    /\ table' = table \cup {e}
    /\ mem' = Committed(p, e)
    /\ call' = Ends(p, c, "created")
    /\ UNCHANGED <<fresh, left>>

Refused(p, c) ==
    /\ call[p][c].at = "appending"
    /\ \E f \in table : Clash(call[p][c].event, f)
    /\ call' = [call EXCEPT ![p][c] =
                   [at |-> "lookup", key |-> @.key, event |-> @.event, answer |-> "none"]]
    /\ UNCHANGED <<table, mem, fresh, left>>

AnyClashIsDuplicate(p, c) ==
    /\ call[p][c].at = "lookup"
    /\ mem' = [mem EXCEPT ![p].lock = Free]
    /\ call' = Ends(p, c, "duplicate")
    /\ UNCHANGED <<table, fresh, left>>

\* The row with the same key, if there is one, is the answer; otherwise another
\* writer moved the head and the journal locks itself.
Lookup(p, c) ==
    LET k == call[p][c].key IN
    /\ call[p][c].at = "lookup"
    /\ IF \E f \in table : k # NoKey /\ f.key = k
       THEN /\ mem' = [mem EXCEPT ![p].lock = Free, ![p].keys = @ \cup {k}]
            /\ call' = Ends(p, c, "duplicate")
       ELSE /\ mem' = [mem EXCEPT ![p].lock = Free, ![p].integrity = "CORRUPTED"]
            /\ call' = Ends(p, c, "unavailable")
    /\ UNCHANGED <<table, fresh, left>>

FailsWithTheLock(p, c) ==
    /\ call[p][c].at \in {"appending", "lookup"}
    /\ Spend("fault")
    /\ call' = Ends(p, c, "unavailable")
    /\ UNCHANGED <<table, mem, fresh>>

\* Any other error of the driver: the transaction may or may not have committed.
WriteFails(p, c) ==
    LET e == call[p][c].event IN
    /\ call[p][c].at \in {"appending", "lookup"}
    /\ Spend("fault")
    /\ \/ UNCHANGED table
       \/ /\ call[p][c].at = "appending"
          /\ ~\E f \in table : Clash(e, f)
          /\ table' = table \cup {e}
    /\ mem' = [mem EXCEPT ![p].lock = Free]
    /\ call' = Ends(p, c, "unavailable")
    /\ UNCHANGED fresh

\* The storage loses a row.
RowLost ==
    /\ Spend("lost")
    /\ \E e \in table : table' = table \ {e}
    /\ UNCHANGED <<mem, call, fresh>>

Load(p) == Restore(p) \/ RestoreDone(p)
Write(p, c) == Prepare(p, c) \/ Stored(p, c) \/ Refused(p, c) \/ Lookup(p, c)

Next ==
    \/ \E p \in Procs :
         \/ Load(p) \/ RestoreFails(p) \/ Retry(p) \/ Reconnect(p) \/ Restart(p)
         \/ \E c \in Callers :
              \/ Write(p, c) \/ WriteFails(p, c)
              \/ \E k \in Keys \cup {NoKey} : Record(p, c, k)
    \/ RowLost

Spec == Init /\ [][Next]_vars

\* The event loop goes on with every coroutine that is not waiting, and the
\* lock is handed to its waiters in turn.
FairSpec ==
    /\ Spec
    /\ \A p \in Procs : WF_vars(Load(p)) /\ WF_vars(Retry(p))
    /\ \A p \in Procs, c \in Callers : SF_vars(Write(p, c))

-----------------------------------------------------------------------------

Intact == left.lost = MaxLost

\* The rows form one chain from GENESIS, without gap or fork, whatever the
\* processes interleave: the unique columns let only one successor of a head in.
ChainIntact ==
    Intact => \A e \in table :
        /\ e.prev = <<>> \/ \E f \in table : f.seq = e.seq - 1 /\ e.prev = f.hash
        /\ Len(e.hash) = e.seq
        /\ \A f \in table : e.seq = f.seq => e = f

\* No two rows disagree on their common past: what a row's hash commits to is
\* exactly what the rows before it say.
NoFork ==
    Intact => \A e, f \in table :
        e.seq <= f.seq => \A i \in 1..e.seq : e.hash[i] = f.hash[i]

\* "Memory never holds an event the database lacks": the in-memory head is
\* GENESIS or the hash of a stored row, also while the history is reloaded.
MemoryIsDurable ==
    Intact => \A p \in Procs : mem[p].head = <<>> \/ \E e \in table : e.hash = mem[p].head

\* A caller that record() answers finds what it was told in the table: its own
\* event when it is told "created", the one event with its key when it is told
\* "duplicate".  The key cache, the retry after a lost answer, a second process
\* and a restart all lead to the same row.
AnsweredIsStored ==
    Intact => \A p \in Procs, c \in Callers :
        LET r == call[p][c] IN
        /\ r.at = "idle" /\ r.answer = "created" => r.event \in table
        /\ r.at = "idle" /\ r.answer = "duplicate" => \E e \in table : e.key = r.key

\* There is one history, every process stands somewhere on it, and every answer
\* names a part of it.
HistoryIsOne == ChainIntact /\ NoFork /\ MemoryIsDurable /\ AnsweredIsStored

\* Every record() is answered: the lock is given back on every path, also when
\* the database raises.
CallsAnswered ==
    \A p \in Procs, c \in Callers : call[p][c].at # "idle" ~> call[p][c].at = "idle"

\* "A failed write raises JournalUnavailable and records nothing."
FailedRecordsNothing ==
    \A p \in Procs, c \in Callers :
        call[p][c].at = "idle" /\ call[p][c].answer = "unavailable" =>
            call[p][c].event \notin table

\* "CORRUPTED is never cleared automatically": only a restart leaves it.
CorruptedStays ==
    [][\A p \in Procs : mem[p].integrity = "CORRUPTED" =>
         mem'[p].integrity = "CORRUPTED" \/ Restart(p)]_vars

\* "A broken chain [...] puts the journal in CORRUPTED or UNVERIFIED state, and
\* new writes are refused": no row is added by a process in those states.
OnlyValidWrites ==
    [][\A p \in Procs, c \in Callers :
         call[p][c].at = "appending" /\ call[p][c].event \in table' \ table =>
             mem[p].integrity = "VALID"]_vars
=============================================================================
