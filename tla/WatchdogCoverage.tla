-------------------------- MODULE WatchdogCoverage --------------------------
(***************************************************************************)
(* How the API measures the watchdog: heartbeats, the coverage window, its *)
(* copy in the control store (apps/api/app/watchdog_surface.py) and the    *)
(* WATCHDOG_ACTIVE evidence that add_watchdog_evidence of                  *)
(* apps/api/app/promotion_surface.py derives from it.                      *)
(*                                                                         *)
(* A heartbeat restores the window if the store was reconnected, counts,   *)
(* and then awaits the put of the document it built.  The watchdog gives a *)
(* heartbeat up after a timeout, so the put of one beat may still be under *)
(* way when the next arrives, and puts may commit in either order.         *)
(* Automatic kills are on.  The beat counter and the trips are left out.   *)
(***************************************************************************)
EXTENDS Naturals, FiniteSets

CONSTANTS
    Dogs,           \* watchdog ids
    MaxGap,         \* MAX_GAP
    MinCoverage,    \* MIN_COVERAGE
    MaxNow,         \* bound on the clock
    MaxPuts,        \* bound on puts under way at once
    MaxFaults,      \* bound on failing calls of the store
    MaxRestarts     \* bound on restarts of the API

VARIABLES
    now,        \* the clock
    mem,        \* _state: the window and last_report
    saved,      \* the document under WATCHDOG_KEY
    avail,      \* whether the control store counts as reachable
    restored,   \* _restored_generation = store.generation
    puts,       \* documents whose put has not ended
    evidence,   \* evidence passed, and no beat or tick came since
    left,       \* the bounds
    run,        \* history: run[d] = <<first, last>> beat of d's gap-free run
    may         \* history: whether the last watchdog that beat may halt

vars == <<now, mem, saved, avail, restored, puts, evidence, left, run, may>>

None == "none"
NoWindow == [dog |-> None, since |-> 0, last |-> 0]
Windows == [dog : Dogs \cup {None}, since : 0..MaxNow, last : 0..MaxNow]
Empty == [window |-> NoWindow, halts |-> "unknown"]

\* Every variable has the shape the window and its document have.
TypeOK ==
    /\ now \in 0..MaxNow
    /\ mem \in [window : Windows, halts : {"unknown", "enabled", "disabled"}]
    /\ saved \in Windows
    /\ {avail, restored, evidence, may} \subseteq BOOLEAN
    /\ puts \subseteq Windows /\ Cardinality(puts) <= MaxPuts
    /\ left \in [fault : 0..MaxFaults, restart : 0..MaxRestarts]
    /\ \A w \in puts \cup {saved, mem.window} : w.since <= w.last /\ w.last <= now
    /\ run \in [Dogs -> [first : 0..MaxNow, last : 0..MaxNow, beaten : BOOLEAN]]

Init ==
    /\ now = 0
    /\ mem = Empty
    /\ saved = NoWindow
    /\ avail = TRUE
    /\ restored = TRUE
    /\ puts = {}
    /\ evidence = FALSE
    /\ left = [fault |-> MaxFaults, restart |-> MaxRestarts]
    /\ run = [d \in Dogs |-> [first |-> 0, last |-> 0, beaten |-> FALSE]]
    /\ may = FALSE

Spend(what) == left[what] > 0 /\ left' = [left EXCEPT ![what] = @ - 1]

-----------------------------------------------------------------------------
Beaten(w) == w.dog # None
Active(w) == Beaten(w) /\ now - w.last <= MaxGap
Coverage(w) == IF Active(w) THEN now - w.since ELSE 0

\* Mutant: a beat after a gap goes on with the window.
BeatThroughGap(w, d) ==
    [dog |-> d, last |-> now, since |-> IF w.dog = d THEN w.since ELSE now]

\* WatchdogState.beat: a gap or another watchdog opens a new window.
Beat(w, d) ==
    [dog |-> d, last |-> now, since |-> IF Active(w) /\ w.dog = d THEN w.since ELSE now]

\* What restore_watchdog makes of memory when it can read the document.
Restored(m) ==
    IF Beaten(saved) /\ ~Beaten(m.window) THEN [Empty EXCEPT !.window = saved] ELSE m

\* History: the run of beats of d that the API accepted.
Ran(d) ==
    LET r == run[d] IN
    [first |-> IF r.beaten /\ now - r.last <= MaxGap THEN r.first ELSE now,
     last |-> now, beaten |-> TRUE]

\* _persist, up to its put: only onto the connection that was restored from.
StartPut(w, onto) ==
    IF onto THEN Cardinality(puts \cup {w}) <= MaxPuts /\ puts' = puts \cup {w}
    ELSE UNCHANGED puts

\* heartbeat, once restore_watchdog is over: m is what that left in memory.
Heard(d, halts, m, onto) ==
    LET w == Beat(m.window, d) IN
    /\ mem' = [window |-> w, halts |-> halts]
    /\ StartPut(w, onto)
    /\ run' = [run EXCEPT ![d] = Ran(d)]
    /\ may' = (halts = "enabled")
    /\ evidence' = FALSE
    /\ UNCHANGED <<now, saved>>

\* The window is in memory, or the store answers and it is restored from there;
\* a store that was unreachable is connected to again first.
Heartbeat(d, halts) ==
    /\ Heard(d, halts, IF avail /\ restored THEN mem ELSE Restored(mem), TRUE)
    /\ avail' = TRUE
    /\ restored' = TRUE
    /\ UNCHANGED left

\* The store is not reachable, or was tried a moment ago: the beat counts in
\* memory; a put is tried when the generation is still the restored one.
HeartbeatOffline(d, halts) ==
    /\ ~avail
    /\ Heard(d, halts, mem, restored)
    /\ UNCHANGED <<avail, restored, left>>

\* The store is connected to again, but the document cannot be read: the new
\* generation is not restored and nothing is put.
HeartbeatUnread(d, halts) ==
    /\ ~avail
    /\ Spend("fault")
    /\ Heard(d, halts, mem, FALSE)
    /\ restored' = FALSE
    /\ UNCHANGED avail

\* put commits.
Put(w) ==
    /\ w \in puts
    /\ puts' = puts \ {w}
    /\ saved' = w
    /\ UNCHANGED <<now, mem, avail, restored, evidence, left, run, may>>

\* put raises: mark_unavailable.
PutFails(w) ==
    /\ w \in puts
    /\ Spend("fault")
    /\ puts' = puts \ {w}
    /\ avail' = FALSE
    /\ UNCHANGED <<now, mem, saved, restored, evidence, run, may>>

\* lifespan: the store is connected to and the window restored before any route.
Restart ==
    /\ Spend("restart")
    /\ mem' = Restored(Empty)
    /\ avail' = TRUE
    /\ restored' = TRUE
    /\ puts' = {}
    /\ UNCHANGED <<now, saved, evidence, run, may>>

\* The same while the store does not answer: the API starts all the same.
RestartOffline ==
    /\ left.fault > 0 /\ left.restart > 0
    /\ left' = [fault |-> left.fault - 1, restart |-> left.restart - 1]
    /\ mem' = Empty
    /\ avail' = FALSE
    /\ restored' = FALSE
    /\ puts' = {}
    /\ UNCHANGED <<now, saved, evidence, run, may>>

\* add_watchdog_evidence.
AddEvidence ==
    /\ evidence' = /\ Active(mem.window)
                   /\ Coverage(mem.window) >= MinCoverage
                   /\ mem.halts # "disabled"
    /\ UNCHANGED <<now, mem, saved, avail, restored, puts, left, run, may>>

Tick ==
    /\ now < MaxNow
    /\ now' = now + 1
    /\ evidence' = FALSE
    /\ UNCHANGED <<mem, saved, avail, restored, puts, left, run, may>>

Next ==
    \/ \E d \in Dogs, halts \in {"enabled", "disabled"} :
         \/ Heartbeat(d, halts)
         \/ HeartbeatOffline(d, halts)
         \/ HeartbeatUnread(d, halts)
    \/ \E w \in Windows : Put(w) \/ PutFails(w)
    \/ Restart
    \/ RestartOffline
    \/ AddEvidence
    \/ Tick

Spec == Init /\ [][Next]_vars

-----------------------------------------------------------------------------
\* WATCHDOG_ACTIVE "passes only after 24 h of continuous coverage with the
\* watchdog still beating" (docs/watchdog/watchdog.md:63): behind passing
\* evidence one watchdog has really been beating for MinCoverage, no two beats
\* more than MaxGap apart, whatever was restored, lost or written late.
EvidenceIsCovered ==
    evidence => \E d \in Dogs : /\ run[d].beaten
                                /\ now - run[d].last <= MaxGap
                                /\ now - run[d].first >= MinCoverage

\* "A watchdog that may not halt ... is no evidence for promotion, however long
\* it has been beating" (promotion_surface.py:199): when evidence passes, the
\* last heartbeat came from a watchdog that halts.
EvidenceMayHalt == evidence => may
=============================================================================
