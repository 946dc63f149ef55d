---------------------------- MODULE ControlPlane ----------------------------
(***************************************************************************)
(* The state that the control plane shares: the risk controls and their    *)
(* row (RiskControls), the table of job runs and its supervisors (Jobs),   *)
(* and the coverage window of the watchdogs (WatchdogCoverage).            *)
(*                                                                         *)
(* The three have no state in common, so what one of them does says        *)
(* nothing about the others: a behaviour is one of theirs, the other two   *)
(* stay as they begin.                                                     *)
(***************************************************************************)
EXTENDS Naturals, FiniteSets

CONSTANTS Parts,            \* the components whose behaviours are taken
          MaxCrashes        \* bound on crashes of a process

CONSTANTS Kills, Handlers, Ops, MaxReadFaults, MaxPutFaults, MaxBreaches

CONSTANTS Procs, Owner, Missions, Gated, Registered, MaxBuckets, MaxMessages,
          Flooded, MaxAttempts, MaxClaims, MaxJobFaults

CONSTANTS Dogs, MaxGap, MinCoverage, MaxNow, MaxPuts, MaxFaults, MaxRestarts

ASSUME BoundAssumption ==
    /\ {MaxCrashes, MaxReadFaults, MaxPutFaults, MaxBreaches} \subseteq Nat
    /\ {MaxBuckets, MaxMessages, MaxClaims, MaxJobFaults} \subseteq Nat
    /\ {MaxGap, MinCoverage, MaxNow, MaxPuts, MaxFaults, MaxRestarts} \subseteq Nat

\* A job may be tried at least once.
ASSUME JobsAssumption == MaxAttempts \in Nat \ {0} /\ Flooded \in BOOLEAN

\* A window that nobody opened belongs to no watchdog.
ASSUME DogsAssumption == "none" \notin Dogs

VARIABLE running                            \* the component of this behaviour
VARIABLES mem, call, db, breach, left, past \* RiskControls
VARIABLES rows, proc, clock, bounds         \* Jobs
VARIABLES now, window, saved, avail, restored, puts, evidence, spare, run, may
                                            \* WatchdogCoverage

controls == <<mem, call, db, breach, left, past>>
jobs == <<rows, proc, clock, bounds>>
coverage == <<now, window, saved, avail, restored, puts, evidence, spare, run, may>>
all == <<running, controls, jobs, coverage>>

Controls == INSTANCE RiskControls

Jobs == INSTANCE Jobs WITH left <- bounds, MaxFaults <- MaxJobFaults

Coverage == INSTANCE WatchdogCoverage WITH mem <- window, left <- spare

Init ==
    /\ running \in Parts
    /\ Controls!Init /\ Jobs!Init /\ Coverage!Init

ControlsNext ==
    running = "controls" /\ Controls!Next /\ UNCHANGED <<running, jobs, coverage>>

JobsNext ==
    running = "jobs" /\ Jobs!Next /\ UNCHANGED <<running, controls, coverage>>

CoverageNext ==
    running = "coverage" /\ Coverage!Next /\ UNCHANGED <<running, controls, jobs>>

Next == ControlsNext \/ JobsNext \/ CoverageNext

Spec == Init /\ [][Next]_all

\* The fairness of each component, of the behaviours that are its own: awaits end
\* and proposals keep being assessed; the event loop runs the supervisor task, the
\* deployment restarts a process that died, leases run out and backoffs elapse.
Fairness ==
    /\ \A h \in Handlers :
        /\ WF_controls(running = "controls" /\ Controls!Step(h))
        /\ SF_controls(running = "controls"
                        /\ Controls!Request(h, [op |-> "assess", on |-> {}], FALSE))
    /\ \A p \in Procs :
        /\ WF_jobs(running = "jobs" /\ Jobs!Step(p))
        /\ WF_jobs(running = "jobs" /\ Jobs!Restart(p))
    /\ \A k \in Jobs!Keys :
        /\ WF_jobs(running = "jobs" /\ Jobs!LeaseExpires(k))
        /\ WF_jobs(running = "jobs" /\ Jobs!BackoffElapses(k))

FairSpec == Spec /\ Fairness

-----------------------------------------------------------------------------
\* A control set while the store is away reaches the row once the store answers
\* (the reconnection in governor_ready), unless it is released or dies with the
\* process.
ControlsBecomeDurable == Controls!ControlsBecomeDurable

\* No permit is issued while a control that was set or restored is owed, other than
\* one that a failed release erased: handlers trigger, release and assess at once, the
\* process restarts, and the store can be read or written only at times
\* (governor_ready, assess, _release).
PermitsRespectControls == [][Controls!PermitNeedsNothingOwed]_all

\* While a job runs its row is the claimed one, at an attempt its spec allows
\* (claim_next, recover_stale, _finish).
ClaimsAreCurrent == Jobs!ClaimsAreCurrent

\* An attempt of a job is handed to one process, though both select the same row
\* and sign with the same worker id (claim_next's conditional update).
OneHolderPerAttempt == Jobs!OneHolderPerAttempt

\* Every enqueued job ends, through a crash and failing calls (claim_next,
\* recover_stale, the retries of fail).
JobsFinish == Jobs!JobsFinish

\* Behind passing WATCHDOG_ACTIVE evidence one watchdog has been beating without a
\* gap, though windows are written out of order, lost and restored (watchdog_surface).
EvidenceIsCovered == Coverage!EvidenceIsCovered
=============================================================================
