-------------------------------- MODULE Jobs --------------------------------
(***************************************************************************)
(* The durable job queue of services/orchestration: the table of job runs  *)
(* (store.py), the worker that claims and runs them (ProtoBrain.run_once,  *)
(* runtime.py), the supervisor loop that drives it (supervisor.py), the    *)
(* dispatcher that turns bus events into jobs (event_triggers.py) and the  *)
(* mission gateway (missions.py).                                          *)
(*                                                                         *)
(* A process is one API process with its supervisor task.  One database    *)
(* statement, together with the computation up to the next await, is one   *)
(* step: PostgreSQL's READ COMMITTED lets another process commit between   *)
(* a SELECT of a session and the UPDATE that follows it.                   *)
(*                                                                         *)
(* Time is abstracted to what the queue compares: whether a row's          *)
(* not_before has passed (due) and whether its lease has (lease).  The     *)
(* idempotency key names the row, since the column is unique.              *)
(***************************************************************************)
EXTENDS Naturals

CONSTANTS
    Procs,          \* API processes, each with its own supervisor
    Owner,          \* Owner[p]: the worker_id process p signs its leases with
    Missions,       \* idempotency keys the mission gateway may enqueue
    Gated,          \* keys whose job spec says requires_risk_gate
    Registered,     \* Registered[p]: keys whose job is registered in p
    MaxBuckets,     \* bound: schedule buckets after the first
    MaxMessages,    \* bound: bus messages followed individually
    Flooded,        \* whether the stream carries further messages
    MaxAttempts,    \* spec.max_attempts
    MaxClaims,      \* bound on claims of one row
    MaxCrashes,     \* bound: process crashes
    MaxFaults       \* bound: failing database calls and unready ticks

Periodic == {<<"periodic", b>> : b \in 0..MaxBuckets}
Events   == {<<"event", i>> : i \in 1..MaxMessages}
Keys     == Periodic \cup Events \cup Missions

VARIABLES
    rows,       \* the table: rows[k] is NoRow or the run with that key
    proc,       \* proc[p]: where p's supervisor is, and what it holds
    clock,      \* the schedule bucket and the number of followed messages
    left        \* crashes and faults still allowed

vars == <<rows, proc, clock, left>>

Terminal  == {"SUCCEEDED", "BLOCKED", "DEAD_LETTER"}
Claimable == {"QUEUED", "RETRY_WAIT"}
JobState  == Terminal \cup Claimable \cup {"RUNNING"}
NoRow     == [state |-> "ABSENT"]
NoOwner   == "no owner"
Row       == [state : JobState, attempts : 0..MaxClaims,
              owner : {Owner[p] : p \in Procs} \cup {NoOwner},
              lease : {"none", "held", "expired"}, due : BOOLEAN]

Exists(k)    == rows[k] # NoRow
Finished(k)  == rows[k].state \in Terminal
Due(k)       == Exists(k) /\ rows[k].state \in Claimable /\ rows[k].due
LeaseOver(k) == Exists(k) /\ rows[k].state = "RUNNING" /\ rows[k].lease = "expired"

(***************************************************************************)
(* The supervisor's position in a tick.  "schedule" is its start; a tick   *)
(* that ends, normally or by an exception _run swallows, is back there.    *)
(***************************************************************************)
Steps == {"down", "schedule", "drain", "recover", "recovering", "claim",
          "claiming", "run", "finish", "finishing"}
Verdicts == {"succeed", "fail", "block"}
NoKey == <<"none", 0>>

Fresh(at, cursor, behind) ==
    [at |-> at, cursor |-> cursor, behind |-> behind, stale |-> {},
     key |-> NoKey, attempt |-> 0, verdict |-> "fail", target |-> "RETRY_WAIT"]

Holding(p) == proc[p].at \in {"run", "finish", "finishing"}

TypeOK ==
    /\ rows \in [Keys -> Row \cup {NoRow}]
    /\ proc \in [Procs -> [at : Steps, cursor : 0..MaxMessages, behind : BOOLEAN,
                           stale : SUBSET (Keys \X (0..MaxClaims)),
                           key : Keys \cup {NoKey}, attempt : 0..MaxClaims,
                           verdict : Verdicts, target : Terminal \cup {"RETRY_WAIT"}]]
    /\ clock \in [bucket : 0..MaxBuckets, head : 0..MaxMessages]
    /\ left \in [crash : 0..MaxCrashes, fault : 0..MaxFaults]

Init ==
    /\ rows = [k \in Keys |-> NoRow]
    /\ proc = [p \in Procs |-> Fresh("schedule", 0, FALSE)]
    /\ clock = [bucket |-> 0, head |-> 0]
    /\ left = [crash |-> MaxCrashes, fault |-> MaxFaults]

\* The end of a run_once or of a tick forgets its locals; the dispatcher stays.
Locals(r, at) == Fresh(at, r.cursor, r.behind)
Go(p, at) == proc' = [proc EXCEPT ![p] = Locals(@, at)]

(***************************************************************************)
(* enqueue.  The select and the insert are two statements, but the unique  *)
(* idempotency_key makes the loser of a race reread the winner's row, so   *)
(* together they act as one: the first call inserts, the others return it. *)
(***************************************************************************)
Queued == [state |-> "QUEUED", attempts |-> 0, owner |-> NoOwner,
           lease |-> "none", due |-> TRUE]

EnqueueOver(k) == rows' = [rows EXCEPT ![k] = Queued]

Enqueue(k) ==
    rows' = IF Exists(k) THEN rows ELSE [rows EXCEPT ![k] = Queued]

\* accept of an allowlisted mission; a mission of several jobs is several keys.
Accept(k) ==
    /\ k \in Missions
    /\ Enqueue(k)
    /\ UNCHANGED <<proc, clock, left>>

\* The periodic part of a tick: the bucket of the current time names the job.
Schedule(p) ==
    /\ proc[p].at = "schedule"
    /\ Enqueue(<<"periodic", clock.bucket>>)
    /\ Go(p, "drain")
    /\ UNCHANGED <<clock, left>>

(***************************************************************************)
(* drain.  The cursor moves before the enqueue, so a failing enqueue       *)
(* leaves its message behind the cursor; the exception ends the tick.  The *)
(* subscription ends only when the stream has nothing new to read.         *)
(***************************************************************************)
DrainMessage(p) ==
    /\ proc[p].at = "drain"
    /\ proc[p].cursor < clock.head
    /\ LET next == proc[p].cursor + 1 IN
         \/ /\ Enqueue(<<"event", next>>)
            /\ proc' = [proc EXCEPT ![p].cursor = next]
            /\ UNCHANGED left
         \/ /\ left.fault > 0
            /\ left' = [left EXCEPT !.fault = @ - 1]
            /\ proc' = [proc EXCEPT ![p].cursor = next, ![p].at = "schedule"]
            /\ UNCHANGED rows
    /\ UNCHANGED clock

\* A message beyond the followed ones: its job is not tracked.
DrainOther(p) ==
    /\ proc[p].at = "drain"
    /\ proc[p].cursor = clock.head
    /\ proc[p].behind
    /\ proc' = [proc EXCEPT ![p].behind = FALSE]
    /\ UNCHANGED <<rows, clock, left>>

DrainEnds(p) ==
    /\ proc[p].at = "drain"
    /\ proc[p].cursor = clock.head
    /\ ~proc[p].behind
    /\ Go(p, "recover")
    /\ UNCHANGED <<rows, clock, left>>

\* The event runtime is not ready in this tick: drain returns 0 at once.
BusNotReady(p) ==
    /\ proc[p].at = "drain"
    /\ left.fault > 0
    /\ left' = [left EXCEPT !.fault = @ - 1]
    /\ Go(p, "recover")
    /\ UNCHANGED <<rows, clock>>

(***************************************************************************)
(* recover_stale.  The select loads the rows whose lease is over, with     *)
(* their attempts; the commit writes each of them by primary key, whatever *)
(* the row has become since.                                               *)
(***************************************************************************)
RecoveryDropped(p) ==
    /\ proc[p].at = "recover"
    /\ Go(p, "claim")
    /\ UNCHANGED <<rows, clock, left>>

RecoverSelect(p) ==
    /\ proc[p].at = "recover"
    /\ LET over == {k \in Keys : LeaseOver(k)} IN
         proc' = [proc EXCEPT ![p].stale = {<<k, rows[k].attempts>> : k \in over},
                              ![p].at = IF over = {} THEN "claim" ELSE "recovering"]
    /\ UNCHANGED <<rows, clock, left>>

RecoveredForgiving(p, k, attempts) == "RETRY_WAIT"

RecoveredState(p, k, attempts) ==
    IF k \notin Registered[p] \/ attempts >= MaxAttempts THEN "DEAD_LETTER" ELSE "RETRY_WAIT"

Released(k, state) ==
    [rows[k] EXCEPT !.state = state, !.owner = NoOwner, !.lease = "none",
                    !.due = (state # "RETRY_WAIT")]

RecoverCommit(p) ==
    /\ proc[p].at = "recovering"
    /\ LET Seen(k) == {e \in proc[p].stale : e[1] = k}
           Write(k, e) == Released(k, RecoveredState(p, k, e[2]))
       IN  rows' = [k \in Keys |-> IF Seen(k) = {} THEN rows[k]
                                   ELSE Write(k, CHOOSE e \in Seen(k) : TRUE)]
    /\ proc' = [proc EXCEPT ![p].stale = {}, ![p].at = "claim"]
    /\ UNCHANGED <<clock, left>>

(***************************************************************************)
(* claim_next.  The select picks a due row; the update repeats the guard   *)
(* and takes the row only if it is still claimable.                        *)
(***************************************************************************)
ClaimSelect(p) ==
    /\ proc[p].at = "claim"
    /\ LET due == {k \in Keys : k \in Registered[p] /\ Due(k)} IN
         \/ /\ due = {}
            /\ Go(p, "schedule")
         \/ \E k \in due : proc' = [proc EXCEPT ![p].key = k, ![p].attempt = rows[k].attempts,
                                               ![p].at = "claiming"]
    /\ UNCHANGED <<rows, clock, left>>

Taken(p, k) ==
    [state |-> "RUNNING", attempts |-> rows[k].attempts + 1, owner |-> Owner[p],
     lease |-> "held", due |-> rows[k].due]

ClaimFromSnapshot(p) ==
    LET k == proc[p].key IN
    /\ proc[p].at = "claiming"
    /\ proc[p].attempt < MaxClaims
    /\ rows' = [rows EXCEPT ![k] = [Taken(p, k) EXCEPT !.attempts = proc[p].attempt + 1]]
    /\ proc' = [proc EXCEPT ![p].at = "run", ![p].attempt = @ + 1]
    /\ UNCHANGED <<clock, left>>

ClaimUpdate(p) ==
    LET k == proc[p].key IN
    /\ proc[p].at = "claiming"
    /\ \/ /\ Due(k)
          /\ rows[k].attempts < MaxClaims
          /\ rows' = [rows EXCEPT ![k] = Taken(p, k)]
          /\ proc' = [proc EXCEPT ![p].at = "run", ![p].attempt = rows[k].attempts + 1]
       \/ /\ ~Due(k)
          /\ Go(p, "schedule")
          /\ UNCHANGED rows
    /\ UNCHANGED <<clock, left>>

(***************************************************************************)
(* The body of run_once: the risk gate, then the handler.  A gate that is  *)
(* absent or says no blocks the job; a gate that raises escapes run_once   *)
(* and leaves the row to its lease.  Nothing renews the lease meanwhile.   *)
(***************************************************************************)
RunJob(p) ==
    /\ proc[p].at = "run"
    /\ \/ \E v \in {"succeed", "fail"} :
             proc' = [proc EXCEPT ![p].verdict = v, ![p].at = "finish"]
       \/ /\ proc[p].key \in Gated
          /\ \/ proc' = [proc EXCEPT ![p].verdict = "block", ![p].at = "finish"]
             \/ Go(p, "schedule")
    /\ UNCHANGED <<rows, clock, left>>

(***************************************************************************)
(* succeed, block and fail.  _owned_running selects the row while it is    *)
(* RUNNING under this worker's id; the update that follows is by id alone. *)
(***************************************************************************)
OwnedRunning(p, k) == rows[k].state = "RUNNING" /\ rows[k].owner = Owner[p]

Target(verdict, attempts) ==
    CASE verdict = "succeed" -> "SUCCEEDED"
      [] verdict = "block"   -> "BLOCKED"
      [] verdict = "fail"    -> IF attempts >= MaxAttempts THEN "DEAD_LETTER" ELSE "RETRY_WAIT"

FinishSelect(p) ==
    LET k == proc[p].key IN
    /\ proc[p].at = "finish"
    /\ IF OwnedRunning(p, k)
       THEN proc' = [proc EXCEPT ![p].target = Target(proc[p].verdict, rows[k].attempts),
                                 ![p].at = "finishing"]
       ELSE Go(p, "schedule")       \* "job is not owned by this worker"
    /\ UNCHANGED <<rows, clock, left>>

FinishUpdate(p) ==
    LET k == proc[p].key IN
    /\ proc[p].at = "finishing"
    /\ rows' = [rows EXCEPT ![k] = Released(k, proc[p].target)]
    /\ Go(p, "recover")
    /\ UNCHANGED <<clock, left>>

(***************************************************************************)
(* Failures: a database call that raises ends the tick and drops what the  *)
(* process held; a crash also forgets the dispatcher's cursor.             *)
(***************************************************************************)
StoreFails(p) ==
    /\ proc[p].at \notin {"down", "drain", "run"}
    /\ left.fault > 0
    /\ left' = [left EXCEPT !.fault = @ - 1]
    /\ Go(p, "schedule")
    /\ UNCHANGED <<rows, clock>>

Crash(p) ==
    /\ proc[p].at # "down"
    /\ left.crash > 0
    /\ left' = [left EXCEPT !.crash = @ - 1]
    /\ proc' = [proc EXCEPT ![p] = Fresh("down", 0, FALSE)]
    /\ UNCHANGED <<rows, clock>>

Restart(p) ==
    /\ proc[p].at = "down"
    /\ proc' = [proc EXCEPT ![p] = Fresh("schedule", 0, Flooded)]
    /\ UNCHANGED <<rows, clock, left>>

\* The environment: time and the event stream.
NextBucket ==
    /\ clock.bucket < MaxBuckets
    /\ clock' = [clock EXCEPT !.bucket = @ + 1]
    /\ UNCHANGED <<rows, proc, left>>

Publish ==
    /\ clock.head < MaxMessages
    /\ clock' = [clock EXCEPT !.head = @ + 1]
    /\ UNCHANGED <<rows, proc, left>>

PublishOther ==
    /\ Flooded
    /\ proc' = [p \in Procs |-> [proc[p] EXCEPT !.behind = TRUE]]
    /\ UNCHANGED <<rows, clock, left>>

LeaseExpires(k) ==
    /\ Exists(k) /\ rows[k].lease = "held"
    /\ rows' = [rows EXCEPT ![k].lease = "expired"]
    /\ UNCHANGED <<proc, clock, left>>

BackoffElapses(k) ==
    /\ Exists(k) /\ ~rows[k].due
    /\ rows' = [rows EXCEPT ![k].due = TRUE]
    /\ UNCHANGED <<proc, clock, left>>

Step(p) ==
    \/ Schedule(p) \/ DrainMessage(p) \/ DrainOther(p) \/ DrainEnds(p)
    \/ RecoverSelect(p) \/ RecoverCommit(p)
    \/ ClaimSelect(p) \/ ClaimUpdate(p)
    \/ RunJob(p) \/ FinishSelect(p) \/ FinishUpdate(p)

Next ==
    \/ \E p \in Procs : Step(p) \/ BusNotReady(p) \/ StoreFails(p) \/ Crash(p) \/ Restart(p)
    \/ \E k \in Keys : Accept(k) \/ LeaseExpires(k) \/ BackoffElapses(k)
    \/ NextBucket \/ Publish \/ PublishOther

Spec == Init /\ [][Next]_vars

\* The event loop runs the supervisor task, the deployment restarts a process
\* that died, and time passes: leases run out and backoffs elapse.
FairSpec ==
    /\ Spec
    /\ \A p \in Procs : WF_vars(Step(p)) /\ WF_vars(Restart(p))
    /\ \A k \in Keys : WF_vars(LeaseExpires(k)) /\ WF_vars(BackoffElapses(k))

-----------------------------------------------------------------------------

\* While a process runs a job or records its outcome, the row is still the one
\* it claimed: RUNNING, under its id, at its attempt.  recover_stale takes rows
\* away only between two runs of the one supervisor.
HolderIsCurrent ==
    \A p \in Procs : Holding(p) =>
        LET k == proc[p].key IN OwnedRunning(p, k) /\ rows[k].attempts = proc[p].attempt

\* No job is started more often than its spec.max_attempts allows, counting the
\* starts a crash or a failing database call cut short.
AttemptsBounded ==
    \A k \in Keys : Exists(k) => rows[k].attempts <= MaxAttempts

\* A claim is worth what it says for as long as it is worked on: the row is the
\* claimed one, at an attempt its spec allows.
ClaimsAreCurrent == HolderIsCurrent /\ AttemptsBounded

\* claim_next's conditional update hands one attempt of one job to one process.
OneHolderPerAttempt ==
    \A p, q \in Procs : p # q /\ Holding(p) /\ Holding(q) /\ proc[p].key = proc[q].key
        => proc[p].attempt # proc[q].attempt

\* A process whose claim was taken over does not write the outcome of its run:
\* "job is not owned by this worker".
OnlyTheHolderFinishes ==
    [][\A p \in Procs :
         proc[p].at = "finishing" /\ proc'[p].at = "recover" =>
             rows[proc[p].key].attempts = proc[p].attempt
             /\ rows[proc[p].key].state = "RUNNING"]_vars

\* Every enqueued job ends: it runs, or it is retried until its attempts are
\* used up, whatever crashes and failing calls come in between.
JobsFinish == \A k \in Keys : Exists(k) ~> Finished(k)

\* The dispatcher makes a durable job of every event of its stream.
EventsBecomeJobs ==
    \A i \in 1..MaxMessages : clock.head >= i ~> Exists(<<"event", i>>)
=============================================================================
