------------------------- MODULE ControlPlaneProofs -------------------------
(***************************************************************************)
(* Proofs about the control plane: its risk controls and its watchdog      *)
(* coverage, for any number of handlers, kill switches and watchdogs, and  *)
(* its job queue, for any number of processes, jobs and attempts.          *)
(*                                                                         *)
(* JobsInv ties a process that holds a job to the row it claimed: the row  *)
(* counts at least the attempt in hand, and two processes never hold the   *)
(* same one.  AloneInv adds, for a single process, that the row is still   *)
(* claimed at exactly that attempt.  ControlsInv says where an owed        *)
(* control can be: in force, or, until the saved row has been merged, in   *)
(* that row or in what a handler read of it.  CoverageInv says what a      *)
(* saved, pending or cached window owes its watchdog.  A step of one part  *)
(* leaves the others alone.                                                *)
(***************************************************************************)
EXTENDS ControlPlane, TLAPS

(* Leaves are Zenon's unless they cite SMT; the time is for slow machines. *)
USE ZenonT(60)

(***************************************************************************)
(* The job queue.                                                          *)
(***************************************************************************)
Supervisors ==
    [at : Jobs!Steps, cursor : 0..MaxMessages, behind : BOOLEAN,
     stale : SUBSET (Jobs!Keys \X (0..MaxClaims)), key : Jobs!Keys \cup {Jobs!NoKey},
     attempt : 0..MaxClaims, verdict : Jobs!Verdicts,
     target : Jobs!Terminal \cup {"RETRY_WAIT"}]
Stored == Jobs!Row \cup {Jobs!NoRow}
JobBounds == [crash : 0..MaxCrashes, fault : 0..MaxJobFaults]
JobClock == [bucket : 0..MaxBuckets, head : 0..MaxMessages]

LEMMA TypeParts ==
  Jobs!TypeOK <=> /\ rows \in [Jobs!Keys -> Stored]
                  /\ proc \in [Procs -> Supervisors]
                  /\ clock \in JobClock
                  /\ bounds \in JobBounds
  BY DEF Jobs!TypeOK, Stored, Supervisors, JobBounds, JobClock

LEMMA FreshType ==
  ASSUME NEW at \in Jobs!Steps, NEW cursor \in 0..MaxMessages, NEW behind \in BOOLEAN
  PROVE  /\ Jobs!Fresh(at, cursor, behind) \in Supervisors
         /\ Jobs!Fresh(at, cursor, behind).at = at
  BY SMTT(60), BoundAssumption DEF Jobs!Fresh, Supervisors, Jobs!Verdicts

LEMMA LocalsType ==
  ASSUME NEW at \in Jobs!Steps, NEW r \in Supervisors
  PROVE  /\ Jobs!Locals(r, at) \in Supervisors
         /\ Jobs!Locals(r, at).at = at
  BY SMTT(60), FreshType DEF Jobs!Locals, Supervisors

LEMMA BehindType ==
  ASSUME NEW r \in Supervisors, NEW b \in BOOLEAN
  PROVE  [r EXCEPT !.behind = b] \in Supervisors
  BY DEF Supervisors

LEMMA QueuedFacts ==
  /\ Jobs!Queued \in Jobs!Row /\ Jobs!Queued # Jobs!NoRow
  /\ Jobs!Queued.attempts = 0 /\ Jobs!Queued.state = "QUEUED"
<1>1. Jobs!Queued \in Jobs!Row
  BY SMTT(60), BoundAssumption DEF Jobs!Queued, Jobs!Row, Jobs!NoOwner, Jobs!JobState, Jobs!Claimable
<1>2. Jobs!Queued.state # Jobs!NoRow.state
  BY DEF Jobs!Queued, Jobs!NoRow
<1> QED
  BY <1>1, <1>2 DEF Jobs!Queued

LEMMA RowFacts ==
  ASSUME NEW r \in Jobs!Row
  PROVE  r # Jobs!NoRow /\ r.attempts \in 0..MaxClaims /\ r.state \in Jobs!JobState
<1>1. r.state # Jobs!NoRow.state
  BY DEF Jobs!Row, Jobs!NoRow, Jobs!JobState, Jobs!Terminal, Jobs!Claimable
<1> QED
  BY <1>1 DEF Jobs!Row

LEMMA ReleasedFacts ==
  ASSUME NEW k, rows[k] \in Jobs!Row, NEW state \in Jobs!JobState
  PROVE  /\ Jobs!Released(k, state) \in Jobs!Row
         /\ Jobs!Released(k, state).state = state
         /\ Jobs!Released(k, state).attempts = rows[k].attempts
  BY DEF Jobs!Released, Jobs!Row, Jobs!NoOwner

LEMMA TakenFacts ==
  ASSUME NEW k, rows[k] \in Jobs!Row, NEW p \in Procs, rows[k].attempts < MaxClaims
  PROVE  /\ Jobs!Taken(p, k) \in Jobs!Row
         /\ Jobs!Taken(p, k).state = "RUNNING"
         /\ Jobs!Taken(p, k).owner = Owner[p]
         /\ Jobs!Taken(p, k).attempts = rows[k].attempts + 1
  BY SMTT(60), BoundAssumption DEF Jobs!Taken, Jobs!Row, Jobs!JobState

LEMMA StepNames ==
  {"down", "schedule", "drain", "recover", "recovering", "claim", "claiming", "run", "finish",
   "finishing"} = Jobs!Steps
  BY DEF Jobs!Steps

Resting == {"down", "schedule", "drain", "recover", "claim"}

(* What a process is about to claim or holds is a key, the row it holds has *)
(* counted its attempt, and the rows it is about to recover exist.          *)
Behind ==
    \A p \in Procs :
        /\ proc[p].at \in {"claiming", "run", "finish", "finishing"} => proc[p].key \in Jobs!Keys
        /\ Jobs!Holding(p) => /\ rows[proc[p].key] # Jobs!NoRow
                              /\ proc[p].attempt <= rows[proc[p].key].attempts
        /\ proc[p].at = "recovering" => \A e \in proc[p].stale : rows[e[1]] # Jobs!NoRow

JobsInv == Jobs!TypeOK /\ Behind /\ Jobs!OneHolderPerAttempt

(* With one process: what was read of a row is still so when it is written, *)
(* and a row that may be claimed again has an attempt left.                 *)
Alone == \E p : Procs = {p}

AloneInv ==
    /\ Jobs!HolderIsCurrent
    /\ \A k \in Jobs!Keys : rows[k] # Jobs!NoRow =>
        /\ rows[k].attempts <= MaxAttempts
        /\ rows[k].state \in Jobs!Claimable => rows[k].attempts < MaxAttempts
    /\ \A p \in Procs : proc[p].at = "recovering" =>
        \A e \in proc[p].stale : rows[e[1]] # Jobs!NoRow /\ rows[e[1]].attempts = e[2]
    /\ \A p \in Procs : proc[p].at = "finishing" /\ proc[p].target = "RETRY_WAIT" =>
        rows[proc[p].key].attempts < MaxAttempts

------------------------------------------------------------------------------
(* Steps that leave every row, or enqueue one, and claim nothing.          *)
RowsKept ==
    \A k \in Jobs!Keys :
        IF rows[k] = Jobs!NoRow THEN rows'[k] \in {Jobs!NoRow, Jobs!Queued}
        ELSE /\ rows'[k] # Jobs!NoRow
             /\ rows'[k].state = rows[k].state
             /\ rows'[k].attempts = rows[k].attempts
             /\ rows'[k].owner = rows[k].owner

ProcsKept ==
    \A q \in Procs :
        \/ proc'[q].at \in Resting
        \/ /\ proc'[q].at = proc[q].at
           /\ proc'[q].key = proc[q].key
           /\ proc'[q].attempt = proc[q].attempt
           /\ proc'[q].stale = proc[q].stale
           /\ proc'[q].target = proc[q].target

LEMMA KeepStep ==
  ASSUME JobsInv, Jobs!TypeOK', RowsKept, ProcsKept
  PROVE  JobsInv'
<1>1. \A q \in Procs : Jobs!Holding(q)' => /\ Jobs!Holding(q)
                                           /\ proc'[q].key = proc[q].key
                                           /\ proc'[q].attempt = proc[q].attempt
  BY DEF ProcsKept, Jobs!Holding, Resting
<1>2. Behind'
  <2> SUFFICES ASSUME NEW q \in Procs
               PROVE  /\ proc'[q].at \in {"claiming", "run", "finish", "finishing"}
                            => proc'[q].key \in Jobs!Keys
                      /\ Jobs!Holding(q)' => /\ rows'[proc'[q].key] # Jobs!NoRow
                                             /\ proc'[q].attempt <= rows'[proc'[q].key].attempts
                      /\ proc'[q].at = "recovering" =>
                            \A e \in proc'[q].stale : rows'[e[1]] # Jobs!NoRow
    BY DEF Behind
  <2>1. proc'[q].at \in {"claiming", "run", "finish", "finishing"} => proc'[q].key \in Jobs!Keys
    BY DEF JobsInv, Behind, ProcsKept, Resting
  <2>2. ASSUME Jobs!Holding(q)'
        PROVE  /\ rows'[proc'[q].key] # Jobs!NoRow
               /\ proc'[q].attempt <= rows'[proc'[q].key].attempts
    <3>1. /\ proc[q].key \in Jobs!Keys /\ rows[proc[q].key] # Jobs!NoRow
          /\ proc[q].attempt <= rows[proc[q].key].attempts
      BY <1>1, <2>2 DEF JobsInv, Behind, Jobs!Holding
    <3> QED
      BY SMTT(60), <1>1, <2>2, <3>1 DEF RowsKept
  <2>3. ASSUME proc'[q].at = "recovering", NEW e \in proc'[q].stale
        PROVE  rows'[e[1]] # Jobs!NoRow
    <3>1. proc[q].at = "recovering" /\ e \in proc[q].stale
      BY <2>3 DEF ProcsKept, Resting
    <3>2. e[1] \in Jobs!Keys /\ rows[e[1]] # Jobs!NoRow
      BY SMTT(60), <3>1 DEF JobsInv, Behind, Jobs!TypeOK
    <3> QED
      BY <3>2 DEF RowsKept
  <2> QED
    BY <2>1, <2>2, <2>3
<1>3. Jobs!OneHolderPerAttempt'
  BY SMTT(60), <1>1 DEF JobsInv, Jobs!OneHolderPerAttempt
<1> QED
  BY <1>2, <1>3 DEF JobsInv

LEMMA AttemptsPositive == MaxAttempts \in Nat /\ 0 < MaxAttempts /\ 0 <= MaxAttempts
  BY SMTT(60), JobsAssumption

LEMMA KeepAlone ==
  ASSUME JobsInv, AloneInv, RowsKept, ProcsKept
  PROVE  AloneInv'
<1>1. Jobs!HolderIsCurrent'
  <2> SUFFICES ASSUME NEW q \in Procs, Jobs!Holding(q)'
               PROVE  /\ rows'[proc'[q].key].state = "RUNNING"
                      /\ rows'[proc'[q].key].owner = Owner[q]
                      /\ rows'[proc'[q].key].attempts = proc'[q].attempt
    BY DEF Jobs!HolderIsCurrent, Jobs!OwnedRunning
  <2>1. /\ Jobs!Holding(q) /\ proc'[q].key = proc[q].key /\ proc'[q].attempt = proc[q].attempt
    BY DEF ProcsKept, Jobs!Holding, Resting
  <2>2. /\ proc[q].key \in Jobs!Keys /\ rows[proc[q].key] # Jobs!NoRow
    BY <2>1 DEF JobsInv, Behind, Jobs!Holding
  <2>3. /\ rows[proc[q].key].state = "RUNNING" /\ rows[proc[q].key].owner = Owner[q]
        /\ rows[proc[q].key].attempts = proc[q].attempt
    BY <2>1 DEF AloneInv, Jobs!HolderIsCurrent, Jobs!OwnedRunning
  <2> QED
    BY <2>1, <2>2, <2>3 DEF RowsKept
<1>2. \A k \in Jobs!Keys : rows'[k] # Jobs!NoRow =>
        /\ rows'[k].attempts <= MaxAttempts
        /\ rows'[k].state \in Jobs!Claimable => rows'[k].attempts < MaxAttempts
  <2> SUFFICES ASSUME NEW k \in Jobs!Keys, rows'[k] # Jobs!NoRow
               PROVE  /\ rows'[k].attempts <= MaxAttempts
                      /\ rows'[k].state \in Jobs!Claimable => rows'[k].attempts < MaxAttempts
    OBVIOUS
  <2>1. CASE rows[k] = Jobs!NoRow
    <3>1. rows'[k].attempts = 0
      BY <2>1, QueuedFacts DEF RowsKept
    <3> QED
      BY <3>1, AttemptsPositive
  <2>2. CASE rows[k] # Jobs!NoRow
    BY <2>2 DEF AloneInv, RowsKept
  <2> QED
    BY <2>1, <2>2
<1>3. \A p \in Procs : proc'[p].at = "recovering" =>
        \A e \in proc'[p].stale : rows'[e[1]] # Jobs!NoRow /\ rows'[e[1]].attempts = e[2]
  <2> SUFFICES ASSUME NEW p \in Procs, proc'[p].at = "recovering", NEW e \in proc'[p].stale
               PROVE  rows'[e[1]] # Jobs!NoRow /\ rows'[e[1]].attempts = e[2]
    OBVIOUS
  <2>1. proc[p].at = "recovering" /\ e \in proc[p].stale
    BY DEF ProcsKept, Resting
  <2>2. e[1] \in Jobs!Keys
    BY SMTT(60), <2>1 DEF JobsInv, Jobs!TypeOK
  <2> QED
    BY <2>1, <2>2 DEF AloneInv, RowsKept
<1>4. \A p \in Procs : proc'[p].at = "finishing" /\ proc'[p].target = "RETRY_WAIT" =>
        rows'[proc'[p].key].attempts < MaxAttempts
  <2> SUFFICES ASSUME NEW p \in Procs, proc'[p].at = "finishing", proc'[p].target = "RETRY_WAIT"
               PROVE  rows'[proc'[p].key].attempts < MaxAttempts
    OBVIOUS
  <2>1. proc[p].at = "finishing" /\ proc[p].target = "RETRY_WAIT" /\ proc'[p].key = proc[p].key
    BY DEF ProcsKept, Resting
  <2>2. proc[p].key \in Jobs!Keys /\ rows[proc[p].key] # Jobs!NoRow
    BY <2>1 DEF JobsInv, Behind, Jobs!Holding
  <2> QED
    BY <2>1, <2>2 DEF AloneInv, RowsKept
<1> QED
  BY <1>1, <1>2, <1>3, <1>4 DEF AloneInv

------------------------------------------------------------------------------
LEMMA EnqueueKeeps ==
  ASSUME rows \in [Jobs!Keys -> Stored], NEW k, Jobs!Enqueue(k)
  PROVE  rows' \in [Jobs!Keys -> Stored] /\ RowsKept
<1>1. CASE rows' = rows
  BY <1>1 DEF RowsKept
<1>2. CASE rows[k] = Jobs!NoRow /\ rows' = [rows EXCEPT ![k] = Jobs!Queued]
  <2>1. \A x \in Jobs!Keys : rows'[x] = IF x = k THEN Jobs!Queued ELSE rows[x]
    BY <1>2
  <2>2. rows' \in [Jobs!Keys -> Stored]
    BY <1>2, QueuedFacts DEF Stored
  <2> QED
    BY <1>2, <2>1, <2>2 DEF RowsKept
<1> QED
  BY <1>1, <1>2 DEF Jobs!Enqueue, Jobs!Exists

LEMMA GoKeeps ==
  ASSUME proc \in [Procs -> Supervisors], NEW p \in Procs, NEW at \in Resting, Jobs!Go(p, at)
  PROVE  proc' \in [Procs -> Supervisors] /\ ProcsKept
<1>0. at \in Jobs!Steps /\ proc[p] \in Supervisors
  BY StepNames DEF Resting
<1>1. /\ Jobs!Locals(proc[p], at) \in Supervisors
      /\ Jobs!Locals(proc[p], at).at = at
  BY <1>0, LocalsType
<1>2. proc' = [proc EXCEPT ![p] = Jobs!Locals(proc[p], at)]
  BY DEF Jobs!Go
<1> QED
  BY <1>1, <1>2 DEF ProcsKept

LEMMA SpendKeeps ==
  ASSUME bounds \in JobBounds,
         \/ bounds' = [bounds EXCEPT !.fault = @ - 1] /\ bounds.fault > 0
         \/ bounds' = [bounds EXCEPT !.crash = @ - 1] /\ bounds.crash > 0
  PROVE  bounds' \in JobBounds
  BY SMTT(60), BoundAssumption DEF JobBounds

(* Every step that claims and writes nothing.                              *)
KeepsAll == Jobs!TypeOK' /\ RowsKept /\ ProcsKept

LEMMA UnchangedKeeps ==
  ASSUME UNCHANGED jobs, Jobs!TypeOK
  PROVE  KeepsAll
  BY TypeParts DEF KeepsAll, jobs, RowsKept, ProcsKept, Jobs!TypeOK

LEMMA GoStep ==
  ASSUME Jobs!TypeOK, NEW p \in Procs, NEW at \in Resting, Jobs!Go(p, at),
         UNCHANGED <<rows, clock>>,
         \/ UNCHANGED bounds
         \/ bounds.fault > 0 /\ bounds' = [bounds EXCEPT !.fault = @ - 1]
  PROVE  KeepsAll
<1>1. proc' \in [Procs -> Supervisors] /\ ProcsKept
  BY GoKeeps, TypeParts
<1>2. bounds' \in JobBounds
  BY SpendKeeps, TypeParts
<1>3. RowsKept
  BY DEF RowsKept
<1>4. Jobs!TypeOK'
  BY <1>1, <1>2, TypeParts DEF Jobs!TypeOK, Supervisors, JobBounds
<1> QED
  BY <1>1, <1>3, <1>4 DEF KeepsAll

(* The steps of Next that write no outcome and claim no row.               *)
Resolute(p) ==
    \/ Jobs!Schedule(p) \/ Jobs!DrainMessage(p) \/ Jobs!DrainOther(p) \/ Jobs!DrainEnds(p)
    \/ Jobs!BusNotReady(p) \/ Jobs!StoreFails(p) \/ Jobs!Crash(p) \/ Jobs!Restart(p)

LEMMA ResoluteStep ==
  ASSUME Jobs!TypeOK, NEW p \in Procs, Resolute(p)
  PROVE  KeepsAll
<1> USE TypeParts
<1>0. /\ rows \in [Jobs!Keys -> Stored] /\ proc \in [Procs -> Supervisors]
      /\ clock \in JobClock /\ bounds \in JobBounds
  OBVIOUS
<1>1. CASE Jobs!Schedule(p)
  <2>1. rows' \in [Jobs!Keys -> Stored] /\ RowsKept
    BY <1>0, <1>1, EnqueueKeeps DEF Jobs!Schedule
  <2>2. proc' \in [Procs -> Supervisors] /\ ProcsKept
    BY <1>0, <1>1, GoKeeps DEF Jobs!Schedule, Resting
  <2>3. UNCHANGED <<clock, bounds>>
    BY <1>1 DEF Jobs!Schedule
  <2> QED
    BY <1>0, <2>1, <2>2, <2>3 DEF KeepsAll, Jobs!TypeOK, Stored, Supervisors, JobClock, JobBounds
<1>2. CASE Jobs!DrainMessage(p)
  <2> DEFINE next == proc[p].cursor + 1
  <2>0. next \in 0..MaxMessages /\ clock' = clock
    BY SMTT(60), <1>0, <1>2, BoundAssumption DEF Jobs!DrainMessage, Supervisors, JobClock
  <2>1. rows' \in [Jobs!Keys -> Stored] /\ RowsKept
    <3>1. CASE rows' = rows
      BY <1>0, <3>1 DEF RowsKept
    <3>2. CASE Jobs!Enqueue(<<"event", next>>)
      BY <1>0, <3>2, EnqueueKeeps
    <3> QED
      BY <1>2, <3>1, <3>2 DEF Jobs!DrainMessage
  <2>2. bounds' \in JobBounds
    BY <1>0, <1>2, SpendKeeps DEF Jobs!DrainMessage
  <2>3. \/ proc' = [proc EXCEPT ![p].cursor = next]
        \/ proc' = [proc EXCEPT ![p].cursor = next, ![p].at = "schedule"]
    BY <1>2 DEF Jobs!DrainMessage
  <2> HIDE DEF next
  <2>4. proc' \in [Procs -> Supervisors]
    BY SMTT(60), <1>0, <2>0, <2>3, StepNames DEF Supervisors
  <2>5. ProcsKept
    BY SMTT(60), <1>0, <2>3 DEF Supervisors, ProcsKept, Resting
  <2> QED
    BY <1>0, <2>0, <2>1, <2>2, <2>4, <2>5
    DEF KeepsAll, Jobs!TypeOK, Stored, Supervisors, JobClock, JobBounds
<1>3. CASE Jobs!DrainOther(p)
  <2>1. proc' = [proc EXCEPT ![p].behind = FALSE] /\ UNCHANGED <<rows, clock, bounds>>
    BY <1>3 DEF Jobs!DrainOther
  <2>2. proc' \in [Procs -> Supervisors]
    <3>1. [proc[p] EXCEPT !.behind = FALSE] \in Supervisors
      BY <1>0, BehindType
    <3>2. proc' = [proc EXCEPT ![p] = [proc[p] EXCEPT !.behind = FALSE]]
      BY <2>1
    <3> QED
      BY <1>0, <3>1, <3>2
  <2>3. ProcsKept /\ RowsKept
    BY SMTT(60), <1>0, <2>1 DEF Supervisors, ProcsKept, RowsKept
  <2> QED
    BY <1>0, <2>1, <2>2, <2>3
    DEF KeepsAll, Jobs!TypeOK, Stored, Supervisors, JobClock, JobBounds
<1>4. CASE Jobs!DrainEnds(p)
  BY <1>4, GoStep DEF Jobs!DrainEnds, Resting
<1>5. CASE Jobs!BusNotReady(p)
  BY <1>5, GoStep DEF Jobs!BusNotReady, Resting
<1>6. CASE Jobs!StoreFails(p)
  BY <1>6, GoStep DEF Jobs!StoreFails, Resting
<1>7. CASE Jobs!Crash(p) \/ Jobs!Restart(p)
  <2>1. \E at \in Resting : \E behind \in BOOLEAN :
          proc' = [proc EXCEPT ![p] = Jobs!Fresh(at, 0, behind)]
    BY <1>7, JobsAssumption DEF Jobs!Crash, Jobs!Restart, Resting
  <2>2. PICK at \in Resting : \E behind \in BOOLEAN :
          proc' = [proc EXCEPT ![p] = Jobs!Fresh(at, 0, behind)]
    BY <2>1
  <2>3. PICK behind \in BOOLEAN : proc' = [proc EXCEPT ![p] = Jobs!Fresh(at, 0, behind)]
    BY <2>2
  <2>4. Jobs!Fresh(at, 0, behind) \in Supervisors /\ Jobs!Fresh(at, 0, behind).at = at
    <3>1. at \in Jobs!Steps /\ 0 \in 0..MaxMessages
      BY SMTT(60), StepNames, BoundAssumption DEF Resting
    <3> QED
      BY <3>1, FreshType
  <2>5. proc' \in [Procs -> Supervisors] /\ ProcsKept
    BY <1>0, <2>3, <2>4 DEF ProcsKept
  <2>6. bounds' \in JobBounds /\ UNCHANGED <<rows, clock>>
    BY <1>0, <1>7, SpendKeeps DEF Jobs!Crash, Jobs!Restart
  <2> QED
    BY <1>0, <2>5, <2>6
    DEF KeepsAll, RowsKept, Jobs!TypeOK, Stored, Supervisors, JobClock, JobBounds
<1> QED
  BY <1>1, <1>2, <1>3, <1>4, <1>5, <1>6, <1>7 DEF Resolute

(* What the environment does to the table and to the processes.            *)
LEMMA WorldStep ==
  ASSUME Jobs!TypeOK,
         \/ \E k \in Jobs!Keys : Jobs!Accept(k) \/ Jobs!LeaseExpires(k) \/ Jobs!BackoffElapses(k)
         \/ Jobs!NextBucket \/ Jobs!Publish \/ Jobs!PublishOther
  PROVE  KeepsAll
<1> USE TypeParts
<1>0. /\ rows \in [Jobs!Keys -> Stored] /\ proc \in [Procs -> Supervisors]
      /\ clock \in JobClock /\ bounds \in JobBounds
  OBVIOUS
<1>1. ASSUME NEW k \in Jobs!Keys, Jobs!Accept(k) PROVE KeepsAll
  <2>1. rows' \in [Jobs!Keys -> Stored] /\ RowsKept /\ UNCHANGED <<proc, clock, bounds>>
    BY <1>0, <1>1, EnqueueKeeps DEF Jobs!Accept
  <2> QED
    BY <1>0, <2>1
    DEF KeepsAll, ProcsKept, Jobs!TypeOK, Stored, Supervisors, JobClock, JobBounds
<1>2. ASSUME NEW k \in Jobs!Keys, Jobs!LeaseExpires(k) \/ Jobs!BackoffElapses(k) PROVE KeepsAll
  <2>1. /\ rows[k] # Jobs!NoRow /\ UNCHANGED <<proc, clock, bounds>>
        /\ \/ rows' = [rows EXCEPT ![k] = [rows[k] EXCEPT !.lease = "expired"]]
           \/ rows' = [rows EXCEPT ![k] = [rows[k] EXCEPT !.due = TRUE]]
    BY <1>2 DEF Jobs!LeaseExpires, Jobs!BackoffElapses, Jobs!Exists
  <2>2. rows[k] \in Jobs!Row
    BY <1>0, <2>1 DEF Stored
  <2> DEFINE Kept(r) == /\ r \in Jobs!Row /\ r.state = rows[k].state
                        /\ r.attempts = rows[k].attempts /\ r.owner = rows[k].owner
  <2>3. Kept([rows[k] EXCEPT !.lease = "expired"])
    BY <2>2 DEF Jobs!Row
  <2>4. Kept([rows[k] EXCEPT !.due = TRUE])
    BY <2>2 DEF Jobs!Row
  <2>5. Kept(rows'[k]) /\ \A x \in Jobs!Keys : x # k => rows'[x] = rows[x]
    BY <1>0, <2>1, <2>3, <2>4
  <2>6. rows' \in [Jobs!Keys -> Stored]
    BY <1>0, <2>1, <2>3, <2>4 DEF Stored
  <2>7. RowsKept
    BY <2>1, <2>5, RowFacts DEF RowsKept
  <2> QED
    BY <1>0, <2>1, <2>6, <2>7
    DEF KeepsAll, ProcsKept, Jobs!TypeOK, Stored, Supervisors, JobClock, JobBounds
<1>3. CASE Jobs!NextBucket \/ Jobs!Publish
  <2>1. clock' \in JobClock /\ UNCHANGED <<rows, proc, bounds>>
    BY SMTT(60), <1>0, <1>3, BoundAssumption DEF Jobs!NextBucket, Jobs!Publish, JobClock
  <2> QED
    BY <1>0, <2>1
    DEF KeepsAll, RowsKept, ProcsKept, Jobs!TypeOK, Stored, Supervisors, JobClock, JobBounds
<1>4. CASE Jobs!PublishOther
  <2>1. /\ proc' = [p \in Procs |-> [proc[p] EXCEPT !.behind = TRUE]]
        /\ UNCHANGED <<rows, clock, bounds>>
    BY <1>4 DEF Jobs!PublishOther
  <2>2. \A p \in Procs : proc'[p] = [proc[p] EXCEPT !.behind = TRUE] /\ proc[p] \in Supervisors
    BY <1>0, <2>1
  <2>3. \A p \in Procs : proc'[p] \in Supervisors
    BY <2>2, BehindType
  <2>4. ProcsKept
    <3>1. \A r \in Supervisors : /\ [r EXCEPT !.behind = TRUE].at = r.at
                                 /\ [r EXCEPT !.behind = TRUE].key = r.key
                                 /\ [r EXCEPT !.behind = TRUE].attempt = r.attempt
                                 /\ [r EXCEPT !.behind = TRUE].stale = r.stale
                                 /\ [r EXCEPT !.behind = TRUE].target = r.target
      BY DEF Supervisors
    <3> QED
      BY <2>2, <3>1 DEF ProcsKept
  <2>5. proc' \in [Procs -> Supervisors]
    BY <2>1, <2>3
  <2> QED
    BY <1>0, <2>1, <2>4, <2>5
    DEF KeepsAll, RowsKept, Jobs!TypeOK, Stored, Supervisors, JobClock, JobBounds
<1> QED
  BY <1>1, <1>2, <1>3, <1>4

------------------------------------------------------------------------------
(* Steps in which rows stay and nobody becomes a holder.                   *)
RowsGrow ==
    \A k \in Jobs!Keys : rows[k] # Jobs!NoRow =>
        rows'[k] # Jobs!NoRow /\ rows[k].attempts <= rows'[k].attempts

HoldersKept ==
    \A q \in Procs : Jobs!Holding(q)' => /\ Jobs!Holding(q)
                                         /\ proc'[q].key = proc[q].key
                                         /\ proc'[q].attempt = proc[q].attempt

LEMMA GrowStep ==
  ASSUME JobsInv, Jobs!TypeOK', RowsGrow, HoldersKept,
         \A q \in Procs : proc'[q].at = "claiming" => proc'[q].key \in Jobs!Keys,
         \A q \in Procs : proc'[q].at = "recovering" =>
                \A e \in proc'[q].stale : e[1] \in Jobs!Keys /\ rows[e[1]] # Jobs!NoRow
  PROVE  JobsInv'
<1>1. \A q \in Procs : Jobs!Holding(q)' =>
        /\ proc'[q].key \in Jobs!Keys /\ rows'[proc'[q].key] # Jobs!NoRow
        /\ proc'[q].attempt <= rows'[proc'[q].key].attempts
  <2> SUFFICES ASSUME NEW q \in Procs, Jobs!Holding(q)'
               PROVE  /\ proc'[q].key \in Jobs!Keys /\ rows'[proc'[q].key] # Jobs!NoRow
                      /\ proc'[q].attempt <= rows'[proc'[q].key].attempts
    OBVIOUS
  <2> DEFINE k == proc[q].key
  <2>1. Jobs!Holding(q) /\ proc'[q].key = k /\ proc'[q].attempt = proc[q].attempt
    BY DEF HoldersKept
  <2>2. k \in Jobs!Keys /\ rows[k] # Jobs!NoRow /\ proc[q].attempt <= rows[k].attempts
    BY <2>1 DEF JobsInv, Behind, Jobs!Holding
  <2>3. rows'[k] # Jobs!NoRow /\ rows[k].attempts <= rows'[k].attempts
    BY <2>2 DEF RowsGrow
  <2>4. rows[k] \in Jobs!Row /\ rows'[k] \in Jobs!Row
    BY <2>2, <2>3 DEF JobsInv, Jobs!TypeOK
  <2>5. /\ rows[k].attempts \in Nat /\ rows'[k].attempts \in Nat /\ proc[q].attempt \in Nat
    BY SMTT(60), <2>4, RowFacts DEF JobsInv, Jobs!TypeOK
  <2> HIDE DEF k
  <2> QED
    BY SMTT(60), <2>1, <2>2, <2>3, <2>5
<1>2. Behind'
  BY <1>1 DEF Behind, Jobs!Holding, RowsGrow
<1>3. Jobs!OneHolderPerAttempt'
  BY SMTT(60) DEF JobsInv, Jobs!OneHolderPerAttempt, HoldersKept
<1> QED
  BY <1>2, <1>3 DEF JobsInv

LEMMA SameRowsAlone ==
  ASSUME JobsInv, AloneInv, rows' = rows, HoldersKept,
         \A q \in Procs : proc'[q].at = "recovering" =>
                \A e \in proc'[q].stale : rows[e[1]] # Jobs!NoRow /\ rows[e[1]].attempts = e[2],
         \A q \in Procs : proc'[q].at = "finishing" /\ proc'[q].target = "RETRY_WAIT" =>
                rows[proc'[q].key].attempts < MaxAttempts
  PROVE  AloneInv'
<1>1. Jobs!HolderIsCurrent'
  BY SMTT(60) DEF AloneInv, HoldersKept, Jobs!HolderIsCurrent, Jobs!OwnedRunning
<1> QED
  BY <1>1 DEF AloneInv

------------------------------------------------------------------------------
(* What a process does with the rows: the steps of recovery, of a claim,   *)
(* of a run and of its end, each shown to keep both invariants.            *)

(* The assignments of the steps keep a supervisor's record well-typed.     *)
LEMMA MoveTypes ==
  ASSUME NEW r \in Supervisors, NEW at \in Jobs!Steps
  PROVE  /\ \A stale \in SUBSET (Jobs!Keys \X (0..MaxClaims)) :
              [r EXCEPT !.stale = stale, !.at = at] \in Supervisors
         /\ \A key \in Jobs!Keys, attempt \in 0..MaxClaims :
              [r EXCEPT !.key = key, !.attempt = attempt, !.at = at] \in Supervisors
         /\ \A attempt \in 0..MaxClaims :
              [r EXCEPT !.at = at, !.attempt = attempt] \in Supervisors
         /\ \A verdict \in Jobs!Verdicts :
              [r EXCEPT !.verdict = verdict, !.at = at] \in Supervisors
         /\ \A target \in Jobs!Terminal \cup {"RETRY_WAIT"} :
              [r EXCEPT !.target = target, !.at = at] \in Supervisors
<1> DEFINE A == SUBSET (Jobs!Keys \X (0..MaxClaims))
           B == Jobs!Keys \cup {Jobs!NoKey}
           C == 0..MaxClaims
           D == Jobs!Terminal \cup {"RETRY_WAIT"}
           E == 0..MaxMessages
<1>1. Supervisors = [at : Jobs!Steps, cursor : E, behind : BOOLEAN, stale : A, key : B,
                     attempt : C, verdict : Jobs!Verdicts, target : D]
  BY DEF Supervisors
<1>2. Jobs!Keys \subseteq B
  OBVIOUS
<1>3. \A stale \in A : [r EXCEPT !.stale = stale, !.at = at] \in Supervisors
  <2> HIDE DEF A, B, C, D, E
  <2> QED
    BY <1>1
<1>4. \A key \in Jobs!Keys, attempt \in C :
        [r EXCEPT !.key = key, !.attempt = attempt, !.at = at] \in Supervisors
  <2> HIDE DEF A, B, C, D, E
  <2> QED
    BY <1>1, <1>2
<1>5. \A attempt \in C : [r EXCEPT !.at = at, !.attempt = attempt] \in Supervisors
  <2> HIDE DEF A, B, C, D, E
  <2> QED
    BY <1>1
<1>6. \A verdict \in Jobs!Verdicts : [r EXCEPT !.verdict = verdict, !.at = at] \in Supervisors
  <2> HIDE DEF A, B, C, D, E
  <2> QED
    BY <1>1
<1>7. \A target \in D : [r EXCEPT !.target = target, !.at = at] \in Supervisors
  <2> HIDE DEF A, B, C, D, E
  <2> QED
    BY <1>1
<1> QED
  BY <1>3, <1>4, <1>5, <1>6, <1>7

LEMMA RecoverSelectStep ==
  ASSUME JobsInv, NEW p \in Procs, Jobs!RecoverSelect(p)
  PROVE  JobsInv' /\ (AloneInv => AloneInv')
<1> DEFINE over == {k \in Jobs!Keys : Jobs!LeaseOver(k)}
           found == {<<k, rows[k].attempts>> : k \in over}
           at == IF over = {} THEN "claim" ELSE "recovering"
<1>0. /\ rows \in [Jobs!Keys -> Stored] /\ proc \in [Procs -> Supervisors]
      /\ clock \in JobClock /\ bounds \in JobBounds
  BY TypeParts DEF JobsInv
<1>1. proc' = [proc EXCEPT ![p].stale = found, ![p].at = at] /\ UNCHANGED <<rows, clock, bounds>>
  BY DEF Jobs!RecoverSelect
<1>2. \A k \in over : k \in Jobs!Keys /\ rows[k] # Jobs!NoRow /\ rows[k].attempts \in 0..MaxClaims
  BY <1>0, RowFacts DEF Jobs!LeaseOver, Jobs!Exists, Stored
<1>3. found \in SUBSET (Jobs!Keys \X (0..MaxClaims))
  BY SMTT(60), <1>2
<1>4. \A e \in found : e[1] \in Jobs!Keys /\ rows[e[1]] # Jobs!NoRow /\ rows[e[1]].attempts = e[2]
  BY SMTT(60), <1>2
<1>5. at \in {"claim", "recovering"}
  OBVIOUS
<1> HIDE DEF over, found, at
<1>6. proc' \in [Procs -> Supervisors]
  <2>1. at \in Jobs!Steps
    BY <1>5, StepNames
  <2>2. [proc[p] EXCEPT !.stale = found, !.at = at] \in Supervisors
    BY <1>0, <1>3, <2>1, MoveTypes
  <2>3. proc' = [proc EXCEPT ![p] = [proc[p] EXCEPT !.stale = found, !.at = at]]
    BY <1>1
  <2> QED
    BY <1>0, <2>2, <2>3
<1>7. /\ proc'[p].at = at /\ proc'[p].stale = found
      /\ \A q \in Procs : q # p => proc'[q] = proc[q]
  BY <1>0, <1>1 DEF Supervisors
<1>8. Jobs!TypeOK'
  BY <1>0, <1>1, <1>6 DEF Jobs!TypeOK, Stored, Supervisors, JobClock, JobBounds
<1>9. HoldersKept
  BY <1>5, <1>7 DEF HoldersKept, Jobs!Holding
<1>10. RowsGrow
  <2>1. \A k \in Jobs!Keys : rows[k] # Jobs!NoRow => rows[k].attempts \in Nat
    BY SMTT(60), <1>0, RowFacts DEF Stored
  <2> QED
    BY SMTT(60), <1>1, <2>1 DEF RowsGrow
<1>11. \A q \in Procs : proc'[q].at = "recovering" =>
        \A e \in proc'[q].stale : e[1] \in Jobs!Keys /\ rows[e[1]] # Jobs!NoRow
  BY SMTT(60), <1>0, <1>4, <1>7 DEF JobsInv, Behind, Supervisors
<1>12. \A q \in Procs : proc'[q].at = "claiming" => proc'[q].key \in Jobs!Keys
  BY <1>5, <1>7 DEF JobsInv, Behind
<1>13. JobsInv'
  BY <1>8, <1>9, <1>10, <1>11, <1>12, GrowStep
<1>14. ASSUME AloneInv PROVE AloneInv'
  <2>1. \A q \in Procs : proc'[q].at = "recovering" =>
         \A e \in proc'[q].stale : rows[e[1]] # Jobs!NoRow /\ rows[e[1]].attempts = e[2]
    BY <1>4, <1>7, <1>14 DEF AloneInv
  <2>2. \A q \in Procs : proc'[q].at = "finishing" /\ proc'[q].target = "RETRY_WAIT" =>
          rows[proc'[q].key].attempts < MaxAttempts
    BY <1>5, <1>7, <1>14 DEF AloneInv
  <2> QED
    BY <1>1, <1>9, <1>14, <2>1, <2>2, SameRowsAlone
<1> QED
  BY <1>13, <1>14

(* The end of a process's work on a row leaves it nothing to hold.         *)
LEMMA EndAlone ==
  ASSUME Alone, NEW p \in Procs, proc'[p].at \in Resting,
         \A k \in Jobs!Keys : rows'[k] # Jobs!NoRow =>
            /\ rows'[k].attempts <= MaxAttempts
            /\ rows'[k].state \in Jobs!Claimable => rows'[k].attempts < MaxAttempts
  PROVE  AloneInv'
<1>1. \A q \in Procs : q = p
  BY DEF Alone
<1> QED
  BY <1>1 DEF AloneInv, Jobs!HolderIsCurrent, Jobs!Holding, Resting

LEMMA RecoveredFacts ==
  ASSUME NEW p, NEW k, NEW n
  PROVE  /\ Jobs!RecoveredState(p, k, n) \in {"DEAD_LETTER", "RETRY_WAIT"}
         /\ Jobs!RecoveredState(p, k, n) = "RETRY_WAIT" => ~(n >= MaxAttempts)
  BY DEF Jobs!RecoveredState

LEMMA StateNames ==
  /\ Jobs!Terminal \cup {"RETRY_WAIT"} \subseteq Jobs!JobState
  /\ \A s \in Jobs!Terminal : s \notin Jobs!Claimable
  /\ "RUNNING" \notin Jobs!Claimable
  /\ {"DEAD_LETTER", "RETRY_WAIT"} \subseteq Jobs!JobState
  /\ "DEAD_LETTER" \notin Jobs!Claimable
  BY DEF Jobs!JobState, Jobs!Terminal, Jobs!Claimable

LEMMA RecoverCommitStep ==
  ASSUME JobsInv, NEW p \in Procs, Jobs!RecoverCommit(p)
  PROVE  JobsInv' /\ (Alone /\ AloneInv => AloneInv')
<1> DEFINE Read(k) == {e \in proc[p].stale : e[1] = k}
<1>0. /\ rows \in [Jobs!Keys -> Stored] /\ proc \in [Procs -> Supervisors]
      /\ clock \in JobClock /\ bounds \in JobBounds
  BY TypeParts DEF JobsInv
<1>1. /\ proc[p].at = "recovering" /\ UNCHANGED <<clock, bounds>>
      /\ proc' = [proc EXCEPT ![p].stale = {}, ![p].at = "claim"]
  BY DEF Jobs!RecoverCommit
<1>2. rows' = [k \in Jobs!Keys |->
                IF Read(k) = {} THEN rows[k]
                ELSE Jobs!Released(k, Jobs!RecoveredState(p, k, (CHOOSE e \in Read(k) : TRUE)[2]))]
  BY DEF Jobs!RecoverCommit
<1>3. ASSUME NEW k \in Jobs!Keys, Read(k) # {}
      PROVE  \E e \in proc[p].stale :
                /\ e[1] = k /\ rows[k] \in Jobs!Row
                /\ rows'[k] = Jobs!Released(k, Jobs!RecoveredState(p, k, e[2]))
  <2> DEFINE e == CHOOSE e \in Read(k) : TRUE
  <2>1. e \in Read(k)
    BY <1>3
  <2>2. rows[k] # Jobs!NoRow
    BY <1>1, <2>1 DEF JobsInv, Behind
  <2>3. rows[k] \in Jobs!Row
    BY <1>0, <2>2 DEF Stored
  <2>4. rows'[k] = Jobs!Released(k, Jobs!RecoveredState(p, k, e[2]))
    BY <1>2, <1>3
  <2> HIDE DEF e
  <2> QED
    BY <2>1, <2>3, <2>4
<1>4. ASSUME NEW k \in Jobs!Keys, Read(k) = {} PROVE rows'[k] = rows[k]
  BY <1>2, <1>4
<1> HIDE DEF Read
<1>5. \A k \in Jobs!Keys :
        \/ rows'[k] = rows[k]
        \/ \E e \in proc[p].stale :
              /\ e[1] = k /\ rows[k] \in Jobs!Row /\ rows'[k] \in Jobs!Row
              /\ rows'[k].attempts = rows[k].attempts
              /\ rows'[k].state \in {"DEAD_LETTER", "RETRY_WAIT"}
              /\ rows'[k].state = "RETRY_WAIT" => ~(e[2] >= MaxAttempts)
  <2> SUFFICES ASSUME NEW k \in Jobs!Keys, Read(k) # {}
               PROVE  \E e \in proc[p].stale :
                          /\ e[1] = k /\ rows[k] \in Jobs!Row /\ rows'[k] \in Jobs!Row
                          /\ rows'[k].attempts = rows[k].attempts
                          /\ rows'[k].state \in {"DEAD_LETTER", "RETRY_WAIT"}
                          /\ rows'[k].state = "RETRY_WAIT" => ~(e[2] >= MaxAttempts)
    BY <1>4
  <2>1. PICK e \in proc[p].stale :
          /\ e[1] = k /\ rows[k] \in Jobs!Row
          /\ rows'[k] = Jobs!Released(k, Jobs!RecoveredState(p, k, e[2]))
    BY <1>3
  <2>2. /\ Jobs!RecoveredState(p, k, e[2]) \in {"DEAD_LETTER", "RETRY_WAIT"}
        /\ Jobs!RecoveredState(p, k, e[2]) = "RETRY_WAIT" => ~(e[2] >= MaxAttempts)
    BY RecoveredFacts
  <2>3. Jobs!RecoveredState(p, k, e[2]) \in Jobs!JobState
    BY <2>2, StateNames
  <2> QED
    BY SMTT(60), <2>1, <2>2, <2>3, ReleasedFacts
<1>6. rows' \in [Jobs!Keys -> Stored]
  <2>1. \A k \in Jobs!Keys : rows'[k] \in Stored
    BY <1>0, <1>5 DEF Stored
  <2> QED
    BY <1>2, <2>1
<1>7. proc' \in [Procs -> Supervisors]
  BY SMTT(60), <1>0, <1>1, StepNames DEF Supervisors
<1>8. /\ proc'[p].at = "claim"
      /\ \A q \in Procs : q # p => proc'[q] = proc[q]
  BY <1>0, <1>1 DEF Supervisors
<1>9. Jobs!TypeOK'
  BY <1>0, <1>1, <1>6, <1>7 DEF Jobs!TypeOK, Stored, Supervisors, JobClock, JobBounds
<1>10. RowsGrow
  <2>1. \A k \in Jobs!Keys : rows[k] # Jobs!NoRow => rows[k].attempts \in Nat
    BY SMTT(60), <1>0, RowFacts DEF Stored
  <2> QED
    BY SMTT(60), <1>5, <2>1, RowFacts DEF RowsGrow
<1>11. HoldersKept
  BY <1>8 DEF HoldersKept, Jobs!Holding
<1>12. /\ \A q \in Procs : proc'[q].at = "recovering" =>
            \A e \in proc'[q].stale : e[1] \in Jobs!Keys /\ rows[e[1]] # Jobs!NoRow
       /\ \A q \in Procs : proc'[q].at = "claiming" => proc'[q].key \in Jobs!Keys
  BY SMTT(60), <1>0, <1>8 DEF JobsInv, Behind, Supervisors
<1>13. JobsInv'
  BY <1>9, <1>10, <1>11, <1>12, GrowStep
<1>14. ASSUME Alone, AloneInv PROVE AloneInv'
  <2> SUFFICES ASSUME NEW k \in Jobs!Keys, rows'[k] # Jobs!NoRow
               PROVE  /\ rows'[k].attempts <= MaxAttempts
                      /\ rows'[k].state \in Jobs!Claimable => rows'[k].attempts < MaxAttempts
    BY <1>8, <1>14, EndAlone DEF Resting
  <2>1. CASE rows'[k] = rows[k]
    BY <1>14, <2>1 DEF AloneInv
  <2>2. CASE \E e \in proc[p].stale :
              /\ e[1] = k /\ rows[k] \in Jobs!Row /\ rows'[k] \in Jobs!Row
              /\ rows'[k].attempts = rows[k].attempts
              /\ rows'[k].state \in {"DEAD_LETTER", "RETRY_WAIT"}
              /\ rows'[k].state = "RETRY_WAIT" => ~(e[2] >= MaxAttempts)
    <3>1. PICK e \in proc[p].stale :
              /\ e[1] = k /\ rows[k] \in Jobs!Row /\ rows'[k] \in Jobs!Row
              /\ rows'[k].attempts = rows[k].attempts
              /\ rows'[k].state \in {"DEAD_LETTER", "RETRY_WAIT"}
              /\ rows'[k].state = "RETRY_WAIT" => ~(e[2] >= MaxAttempts)
      BY <2>2
    <3>2. rows[k].attempts = e[2] /\ rows[k].attempts <= MaxAttempts
      BY <1>1, <1>14, <3>1, RowFacts DEF AloneInv
    <3>3. e[2] \in Nat
      BY SMTT(60), <3>1, <3>2, RowFacts
    <3> QED
      BY SMTT(60), <3>1, <3>2, <3>3, StateNames, AttemptsPositive
  <2> QED
    BY <1>5, <2>1, <2>2
<1> QED
  BY <1>13, <1>14

LEMMA DueFacts ==
  ASSUME JobsInv, NEW k \in Jobs!Keys, Jobs!Due(k)
  PROVE  /\ rows[k] # Jobs!NoRow /\ rows[k] \in Jobs!Row
         /\ rows[k].state \in Jobs!Claimable
  BY TypeParts DEF JobsInv, Jobs!Due, Jobs!Exists, Stored

LEMMA KeepsBoth ==
  ASSUME JobsInv, KeepsAll
  PROVE  JobsInv' /\ (AloneInv => AloneInv')
  BY KeepStep, KeepAlone DEF KeepsAll

LEMMA ClaimSelectStep ==
  ASSUME JobsInv, NEW p \in Procs, Jobs!ClaimSelect(p)
  PROVE  JobsInv' /\ (AloneInv => AloneInv')
<1>0. /\ rows \in [Jobs!Keys -> Stored] /\ proc \in [Procs -> Supervisors]
      /\ clock \in JobClock /\ bounds \in JobBounds
  BY TypeParts DEF JobsInv
<1>1. CASE Jobs!Go(p, "schedule") /\ UNCHANGED <<rows, clock, bounds>>
  BY <1>1, GoStep, KeepsBoth DEF JobsInv, Resting
<1>2. CASE \E k \in Jobs!Keys :
              /\ Jobs!Due(k)
              /\ proc' = [proc EXCEPT ![p].key = k, ![p].attempt = rows[k].attempts,
                                      ![p].at = "claiming"]
              /\ UNCHANGED <<rows, clock, bounds>>
  <2>1. PICK k \in Jobs!Keys :
              /\ Jobs!Due(k)
              /\ proc' = [proc EXCEPT ![p].key = k, ![p].attempt = rows[k].attempts,
                                      ![p].at = "claiming"]
              /\ UNCHANGED <<rows, clock, bounds>>
    BY <1>2
  <2>2. rows[k].attempts \in 0..MaxClaims
    BY <2>1, DueFacts, RowFacts
  <2> DEFINE seen == rows[k].attempts
  <2>3. proc' = [proc EXCEPT ![p].key = k, ![p].attempt = seen, ![p].at = "claiming"]
    BY <2>1
  <2> HIDE DEF seen
  <2>4. seen \in 0..MaxClaims
    BY <2>2 DEF seen
  <2>5. proc' \in [Procs -> Supervisors]
    <3>1. [proc[p] EXCEPT !.key = k, !.attempt = seen, !.at = "claiming"] \in Supervisors
      BY <1>0, <2>4, MoveTypes, StepNames
    <3>2. proc' = [proc EXCEPT ![p] =
                      [proc[p] EXCEPT !.key = k, !.attempt = seen, !.at = "claiming"]]
      BY <2>3
    <3> QED
      BY <1>0, <3>1, <3>2
  <2>6. /\ proc'[p].at = "claiming" /\ proc'[p].key = k
        /\ \A q \in Procs : q # p => proc'[q] = proc[q]
    BY <1>0, <2>3 DEF Supervisors
  <2>7. Jobs!TypeOK'
    BY <1>0, <2>1, <2>5 DEF Jobs!TypeOK, Stored, Supervisors, JobClock, JobBounds
  <2>8. HoldersKept
    BY <2>6 DEF HoldersKept, Jobs!Holding
  <2>9. RowsGrow
    <3>1. \A i \in Jobs!Keys : rows[i] # Jobs!NoRow => rows[i].attempts \in Nat
      BY SMTT(60), <1>0, RowFacts DEF Stored
    <3> QED
      BY SMTT(60), <2>1, <3>1 DEF RowsGrow
  <2>10. JobsInv'
    <3>1. \A q \in Procs : proc'[q].at = "claiming" => proc'[q].key \in Jobs!Keys
      BY <2>6 DEF JobsInv, Behind
    <3>2. \A q \in Procs : proc'[q].at = "recovering" =>
            \A e \in proc'[q].stale : e[1] \in Jobs!Keys /\ rows[e[1]] # Jobs!NoRow
      BY SMTT(60), <1>0, <2>6 DEF JobsInv, Behind, Supervisors
    <3> QED
      BY <2>7, <2>8, <2>9, <3>1, <3>2, GrowStep
  <2>11. ASSUME AloneInv PROVE AloneInv'
    <3>1. \A q \in Procs : proc'[q].at = "recovering" =>
           \A e \in proc'[q].stale : rows[e[1]] # Jobs!NoRow /\ rows[e[1]].attempts = e[2]
      BY <2>6, <2>11 DEF AloneInv
    <3>2. \A q \in Procs : proc'[q].at = "finishing" /\ proc'[q].target = "RETRY_WAIT" =>
            rows[proc'[q].key].attempts < MaxAttempts
      BY <2>6, <2>11 DEF AloneInv
    <3> QED
      BY <2>1, <2>8, <2>11, <3>1, <3>2, SameRowsAlone
  <2> QED
    BY <2>10, <2>11
<1> QED
  BY <1>1, <1>2 DEF Jobs!ClaimSelect

LEMMA RunJobStep ==
  ASSUME JobsInv, NEW p \in Procs, Jobs!RunJob(p)
  PROVE  JobsInv' /\ (AloneInv => AloneInv')
<1>0. /\ rows \in [Jobs!Keys -> Stored] /\ proc \in [Procs -> Supervisors]
      /\ clock \in JobClock /\ bounds \in JobBounds
  BY TypeParts DEF JobsInv
<1>1. CASE Jobs!Go(p, "schedule") /\ UNCHANGED <<rows, clock, bounds>>
  BY <1>1, GoStep, KeepsBoth DEF JobsInv, Resting
<1>2. CASE \E v \in Jobs!Verdicts :
              /\ proc' = [proc EXCEPT ![p].verdict = v, ![p].at = "finish"]
              /\ UNCHANGED <<rows, clock, bounds>>
  <2>1. PICK v \in Jobs!Verdicts :
              /\ proc' = [proc EXCEPT ![p].verdict = v, ![p].at = "finish"]
              /\ UNCHANGED <<rows, clock, bounds>>
    BY <1>2
  <2>2. proc[p].at = "run"
    BY DEF Jobs!RunJob
  <2>5. proc' \in [Procs -> Supervisors]
    <3>1. [proc[p] EXCEPT !.verdict = v, !.at = "finish"] \in Supervisors
      BY <1>0, MoveTypes, StepNames
    <3>2. proc' = [proc EXCEPT ![p] = [proc[p] EXCEPT !.verdict = v, !.at = "finish"]]
      BY <2>1
    <3> QED
      BY <1>0, <3>1, <3>2
  <2>6. /\ proc'[p].at = "finish" /\ proc'[p].key = proc[p].key
        /\ proc'[p].attempt = proc[p].attempt
        /\ \A q \in Procs : q # p => proc'[q] = proc[q]
    BY <1>0, <2>1 DEF Supervisors
  <2>7. Jobs!TypeOK'
    BY <1>0, <2>1, <2>5 DEF Jobs!TypeOK, Stored, Supervisors, JobClock, JobBounds
  <2>8. HoldersKept
    BY <2>2, <2>6 DEF HoldersKept, Jobs!Holding
  <2>9. RowsGrow
    <3>1. \A i \in Jobs!Keys : rows[i] # Jobs!NoRow => rows[i].attempts \in Nat
      BY SMTT(60), <1>0, RowFacts DEF Stored
    <3> QED
      BY SMTT(60), <2>1, <3>1 DEF RowsGrow
  <2>10. JobsInv'
    <3>1. \A q \in Procs : proc'[q].at = "claiming" => proc'[q].key \in Jobs!Keys
      BY <2>6 DEF JobsInv, Behind
    <3>2. \A q \in Procs : proc'[q].at = "recovering" =>
            \A e \in proc'[q].stale : e[1] \in Jobs!Keys /\ rows[e[1]] # Jobs!NoRow
      BY SMTT(60), <1>0, <2>6 DEF JobsInv, Behind, Supervisors
    <3> QED
      BY <2>7, <2>8, <2>9, <3>1, <3>2, GrowStep
  <2>11. ASSUME AloneInv PROVE AloneInv'
    <3>1. \A q \in Procs : proc'[q].at = "recovering" =>
           \A e \in proc'[q].stale : rows[e[1]] # Jobs!NoRow /\ rows[e[1]].attempts = e[2]
      BY <2>6, <2>11 DEF AloneInv
    <3>2. \A q \in Procs : proc'[q].at = "finishing" /\ proc'[q].target = "RETRY_WAIT" =>
            rows[proc'[q].key].attempts < MaxAttempts
      BY <2>6, <2>11 DEF AloneInv
    <3> QED
      BY <2>1, <2>8, <2>11, <3>1, <3>2, SameRowsAlone
  <2> QED
    BY <2>10, <2>11
<1>3. {"succeed", "fail", "block"} = Jobs!Verdicts
  BY DEF Jobs!Verdicts
<1> QED
  BY <1>1, <1>2, <1>3 DEF Jobs!RunJob

(* claim_next's update counts a new attempt, so the process that wins it   *)
(* holds an attempt nobody else can hold.                                  *)
LEMMA ClaimUpdateStep ==
  ASSUME JobsInv, NEW p \in Procs, Jobs!ClaimUpdate(p)
  PROVE  JobsInv' /\ (Alone /\ AloneInv => AloneInv')
<1> DEFINE k == proc[p].key
           n == rows[k].attempts + 1
<1>0. /\ rows \in [Jobs!Keys -> Stored] /\ proc \in [Procs -> Supervisors]
      /\ clock \in JobClock /\ bounds \in JobBounds
  BY TypeParts DEF JobsInv
<1>1. CASE Jobs!Go(p, "schedule") /\ UNCHANGED <<rows, clock, bounds>>
  BY <1>1, GoStep, KeepsBoth DEF JobsInv, Resting
<1>2. CASE /\ Jobs!Due(k) /\ rows[k].attempts < MaxClaims
           /\ rows' = [rows EXCEPT ![k] = Jobs!Taken(p, k)]
           /\ proc' = [proc EXCEPT ![p].at = "run", ![p].attempt = n]
           /\ UNCHANGED <<clock, bounds>>
  <2>1. k \in Jobs!Keys
    BY DEF JobsInv, Behind, Jobs!ClaimUpdate
  <2>2. rows[k] # Jobs!NoRow /\ rows[k] \in Jobs!Row /\ rows[k].state \in Jobs!Claimable
    BY <1>2, <2>1, DueFacts
  <2>3. rows[k].attempts \in Nat /\ n \in 0..MaxClaims /\ n = rows[k].attempts + 1
    BY SMTT(60), <1>2, <2>2, RowFacts, BoundAssumption
  <2>4. /\ Jobs!Taken(p, k) \in Jobs!Row /\ Jobs!Taken(p, k) # Jobs!NoRow
        /\ Jobs!Taken(p, k).state = "RUNNING" /\ Jobs!Taken(p, k).owner = Owner[p]
        /\ Jobs!Taken(p, k).attempts = n
    BY <1>2, <2>2, TakenFacts, RowFacts
  <2>5. /\ rows'[k] = Jobs!Taken(p, k) /\ \A i \in Jobs!Keys : i # k => rows'[i] = rows[i]
        /\ rows' \in [Jobs!Keys -> Stored]
    BY <1>0, <1>2, <2>1, <2>4 DEF Stored
  <2> HIDE DEF n
  <2>6. proc' \in [Procs -> Supervisors]
    <3>1. [proc[p] EXCEPT !.at = "run", !.attempt = n] \in Supervisors
      BY <1>0, <2>3, MoveTypes, StepNames
    <3>2. proc' = [proc EXCEPT ![p] = [proc[p] EXCEPT !.at = "run", !.attempt = n]]
      BY <1>2
    <3> QED
      BY <1>0, <3>1, <3>2
  <2>7. /\ proc'[p].at = "run" /\ proc'[p].key = k /\ proc'[p].attempt = n
        /\ \A q \in Procs : q # p => proc'[q] = proc[q]
    BY <1>0, <1>2 DEF Supervisors
  <2> HIDE DEF k
  <2>8. Jobs!TypeOK'
    BY <1>0, <1>2, <2>5, <2>6 DEF Jobs!TypeOK, Stored, Supervisors, JobClock, JobBounds
  <2>9. RowsGrow
    <3>1. \A i \in Jobs!Keys : rows[i] # Jobs!NoRow => rows[i].attempts \in Nat
      BY SMTT(60), <1>0, RowFacts DEF Stored
    <3> QED
      BY SMTT(60), <2>3, <2>4, <2>5, <3>1 DEF RowsGrow
  <2>10. \A q \in Procs : q # p /\ Jobs!Holding(q) =>
           /\ proc[q].key \in Jobs!Keys /\ rows[proc[q].key] # Jobs!NoRow
           /\ proc[q].attempt <= rows[proc[q].key].attempts
           /\ proc[q].attempt \in Nat /\ rows[proc[q].key].attempts \in Nat
           /\ rows'[proc[q].key] # Jobs!NoRow
           /\ rows'[proc[q].key].attempts \in Nat
           /\ rows[proc[q].key].attempts <= rows'[proc[q].key].attempts
    <3> SUFFICES ASSUME NEW q \in Procs, q # p, Jobs!Holding(q)
                 PROVE  /\ proc[q].key \in Jobs!Keys /\ rows[proc[q].key] # Jobs!NoRow
                        /\ proc[q].attempt <= rows[proc[q].key].attempts
                        /\ proc[q].attempt \in Nat /\ rows[proc[q].key].attempts \in Nat
                        /\ rows'[proc[q].key] # Jobs!NoRow
                        /\ rows'[proc[q].key].attempts \in Nat
                        /\ rows[proc[q].key].attempts <= rows'[proc[q].key].attempts
      OBVIOUS
    <3> DEFINE i == proc[q].key
    <3>1. i \in Jobs!Keys /\ rows[i] # Jobs!NoRow /\ proc[q].attempt <= rows[i].attempts
      BY DEF JobsInv, Behind, Jobs!Holding
    <3>2. rows'[i] # Jobs!NoRow /\ rows[i].attempts <= rows'[i].attempts
      BY <2>9, <3>1 DEF RowsGrow
    <3>3. rows[i] \in Jobs!Row /\ rows'[i] \in Jobs!Row
      BY <1>0, <2>5, <3>1, <3>2 DEF Stored
    <3>4. rows[i].attempts \in Nat /\ rows'[i].attempts \in Nat /\ proc[q].attempt \in Nat
      BY SMTT(60), <1>0, <3>3, RowFacts DEF Supervisors
    <3> QED
      BY <3>1, <3>2, <3>4
  <2>11. \A q \in Procs : Jobs!Holding(q)' => q = p \/ Jobs!Holding(q)
    BY <2>7 DEF Jobs!Holding
  <2>12. Behind'
    <3> SUFFICES ASSUME NEW q \in Procs
                 PROVE  /\ proc'[q].at \in {"claiming", "run", "finish", "finishing"} =>
                             proc'[q].key \in Jobs!Keys
                        /\ Jobs!Holding(q)' =>
                             /\ rows'[proc'[q].key] # Jobs!NoRow
                             /\ proc'[q].attempt <= rows'[proc'[q].key].attempts
                        /\ proc'[q].at = "recovering" =>
                             \A e \in proc'[q].stale : rows'[e[1]] # Jobs!NoRow
      BY DEF Behind
    <3>1. CASE q = p
      BY SMTT(60), <2>1, <2>3, <2>4, <2>5, <2>7, <3>1 DEF Jobs!Holding
    <3>2. CASE q # p
      <4>1. proc'[q] = proc[q]
        BY <2>7, <3>2
      <4>2. proc[q].at \in {"claiming", "run", "finish", "finishing"} => proc[q].key \in Jobs!Keys
        BY DEF JobsInv, Behind
      <4>3. Jobs!Holding(q)' => /\ rows'[proc'[q].key] # Jobs!NoRow
                                /\ proc'[q].attempt <= rows'[proc'[q].key].attempts
        BY SMTT(60), <2>10, <2>11, <3>2, <4>1
      <4>4. ASSUME proc[q].at = "recovering", NEW e \in proc[q].stale
            PROVE  rows'[e[1]] # Jobs!NoRow
        <5>1. e[1] \in Jobs!Keys /\ rows[e[1]] # Jobs!NoRow
          BY <1>0, <4>4 DEF JobsInv, Behind, Supervisors
        <5> QED
          BY <2>9, <5>1 DEF RowsGrow
      <4> QED
        BY <4>1, <4>2, <4>3, <4>4
    <3> QED
      BY <3>1, <3>2
  <2>13. Jobs!OneHolderPerAttempt'
    <3>1. \A q \in Procs : q # p /\ Jobs!Holding(q)' /\ proc'[q].key = k => proc'[q].attempt < n
      BY SMTT(60), <2>3, <2>7, <2>10, <2>11
    <3>2. \A q \in Procs : q # p /\ Jobs!Holding(q)' /\ proc'[q].key = k => proc'[q].attempt # n
      BY SMTT(60), <2>3, <2>7, <2>10, <2>11, <3>1
    <3> SUFFICES ASSUME NEW q \in Procs, NEW s \in Procs, q # s, Jobs!Holding(q)',
                        Jobs!Holding(s)', proc'[q].key = proc'[s].key
                 PROVE  proc'[q].attempt # proc'[s].attempt
      BY DEF Jobs!OneHolderPerAttempt
    <3>3. CASE q = p
      BY <2>7, <3>2, <3>3
    <3>4. CASE s = p
      BY <2>7, <3>2, <3>4
    <3>5. CASE q # p /\ s # p
      BY <2>7, <2>11, <3>5 DEF JobsInv, Jobs!OneHolderPerAttempt
    <3> QED
      BY <3>3, <3>4, <3>5
  <2>14. ASSUME Alone, AloneInv PROVE AloneInv'
    <3>1. \A q \in Procs : q = p
      BY <2>14 DEF Alone
    <3>2. rows[k].attempts < MaxAttempts
      BY <2>1, <2>2, <2>14 DEF AloneInv
    <3>3. n <= MaxAttempts
      BY SMTT(60), <2>3, <3>2, AttemptsPositive
    <3>4. Jobs!HolderIsCurrent'
      BY <2>4, <2>5, <2>7, <3>1 DEF Jobs!HolderIsCurrent, Jobs!OwnedRunning
    <3>5. \A i \in Jobs!Keys : rows'[i] # Jobs!NoRow =>
            /\ rows'[i].attempts <= MaxAttempts
            /\ rows'[i].state \in Jobs!Claimable => rows'[i].attempts < MaxAttempts
      BY SMTT(60), <2>4, <2>5, <2>14, <3>3, StateNames DEF AloneInv
    <3> QED
      BY <2>7, <3>1, <3>4, <3>5 DEF AloneInv
  <2> QED
    BY <2>8, <2>12, <2>13, <2>14 DEF JobsInv
<1> QED
  BY <1>1, <1>2 DEF Jobs!ClaimUpdate

LEMMA TargetFacts ==
  ASSUME NEW verdict \in Jobs!Verdicts, NEW n
  PROVE  /\ Jobs!Target(verdict, n) \in Jobs!Terminal \cup {"RETRY_WAIT"}
         /\ Jobs!Target(verdict, n) = "RETRY_WAIT" => ~(n >= MaxAttempts)
<1>1. CASE verdict = "succeed"
  BY <1>1 DEF Jobs!Target, Jobs!Terminal
<1>2. CASE verdict = "block"
  BY <1>2 DEF Jobs!Target, Jobs!Terminal
<1>3. CASE verdict = "fail"
  BY <1>3 DEF Jobs!Target, Jobs!Terminal
<1> QED
  BY <1>1, <1>2, <1>3 DEF Jobs!Verdicts

LEMMA FinishSelectStep ==
  ASSUME JobsInv, NEW p \in Procs, Jobs!FinishSelect(p)
  PROVE  JobsInv' /\ (AloneInv => AloneInv')
<1> DEFINE k == proc[p].key
           target == Jobs!Target(proc[p].verdict, rows[k].attempts)
<1>0. /\ rows \in [Jobs!Keys -> Stored] /\ proc \in [Procs -> Supervisors]
      /\ clock \in JobClock /\ bounds \in JobBounds
  BY TypeParts DEF JobsInv
<1>1. CASE Jobs!Go(p, "schedule") /\ UNCHANGED <<rows, clock, bounds>>
  BY <1>1, GoStep, KeepsBoth DEF JobsInv, Resting
<1>2. CASE /\ proc' = [proc EXCEPT ![p].target = target, ![p].at = "finishing"]
           /\ UNCHANGED <<rows, clock, bounds>>
  <2>1. proc[p].at = "finish"
    BY DEF Jobs!FinishSelect
  <2>2. k \in Jobs!Keys /\ rows[k] \in Jobs!Row
    BY <1>0, <2>1 DEF JobsInv, Behind, Jobs!Holding, Stored
  <2>3. rows[k].attempts \in Nat
    BY SMTT(60), <2>2, RowFacts
  <2>4. proc[p].verdict \in Jobs!Verdicts
    BY <1>0 DEF Supervisors
  <2>5. /\ target \in Jobs!Terminal \cup {"RETRY_WAIT"}
        /\ target = "RETRY_WAIT" => ~(rows[k].attempts >= MaxAttempts)
    BY <2>4, TargetFacts
  <2> HIDE DEF target
  <2>6. proc' \in [Procs -> Supervisors]
    <3>1. [proc[p] EXCEPT !.target = target, !.at = "finishing"] \in Supervisors
      BY <1>0, <2>5, MoveTypes, StepNames
    <3>2. proc' = [proc EXCEPT ![p] = [proc[p] EXCEPT !.target = target, !.at = "finishing"]]
      BY <1>2
    <3> QED
      BY <1>0, <3>1, <3>2
  <2>7. /\ proc'[p].at = "finishing" /\ proc'[p].key = k /\ proc'[p].target = target
        /\ proc'[p].attempt = proc[p].attempt
        /\ \A q \in Procs : q # p => proc'[q] = proc[q]
    BY <1>0, <1>2 DEF Supervisors
  <2> HIDE DEF k
  <2>8. Jobs!TypeOK'
    BY <1>0, <1>2, <2>6 DEF Jobs!TypeOK, Stored, Supervisors, JobClock, JobBounds
  <2>9. HoldersKept
    BY <2>1, <2>7 DEF HoldersKept, Jobs!Holding, k
  <2>10. RowsGrow
    <3>1. \A i \in Jobs!Keys : rows[i] # Jobs!NoRow => rows[i].attempts \in Nat
      BY SMTT(60), <1>0, RowFacts DEF Stored
    <3> QED
      BY SMTT(60), <1>2, <3>1 DEF RowsGrow
  <2>11. JobsInv'
    <3>1. \A q \in Procs : proc'[q].at = "claiming" => proc'[q].key \in Jobs!Keys
      BY <2>7 DEF JobsInv, Behind
    <3>2. \A q \in Procs : proc'[q].at = "recovering" =>
            \A e \in proc'[q].stale : e[1] \in Jobs!Keys /\ rows[e[1]] # Jobs!NoRow
      BY SMTT(60), <1>0, <2>7 DEF JobsInv, Behind, Supervisors
    <3> QED
      BY <2>8, <2>9, <2>10, <3>1, <3>2, GrowStep
  <2>12. ASSUME AloneInv PROVE AloneInv'
    <3>1. \A q \in Procs : proc'[q].at = "recovering" =>
           \A e \in proc'[q].stale : rows[e[1]] # Jobs!NoRow /\ rows[e[1]].attempts = e[2]
      BY <2>7, <2>12 DEF AloneInv
    <3>2. target = "RETRY_WAIT" => rows[k].attempts < MaxAttempts
      BY SMTT(60), <2>3, <2>5, AttemptsPositive
    <3>3. \A q \in Procs : proc'[q].at = "finishing" /\ proc'[q].target = "RETRY_WAIT" =>
            rows[proc'[q].key].attempts < MaxAttempts
      BY <2>7, <2>12, <3>2 DEF AloneInv
    <3> QED
      BY <1>2, <2>9, <2>12, <3>1, <3>3, SameRowsAlone
  <2> QED
    BY <2>11, <2>12
<1> QED
  BY <1>1, <1>2 DEF Jobs!FinishSelect

LEMMA FinishUpdateStep ==
  ASSUME JobsInv, NEW p \in Procs, Jobs!FinishUpdate(p)
  PROVE  JobsInv' /\ (Alone /\ AloneInv => AloneInv')
<1> DEFINE k == proc[p].key
           target == proc[p].target
<1>0. /\ rows \in [Jobs!Keys -> Stored] /\ proc \in [Procs -> Supervisors]
      /\ clock \in JobClock /\ bounds \in JobBounds
  BY TypeParts DEF JobsInv
<1>1. /\ proc[p].at = "finishing" /\ Jobs!Go(p, "recover")
      /\ rows' = [rows EXCEPT ![k] = Jobs!Released(k, target)]
      /\ UNCHANGED <<clock, bounds>>
  BY DEF Jobs!FinishUpdate
<1>2. k \in Jobs!Keys /\ rows[k] \in Jobs!Row /\ rows[k] # Jobs!NoRow
  BY <1>0, <1>1 DEF JobsInv, Behind, Jobs!Holding, Stored
<1>3. target \in Jobs!Terminal \cup {"RETRY_WAIT"} /\ target \in Jobs!JobState
  BY <1>0, StateNames DEF Supervisors
<1>4. /\ Jobs!Released(k, target) \in Jobs!Row /\ Jobs!Released(k, target) # Jobs!NoRow
      /\ Jobs!Released(k, target).state = target
      /\ Jobs!Released(k, target).attempts = rows[k].attempts
  BY <1>2, <1>3, ReleasedFacts, RowFacts
<1>5. /\ rows'[k] = Jobs!Released(k, target) /\ rows' \in [Jobs!Keys -> Stored]
      /\ \A i \in Jobs!Keys : i # k => rows'[i] = rows[i]
  BY <1>0, <1>1, <1>2, <1>4 DEF Stored
<1>6. proc' \in [Procs -> Supervisors] /\ ProcsKept
  BY <1>0, <1>1, GoKeeps DEF Resting
<1>7. /\ proc'[p].at = "recover"
      /\ \A q \in Procs : q # p => proc'[q] = proc[q]
  BY <1>0, <1>1 DEF Jobs!Go, Jobs!Locals, Jobs!Fresh
<1> HIDE DEF k, target
<1>8. Jobs!TypeOK'
  BY <1>0, <1>1, <1>5, <1>6 DEF Jobs!TypeOK, Stored, Supervisors, JobClock, JobBounds
<1>9. HoldersKept
  BY <1>7 DEF HoldersKept, Jobs!Holding
<1>10. RowsGrow
  <2>1. \A i \in Jobs!Keys : rows[i] # Jobs!NoRow => rows[i].attempts \in Nat
    BY SMTT(60), <1>0, RowFacts DEF Stored
  <2> QED
    BY SMTT(60), <1>4, <1>5, <2>1 DEF RowsGrow
<1>11. JobsInv'
  <2>1. \A q \in Procs : proc'[q].at = "claiming" => proc'[q].key \in Jobs!Keys
    BY <1>7 DEF JobsInv, Behind
  <2>2. \A q \in Procs : proc'[q].at = "recovering" =>
          \A e \in proc'[q].stale : e[1] \in Jobs!Keys /\ rows[e[1]] # Jobs!NoRow
    BY SMTT(60), <1>0, <1>7 DEF JobsInv, Behind, Supervisors
  <2> QED
    BY <1>8, <1>9, <1>10, <2>1, <2>2, GrowStep
<1>12. ASSUME Alone, AloneInv PROVE AloneInv'
  <2>1. target = "RETRY_WAIT" => rows[k].attempts < MaxAttempts
    BY <1>1, <1>12 DEF AloneInv, k, target
  <2>2. \A i \in Jobs!Keys : rows'[i] # Jobs!NoRow =>
          /\ rows'[i].attempts <= MaxAttempts
          /\ rows'[i].state \in Jobs!Claimable => rows'[i].attempts < MaxAttempts
    BY <1>2, <1>3, <1>4, <1>5, <1>12, <2>1, StateNames DEF AloneInv
  <2> QED
    BY <1>7, <1>12, <2>2, EndAlone DEF Resting
<1> QED
  BY <1>11, <1>12

------------------------------------------------------------------------------
LEMMA JobsInit ==
  ASSUME Jobs!Init
  PROVE  JobsInv /\ AloneInv
<1>1. /\ rows = [k \in Jobs!Keys |-> Jobs!NoRow]
      /\ proc = [p \in Procs |-> Jobs!Fresh("schedule", 0, FALSE)]
      /\ clock = [bucket |-> 0, head |-> 0]
      /\ bounds = [crash |-> MaxCrashes, fault |-> MaxJobFaults]
  BY DEF Jobs!Init
<1>2. \A p \in Procs : proc[p].at = "schedule"
  BY <1>1 DEF Jobs!Fresh
<1>3. Jobs!Fresh("schedule", 0, FALSE) \in Supervisors
  <2> DEFINE behind == FALSE
  <2>1. behind \in BOOLEAN /\ "schedule" \in Jobs!Steps /\ 0 \in 0..MaxMessages
    BY SMTT(60), BoundAssumption, StepNames
  <2> HIDE DEF behind
  <2>2. Jobs!Fresh("schedule", 0, behind) \in Supervisors
    BY <2>1, FreshType
  <2> QED
    BY <2>2 DEF behind
<1>4. Jobs!TypeOK
  <2>1. rows \in [Jobs!Keys -> Stored]
    BY <1>1 DEF Stored
  <2>2. proc \in [Procs -> Supervisors]
    BY <1>1, <1>3
  <2>3. clock \in JobClock /\ bounds \in JobBounds
    BY SMTT(60), <1>1, BoundAssumption DEF JobClock, JobBounds
  <2> QED
    BY <2>1, <2>2, <2>3, TypeParts
<1>5. Behind /\ Jobs!OneHolderPerAttempt
  BY <1>2 DEF Behind, Jobs!Holding, Jobs!OneHolderPerAttempt
<1>6. AloneInv
  BY <1>1, <1>2 DEF AloneInv, Jobs!HolderIsCurrent, Jobs!Holding
<1> QED
  BY <1>4, <1>5, <1>6 DEF JobsInv

LEMMA JobsStep ==
  ASSUME JobsInv, Jobs!Next \/ UNCHANGED jobs
  PROVE  JobsInv' /\ (Alone /\ AloneInv => AloneInv')
<1>0. Jobs!TypeOK
  BY DEF JobsInv
<1>1. CASE UNCHANGED jobs
  BY <1>0, <1>1, UnchangedKeeps, KeepsBoth DEF jobs
<1>2. ASSUME NEW p \in Procs, Resolute(p) PROVE JobsInv' /\ (AloneInv => AloneInv')
  BY <1>0, <1>2, ResoluteStep, KeepsBoth
<1>3. CASE \/ Jobs!NextBucket \/ Jobs!Publish \/ Jobs!PublishOther
           \/ \E k \in Jobs!Keys : Jobs!Accept(k) \/ Jobs!LeaseExpires(k) \/ Jobs!BackoffElapses(k)
  BY <1>0, <1>3, WorldStep, KeepsBoth
<1>4. CASE \E p \in Procs : \/ Jobs!Step(p) \/ Jobs!BusNotReady(p) \/ Jobs!StoreFails(p)
                            \/ Jobs!Crash(p) \/ Jobs!Restart(p)
  <2>1. PICK p \in Procs : \/ Jobs!Step(p) \/ Jobs!BusNotReady(p) \/ Jobs!StoreFails(p)
                           \/ Jobs!Crash(p) \/ Jobs!Restart(p)
    BY <1>4
  <2>2. \/ Resolute(p) \/ Jobs!RecoverSelect(p) \/ Jobs!RecoverCommit(p) \/ Jobs!ClaimSelect(p)
        \/ Jobs!ClaimUpdate(p) \/ Jobs!RunJob(p) \/ Jobs!FinishSelect(p) \/ Jobs!FinishUpdate(p)
    BY <2>1 DEF Jobs!Step, Resolute
  <2> QED
    BY <1>2, <2>2, RecoverSelectStep, RecoverCommitStep, ClaimSelectStep, ClaimUpdateStep,
       RunJobStep, FinishSelectStep, FinishUpdateStep
<1> QED
  BY <1>1, <1>3, <1>4 DEF Jobs!Next

(***************************************************************************)
(* The risk controls.                                                      *)
(***************************************************************************)
(* The memory of the process and the calls of its handlers, as records.    *)
Mem ==
    [ctl : SUBSET Controls!Controls, cache : SUBSET Controls!Controls, loaded : Nat,
     status : {"pending", "durable", "unavailable"}, gen : Nat, owed : SUBSET Controls!Controls]

(* Requests that set controls or ask for a permit, and none that releases. *)
Setting == Ops \subseteq {"trigger", "assess"}

(* Once the saved row has been merged all that is owed is in force; until  *)
(* then it is in force or still in the row.                                *)
MemOk(m, row) ==
    /\ m \in Mem /\ m.gen # 0
    /\ IF m.loaded = 0 THEN m.owed \subseteq m.ctl \cup row ELSE m.owed \subseteq m.ctl

(* A handler that merges what it read will have all that is owed, and one  *)
(* that writes the row or reads the account does so on merged controls.    *)
CallOk(m, c) ==
    /\ c \in Controls!Calls
    /\ c.pc # "accounts" /\ (c.pc # "idle" => c.op \in {"trigger", "assess"})
    /\ c.op \notin {"release", "unlock"}
    /\ c.pc \in {"get", "merge"} => c.gen # 0
    /\ c.pc = "merge" => m.owed \subseteq m.ctl \cup c.snap
    /\ c.pc \in {"account", "put", "wrote"} => m.loaded # 0

(* What a step does to the memory: it forgets no control.                  *)
Grows(m, n) ==
    /\ m.ctl \subseteq n.ctl
    /\ n.owed \subseteq m.owed \cup n.ctl
    /\ m.loaded # 0 => n.loaded # 0

Good(m, row, r) ==
    Grows(m, r[1]) /\ MemOk(r[1], row) /\ CallOk(r[1], r[2])

ControlsInv ==
    MemOk(mem, db) /\ db \subseteq Controls!Controls
    /\ call \in [Handlers -> Controls!Calls] /\ \A h \in Handlers : CallOk(mem, call[h])

(* While assessments are accepted every control owed is in force.          *)
InForce == Controls!Current => mem.owed \subseteq mem.ctl

(* No release was put back over a control.                                 *)
NothingLost == past.lost = {}

(* A handler in the middle of its call: where it is does not matter, only  *)
(* that it is one of the two requests.                                     *)
Underway(c) == c \in Controls!Calls /\ c.op \in {"trigger", "assess"}

LEMMA IdleCall == \A m : CallOk(m, Controls!Idle)
  BY DEF CallOk, Controls!Idle, Controls!Calls

LEMMA MovedCalls ==
  ASSUME NEW c \in Controls!Calls
  PROVE  /\ \A pc \in {"idle", "connect", "get", "merge", "put", "wrote", "account", "accounts",
                       "journal", "permit"} :
              /\ Controls!At(c, pc) \in Controls!Calls
              /\ Controls!At(c, pc).pc = pc /\ Controls!At(c, pc).op = c.op
              /\ Controls!At(c, pc).gen = c.gen /\ Controls!At(c, pc).snap = c.snap
         /\ \A n \in Nat : /\ [c EXCEPT !.gen = n] \in Controls!Calls
                           /\ [c EXCEPT !.gen = n].pc = c.pc /\ [c EXCEPT !.gen = n].op = c.op
                           /\ [c EXCEPT !.gen = n].gen = n
         /\ \A s \in SUBSET Controls!Controls :
              /\ [c EXCEPT !.snap = s] \in Controls!Calls
              /\ [c EXCEPT !.snap = s].pc = c.pc /\ [c EXCEPT !.snap = s].op = c.op
              /\ [c EXCEPT !.snap = s].snap = s /\ [c EXCEPT !.snap = s].gen = c.gen
  BY DEF Controls!At, Controls!Calls

LEMMA FlaggedCalls ==
  ASSUME NEW c \in Controls!Calls
  PROVE  /\ \A b \in BOOLEAN : /\ [c EXCEPT !.nested = b] \in Controls!Calls
                               /\ [c EXCEPT !.nested = b].op = c.op
                               /\ [c EXCEPT !.nested = b].pc = c.pc
         /\ [c EXCEPT !.stage = "save"] \in Controls!Calls
         /\ [c EXCEPT !.stage = "save"].op = c.op
  BY DEF Controls!Calls

LEMMA GrowsReflexive == \A m : Grows(m, m)
  BY DEF Grows

LEMMA GrowsTransitive ==
  ASSUME NEW m, NEW n, NEW o, Grows(m, n), Grows(n, o)
  PROVE  Grows(m, o)
  BY DEF Grows

LEMMA GoodFrom ==
  ASSUME NEW m, NEW n, NEW row, NEW r, Grows(m, n), Good(n, row, r)
  PROVE  Good(m, row, r)
  BY GrowsTransitive DEF Good

(* Finish, StartPut, Save: the ends of a persist_controls.                 *)
LEMMA FinishGood ==
  ASSUME NEW m, NEW row, MemOk(m, row), NEW c, Underway(c), NEW ok
  PROVE  Good(m, row, Controls!Finish(m, c, ok))
<1>1. Controls!Finish(m, c, ok) = <<m, Controls!Idle>>
  BY DEF Controls!Finish, Underway
<1> QED
  BY SMTT(60), <1>1, IdleCall, GrowsReflexive DEF Good

LEMMA StartPutGood ==
  ASSUME NEW m, NEW row, MemOk(m, row), NEW c, Underway(c), m.loaded # 0
  PROVE  Good(m, row, Controls!StartPut(m, c))
<1> DEFINE d == [Controls!At(c, "put") EXCEPT !.snap = m.ctl]
<1>1. Controls!StartPut(m, c) = <<m, d>>
  BY DEF Controls!StartPut
<1>2. m.ctl \in SUBSET Controls!Controls
  BY DEF MemOk, Mem
<1>3. d \in Controls!Calls /\ d.pc = "put" /\ d.op = c.op
  <2> DEFINE e == Controls!At(c, "put")
  <2>1. e \in Controls!Calls /\ e.pc = "put" /\ e.op = c.op
    BY SMTT(60), MovedCalls DEF Underway
  <2> HIDE DEF e
  <2>2. [e EXCEPT !.snap = m.ctl] \in Controls!Calls
        /\ [e EXCEPT !.snap = m.ctl].pc = e.pc /\ [e EXCEPT !.snap = m.ctl].op = e.op
    BY SMTT(60), <1>2, <2>1, MovedCalls
  <2> QED
    BY <2>1, <2>2 DEF e
<1> HIDE DEF d
<1>4. CallOk(m, d)
  BY <1>3 DEF CallOk, Underway
<1> QED
  BY SMTT(60), <1>1, <1>4, GrowsReflexive DEF Good

LEMMA SaveGood ==
  ASSUME NEW m, NEW row, MemOk(m, row), NEW c, Underway(c)
  PROVE  Good(m, row, Controls!Save(m, c))
<1>1. CASE m.loaded # m.gen
  BY <1>1, FinishGood DEF Controls!Save
<1>2. CASE m.loaded = m.gen /\ m.ctl = m.cache
  BY <1>2, FinishGood DEF Controls!Save
<1>3. CASE m.loaded = m.gen /\ m.ctl # m.cache
  <2>1. m.loaded # 0
    BY <1>3 DEF MemOk
  <2>2. Controls!Save(m, c) = Controls!StartPut(m, c)
    BY <1>3 DEF Controls!Save
  <2> QED
    BY <2>1, <2>2, StartPutGood
<1> QED
  BY <1>1, <1>2, <1>3

(* governor_ready starts to wait.                                          *)
LEMMA AwaitGood ==
  ASSUME NEW m, NEW row, MemOk(m, row), NEW c, Underway(c)
  PROVE  Good(m, row, <<m, Controls!Await(m, c)>>)
<1> DEFINE d == Controls!Await(m, c)
<1>0. m.gen \in Nat /\ m.gen # 0 /\ c \in Controls!Calls
  BY DEF MemOk, Mem, Underway
<1>1. d \in Controls!Calls /\ d.op = c.op /\ d.pc \in {"get", "connect"}
      /\ (d.pc = "get" => d.gen = m.gen)
  <2>1. CASE m.status = "durable"
    <3>1. d = [Controls!At(c, "get") EXCEPT !.gen = m.gen]
      BY <2>1 DEF Controls!Await
    <3> HIDE DEF d
    <3> QED
      BY SMTT(60), <1>0, <3>1, MovedCalls
  <2>2. CASE m.status # "durable"
    <3>1. d = Controls!At(c, "connect")
      BY <2>2 DEF Controls!Await
    <3> HIDE DEF d
    <3> QED
      BY SMTT(60), <1>0, <3>1, MovedCalls
  <2> QED
    BY <2>1, <2>2
<1> HIDE DEF d
<1>2. CallOk(m, d)
  BY <1>0, <1>1 DEF CallOk, Underway
<1>3. Good(m, row, <<m, d>>)
  BY <1>2, GrowsReflexive DEF Good
<1> QED
  BY <1>3 DEF d

LEMMA PersistGood ==
  ASSUME NEW m, NEW row, MemOk(m, row), NEW c, Underway(c), NEW early
  PROVE  Good(m, row, Controls!Persist(m, c, early))
<1> DEFINE d == [c EXCEPT !.stage = "save"]
<1>1. \/ Controls!Persist(m, c, early) = Controls!Save(m, d)
      \/ Controls!Persist(m, c, early) = <<m, Controls!Await(m, d)>>
  BY DEF Controls!Persist, Controls!Ready
<1>2. Underway(d)
  BY FlaggedCalls DEF Underway
<1> HIDE DEF d
<1> QED
  BY <1>1, <1>2, SaveGood, AwaitGood

(* The handlers once governor_ready has returned.                          *)
LEMMA SetControlsGrows ==
  ASSUME NEW m, NEW row, MemOk(m, row), NEW on \in SUBSET Controls!Controls
  PROVE  /\ MemOk(Controls!SetControls(m, on), row)
         /\ Grows(m, Controls!SetControls(m, on))
         /\ Controls!SetControls(m, on).loaded = m.loaded
<1> DEFINE n == Controls!SetControls(m, on)
<1>1. /\ n \in Mem /\ n.ctl = m.ctl \cup on /\ n.owed = m.owed \cup on
      /\ n.loaded = m.loaded /\ n.gen = m.gen
  BY DEF MemOk, Mem, Controls!SetControls
<1> HIDE DEF n
<1>2. MemOk(n, row)
  BY <1>1 DEF MemOk
<1>3. Grows(m, n)
  BY <1>1 DEF Grows
<1> QED
  BY <1>1, <1>2, <1>3 DEF n

LEMMA UnavailableGrows ==
  ASSUME NEW m, NEW row, MemOk(m, row)
  PROVE  /\ MemOk(Controls!Unavailable(m), row)
         /\ Grows(m, Controls!Unavailable(m))
         /\ Controls!Unavailable(m).status = "unavailable"
<1> DEFINE n == Controls!Unavailable(m)
<1>1. /\ n \in Mem /\ n.ctl = m.ctl /\ n.owed = m.owed /\ n.status = "unavailable"
      /\ n.loaded = m.loaded /\ n.gen = m.gen
  BY DEF MemOk, Mem, Controls!Unavailable
<1> HIDE DEF n
<1>2. MemOk(n, row)
  BY <1>1 DEF MemOk
<1>3. Grows(m, n)
  BY <1>1 DEF Grows
<1> QED
  BY <1>1, <1>2, <1>3 DEF n

(* An assessment goes on to the account only on controls that were merged, *)
(* or is told "not available": `merged` is what governor_ready returned.   *)
Merged(m) == m.status = "durable" => m.loaded # 0

LEMMA AssessGood ==
  ASSUME NEW m, NEW row, MemOk(m, row), NEW c, Underway(c), Merged(m)
  PROVE  Good(m, row, Controls!Assess(m, c))
<1>1. CASE m.status = "durable"
  <2> DEFINE d == Controls!At(c, "account")
  <2>1. Controls!Assess(m, c) = <<m, d>>
    BY <1>1 DEF Controls!Assess
  <2>2. d \in Controls!Calls /\ d.pc = "account" /\ d.op = c.op
    BY SMTT(60), MovedCalls DEF Underway
  <2> HIDE DEF d
  <2>3. CallOk(m, d)
    BY <1>1, <2>2 DEF CallOk, Underway, Merged
  <2> QED
    BY SMTT(60), <2>1, <2>3, GrowsReflexive DEF Good
<1>2. CASE m.status # "durable"
  <2>1. Controls!Assess(m, c) = <<m, Controls!Idle>>
    BY <1>2 DEF Controls!Assess
  <2> QED
    BY SMTT(60), <2>1, IdleCall, GrowsReflexive DEF Good
<1> QED
  BY <1>1, <1>2

LEMMA ActGood ==
  ASSUME NEW m, NEW row, MemOk(m, row), NEW c, Underway(c), Merged(m), NEW early
  PROVE  Good(m, row, Controls!Act(m, c, early))
<1>1. CASE c.op = "trigger"
  <2> DEFINE n == Controls!SetControls(m, c.on)
  <2>1. Controls!Act(m, c, early) = Controls!Persist(n, c, early)
    BY <1>1 DEF Controls!Act
  <2>2. c.on \in SUBSET Controls!Controls
    BY DEF Underway, Controls!Calls
  <2>3. MemOk(n, row) /\ Grows(m, n)
    BY <2>2, SetControlsGrows
  <2> HIDE DEF n
  <2>4. Good(n, row, Controls!Persist(n, c, early))
    BY <2>3, PersistGood
  <2> QED
    BY <2>1, <2>3, <2>4, GoodFrom
<1>2. CASE c.op = "assess"
  <2>1. Controls!Act(m, c, early) = Controls!Assess(m, c)
    BY <1>2 DEF Controls!Act
  <2> QED
    BY <2>1, AssessGood
<1> QED
  BY <1>1, <1>2 DEF Underway

LEMMA ResumeGood ==
  ASSUME NEW m, NEW row, MemOk(m, row), NEW c, Underway(c), Merged(m), NEW early
  PROVE  Good(m, row, Controls!Resume(m, c, early))
<1> DEFINE d == [c EXCEPT !.nested = FALSE]
<1>1. Underway(d)
  <2> DEFINE b == FALSE
  <2>1. b \in BOOLEAN
    OBVIOUS
  <2> HIDE DEF b
  <2>2. Underway([c EXCEPT !.nested = b])
    BY <2>1, FlaggedCalls DEF Underway
  <2> QED
    BY <2>2 DEF b
<1>2. \/ Controls!Resume(m, c, early) = Controls!Act(m, d, early)
      \/ Controls!Resume(m, c, early) = Controls!Save(m, d)
  BY DEF Controls!Resume
<1> HIDE DEF d
<1> QED
  BY <1>1, <1>2, ActGood, SaveGood

LEMMA SaveNestedGood ==
  ASSUME NEW m, NEW row, MemOk(m, row), NEW c, Underway(c), Merged(m), NEW early
  PROVE  Good(m, row, Controls!SaveNested(m, c, early))
<1>1. CASE m.loaded # m.gen \/ m.ctl = m.cache
  BY <1>1, ResumeGood DEF Controls!SaveNested
<1>2. CASE ~(m.loaded # m.gen \/ m.ctl = m.cache)
  <2>1. Controls!SaveNested(m, c, early) = Controls!StartPut(m, c)
    BY <1>2 DEF Controls!SaveNested
  <2>2. m.loaded # 0
    BY <1>2 DEF MemOk
  <2> QED
    BY <2>1, <2>2, StartPutGood
<1> QED
  BY <1>1, <1>2

LEMMA ContinueGood ==
  ASSUME NEW m, NEW row, MemOk(m, row), NEW c, Underway(c), Merged(m), NEW early
  PROVE  Good(m, row, Controls!Continue(m, c, early))
<1>1. \/ Controls!Continue(m, c, early) = Controls!SaveNested(m, c, early)
      \/ Controls!Continue(m, c, early) = Controls!Resume(m, c, early)
  BY DEF Controls!Continue
<1> QED
  BY <1>1, SaveNestedGood, ResumeGood

(* The saved row is merged: from here on all that is owed is in force.     *)
LEMMA MergeGood ==
  ASSUME NEW m, NEW row, MemOk(m, row), NEW c, CallOk(m, c), c.pc = "merge", NEW early
  PROVE  Good(m, row, Controls!Merge(m, c, early))
<1> DEFINE n == [m EXCEPT !.ctl = @ \cup c.snap, !.cache = c.snap, !.loaded = c.gen]
           d == [c EXCEPT !.nested = TRUE]
<1>1. Underway(c) /\ c.gen # 0 /\ c.gen \in Nat /\ c.snap \in SUBSET Controls!Controls
      /\ m.owed \subseteq m.ctl \cup c.snap
  BY DEF CallOk, Underway, Controls!Calls
<1>2. /\ n \in Mem /\ n.ctl = m.ctl \cup c.snap /\ n.loaded = c.gen
      /\ n.owed = m.owed /\ n.gen = m.gen
  BY <1>1 DEF MemOk, Mem
<1>3. Underway(d)
  <2> DEFINE b == TRUE
  <2>1. b \in BOOLEAN
    OBVIOUS
  <2> HIDE DEF b
  <2>2. Underway([c EXCEPT !.nested = b])
    BY <1>1, <2>1, FlaggedCalls DEF Underway
  <2> QED
    BY <2>2 DEF b
<1>4. \/ Controls!Merge(m, c, early) = Controls!Continue(n, c, early)
      \/ Controls!Merge(m, c, early) = Controls!SaveNested(n, d, early)
      \/ Controls!Merge(m, c, early) = <<n, Controls!Await(n, d)>>
  BY DEF Controls!Merge, Controls!Ready
<1> HIDE DEF n, d
<1>5. MemOk(n, row) /\ Grows(m, n) /\ Merged(n)
  BY <1>1, <1>2 DEF MemOk, Grows, Merged
<1>6. Good(n, row, Controls!Merge(m, c, early))
  BY <1>1, <1>3, <1>4, <1>5, ContinueGood, SaveNestedGood, AwaitGood
<1> QED
  BY <1>5, <1>6, GoodFrom

LEMMA WrittenGood ==
  ASSUME NEW m, NEW row, MemOk(m, row), NEW c, CallOk(m, c), c.pc \in {"put", "wrote"},
         NEW ok, NEW early
  PROVE  Good(m, row, Controls!Written(m, c, ok, early))
<1> DEFINE n == IF ok THEN [m EXCEPT !.cache = c.snap] ELSE Controls!Unavailable(m)
<1>1. Underway(c) /\ m.loaded # 0 /\ c.snap \in SUBSET Controls!Controls
  BY DEF CallOk, Underway, Controls!Calls
<1>2. MemOk(n, row) /\ Grows(m, n) /\ n.loaded = m.loaded
  <2>1. CASE ok
    <3>1. n = [m EXCEPT !.cache = c.snap]
      BY <2>1
    <3> HIDE DEF n
    <3>2. /\ n \in Mem /\ n.ctl = m.ctl /\ n.owed = m.owed /\ n.loaded = m.loaded
          /\ n.gen = m.gen
      BY <1>1, <3>1 DEF MemOk, Mem
    <3> QED
      BY <3>2 DEF MemOk, Grows
  <2>2. CASE ~ok
    <3>1. n = Controls!Unavailable(m)
      BY <2>2
    <3>2. Controls!Unavailable(m).loaded = m.loaded
      BY DEF Controls!Unavailable, MemOk, Mem
    <3> HIDE DEF n
    <3> QED
      BY <3>1, <3>2, UnavailableGrows
  <2> QED
    BY <2>1, <2>2
<1>3. \/ Controls!Written(m, c, ok, early) = Controls!Resume(n, c, early)
      \/ Controls!Written(m, c, ok, early) = Controls!Finish(n, c, ok)
  BY DEF Controls!Written
<1> HIDE DEF n
<1>4. Merged(n)
  BY <1>1, <1>2 DEF Merged
<1>5. Good(n, row, Controls!Written(m, c, ok, early))
  BY <1>1, <1>2, <1>3, <1>4, ResumeGood, FinishGood
<1> QED
  BY <1>2, <1>5, GoodFrom

(* The decision: a permit leaves only when nothing is owed.                *)
LEMMA DecideGood ==
  ASSUME NEW m, NEW row, MemOk(m, row), NEW c, CallOk(m, c), c.pc = "account"
  PROVE  /\ Good(m, row, Controls!Decide(m, c))
         /\ Controls!Decide(m, c)[2].pc = "permit" => m.owed = {}
<1>1. Underway(c) /\ m.loaded # 0
  BY DEF CallOk, Underway
<1>2. CASE breach
  <2> DEFINE n == Controls!SetControls(m, {Controls!Lockdown})
             d == Controls!At(c, "journal")
  <2>1. Controls!Decide(m, c) = <<n, d>>
    BY <1>2 DEF Controls!Decide
  <2>2. {Controls!Lockdown} \in SUBSET Controls!Controls
    BY DEF Controls!Controls
  <2>3. MemOk(n, row) /\ Grows(m, n)
    BY <2>2, SetControlsGrows
  <2>4. d \in Controls!Calls /\ d.pc = "journal" /\ d.op = c.op
    BY <1>1, MovedCalls DEF Underway
  <2> HIDE DEF n, d
  <2>5. CallOk(n, d)
    BY <1>1, <2>4 DEF CallOk, Underway
  <2> QED
    BY SMTT(60), <2>1, <2>3, <2>4, <2>5 DEF Good
<1>3. CASE ~breach /\ m.ctl = {}
  <2> DEFINE d == Controls!At(c, "permit")
  <2>1. Controls!Decide(m, c) = <<m, d>>
    BY <1>3 DEF Controls!Decide
  <2>2. d \in Controls!Calls /\ d.pc = "permit" /\ d.op = c.op
    BY <1>1, MovedCalls DEF Underway
  <2> HIDE DEF d
  <2>3. CallOk(m, d)
    BY <1>1, <2>2 DEF CallOk, Underway
  <2>4. m.owed = {}
    BY <1>1, <1>3 DEF MemOk
  <2> QED
    BY SMTT(60), <2>1, <2>3, <2>4, GrowsReflexive DEF Good
<1>4. CASE ~breach /\ m.ctl # {}
  <2>1. Controls!Decide(m, c) = <<m, Controls!Idle>>
    BY <1>4 DEF Controls!Decide
  <2>2. Controls!Idle.pc # "permit"
    BY DEF Controls!Idle
  <2> QED
    BY SMTT(60), <2>1, <2>2, IdleCall, GrowsReflexive DEF Good
<1> QED
  BY <1>2, <1>3, <1>4

------------------------------------------------------------------------------
(* The steps.                                                              *)
LEMMA CallsKeep ==
  ASSUME NEW m, NEW n, Grows(m, n), NEW c, CallOk(m, c)
  PROVE  CallOk(n, c)
  BY DEF CallOk, Grows

LEMMA HandlerStep ==
  ASSUME ControlsInv, NEW h \in Handlers, NEW r, Controls!Become(h, r), Good(mem, db, r),
         UNCHANGED db, call[h].pc = "account" => (r[2].pc = "permit" => mem.owed = {})
  PROVE  ControlsInv' /\ Controls!PermitNeedsNothingOwed
<1>1. mem' = r[1] /\ call' = [call EXCEPT ![h] = r[2]]
  BY DEF Controls!Become
<1>2. MemOk(mem', db') /\ Grows(mem, mem') /\ CallOk(mem', r[2])
  BY <1>1 DEF Good
<1>3. call'[h] = r[2] /\ \A g \in Handlers : g # h => call'[g] = call[g]
  BY <1>1 DEF ControlsInv
<1>4. \A g \in Handlers : CallOk(mem', call[g])
  BY <1>2, CallsKeep DEF ControlsInv
<1>5. \A g \in Handlers : CallOk(mem', call'[g])
  BY <1>2, <1>3, <1>4
<1>6. call' \in [Handlers -> Controls!Calls]
  BY <1>1, <1>2 DEF ControlsInv, CallOk
<1>7. ControlsInv'
  BY <1>2, <1>5, <1>6 DEF ControlsInv
<1>8. Controls!PermitNeedsNothingOwed
  BY <1>3 DEF Controls!PermitNeedsNothingOwed
<1> QED
  BY <1>7, <1>8

LEMMA RequestStep ==
  ASSUME Setting, ControlsInv, NEW h \in Handlers, NEW r \in Controls!Requests, NEW early,
         Controls!Request(h, r, early)
  PROVE  ControlsInv' /\ Controls!PermitNeedsNothingOwed
<1> DEFINE c == [Controls!Idle EXCEPT !.op = r.op, !.on = r.on]
<1>1. r.op \in {"trigger", "assess"} /\ r.on \in SUBSET Controls!Controls
  BY SMTT(60) DEF Controls!Requests, Setting, Controls!Controls
<1>2. Underway(c)
  BY <1>1 DEF Underway, Controls!Idle, Controls!Calls
<1> DEFINE s == IF Controls!Loaded(mem, early) THEN Controls!Act(mem, c, early)
                ELSE <<mem, Controls!Await(mem, c)>>
<1>3. Controls!Become(h, s) /\ UNCHANGED db /\ call[h].pc = "idle"
  BY DEF Controls!Request, Controls!Ready
<1> HIDE DEF c
<1>4. MemOk(mem, db)
  BY DEF ControlsInv
<1>5. CASE Controls!Loaded(mem, early)
  <2>1. Merged(mem)
    BY <1>4, <1>5 DEF Merged, Controls!Loaded, MemOk
  <2>2. Good(mem, db, s)
    BY <1>2, <1>4, <1>5, <2>1, ActGood
  <2> HIDE DEF s
  <2> QED
    BY <1>3, <2>2, HandlerStep
<1>6. CASE ~Controls!Loaded(mem, early)
  <2>1. Good(mem, db, s)
    BY <1>2, <1>4, <1>6, AwaitGood
  <2> HIDE DEF s
  <2> QED
    BY <1>3, <2>1, HandlerStep
<1> QED
  BY <1>5, <1>6

LEMMA ConnectStep ==
  ASSUME ControlsInv, NEW h \in Handlers, NEW early, Controls!Connect(h, early)
  PROVE  ControlsInv' /\ Controls!PermitNeedsNothingOwed
<1>0. /\ MemOk(mem, db) /\ CallOk(mem, call[h]) /\ call[h].pc = "connect" /\ UNCHANGED db
      /\ Underway(call[h])
  BY DEF ControlsInv, Controls!Connect, CallOk, Underway
<1>1. CASE /\ mem' = [mem EXCEPT !.status = "durable", !.gen = @ + 1]
           /\ call' = [call EXCEPT ![h] =
                         [Controls!At(call[h], "get") EXCEPT !.gen = mem.gen + 1]]
  <2> DEFINE n == [mem EXCEPT !.status = "durable", !.gen = @ + 1]
             next == mem.gen + 1
             e == Controls!At(call[h], "get")
             d == [e EXCEPT !.gen = next]
  <2>1. mem.gen \in Nat /\ mem \in Mem
    BY <1>0 DEF MemOk, Mem
  <2>2. next \in Nat /\ next # 0
    BY SMTT(60), <2>1
  <2>3. /\ n.ctl = mem.ctl /\ n.owed = mem.owed /\ n.loaded = mem.loaded
        /\ n.gen = next /\ n \in Mem
    <3>1. /\ n.ctl = mem.ctl /\ n.owed = mem.owed /\ n.loaded = mem.loaded
          /\ n.gen = next
      BY <2>1 DEF Mem
    <3>2. n \in Mem
      <4>1. n = [mem EXCEPT !.status = "durable", !.gen = next]
        BY <2>1 DEF Mem
      <4> HIDE DEF n, next
      <4> QED
        BY <2>1, <2>2, <4>1 DEF Mem
    <3> QED
      BY <3>1, <3>2
  <2>4. mem' = n /\ call' = [call EXCEPT ![h] = d]
    BY <1>1
  <2>5. e \in Controls!Calls /\ e.pc = "get" /\ e.op = call[h].op
    BY <1>0, MovedCalls DEF Underway
  <2> HIDE DEF n, next, e
  <2>6. d \in Controls!Calls /\ d.pc = "get" /\ d.op = call[h].op /\ d.gen = next
    <3>1. /\ [e EXCEPT !.gen = next] \in Controls!Calls
          /\ [e EXCEPT !.gen = next].pc = e.pc /\ [e EXCEPT !.gen = next].op = e.op
          /\ [e EXCEPT !.gen = next].gen = next
      <4>1. e \in Controls!Calls /\ next \in Nat
        BY <2>2, <2>5
      <4> QED
        BY SMTT(60), <4>1, MovedCalls
    <3> QED
      BY <2>5, <3>1
  <2> HIDE DEF d
  <2>7. MemOk(n, db) /\ Grows(mem, n)
    BY <1>0, <2>2, <2>3 DEF MemOk, Grows
  <2>8. CallOk(n, d)
    BY <1>0, <2>2, <2>6 DEF CallOk, Underway
  <2>9. Good(mem, db, <<n, d>>) /\ Controls!Become(h, <<n, d>>)
    BY <2>4, <2>7, <2>8 DEF Good, Controls!Become
  <2> QED
    BY <1>0, <2>9, HandlerStep
<1>2. CASE Controls!Become(h, Controls!Continue(Controls!Unavailable(mem), call[h], early))
  <2> DEFINE n == Controls!Unavailable(mem)
  <2>1. MemOk(n, db) /\ Grows(mem, n) /\ Merged(n)
    BY <1>0, UnavailableGrows DEF Merged
  <2>2. Controls!Become(h, Controls!Continue(n, call[h], early))
    BY <1>2
  <2> HIDE DEF n
  <2>3. Good(mem, db, Controls!Continue(n, call[h], early))
    BY <1>0, <2>1, ContinueGood, GoodFrom
  <2> QED
    BY <1>0, <2>2, <2>3, HandlerStep
<1> QED
  BY <1>1, <1>2 DEF Controls!Connect

LEMMA GetStep ==
  ASSUME ControlsInv, NEW h \in Handlers, NEW early, Controls!Get(h, early)
  PROVE  ControlsInv' /\ Controls!PermitNeedsNothingOwed
<1>0. /\ MemOk(mem, db) /\ CallOk(mem, call[h]) /\ call[h].pc = "get" /\ UNCHANGED db
      /\ Underway(call[h]) /\ db \in SUBSET Controls!Controls
  BY DEF ControlsInv, Controls!Get, CallOk, Underway
<1>1. CASE /\ call' = [call EXCEPT ![h] = [Controls!At(call[h], "merge") EXCEPT !.snap = db]]
           /\ UNCHANGED mem
  <2> DEFINE e == Controls!At(call[h], "merge")
             d == [e EXCEPT !.snap = db]
  <2>1. e \in Controls!Calls /\ e.pc = "merge" /\ e.op = call[h].op /\ e.gen = call[h].gen
    BY SMTT(60), <1>0, MovedCalls DEF Underway
  <2>2. mem' = mem /\ call' = [call EXCEPT ![h] = d]
    BY <1>1
  <2> HIDE DEF e
  <2>3. /\ d \in Controls!Calls /\ d.pc = "merge" /\ d.op = call[h].op
        /\ d.gen = call[h].gen /\ d.snap = db
    BY SMTT(60), <1>0, <2>1, MovedCalls
  <2> HIDE DEF d
  <2>4. CallOk(mem, d)
    BY <1>0, <2>3 DEF CallOk, Underway, MemOk
  <2>5. Good(mem, db, <<mem, d>>) /\ Controls!Become(h, <<mem, d>>)
    BY <1>0, <2>2, <2>4, GrowsReflexive DEF Good, Controls!Become
  <2> QED
    BY <1>0, <2>5, HandlerStep
<1>2. CASE Controls!Become(h, Controls!Continue(Controls!Unreadable(mem, call[h]), call[h], early))
  <2> DEFINE n == Controls!Unavailable(mem)
  <2>1. MemOk(n, db) /\ Grows(mem, n) /\ Merged(n)
    BY <1>0, UnavailableGrows DEF Merged
  <2>2. Controls!Become(h, Controls!Continue(n, call[h], early))
    BY <1>2 DEF Controls!Unreadable
  <2> HIDE DEF n
  <2>3. Good(mem, db, Controls!Continue(n, call[h], early))
    BY <1>0, <2>1, ContinueGood, GoodFrom
  <2> QED
    BY <1>0, <2>2, <2>3, HandlerStep
<1> QED
  BY <1>1, <1>2 DEF Controls!Get

(* The row is written: whoever writes it has merged it before, so what is  *)
(* owed is in force in memory, whatever the row now says.                  *)
LEMMA PutStep ==
  ASSUME ControlsInv, NEW h \in Handlers, Controls!Put(h)
  PROVE  ControlsInv' /\ Controls!PermitNeedsNothingOwed
<1>0. /\ MemOk(mem, db) /\ CallOk(mem, call[h]) /\ call[h].pc = "put" /\ mem' = mem
      /\ db' = call[h].snap /\ call' = [call EXCEPT ![h].pc = "wrote"]
  BY DEF ControlsInv, Controls!Put
<1>1. mem.loaded # 0 /\ call[h].snap \in SUBSET Controls!Controls
  BY <1>0 DEF CallOk, Controls!Calls
<1>2. MemOk(mem', db')
  BY <1>0, <1>1 DEF MemOk
<1> DEFINE d == Controls!At(call[h], "wrote")
<1>3. call' = [call EXCEPT ![h] = d]
  BY <1>0 DEF Controls!At
<1>4. d \in Controls!Calls /\ d.pc = "wrote" /\ d.op = call[h].op
  BY <1>0, MovedCalls DEF CallOk
<1> HIDE DEF d
<1>5. CallOk(mem, d)
  BY <1>0, <1>1, <1>4 DEF CallOk
<1>6. /\ call' \in [Handlers -> Controls!Calls] /\ call'[h] = d
      /\ \A g \in Handlers : g # h => call'[g] = call[g]
  BY <1>3, <1>4 DEF ControlsInv
<1>7. \A g \in Handlers : CallOk(mem', call'[g])
  BY <1>0, <1>5, <1>6 DEF ControlsInv
<1>8. ControlsInv'
  BY <1>0, <1>1, <1>2, <1>6, <1>7 DEF ControlsInv
<1>9. Controls!PermitNeedsNothingOwed
  BY <1>4, <1>6 DEF Controls!PermitNeedsNothingOwed
<1> QED
  BY <1>8, <1>9

LEMMA AnswerStep ==
  ASSUME ControlsInv, NEW h \in Handlers, NEW early,
         \/ Controls!GotRow(h, early) \/ Controls!PutDone(h, early) \/ Controls!AccountRead(h)
         \/ Controls!Journaled(h, early) \/ Controls!AccountsRead(h, early)
  PROVE  ControlsInv' /\ Controls!PermitNeedsNothingOwed
<1>0. MemOk(mem, db) /\ CallOk(mem, call[h])
  BY DEF ControlsInv
<1>1. CASE Controls!GotRow(h, early)
  <2>1. /\ Controls!Become(h, Controls!Merge(mem, call[h], early)) /\ UNCHANGED db
        /\ call[h].pc = "merge"
    BY <1>1 DEF Controls!GotRow
  <2>2. Good(mem, db, Controls!Merge(mem, call[h], early))
    BY <1>0, <2>1, MergeGood
  <2> QED
    BY <2>1, <2>2, HandlerStep
<1>2. CASE Controls!PutDone(h, early)
  <2>1. PICK ok \in BOOLEAN :
          /\ Controls!Become(h, Controls!Written(mem, call[h], ok, early))
          /\ UNCHANGED db /\ call[h].pc \in {"put", "wrote"}
    BY <1>2 DEF Controls!PutDone
  <2>2. Good(mem, db, Controls!Written(mem, call[h], ok, early))
    BY <1>0, <2>1, WrittenGood
  <2> QED
    BY <2>1, <2>2, HandlerStep
<1>3. CASE Controls!AccountRead(h)
  <2>1. /\ Controls!Become(h, Controls!Decide(mem, call[h])) /\ UNCHANGED db
        /\ call[h].pc = "account"
    BY <1>3 DEF Controls!AccountRead
  <2>2. /\ Good(mem, db, Controls!Decide(mem, call[h]))
        /\ Controls!Decide(mem, call[h])[2].pc = "permit" => mem.owed = {}
    BY <1>0, <2>1, DecideGood
  <2> QED
    BY <2>1, <2>2, HandlerStep
<1>4. CASE Controls!Journaled(h, early)
  <2>1. CASE call[h].pc = "journal" /\ Controls!Become(h, Controls!Persist(mem, call[h], early))
    <3>1. Underway(call[h])
      BY <1>0, <2>1 DEF CallOk, Underway
    <3>2. Good(mem, db, Controls!Persist(mem, call[h], early)) /\ UNCHANGED db
      BY <1>0, <1>4, <3>1, PersistGood DEF Controls!Journaled
    <3> QED
      BY <2>1, <3>2, HandlerStep
  <2>2. CASE call[h].pc = "permit" /\ Controls!Become(h, <<mem, Controls!Idle>>)
    <3>1. Good(mem, db, <<mem, Controls!Idle>>) /\ UNCHANGED db
      BY <1>0, <1>4, IdleCall, GrowsReflexive DEF Good, Controls!Journaled
    <3> QED
      BY <2>2, <3>1, HandlerStep
  <2> QED
    BY <1>4, <2>1, <2>2 DEF Controls!Journaled
<1>5. CASE Controls!AccountsRead(h, early)
  <2>1. call[h].pc = "accounts"
    BY <1>5 DEF Controls!AccountsRead
  <2> QED
    BY <1>0, <2>1 DEF CallOk
<1> QED
  BY <1>1, <1>2, <1>3, <1>4, <1>5

LEMMA BootOk ==
  ASSUME NEW row \in SUBSET Controls!Controls
  PROVE  MemOk(Controls!Boot(row), row)
  BY SMTT(60) DEF MemOk, Mem, Controls!Boot

LEMMA IdleHandlers ==
  ASSUME NEW m, NEW f, f = [h \in Handlers |-> Controls!Idle]
  PROVE  f \in [Handlers -> Controls!Calls] /\ \A h \in Handlers : CallOk(m, f[h])
  BY IdleCall DEF CallOk

LEMMA ControlsInit ==
  ASSUME Controls!Init
  PROVE  ControlsInv
<1>1. db \in SUBSET Controls!Controls /\ mem = Controls!Boot(db)
      /\ call = [h \in Handlers |-> Controls!Idle]
  BY DEF Controls!Init
<1> QED
  BY <1>1, BootOk, IdleHandlers DEF ControlsInv

LEMMA ControlsStep ==
  ASSUME Setting, ControlsInv, Controls!Next \/ UNCHANGED controls
  PROVE  ControlsInv' /\ Controls!PermitNeedsNothingOwed
<1>1. CASE UNCHANGED controls \/ Controls!EquityMoves
  <2>1. mem' = mem /\ call' = call /\ db' = db
    BY <1>1 DEF controls, Controls!EquityMoves
  <2> QED
    BY <2>1 DEF ControlsInv, Controls!PermitNeedsNothingOwed
<1>2. CASE Controls!Restart
  <2>1. mem' = Controls!Boot(db) /\ call' = [h \in Handlers |-> Controls!Idle] /\ db' = db
    BY <1>2 DEF Controls!Restart
  <2>2. ControlsInv'
    BY <2>1, BootOk, IdleHandlers DEF ControlsInv
  <2>3. Controls!PermitNeedsNothingOwed
    BY <2>1 DEF Controls!PermitNeedsNothingOwed, Controls!Idle
  <2> QED
    BY <2>2, <2>3
<1>3. ASSUME NEW h \in Handlers, Controls!Step(h)
      PROVE  ControlsInv' /\ Controls!PermitNeedsNothingOwed
  <2>1. PICK early \in BOOLEAN :
          \/ Controls!Connect(h, early) \/ Controls!Get(h, early) \/ Controls!GotRow(h, early)
          \/ Controls!Put(h) \/ Controls!PutDone(h, early) \/ Controls!AccountRead(h)
          \/ Controls!Journaled(h, early) \/ Controls!AccountsRead(h, early)
    BY <1>3 DEF Controls!Step
  <2> QED
    BY <2>1, ConnectStep, GetStep, PutStep, AnswerStep
<1>4. ASSUME NEW h \in Handlers, NEW r \in Controls!Requests, NEW early \in BOOLEAN,
             Controls!Request(h, r, early)
      PROVE  ControlsInv' /\ Controls!PermitNeedsNothingOwed
  BY <1>4, RequestStep
<1> QED
  BY <1>1, <1>2, <1>3, <1>4 DEF Controls!Next

(* Nothing is put back where nothing is released.                          *)
LEMMA LostStep ==
  ASSUME ControlsInv, NothingLost, Controls!Next \/ UNCHANGED controls
  PROVE  NothingLost'
<1>1. CASE UNCHANGED controls \/ Controls!EquityMoves
  BY <1>1 DEF controls, Controls!EquityMoves, NothingLost
<1>2. CASE Controls!Restart
  BY <1>2 DEF Controls!Restart, Controls!Unharmed, NothingLost
<1>3. ASSUME NEW h \in Handlers, Controls!Remember(h)
      PROVE  NothingLost'
  <2>1. ~Controls!PutsBack(h)
    BY DEF ControlsInv, CallOk, Controls!PutsBack
  <2> QED
    BY <1>3, <2>1 DEF Controls!Remember, NothingLost
<1> QED
  BY <1>1, <1>2, <1>3 DEF Controls!Next, Controls!Step, Controls!Request

(***************************************************************************)
(* The coverage of the watchdogs.                                          *)
(***************************************************************************)
Backed(w, t, ran) ==
    w.dog # "none" =>
        /\ ran[w.dog].beaten
        /\ w.last <= ran[w.dog].last
        /\ t - w.last <= MaxGap => ran[w.dog].first <= w.since

CoverageInv ==
    /\ now \in 0..MaxNow
    /\ run \in [Dogs -> [first : Nat, last : Nat, beaten : BOOLEAN]]
    /\ \A d \in Dogs : run[d].first <= now /\ run[d].last <= now
    /\ window \in [window : Coverage!Windows, halts : {"unknown", "enabled", "disabled"}]
    /\ saved \in Coverage!Windows
    /\ puts \subseteq Coverage!Windows
    /\ \A w \in puts \cup {saved, window.window} : w.last <= now /\ Backed(w, now, run)
    /\ EvidenceIsCovered

LEMMA CoverageInit == Coverage!Init => CoverageInv
<1> SUFFICES ASSUME Coverage!Init PROVE CoverageInv
  OBVIOUS
<1>1. Coverage!NoWindow \in Coverage!Windows
  BY SMTT(60), BoundAssumption DEF Coverage!NoWindow, Coverage!Windows, Coverage!None
<1> QED
  BY SMTT(60), <1>1, BoundAssumption DEF Coverage!Init, CoverageInv, Coverage!NoWindow, Coverage!Empty, Coverage!None, Backed,
     EvidenceIsCovered, Coverage!EvidenceIsCovered

(* Steps of the store and of evidence: no window is new, and the clock and *)
(* the history stand still.                                                *)
LEMMA WindowsMove ==
  ASSUME CoverageInv, UNCHANGED <<now, run, evidence>>,
         window' \in [window : Coverage!Windows, halts : {"unknown", "enabled", "disabled"}],
         (puts \cup {saved, window.window})'
            \subseteq puts \cup {saved, window.window, Coverage!NoWindow}
  PROVE  CoverageInv'
<1>1. puts' \subseteq Coverage!Windows /\ saved' \in Coverage!Windows
  <2>1. Coverage!NoWindow \in Coverage!Windows
    BY SMTT(60), BoundAssumption DEF Coverage!NoWindow, Coverage!Windows, Coverage!None
  <2>2. window.window \in Coverage!Windows
    BY DEF CoverageInv
  <2> QED
    BY <2>1, <2>2 DEF CoverageInv
<1>2. \A w \in (puts \cup {saved, window.window})' : w.last <= now' /\ Backed(w, now', run')
  <2>1. \A w \in puts \cup {saved, window.window} : w.last <= now /\ Backed(w, now, run)
    BY DEF CoverageInv
  <2>2. Coverage!NoWindow.last <= now /\ Backed(Coverage!NoWindow, now, run)
    BY SMTT(60) DEF CoverageInv, Backed, Coverage!NoWindow, Coverage!None
  <2>3. \A w : Backed(w, now', run') = Backed(w, now, run)
    BY DEF Backed
  <2> QED
    BY <2>1, <2>2, <2>3
<1>3. EvidenceIsCovered'
  BY DEF CoverageInv, EvidenceIsCovered, Coverage!EvidenceIsCovered
<1> QED
  BY <1>1, <1>2, <1>3 DEF CoverageInv

(* A heartbeat, once it is known what was restored before it.              *)
LEMMA HeardStep ==
  ASSUME CoverageInv, NEW d \in Dogs, NEW halts \in {"enabled", "disabled"}, NEW v,
         v \in {saved, window.window},
         window' = [window |-> Coverage!Beat(v, d), halts |-> halts],
         puts' \subseteq puts \cup {Coverage!Beat(v, d)},
         run' = [run EXCEPT ![d] = Coverage!Ran(d)],
         evidence' = FALSE,
         UNCHANGED <<now, saved>>
  PROVE  CoverageInv'
<1> DEFINE w == Coverage!Beat(v, d)
           r == run[d]
           going == r.beaten /\ now - r.last <= MaxGap
<1>0. /\ window' = [window |-> w, halts |-> halts]
      /\ puts' \subseteq puts \cup {w}
      /\ run' = [run EXCEPT ![d] = Coverage!Ran(d)]
      /\ evidence' = FALSE
      /\ UNCHANGED <<now, saved>>
  OBVIOUS
<1>1. v \in Coverage!Windows /\ Backed(v, now, run) /\ v.last <= now
  BY DEF CoverageInv
<1>2. /\ v.dog \in Dogs \cup {"none"}
      /\ v.since \in 0..MaxNow /\ v.last \in 0..MaxNow
  BY <1>1 DEF Coverage!Windows, Coverage!None
<1>3. /\ w \in Coverage!Windows /\ w.dog = d /\ w.last = now
      /\ w.since = IF now - v.last <= MaxGap /\ v.dog = d THEN v.since ELSE now
  BY <1>2, DogsAssumption DEF CoverageInv, Coverage!Beat, Coverage!Windows, Coverage!Active, Coverage!Beaten, Coverage!None
<1>4. /\ r.first \in Nat /\ r.last \in Nat /\ r.first <= now /\ r.last <= now
      /\ now \in Nat /\ MaxGap \in Nat
  BY SMTT(60), BoundAssumption DEF CoverageInv
<1>5. /\ run'[d] = [first |-> IF going THEN r.first ELSE now, last |-> now, beaten |-> TRUE]
      /\ \A e \in Dogs : e # d => run'[e] = run[e]
      /\ run' \in [Dogs -> [first : Nat, last : Nat, beaten : BOOLEAN]]
  <2>1. run \in [Dogs -> [first : Nat, last : Nat, beaten : BOOLEAN]]
    BY DEF CoverageInv
  <2>2. Coverage!Ran(d) = [first |-> IF going THEN r.first ELSE now, last |-> now, beaten |-> TRUE]
    BY DEF Coverage!Ran
  <2>3. Coverage!Ran(d) \in [first : Nat, last : Nat, beaten : BOOLEAN]
    BY SMTT(60), <2>2, <1>4
  <2> QED
    BY <1>0, <2>1, <2>2, <2>3
<1> HIDE DEF w, r, going
<1>6. /\ run'[d].beaten /\ run'[d].last = now
      /\ run'[d].first = IF going THEN r.first ELSE now
  BY SMTT(60), <1>5
<1>7. \A x \in Coverage!Windows : Backed(x, now, run) /\ x.last <= now => Backed(x, now', run')
  <2> SUFFICES ASSUME NEW x \in Coverage!Windows, Backed(x, now, run), x.last <= now, x.dog # "none"
               PROVE  /\ run'[x.dog].beaten
                      /\ x.last <= run'[x.dog].last
                      /\ now - x.last <= MaxGap => run'[x.dog].first <= x.since
    BY <1>0 DEF Backed
  <2>0. x.dog \in Dogs /\ x.last \in Nat /\ x.since \in Nat
    BY SMTT(60), BoundAssumption DEF Coverage!Windows, Coverage!None
  <2>1. CASE x.dog # d
    BY <2>0, <2>1, <1>5 DEF Backed
  <2>2. CASE x.dog = d
    <3>1. r.beaten /\ x.last <= r.last /\ (now - x.last <= MaxGap => r.first <= x.since)
      BY <2>2 DEF Backed, r
    <3>2. now - x.last <= MaxGap => going
      BY SMTT(60), <3>1, <1>4, <2>0 DEF going
    <3> QED
      BY <2>0, <2>2, <3>1, <3>2, <1>4, <1>6
  <2> QED
    BY <2>1, <2>2
<1>8. Backed(w, now', run')
  <2>1. CASE now - v.last <= MaxGap /\ v.dog = d
    <3>1. r.beaten /\ v.last <= r.last /\ r.first <= v.since
      BY <1>1, <2>1, DogsAssumption DEF Backed, r
    <3>2. going
      BY SMTT(60), <3>1, <2>1, <1>2, <1>4 DEF going
    <3> QED
      BY SMTT(60), <1>0, <1>2, <1>3, <1>4, <1>6, <2>1, <3>1, <3>2 DEF Backed
  <2>2. CASE ~(now - v.last <= MaxGap /\ v.dog = d)
    BY SMTT(60), <1>0, <1>3, <1>4, <1>6, <2>2 DEF Backed
  <2> QED
    BY <2>1, <2>2
<1>9. \A y \in (puts \cup {saved, window.window})' : y.last <= now' /\ Backed(y, now', run')
  <2>1. window'.window = w
    BY SMTT(60), <1>0
  <2> SUFFICES ASSUME NEW y \in puts \cup {saved, w}
               PROVE  y.last <= now /\ Backed(y, now', run')
    BY <1>0, <2>1
  <2>2. \A x \in puts \cup {saved} : x \in Coverage!Windows /\ Backed(x, now, run) /\ x.last <= now
    BY DEF CoverageInv
  <2>3. CASE y = w
    BY SMTT(60), <1>3, <1>4, <1>8, <2>3
  <2>4. CASE y \in puts \cup {saved}
    BY <1>7, <2>2, <2>4
  <2> QED
    BY <2>3, <2>4
<1>10. \A e \in Dogs : run'[e].first <= now' /\ run'[e].last <= now'
  BY SMTT(60), <1>0, <1>4, <1>5, <1>6 DEF CoverageInv
<1>11. window' \in [window : Coverage!Windows, halts : {"unknown", "enabled", "disabled"}]
  BY SMTT(60), <1>0, <1>3
<1>12. /\ saved' \in Coverage!Windows /\ puts' \subseteq Coverage!Windows /\ now' \in 0..MaxNow
  BY <1>0, <1>3, <1>4 DEF CoverageInv
<1>13. EvidenceIsCovered'
  BY <1>0 DEF EvidenceIsCovered, Coverage!EvidenceIsCovered
<1> QED
  BY <1>5, <1>9, <1>10, <1>11, <1>12, <1>13 DEF CoverageInv

LEMMA HeartbeatStep ==
  ASSUME CoverageInv, NEW d \in Dogs, NEW halts \in {"enabled", "disabled"},
         \/ Coverage!Heartbeat(d, halts)
         \/ Coverage!HeartbeatOffline(d, halts)
         \/ Coverage!HeartbeatUnread(d, halts)
  PROVE  CoverageInv'
<1>1. Coverage!Restored(window).window \in {saved, window.window}
  BY DEF Coverage!Restored, Coverage!Empty
<1>2. \E v \in {saved, window.window} :
        /\ window' = [window |-> Coverage!Beat(v, d), halts |-> halts]
        /\ puts' \subseteq puts \cup {Coverage!Beat(v, d)}
  <2>1. CASE Coverage!Heartbeat(d, halts)
    BY <1>1, <2>1 DEF Coverage!Heartbeat, Coverage!Heard, Coverage!StartPut
  <2>2. CASE Coverage!HeartbeatOffline(d, halts) \/ Coverage!HeartbeatUnread(d, halts)
    BY <2>2 DEF Coverage!HeartbeatOffline, Coverage!HeartbeatUnread, Coverage!Heard,
                Coverage!StartPut
  <2> QED
    BY <2>1, <2>2
<1>3. /\ run' = [run EXCEPT ![d] = Coverage!Ran(d)]
      /\ evidence' = FALSE
      /\ UNCHANGED <<now, saved>>
  BY DEF Coverage!Heartbeat, Coverage!HeartbeatOffline, Coverage!HeartbeatUnread, Coverage!Heard
<1> QED
  BY <1>2, <1>3, HeardStep

LEMMA StoreStep ==
  ASSUME CoverageInv,
         \/ \E w \in Coverage!Windows : Coverage!Put(w) \/ Coverage!PutFails(w)
         \/ Coverage!Restart \/ Coverage!RestartOffline
  PROVE  CoverageInv'
<1>0. /\ Coverage!NoWindow \in Coverage!Windows /\ saved \in Coverage!Windows
      /\ window \in [window : Coverage!Windows, halts : {"unknown", "enabled", "disabled"}]
  <2>1. Coverage!NoWindow \in Coverage!Windows
    BY SMTT(60), BoundAssumption DEF Coverage!NoWindow, Coverage!Windows, Coverage!None
  <2> QED
    BY <2>1 DEF CoverageInv
<1>1. UNCHANGED <<now, run, evidence>>
  BY DEF Coverage!Put, Coverage!PutFails, Coverage!Restart, Coverage!RestartOffline
<1>2. CASE \E w \in Coverage!Windows : Coverage!Put(w) \/ Coverage!PutFails(w)
  <2>1. window' = window /\ puts' \subseteq puts /\ saved' \in puts \cup {saved}
    BY <1>2 DEF Coverage!Put, Coverage!PutFails
  <2> QED
    BY <1>0, <1>1, <2>1, WindowsMove
<1>3. CASE Coverage!Restart \/ Coverage!RestartOffline
  <2>1. /\ window' \in {Coverage!Empty, [Coverage!Empty EXCEPT !.window = saved]}
        /\ puts' = {} /\ saved' = saved
    BY <1>3 DEF Coverage!Restart, Coverage!RestartOffline, Coverage!Restored
  <2>2. /\ window'.window \in {Coverage!NoWindow, saved}
        /\ window' \in [window : Coverage!Windows, halts : {"unknown", "enabled", "disabled"}]
    BY SMTT(60), <1>0, <2>1 DEF Coverage!Empty
  <2> QED
    BY <1>0, <1>1, <2>1, <2>2, WindowsMove
<1> QED
  BY <1>2, <1>3

LEMMA AddEvidenceStep ==
  ASSUME CoverageInv, Coverage!AddEvidence
  PROVE  CoverageInv'
<1> DEFINE w == window.window
<1>1. UNCHANGED <<now, run, window, saved, puts>>
  BY DEF Coverage!AddEvidence
<1>2. w \in Coverage!Windows /\ Backed(w, now, run) /\ w.last <= now
  BY DEF CoverageInv
<1>3. ASSUME evidence'
      PROVE  \E d \in Dogs : /\ run[d].beaten
                             /\ now - run[d].last <= MaxGap
                             /\ now - run[d].first >= MinCoverage
  <2>1. w.dog # "none" /\ now - w.last <= MaxGap /\ now - w.since >= MinCoverage
    BY <1>3 DEF Coverage!AddEvidence, Coverage!Active, Coverage!Coverage, Coverage!Beaten,
                Coverage!None
  <2>2. w.dog \in Dogs /\ w.last \in Nat /\ w.since \in Nat
    BY SMTT(60), <1>2, <2>1, BoundAssumption DEF Coverage!Windows, Coverage!None
  <2>3. /\ run[w.dog].beaten /\ w.last <= run[w.dog].last /\ run[w.dog].first <= w.since
    BY <1>2, <2>1 DEF Backed
  <2>4. run[w.dog].first \in Nat /\ run[w.dog].last \in Nat /\ now \in Nat
    BY SMTT(60), <2>2, BoundAssumption DEF CoverageInv
  <2>5. now - run[w.dog].last <= MaxGap /\ now - run[w.dog].first >= MinCoverage
    BY SMTT(60), <2>1, <2>2, <2>3, <2>4, BoundAssumption
  <2> QED
    BY <2>2, <2>3, <2>5
<1>4. EvidenceIsCovered'
  BY <1>1, <1>3 DEF EvidenceIsCovered, Coverage!EvidenceIsCovered
<1> QED
  BY <1>1, <1>4 DEF CoverageInv

LEMMA TickStep ==
  ASSUME CoverageInv, Coverage!Tick
  PROVE  CoverageInv'
<1>0. now \in 0..MaxNow /\ MaxNow \in Nat
  BY BoundAssumption DEF CoverageInv
<1>1. /\ now' = now + 1 /\ now' \in 0..MaxNow /\ now \in Nat
      /\ evidence' = FALSE /\ UNCHANGED <<run, window, saved, puts>>
  BY SMTT(60), <1>0 DEF Coverage!Tick
<1>2. \A w \in Coverage!Windows : w.last \in Nat
  BY SMTT(60) DEF Coverage!Windows
<1>3. \A w \in Coverage!Windows :
        w.last <= now /\ Backed(w, now, run) => w.last <= now' /\ Backed(w, now', run')
  BY SMTT(60), <1>1, <1>2, BoundAssumption DEF Backed
<1>4. \A w \in puts \cup {saved, window.window} : w \in Coverage!Windows
  BY DEF CoverageInv
<1>5. \A w \in (puts \cup {saved, window.window})' : w.last <= now' /\ Backed(w, now', run')
  BY <1>1, <1>3, <1>4 DEF CoverageInv
<1>6. \A d \in Dogs : run'[d].first <= now' /\ run'[d].last <= now'
  <2>1. \A d \in Dogs : run[d].first \in Nat /\ run[d].last \in Nat
    BY DEF CoverageInv
  <2> QED
    BY SMTT(60), <1>1, <2>1 DEF CoverageInv
<1>7. EvidenceIsCovered'
  BY <1>1 DEF EvidenceIsCovered, Coverage!EvidenceIsCovered
<1> QED
  BY <1>1, <1>5, <1>6, <1>7 DEF CoverageInv

LEMMA CoverageStep ==
  ASSUME CoverageInv, Coverage!Next \/ UNCHANGED coverage
  PROVE  CoverageInv'
<1>1. CASE UNCHANGED coverage
  BY <1>1 DEF coverage, CoverageInv, EvidenceIsCovered, Coverage!EvidenceIsCovered
<1>2. CASE Coverage!Next
  BY <1>2, HeartbeatStep, StoreStep, AddEvidenceStep, TickStep DEF Coverage!Next
<1> QED
  BY <1>1, <1>2

(***************************************************************************)
(* The composition.                                                        *)
(***************************************************************************)
LEMMA PartsStep ==
  ASSUME Next \/ UNCHANGED all
  PROVE  /\ Controls!Next \/ UNCHANGED controls
         /\ Jobs!Next \/ UNCHANGED jobs
         /\ Coverage!Next \/ UNCHANGED coverage
  BY DEF Next, ControlsNext, JobsNext, CoverageNext, all

(* One attempt of a job is handed to one process, whatever the number of   *)
(* processes, the ids they sign with and the jobs they have registered:    *)
(* claim_next's conditional update counts the attempt it hands out, and    *)
(* neither recover_stale nor _finish counts one back.                      *)
THEOREM AttemptsHaveOneHolder == Spec => []OneHolderPerAttempt
<1>1. Init => JobsInv
  BY JobsInit DEF Init
<1>2. JobsInv /\ [Next]_all => JobsInv'
  BY PartsStep, JobsStep
<1>3. JobsInv => OneHolderPerAttempt
  BY DEF JobsInv, OneHolderPerAttempt
<1> QED
  BY <1>1, <1>2, <1>3, PTL DEF Spec

(* With one API process, which is how the code is deployed, a job that is  *)
(* run or whose outcome is recorded is still the claimed row at its        *)
(* attempt, and no row is claimed more often than its max_attempts: the    *)
(* supervisor recovers and claims only between two runs.  With two the     *)
(* first half fails, since nothing renews a lease while a job runs.        *)
THEOREM SoleProcessKeepsItsClaims ==
  ASSUME Alone
  PROVE  Spec => []ClaimsAreCurrent
<1>1. Init => JobsInv /\ AloneInv
  BY JobsInit DEF Init
<1>2. JobsInv /\ AloneInv /\ [Next]_all => (JobsInv /\ AloneInv)'
  BY PartsStep, JobsStep
<1>3. AloneInv => ClaimsAreCurrent
  BY DEF AloneInv, ClaimsAreCurrent, Jobs!ClaimsAreCurrent, Jobs!AttemptsBounded, Jobs!Exists
<1> QED
  BY <1>1, <1>2, <1>3, PTL DEF Spec

(* Behind passing WATCHDOG_ACTIVE evidence one watchdog has been beating   *)
(* without a gap for the minimum coverage, for any number of watchdogs,    *)
(* any gap and minimum, however the windows that watchdog_surface writes   *)
(* are reordered, lost, restored or adopted.                               *)
THEOREM EvidenceAlwaysCovered == Spec => []EvidenceIsCovered
<1>1. Init => CoverageInv
  BY CoverageInit DEF Init
<1>2. CoverageInv /\ [Next]_all => CoverageInv'
  BY PartsStep, CoverageStep
<1>3. CoverageInv => EvidenceIsCovered
  BY DEF CoverageInv
<1> QED
  BY <1>1, <1>2, <1>3, PTL DEF Spec

(* No permit leaves assess while a control that was set or restored is     *)
(* owed, none being lost, and while assessments are accepted every control *)
(* owed is in force in memory: for any number of handlers that trigger and assess at once,  *)
(* any crashes, and a store that can be read or written only at times.     *)
(* Requests that release are left out: one that fails puts back an earlier *)
(* snapshot of the controls, and erases what was set since.                *)
THEOREM PermitsAlwaysRespectControls ==
  ASSUME Setting
  PROVE  Spec => PermitsRespectControls /\ []InForce /\ []NothingLost
<1>1. Init => ControlsInv /\ NothingLost
  <2>1. Init => ControlsInv
    BY ControlsInit DEF Init
  <2>2. Init => past = Controls!Unharmed
    BY DEF Init, Controls!Init
  <2>3. Controls!Unharmed.lost = {}
    BY DEF Controls!Unharmed
  <2> QED
    BY <2>1, <2>2, <2>3 DEF NothingLost
<1>2. ControlsInv /\ [Next]_all => ControlsInv' /\ Controls!PermitNeedsNothingOwed
  BY PartsStep, ControlsStep
<1>3. ControlsInv /\ NothingLost /\ [Next]_all => NothingLost'
  BY PartsStep, LostStep
<1>4. ControlsInv => InForce
  BY DEF ControlsInv, MemOk, InForce, Controls!Current
<1> QED
  BY <1>1, <1>2, <1>3, <1>4, PTL DEF Spec, PermitsRespectControls
=============================================================================
