----------------------------- MODULE Promotion -----------------------------
(***************************************************************************)
(* Promotion gates: the stages, the evidence and the gate of               *)
(* services/promotion/gates.py, the registry that keeps one record per     *)
(* scope in memory and one row per scope in a table                        *)
(* (services/promotion/registry.py), and the routes and the violation hook *)
(* of apps/api/app/promotion_surface.py.                                   *)
(*                                                                         *)
(* One lock covers every operation and every read, so an operation is a    *)
(* change in memory followed by its save, which may commit, raise or be    *)
(* cut off by a crash.  A violation repeats both for every scope of its    *)
(* venue, and its hook swallows what the registry raises.                  *)
(*                                                                         *)
(* stage_since only grows, so evidence older than it never counts again:   *)
(* a record keeps the last evidence of each kind recorded since then, and  *)
(* a move empties it.  To the gate evidence that failed is evidence that   *)
(* is missing, so both are NoEvidence.  Reasons, references and journal    *)
(* entries are left out.  Time is a day counter.                           *)
(***************************************************************************)
EXTENDS Naturals, FiniteSets, Sequences, Functions

CONSTANTS
    Scopes,         \* account x venue x strategy x model version x credential
    Venue,          \* Venue[s]: the venue of scope s
    Kinds,          \* EvidenceKind
    Required,       \* REQUIRED_EVIDENCE: the kinds needed to enter a stage
    HasToken,       \* whether OPERATOR_API_TOKEN is configured
    MinPaper,       \* MIN_PAPER_PERIOD
    MaxAge,         \* EVIDENCE_MAX_AGE
    MaxNow,         \* bound on the clock
    MaxCrashes,     \* bound on crashes of the API process
    MaxFaults       \* bound on database calls that raise

RESEARCH == 0
REPLAY == 1
SHADOW == 2
PAPER == 3
CANARY == 4
LIVE == 5
Stages == RESEARCH..LIVE

VARIABLES
    now,        \* the clock, in days
    mem,        \* mem[s]: _records, None when the scope is unknown
    db,         \* db[s]: the row of promotion_scopes, None when there is none
    loaded,     \* _loaded
    saving,     \* the scopes the running operation still has to save, in order
    venue,      \* the venue whose violation is running, None otherwise
    left,       \* crashes and faults still allowed
    granted,    \* history: the stage of s the last operation that returned left
    earliest    \* history: the first day a violation leaves CANARY open to s

vars == <<now, mem, db, loaded, saving, venue, left, granted, earliest>>

None == <<>>
Days == 0..MaxNow
Venues == {Venue[s] : s \in Scopes}
NoEvidence == [at |-> 0, passed |-> FALSE]
Evidence == [at : Days, passed : BOOLEAN]
Record == [stage : Stages, since : Days, clean : Days, evidence : [Kinds -> Evidence]]

ASSUME ScopesAssumption == IsFiniteSet(Scopes) /\ None \notin Venues
ASSUME BoundAssumption == {MinPaper, MaxNow, MaxCrashes, MaxFaults} \subseteq Nat

\* Every variable has the shape the registry and its table give it.
TypeOK ==
    /\ now \in Days
    /\ mem \in [Scopes -> Record \cup {None}]
    /\ db \in [Scopes -> Record \cup {None}]
    /\ loaded \in BOOLEAN
    /\ saving \in Seq(Scopes)
    /\ venue \in Venues \cup {None}
    /\ left \in [crash : 0..MaxCrashes, fault : 0..MaxFaults]
    /\ granted \in [Scopes -> Stages]
    /\ earliest \in [Scopes -> 0..(MaxNow + MinPaper)]

Init ==
    /\ now = 0
    /\ mem = [s \in Scopes |-> None]
    /\ db = [s \in Scopes |-> None]
    /\ loaded = FALSE
    /\ saving = <<>>
    /\ venue = None
    /\ left = [crash |-> MaxCrashes, fault |-> MaxFaults]
    /\ granted = [s \in Scopes |-> RESEARCH]
    /\ earliest = [s \in Scopes |-> 0]

Spend(what) == left[what] > 0 /\ left' = [left EXCEPT ![what] = @ - 1]

-----------------------------------------------------------------------------
(* The gate. *)

\* clean_for: a violation and the entry into the stage both restart the period.
CleanFor(r) == now - (IF r.since >= r.clean THEN r.since ELSE r.clean)

\* The last evidence of the kind in this stage is recent and passed.
Proved(r, k) ==
    LET e == r.evidence[k] IN e.passed /\ now - e.at <= MaxAge

\* gate_check finds no reason to refuse the target.
GateOpen(r, target) ==
    /\ target = r.stage + 1
    /\ target # LIVE
    /\ target = CANARY => HasToken /\ CleanFor(r) >= MinPaper
    /\ \A k \in Required[target] : Proved(r, k)

\* _move: stage_since becomes now, which discounts the evidence so far.
Moved(r, target) ==
    [r EXCEPT !.stage = target, !.since = now,
              !.evidence = [k \in Kinds |-> NoEvidence]]

\* _record: the record in memory, created at RESEARCH when there is none.
RecordOf(s) ==
    IF mem[s] # None THEN mem[s]
    ELSE [stage |-> RESEARCH, since |-> now, clean |-> now,
          evidence |-> [k \in Kinds |-> NoEvidence]]

\* stage: what the Risk Engine is told.
StageOf(s) == IF mem[s] = None THEN RESEARCH ELSE mem[s].stage

-----------------------------------------------------------------------------
(* The operations: each runs alone, under the lock. *)

Idle == saving = <<>>
Ready == loaded /\ Idle

\* _ensure_loaded, at the head of the first operation after a start.
Load ==
    /\ ~loaded
    /\ mem' = db
    /\ loaded' = TRUE
    /\ UNCHANGED <<now, db, saving, venue, left, granted, earliest>>

\* The record of s changes in memory and its save starts.
Change(s, r) ==
    /\ mem' = [mem EXCEPT ![s] = r]
    /\ saving' = <<s>>
    /\ UNCHANGED <<now, db, loaded, venue, left, granted, earliest>>

\* add_evidence, from the operator, a drill run here or the watchdog's coverage.
AddEvidence(s, k, passed) ==
    /\ Ready
    /\ Change(s, [RecordOf(s) EXCEPT !.evidence[k] =
                    IF passed THEN [at |-> now, passed |-> TRUE] ELSE NoEvidence])

\* promote, once the gate passes.
Promote(s, target) ==
    /\ Ready
    /\ GateOpen(RecordOf(s), target)
    /\ Change(s, Moved(RecordOf(s), target))

\* Mutant: the demotion returns without a save.
DemoteUnsaved(s) ==
    /\ Ready
    /\ StageOf(s) > RESEARCH
    /\ mem' = [mem EXCEPT ![s] = Moved(@, StageOf(s) - 1)]
    /\ granted' = [granted EXCEPT ![s] = StageOf(s) - 1]
    /\ UNCHANGED <<now, db, loaded, saving, venue, left, earliest>>

\* demote: one stage down.
Demote(s) ==
    /\ Ready
    /\ StageOf(s) > RESEARCH
    /\ Change(s, Moved(mem[s], StageOf(s) - 1))

\* A refused promotion and a demotion at RESEARCH leave the record they created
\* in memory, without a row.
Register(s) ==
    /\ Ready
    /\ mem[s] = None
    /\ mem' = [mem EXCEPT ![s] = RecordOf(s)]
    /\ UNCHANGED <<now, db, loaded, saving, venue, left, granted, earliest>>

\* What a violation does to one record.
Violated(r) ==
    LET c == [r EXCEPT !.clean = now]
    IN  IF r.stage \in {CANARY, LIVE} THEN Moved(c, r.stage - 1) ELSE c

On(v) == {s \in Scopes : Venue[s] = v}

\* The registry's violation has returned: it now answers for it.
Reported(v) ==
    earliest' = [s \in Scopes |-> IF s \in On(v) THEN now + MinPaper ELSE earliest[s]]

\* The orders in which the records of a set of scopes may stand.
Listings(S) == Bijection(1..Cardinality(S), S)

\* violation: the registered scopes of the venue, in the order of the records.
Violation(v) ==
    /\ Ready
    /\ \E order \in Listings({s \in On(v) : mem[s] # None}) :
         /\ order # <<>>
         /\ saving' = order
         /\ mem' = [mem EXCEPT ![Head(order)] = Violated(@)]
    /\ venue' = v
    /\ UNCHANGED <<now, db, loaded, left, granted, earliest>>

\* _ensure_loaded raises under a violation: the hook logs it and returns.
ViolationUnread(v) ==
    /\ ~loaded
    /\ Spend("fault")
    /\ UNCHANGED <<now, mem, db, loaded, saving, venue, granted, earliest>>

\* Mutant: a violation stops after its first scope.
SaveStops ==
    /\ ~Idle
    /\ db' = [db EXCEPT ![Head(saving)] = mem[Head(saving)]]
    /\ granted' = [granted EXCEPT ![Head(saving)] = mem[Head(saving)].stage]
    /\ saving' = <<>>
    /\ venue' = None
    /\ IF venue # None THEN Reported(venue) ELSE UNCHANGED earliest
    /\ UNCHANGED <<now, mem, loaded, left>>

\* _save commits; a violation goes on to its next scope, or returns.
Save ==
    LET s == Head(saving)
        rest == Tail(saving)
    IN  /\ ~Idle
        /\ db' = [db EXCEPT ![s] = mem[s]]
        /\ granted' = [granted EXCEPT ![s] = mem[s].stage]
        /\ saving' = rest
        /\ mem' = IF rest = <<>> THEN mem ELSE [mem EXCEPT ![Head(rest)] = Violated(@)]
        /\ IF rest = <<>> THEN venue' = None ELSE UNCHANGED venue
        /\ IF rest = <<>> /\ venue # None THEN Reported(venue) ELSE UNCHANGED earliest
        /\ UNCHANGED <<now, loaded, left>>

\* _save raises: memory keeps the change.  An operator is told; a violation's
\* hook returns all the same, and its remaining scopes are not touched.
SaveRaises ==
    /\ ~Idle
    /\ Spend("fault")
    /\ saving' = <<>>
    /\ venue' = None
    /\ granted' = IF venue = None THEN granted
                  ELSE [granted EXCEPT ![Head(saving)] = mem[Head(saving)].stage]
    /\ UNCHANGED <<now, mem, db, loaded, earliest>>

\* The process stops, at rest or within an operation, and starts again.
Crash ==
    /\ loaded
    /\ Spend("crash")
    /\ loaded' = FALSE
    /\ mem' = [s \in Scopes |-> None]
    /\ saving' = <<>>
    /\ venue' = None
    /\ UNCHANGED <<now, db, granted, earliest>>

\* An operation reads the clock once and is short next to a day.
NextDay ==
    /\ Idle
    /\ now < MaxNow
    /\ now' = now + 1
    /\ UNCHANGED <<mem, db, loaded, saving, venue, left, granted, earliest>>

Next ==
    \/ Load
    \/ Save
    \/ SaveRaises
    \/ Crash
    \/ NextDay
    \/ \E s \in Scopes :
         \/ \E k \in Kinds, passed \in BOOLEAN : AddEvidence(s, k, passed)
         \/ \E target \in Stages : Promote(s, target)
         \/ Demote(s)
         \/ Register(s)
    \/ \E v \in Venues : Violation(v) \/ ViolationUnread(v)

Spec == Init /\ [][Next]_vars

-----------------------------------------------------------------------------
\* "Clean days ... count from the later of two moments: entry into PAPER, or
\* the last violation" (docs/promotion/gates.md:30): a scope certified at CANARY
\* was promoted at least MinPaper days after every violation of its venue that
\* the registry has taken in, whatever demotions, new promotions, failing saves
\* and crashes came in between, a crash in the middle of another operation
\* included.  A violation the registry raised on is lost with it.
CanaryIsEarned ==
    Ready => \A s \in Scopes : StageOf(s) = CANARY => mem[s].since >= earliest[s]

\* The registry is "saved after every change" (registry.py:1) and "automation
\* can only ever demote" (gates.py:7): between operations no scope is above the
\* stage that the last completed operation on it left, so neither a crash nor
\* the reload after it puts a demoted scope back.  Only a promotion whose save
\* raised stands in memory although its operator was told that it failed.
InForceWasGranted ==
    Ready /\ left.fault = MaxFaults => \A s \in Scopes : StageOf(s) <= granted[s]

\* A stage in force was earned by clean days and granted by an operation that
\* returned, whatever failed or died in between.
StagesAreEarned == CanaryIsEarned /\ InForceWasGranted
=============================================================================
