----------------------------- MODULE FinRobots ------------------------------
(***************************************************************************)
(* The FinRobots: advisory cycles that read a snapshot, let the eight      *)
(* specialists report on it and fold the reports in a council.             *)
(*                                                                         *)
(*   apps/api/app/finrobot_surface.py     snapshot, journalling, routes    *)
(*   services/finrobots/orchestrator.py   run_cycle, start, stop           *)
(*   services/finrobots/council.py        decide                           *)
(*   services/finrobots/registry.py       the specialists, who may veto    *)
(*   services/finrobots/robots/           what each specialist reports     *)
(*                                                                         *)
(* The background loop and a POST may both ask for a cycle.  The sources   *)
(* kept in memory are read in one step; each of the others is awaited      *)
(* while the system moves on, and may fail.  The specialists only compute, *)
(* and date a report when they make it, so none is excluded for its age.   *)
(***************************************************************************)
EXTENDS Integers, Sequences, FiniteSets, TLC

CONSTANTS
    Instruments,       \* the active instruments
    VenueOf,           \* the venue of each
    HISTORY_CAPACITY,  \* records kept
    MaxEvents,         \* bound: changes in the system
    MaxCycles,         \* bound: cycles begun
    MaxFaults          \* bound: reads and journal writes that fail

Callers == {"loop", "post"}
SYSTEM_SCOPE == "SYSTEM"
Scopes == Instruments \cup {SYSTEM_SCOPE}
Venues == {VenueOf[i] : i \in Instruments}

\* The specialists whose mandate holds a veto.
may_veto == {"model-validator", "risk-guardian", "execution-supervisor", "audit-recovery"}

VARIABLES
    system,   \* what the sources show: [kill, killed, failures, stale, unknown, watchdog, quant]
    lock,     \* who runs a cycle, or "none"
    cycles,   \* the callers: [at, snapshot, always, ever, record]
    history,  \* the records of completed cycles, oldest first
    journal,  \* the ids of the cycles journalled
    counts    \* [events, cycles, faults]

vars == <<system, lock, cycles, history, journal, counts>>

NoRead == [status |-> "UNAVAILABLE", value |-> {}]
Read(v) == [status |-> "OK", value |-> v]
Idle == [at |-> "idle", id |-> 0, read |-> 0, snapshot |-> <<>>, always |-> Scopes, ever |-> {}]

Init ==
    /\ system = [kill |-> FALSE, killed |-> {}, failures |-> FALSE, stale |-> {}, unknown |-> {},
                 watchdog |-> TRUE, quant |-> [i \in Instruments |-> "none"]]
    /\ lock = "none"
    /\ cycles = [c \in Callers |-> Idle]
    /\ history = <<>>
    /\ journal = {}
    /\ counts = [events |-> 0, cycles |-> 0, faults |-> 0]

-----------------------------------------------------------------------------
\* What the specialists report on a snapshot.

Report(robot, scope, stance) == [robot |-> robot, scope |-> scope, stance |-> stance]
Abstains(robot) == {Report(robot, SYSTEM_SCOPE, "ABSTAIN")}
OrAbstains(robot, reports) == IF reports = {} THEN Abstains(robot) ELSE reports

\* A global control vetoes the system, a killed venue its instruments.
RiskGuardian(s) ==
    IF s.risk.kill THEN {Report("risk-guardian", SYSTEM_SCOPE, "VETO")}
    ELSE OrAbstains("risk-guardian",
             {Report("risk-guardian", i, "VETO") : i \in {j \in Instruments : VenueOf[j] \in s.risk.killed}})

\* Quotes older than the Risk Engine allows when the specialist looks.
MarketIntelligence(s, aged) ==
    OrAbstains("market-intelligence",
        {Report("market-intelligence", i, "CAUTION") : i \in s.stale \cup aged})

\* Orders of the OMS that nobody knows the outcome of.
ExecutionSupervisor(s) ==
    OrAbstains("execution-supervisor",
        {Report("execution-supervisor", i, "CAUTION") : i \in s.orders.value})

\* Balances are evidence, never a view.
PortfolioIntelligence(s) == Abstains("portfolio-intelligence")

\* Decisions that were not journalled, or a watchdog that watches nothing.
AuditRecovery(s) ==
    {Report("audit-recovery", SYSTEM_SCOPE, IF s.failures \/ ~s.watchdog THEN "CAUTION" ELSE "ABSTAIN")}

\* The provenance of the quant records is theirs: a recent shadow run on paper
\* data ("bad" when it shows no edge) or a replay.
KindOf(q) == IF q = "bad" THEN "PAPER" ELSE "REPLAY"
_quant_provenance(quant) ==
    LET kinds == {KindOf(quant[i]) : i \in {j \in Instruments : quant[j] # "none"}}
    IN  IF kinds = {} THEN "UNAVAILABLE" ELSE IF Cardinality(kinds) = 1 THEN CHOOSE k \in kinds : TRUE ELSE "MIXED"

\* The instruments with a verified record whose provenance is the source's.
_records(s) ==
    IF s.quant.status # "OK" THEN {}
    ELSE LET p == _quant_provenance(s.quant.value)
         IN  {i \in Instruments : s.quant.value[i] # "none" /\ p \in {"MIXED", KindOf(s.quant.value[i])}}

QuantResearch(s) ==
    OrAbstains("quant-research",
        {Report("quant-research", i, IF s.quant.value[i] = "bad" THEN "CAUTION" ELSE "ABSTAIN") : i \in _records(s)})
StrategyResearch(s) ==
    OrAbstains("strategy-research", {Report("strategy-research", i, "ABSTAIN") : i \in _records(s)})
ModelValidator(s) ==
    OrAbstains("model-validator", {Report("model-validator", i, "ABSTAIN") : i \in _records(s)})

\* All eight are bound.
default_robots(s, aged) ==
    ("market-intelligence" :> MarketIntelligence(s, aged)) @@ ("quant-research" :> QuantResearch(s))
        @@ ("strategy-research" :> StrategyResearch(s)) @@ ("portfolio-intelligence" :> PortfolioIntelligence(s))
        @@ ("model-validator" :> ModelValidator(s)) @@ ("risk-guardian" :> RiskGuardian(s))
        @@ ("execution-supervisor" :> ExecutionSupervisor(s)) @@ ("audit-recovery" :> AuditRecovery(s))

\* Only reports that the specialist signed count. One for each instrument is within the cap.
_run_robot(robot, raw) == {r \in raw : r.robot = robot}

Reports(s, aged) == LET raw == default_robots(s, aged) IN UNION {_run_robot(r, raw[r]) : r \in DOMAIN raw}

-----------------------------------------------------------------------------
\* The council.

\* A veto that is not in the mandate counts as caution.
_effective_stance(r) == IF r.stance = "VETO" /\ r.robot \notin may_veto THEN "CAUTION" ELSE r.stance

by_scope(reports, scope) == {r \in reports : r.scope = scope}

\* A faulty fold: a scope is judged by the reports about it alone.
OwnOnly(reports, scope) == by_scope(reports, scope)

\* A report on the system is inherited where the specialist says nothing of the
\* scope, or something less restrictive.
selected(reports, scope) ==
    LET own == by_scope(reports, scope)
        Wins(s) ==
            \A r \in own : r.robot = s.robot =>
                \/ _effective_stance(s) = "VETO"
                \/ _effective_stance(s) = "CAUTION" /\ _effective_stance(r) \notin {"VETO", "CAUTION"}
        inherited == {s \in by_scope(reports, SYSTEM_SCOPE) : Wins(s)}
    IN  IF scope = SYSTEM_SCOPE THEN own
        ELSE inherited \cup {r \in own : \A s \in inherited : s.robot # r.robot}

support_quorum == 2

VerdictOf(reports, scope) ==
    LET stances == {_effective_stance(r) : r \in selected(reports, scope)}
        support == {r \in selected(reports, scope) : r.stance = "SUPPORT" /\ r.scope = scope}
    IN  CASE "VETO" \in stances -> "BLOCK_NEW_RISK"
          [] "VETO" \notin stances /\ "CAUTION" \in stances -> "REDUCE_RISK"
          [] stances \cap {"VETO", "CAUTION"} = {} /\ Cardinality(support) >= support_quorum -> "CONSISTENT"
          [] OTHER -> "NO_CONSENSUS"

\* Only scopes that some report is about get a verdict.
decide(reports) == [scope \in {r.scope : r \in reports} |-> VerdictOf(reports, scope)]

-----------------------------------------------------------------------------
\* The system moves.

\* The scopes over which a switch is thrown.
Killed(s) == IF s.kill THEN Scopes ELSE {i \in Instruments : VenueOf[i] \in s.killed}

\* A change of the system, seen by the history of the cycles under way.
Becomes(s) ==
    /\ counts.events < MaxEvents
    /\ counts' = [counts EXCEPT !.events = @ + 1]
    /\ system' = s
    /\ cycles' = [c \in Callers |-> IF cycles[c].at = "idle" THEN cycles[c]
                                   ELSE [cycles[c] EXCEPT !.always = @ \cap Killed(s), !.ever = @ \cup Killed(s)]]
    /\ UNCHANGED <<lock, history, journal>>

KillSwitch == Becomes([system EXCEPT !.kill = ~@])
VenueKill == \E v \in Venues : Becomes([system EXCEPT !.killed = IF v \in @ THEN @ \ {v} ELSE @ \cup {v}])
QuoteStops == \E i \in Instruments \ system.stale : Becomes([system EXCEPT !.stale = @ \cup {i}])
OrderUnknown == \E i \in Instruments \ system.unknown : Becomes([system EXCEPT !.unknown = @ \cup {i}])
AgentJournalFails == ~system.failures /\ Becomes([system EXCEPT !.failures = TRUE])
WatchdogStops == system.watchdog /\ Becomes([system EXCEPT !.watchdog = FALSE])
QuantRecorded == \E i \in Instruments, q \in {"bad", "replay"} : Becomes([system EXCEPT !.quant[i] = q])

-----------------------------------------------------------------------------
\* A cycle.

Ask(c) ==
    /\ cycles[c].at = "idle" /\ counts.cycles < MaxCycles
    /\ counts' = [counts EXCEPT !.cycles = @ + 1]
    /\ cycles' = [cycles EXCEPT ![c] = [Idle EXCEPT !.at = "lock", !.id = counts.cycles + 1]]
    /\ UNCHANGED <<system, lock, history, journal>>

\* POST /cycles, and a turn of the background loop.
run_finrobot_cycle == Ask("post")
start == Ask("loop")

\* A faulty orchestrator, whose cycles overlap.
Unlocked(c) == TRUE

\* The cycle waits for the orchestrator's lock.
HoldsLock(c) == lock = "none"

\* The instruments whose quote is too old; the others' may become so.
_quotes == system.stale

\* Under the lock, the sources that are process state, read in one step: agents.status,
\* risk.status and market.quotes.
ReadMemory(c) ==
    /\ cycles[c].at = "lock" /\ HoldsLock(c)
    /\ lock' = c
    /\ cycles' = [cycles EXCEPT ![c] =
           [@ EXCEPT !.at = "orders", !.read = counts.events, !.always = Killed(system), !.ever = Killed(system),
                     !.snapshot = [risk |-> [kill |-> system.kill, killed |-> system.killed],
                                   failures |-> system.failures, stale |-> _quotes]]]
    /\ UNCHANGED <<system, history, journal, counts>>

\* An awaited read times out, fails or is not ready: the source is absent.
Reads(c, v, r) ==
    \/ r = Read(v) /\ UNCHANGED counts
    \/ r = NoRead /\ counts.faults < MaxFaults /\ counts' = [counts EXCEPT !.faults = @ + 1]

\* The orders, the balances and the executor of the OMS; then the watchdog, process state.
ReadOms(c) ==
    /\ cycles[c].at = "orders"
    /\ \E r \in {Read(system.unknown), NoRead} :
        /\ Reads(c, system.unknown, r)
        /\ cycles' = [cycles EXCEPT ![c].at = "quant",
                                    ![c].snapshot = @ @@ [orders |-> r] @@ [watchdog |-> system.watchdog]]
    /\ UNCHANGED <<system, lock, history, journal>>

ReadQuant(c) ==
    /\ cycles[c].at = "quant"
    /\ \E r \in {Read(system.quant), NoRead} :
        /\ Reads(c, system.quant, r)
        /\ cycles' = [cycles EXCEPT ![c].at = "robots", ![c].snapshot = @ @@ [quant |-> r]]
    /\ UNCHANGED <<system, lock, history, journal>>

\* Keeps the newest records.
Keep(h) == IF Len(h) > HISTORY_CAPACITY THEN Tail(h) ELSE h

\* The specialists, the council and the record; the lock is released before the
\* record is journalled.
run_cycle(c) ==
    /\ cycles[c].at = "robots"
    /\ \E aged \in SUBSET (system.stale \ cycles[c].snapshot.stale) :
        LET r == [id |-> cycles[c].id, read |-> cycles[c].read, always |-> cycles[c].always,
                  ever |-> cycles[c].ever, verdicts |-> decide(Reports(cycles[c].snapshot, aged))]
        IN  history' = Keep(Append(history, r))
    /\ lock' = "none"
    /\ cycles' = [cycles EXCEPT ![c] = [Idle EXCEPT !.at = "journal", !.id = cycles[c].id]]
    /\ UNCHANGED <<system, journal, counts>>

\* A failure is only counted.
_journal_cycle(c) ==
    /\ cycles[c].at = "journal"
    /\ \/ journal' = journal \cup {cycles[c].id} /\ UNCHANGED counts
       \/ counts.faults < MaxFaults /\ counts' = [counts EXCEPT !.faults = @ + 1] /\ UNCHANGED journal
    /\ cycles' = [cycles EXCEPT ![c] = Idle]
    /\ UNCHANGED <<system, lock, history>>

\* stop cancels the loop wherever it is, which gives the lock back.
stop ==
    /\ cycles["loop"].at # "idle" /\ counts.faults < MaxFaults
    /\ counts' = [counts EXCEPT !.faults = @ + 1]
    /\ cycles' = [cycles EXCEPT !["loop"] = Idle]
    /\ lock' = IF lock = "loop" THEN "none" ELSE lock
    /\ UNCHANGED <<system, history, journal>>

System ==
    \/ KillSwitch \/ VenueKill \/ QuoteStops \/ OrderUnknown \/ AgentJournalFails \/ WatchdogStops
    \/ QuantRecorded

Cycle(c) == ReadMemory(c) \/ ReadOms(c) \/ ReadQuant(c) \/ run_cycle(c) \/ _journal_cycle(c)

Next == System \/ start \/ run_finrobot_cycle \/ stop \/ \E c \in Callers : Cycle(c)

Spec == Init /\ [][Next]_vars

-----------------------------------------------------------------------------

\* The history is bounded, the lock is held by a cycle under way.
TypeOK ==
    /\ Len(history) <= HISTORY_CAPACITY
    /\ lock # "none" => cycles[lock].at \in {"orders", "quant", "robots"}
    /\ \A k \in 1..Len(history) : DOMAIN history[k].verdicts \subseteq Scopes

\* What council_brief shows for an instrument: its verdict and the system's.
Brief(r, i) == {r.verdicts[s] : s \in {i, SYSTEM_SCOPE} \cap DOMAIN r.verdicts}
Blocks(r, s) == s \in DOMAIN r.verdicts /\ r.verdicts[s] = "BLOCK_NEW_RISK"

\* A kill switch reaches the council: thrown for the whole of a cycle it blocks
\* every verdict it is over, whatever else the specialists say and whichever sources
\* fail; and no scope is blocked unless a switch over it was thrown meanwhile.
BlocksFollowSwitches ==
    \A k \in 1..Len(history) : LET r == history[k] IN
        /\ \A i \in Instruments \cap r.always : "BLOCK_NEW_RISK" \in Brief(r, i)
        /\ SYSTEM_SCOPE \in r.always => \A s \in DOMAIN r.verdicts : Blocks(r, s)
        /\ \A s \in Scopes : Blocks(r, s) => s \in r.ever

\* latest() never goes back: a record that replaces another as the latest rests on
\* a snapshot taken no earlier, though the loop and a POST run cycles.
LatestIsNewest ==
    \A k \in 2..Len(history) : history[k - 1].read <= history[k].read

\* The council's record follows the switches and never goes back.
CouncilFollowsSwitches == BlocksFollowSwitches /\ LatestIsNewest
=============================================================================
