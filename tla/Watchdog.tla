------------------------------ MODULE Watchdog ------------------------------
(***************************************************************************)
(* The independent watchdog: the loop of services/watchdog/runner.py, the  *)
(* checks of services/watchdog/checks.py, and the two routes it halts      *)
(* through, /v1/watchdog/halt of the API (watchdog_surface.py) and of an   *)
(* executor (apps/executor/runtime.py).                                    *)
(*                                                                         *)
(* A cycle probes the API, the executor and the other nodes one after the  *)
(* other, decides, and then calls each side it has to halt.  Between two   *)
(* of these calls the world moves: services fail and recover, operators    *)
(* release halts, processes restart, requests and answers are lost.        *)
(*                                                                         *)
(* What the API's floor says is abstracted to one word: "bad" is a journal *)
(* that is not VALID or a breached loss limit, "missing" an account the    *)
(* API could not read, "garbled" an account whose numbers do not parse.    *)
(* An executor is "bad" when it reports a divergence or a reconciliation   *)
(* that is too old (for a node: within its session).  The XP and Alpaca    *)
(* nodes are treated alike by the code.                                    *)
(***************************************************************************)
EXTENDS Naturals, FiniteSets

CONSTANTS
    Nodes,          \* the XP and the Alpaca executor
    Grace,          \* unreachable_cycles
    MarketGrace,    \* stale_market_cycles
    Executing,      \* whether the API's pipeline executes orders
    Floors,         \* the floor states of this instance
    MaxChanges,     \* bound on changes of the world
    MaxLost,        \* bound on lost probes, requests and answers
    MaxUndone       \* bound on operator releases and restarts

ASSUME WatchdogAssumption ==
    /\ IsFiniteSet(Nodes)
    /\ Nodes \cap {"main", "api", "account", "market", "executor",
                   "floor", "reconciliation"} = {}
    /\ {Grace, MarketGrace} \subseteq Nat \ {0}
    /\ Executing \in BOOLEAN
    /\ "good" \in Floors
    /\ Floors \subseteq {"good", "bad", "missing", "garbled"}
    /\ {MaxChanges, MaxLost, MaxUndone} \subseteq Nat

VARIABLES
    floor,      \* what /v1/floor/state says, or "down"
    market,     \* whether /live/ready answers 200
    exec,       \* exec[e]: "good", "bad" or "down"
    killed,     \* the governor's global kill switch
    stored,     \* whether the control store holds it
    halted,     \* halted[e]: the executor's latch, stored with its ledger
    pc,         \* where the cycle is
    obs,        \* the Observation so far
    misses,     \* _misses
    tripped,    \* the reasons and nodes that trip in this cycle
    flag,       \* _api_halted, _executor_halted, _xp_halted, _alpaca_halted
    left,       \* the bounds
    streak,     \* history: consecutive cycles whose own probe failed
    blame       \* history: the sides whose probes ever showed or lost anything

world == <<floor, market, exec>>
latches == <<killed, stored, halted>>
dog == <<pc, obs, misses, tripped, flag>>
vars == <<world, latches, dog, left, streak, blame>>

EXECUTOR == "executor"
API == "api"
Executors == {EXECUTOR} \cup Nodes
Counted == {"api", "account", "market", EXECUTOR}
Threshold == [c \in Counted |-> IF c = "market" THEN MarketGrace ELSE Grace]
NoObs == [health |-> FALSE, floor |-> "down", market |-> FALSE, killed |-> FALSE,
          exec |-> [e \in Executors |-> "down"], halted |-> [e \in Executors |-> FALSE]]

\* Every variable has the shape the watchdog's and the services' state has.
TypeOK ==
    /\ floor \in Floors \cup {"down"}
    /\ market \in BOOLEAN
    /\ exec \in [Executors -> {"good", "bad", "down"}]
    /\ {killed, stored} \subseteq BOOLEAN
    /\ halted \in [Executors -> BOOLEAN]
    /\ pc \in {"idle", "executor", "nodes", "halt_api", "halt_executor", "halt_nodes"}
    /\ obs.floor \in Floors \cup {"down"}
    /\ obs.exec \in [Executors -> {"good", "bad", "down"}]
    /\ misses \in [Counted -> 0..(Grace + MarketGrace)]
    /\ tripped \subseteq Counted \cup Nodes \cup {"floor", "reconciliation"}
    /\ flag \in [{API} \cup Executors -> BOOLEAN]
    /\ left \in [changes : 0..MaxChanges, lost : 0..MaxLost, undone : 0..MaxUndone]
    /\ streak \in [Counted -> 0..(Grace + MarketGrace)]
    /\ blame \subseteq {"main"} \cup Nodes

Init ==
    /\ floor = "good" /\ market = TRUE
    /\ exec = [e \in Executors |-> "good"]
    /\ killed = FALSE /\ stored = FALSE
    /\ halted = [e \in Executors |-> FALSE]
    /\ pc = "idle"
    /\ obs = NoObs
    /\ misses = [c \in Counted |-> 0]
    /\ tripped = {}
    /\ flag = [s \in {API} \cup Executors |-> FALSE]
    /\ left = [changes |-> MaxChanges, lost |-> MaxLost, undone |-> MaxUndone]
    /\ streak = [c \in Counted |-> 0]
    /\ blame = {}

Lose(n) == left.lost >= n /\ left' = [left EXCEPT !.lost = @ - n]
Spend(what) == left[what] > 0 /\ left' = [left EXCEPT ![what] = @ - 1]
Capped(n, most) == IF n > most THEN most ELSE n
-----------------------------------------------------------------------------
(* observe: the probes, each of which may be lost. *)

\* /health, /v1/floor/state and /live/ready; only the second reads a latch.
ProbeApi(lost) ==
    /\ pc = "idle"
    /\ Lose(Cardinality(lost))
    /\ obs' = [NoObs EXCEPT
                 !.health = floor # "down" /\ "health" \notin lost,
                 !.floor  = IF "floor" \in lost THEN "down" ELSE floor,
                 !.market = floor # "down" /\ market /\ "market" \notin lost,
                 !.killed = floor # "down" /\ killed /\ "floor" \notin lost]
    /\ pc' = "executor"
    /\ UNCHANGED <<world, latches, misses, tripped, flag, streak, blame>>

\* _status: what is seen of the executors in es, those in lost excepted.
Seen(o, es, lost) ==
    [o EXCEPT
       !.exec   = [e \in Executors |-> IF e \in es \ lost THEN exec[e] ELSE o.exec[e]],
       !.halted = [e \in Executors |->
                     IF e \in es \ lost /\ exec[e] # "down" THEN halted[e] ELSE o.halted[e]]]

\* The executor of the main venue.
ProbeExecutor(lost) ==
    /\ pc = "executor"
    /\ Lose(Cardinality(lost))
    /\ obs' = Seen(obs, {EXECUTOR}, lost)
    /\ pc' = "nodes"
    /\ UNCHANGED <<world, latches, misses, tripped, flag, streak, blame>>

-----------------------------------------------------------------------------
(* evaluate, evaluate_xp, evaluate_alpaca. *)

Read(o) == o.floor # "down"

\* The counted checks this observation fails, and those it says anything about.
Failing(o) ==
    {c \in Counted :
       \/ c = "api" /\ (~o.health \/ ~Read(o))
       \/ c = "account" /\ o.floor \in {"missing", "garbled"}
       \/ c = "market" /\ Read(o) /\ Executing /\ ~o.market
       \/ c = EXECUTOR /\ o.exec[EXECUTOR] = "down"}

Evaluated(o) == IF Read(o) THEN Counted ELSE {"api", EXECUTOR}

\* Mutant: a good cycle does not reset the count.
SustainedForever(o) ==
    [c \in Counted |-> IF c \in Failing(o) THEN Capped(misses[c] + 1, Threshold[c])
                       ELSE misses[c]]

\* _sustained; an account whose numbers do not parse was reset just before.
Sustained(o) ==
    [c \in Counted |->
       CASE c \notin Evaluated(o) -> misses[c]
         [] c \notin Failing(o) -> 0
         [] c = "account" /\ o.floor = "garbled" -> 1
         [] OTHER -> Capped(misses[c] + 1, Threshold[c])]

\* Mutant: the nodes' trips count as trips of the main checks.
TripsTogether(o, m) ==
    {c \in Failing(o) : m[c] >= Threshold[c]}
    \cup {r \in {"floor"} : o.floor = "bad"}
    \cup {r \in {"reconciliation"} : \E e \in Executors : o.exec[e] = "bad"}
    \cup {n \in Nodes : o.exec[n] = "bad"}

Trips(o, m) ==
    {c \in Failing(o) : m[c] >= Threshold[c]}
    \cup {r \in {"floor"} : o.floor = "bad"}
    \cup {r \in {"reconciliation"} : o.exec[EXECUTOR] = "bad"}
    \cup {n \in Nodes : o.exec[n] = "bad"}

\* History: what each probe by itself has shown, cycle after cycle.
Streak(o) ==
    LET failed == {c \in Counted : c = "market" /\ ~o.market} \cup (Failing(o) \ {"market"})
    IN  [c \in Counted |-> IF c \in failed THEN Capped(streak[c] + 1, Threshold[c]) ELSE 0]

Flawless(o) ==
    o.health /\ o.market /\ o.floor = "good" /\ o.exec[EXECUTOR] = "good"

AfterMain(nodes) == IF nodes = {} THEN "idle" ELSE "halt_nodes"

\* The nodes are probed, nothing is awaited any more, and the cycle decides.
\* A cycle without a trip on a side forgets that it had halted it.
Decide(lost) ==
    LET o == Seen(obs, Nodes, lost)
        m == Sustained(o)
        trips == Trips(o, m)
        main == trips \ Nodes # {}
    IN  /\ pc = "nodes"
        /\ Lose(Cardinality(lost))
        /\ obs' = o
        /\ misses' = m
        /\ tripped' = trips
        /\ flag' = [s \in {API} \cup Executors |->
                      flag[s] /\ (IF s \in Nodes THEN s \in trips ELSE main)]
        /\ pc' = IF main THEN "halt_api" ELSE AfterMain(trips \cap Nodes)
        /\ streak' = Streak(o)
        /\ blame' = blame \cup {s \in {"main"} : ~Flawless(o)}
                          \cup {n \in Nodes : o.exec[n] = "bad"}
        /\ UNCHANGED <<world, latches>>
-----------------------------------------------------------------------------
(* The halts.  A call takes effect or not, and is confirmed or not. *)

\* Mutant: a side that confirmed once is not asked again in this incident.
ConfirmedOnce(s) == flag[s]

\* The early return: halted from this incident, and still seen as halted.
Confirmed(s) == flag[s] /\ (IF s = API THEN obs.killed ELSE obs.halted[s])

Reachable(s) == IF s = API THEN floor # "down" ELSE exec[s] # "down"

\* The call on side s: reached says whether the route ran, answered whether 200
\* came back.  Losing either is one lost message; a side that is down loses none.
Call(s, reached, answered) ==
    /\ reached => Reachable(s)
    /\ answered => reached
    /\ Lose(IF Reachable(s) /\ ~answered THEN 1 ELSE 0)
    /\ flag' = [flag EXCEPT ![s] = answered]

\* watchdog_surface.halt: the kill switch, and the store unless its put fails.
\* The answer is 200 in both cases.
HaltApi(reached, answered, put) ==
    /\ pc = "halt_api"
    /\ IF Confirmed(API)
       THEN reached /\ answered /\ put /\ UNCHANGED <<killed, stored, flag, left>>
       ELSE /\ Call(API, reached, answered)
            /\ killed' = (killed \/ reached)
            /\ stored' = (stored \/ (reached /\ put))
    /\ pc' = "halt_executor"
    /\ UNCHANGED <<world, halted, obs, misses, tripped, streak, blame>>

\* The halt of one executor; the same code for all of them.
Latch(e, reached, answered) ==
    IF Confirmed(e) THEN reached /\ answered /\ UNCHANGED <<halted, flag, left>>
    ELSE /\ Call(e, reached, answered)
         /\ halted' = [halted EXCEPT ![e] = @ \/ reached]

HaltExecutor(reached, answered) ==
    /\ pc = "halt_executor"
    /\ Latch(EXECUTOR, reached, answered)
    /\ pc' = AfterMain(tripped \cap Nodes)
    /\ UNCHANGED <<world, killed, stored, obs, misses, tripped, streak, blame>>

HaltNode(n, reached, answered) ==
    /\ pc = "halt_nodes"
    /\ n \in tripped
    /\ Latch(n, reached, answered)
    /\ tripped' = tripped \ {n}
    /\ pc' = AfterMain(tripped' \cap Nodes)
    /\ UNCHANGED <<world, killed, stored, obs, misses, streak, blame>>

Cycle ==
    \/ \E lost \in SUBSET {"health", "floor", "market"} : ProbeApi(lost)
    \/ \E lost \in SUBSET {EXECUTOR} : ProbeExecutor(lost)
    \/ \E lost \in SUBSET Nodes : Decide(lost)
    \/ \E reached, answered, put \in BOOLEAN : HaltApi(reached, answered, put)
    \/ \E reached, answered \in BOOLEAN :
         HaltExecutor(reached, answered) \/ \E n \in Nodes : HaltNode(n, reached, answered)

-----------------------------------------------------------------------------
(* The world. *)

\* External: the API, the market feed or an executor fails or recovers.
Change ==
    /\ Spend("changes")
    /\ \/ floor' \in (Floors \cup {"down"}) \ {floor} /\ UNCHANGED <<market, exec>>
       \/ market' = ~market /\ UNCHANGED <<floor, exec>>
       \/ /\ \E e \in Executors : \E x \in {"good", "bad", "down"} \ {exec[e]} :
               exec' = [exec EXCEPT ![e] = x]
          /\ UNCHANGED <<floor, market>>
    /\ UNCHANGED <<latches, dog, streak, blame>>

\* An operator releases the kill switch, and the store follows.
ReleaseKill ==
    /\ Spend("undone")
    /\ floor # "down"
    /\ killed
    /\ killed' = FALSE
    /\ stored' = FALSE
    /\ UNCHANGED <<world, halted, dog, streak, blame>>

\* An operator releases an executor.
ReleaseHalt(e) ==
    /\ Spend("undone")
    /\ exec[e] # "down"
    /\ halted[e]
    /\ halted' = [halted EXCEPT ![e] = FALSE]
    /\ UNCHANGED <<world, killed, stored, dog, streak, blame>>

\* The API restarts with the controls the store holds.
ApiRestart ==
    /\ Spend("undone")
    /\ killed' = stored
    /\ UNCHANGED <<world, stored, halted, dog, streak, blame>>

\* The watchdog restarts: counts and flags are in its memory only.
WatchdogRestart ==
    /\ Spend("undone")
    /\ pc' = "idle"
    /\ obs' = NoObs
    /\ misses' = [c \in Counted |-> 0]
    /\ tripped' = {}
    /\ flag' = [s \in {API} \cup Executors |-> FALSE]
    /\ streak' = [c \in Counted |-> 0]
    /\ UNCHANGED <<world, latches, blame>>

Next ==
    \/ Cycle
    \/ Change
    \/ ReleaseKill
    \/ \E e \in Executors : ReleaseHalt(e)
    \/ ApiRestart
    \/ WatchdogRestart

Spec == Init /\ [][Next]_vars

\* run: the loop goes on whatever a cycle meets.
FairSpec == Spec /\ WF_vars(Cycle)

-----------------------------------------------------------------------------
\* "Consecutive failed cycles before an outage trips (a single lost probe is not
\* an outage)" (checks.py:25): the watchdog takes the API or the executor as
\* unreachable only after their own probes failed in Grace cycles in a row.
ReachabilityIsSustained ==
    \A c \in tripped \cap {"api", EXECUTOR} : streak[c] >= Threshold[c]

\* The same of the market feed, for MarketGrace cycles in a row.
MarketIsSustained ==
    "market" \in tripped => streak["market"] >= MarketGrace

\* A node's trip halts that node only (runner.py:230, 238), and no node halts for
\* the main checks: the latches of a side are set only after a cycle saw a fault
\* or lost a probe of that side.
HaltsStayOnTheirSide ==
    /\ killed \/ halted[EXECUTOR] => "main" \in blame
    /\ \A n \in Nodes : halted[n] => n \in blame

\* Nothing is halted without cause: an outage trips when it lasts, and a side is
\* halted for what was seen of that side.
HaltsHaveCause == ReachabilityIsSustained /\ HaltsStayOnTheirSide

\* "Halt every side we can reach, every cycle the condition persists, until it
\* took" (runner.py:223): under a fault that stays, every side that is reachable
\* ends up halted and stays so, through lost calls, releases and restarts.
MainFault == floor \in {"bad", "missing", "down"} \/ exec[EXECUTOR] # "good"
             \/ (Executing /\ ~market)
PersistentFaultHalts ==
    /\ <>[]MainFault => \A s \in {API, EXECUTOR} :
                          <>[]Reachable(s) => <>[](IF s = API THEN killed ELSE halted[s])
    /\ \A n \in Nodes : <>[](exec[n] = "bad") => <>[]halted[n]

\* "Accounts | an account cannot be read for the whole outage grace"
\* (docs/watchdog/watchdog.md:22): an account that is never readable again gets
\* the kill switch.
UnreadAccountHalts ==
    <>[](floor \in {"missing", "garbled"}) => <>killed
=============================================================================
