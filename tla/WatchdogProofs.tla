--------------------------- MODULE WatchdogProofs ---------------------------
(***************************************************************************)
(* Theorems about Watchdog, for every set of nodes, every grace and any    *)
(* number of faults, lost messages, releases and restarts.                 *)
(*                                                                         *)
(* HaltsHaveCause is about latches and trips; what leads to them takes     *)
(* several awaits.  The invariant adds that the counters of the API and of *)
(* the executor never run ahead of what their own probes have shown        *)
(* (Counting), and that a halt under way, or one that the store would      *)
(* bring back after a restart, already has its cause (Causes).             *)
(***************************************************************************)
EXTENDS Watchdog, TLAPS

(* Leaves are Zenon's unless they cite SMT; the time is for slow machines. *)
USE ZenonT(60)

(* The counters, their histories and the latches.                          *)
Shape ==
    /\ misses \in [Counted -> Nat]
    /\ streak \in [Counted -> Nat]
    /\ halted \in [Executors -> BOOLEAN]

(* A miss is counted for a probe that failed, and a success resets both.   *)
Counting == \A c \in {"api", EXECUTOR} : misses[c] <= streak[c]

(* A halt that may still take effect is backed by what a cycle saw.        *)
Causes ==
    /\ stored => "main" \in blame
    /\ pc \in {"halt_api", "halt_executor"} => "main" \in blame
    /\ tripped \cap Nodes \subseteq blame

IInv == Shape /\ Counting /\ Causes /\ ReachabilityIsSustained /\ HaltsStayOnTheirSide

LEMMA ExecutorsDiffer == EXECUTOR \notin Nodes /\ EXECUTOR \in Executors /\ Nodes \subseteq Executors
  BY WatchdogAssumption DEF EXECUTOR, Executors

LEMMA CountedFacts ==
  /\ {"api", EXECUTOR} \subseteq Counted
  /\ \A c \in Counted : Threshold[c] \in Nat
  BY WatchdogAssumption DEF Counted, Threshold

------------------------------------------------------------------------------
LEMMA InitIInv == Init => IInv
<1> SUFFICES ASSUME Init PROVE IInv
  OBVIOUS
<1>1. Shape
  BY DEF Init, Shape
<1>2. Counting
  BY SMTT(60), CountedFacts DEF Init, Counting
<1>3. Causes /\ ReachabilityIsSustained
  BY DEF Init, Causes, ReachabilityIsSustained
<1>4. HaltsStayOnTheirSide
  BY ExecutorsDiffer DEF Init, HaltsStayOnTheirSide
<1> QED
  BY <1>1, <1>2, <1>3, <1>4 DEF IInv

------------------------------------------------------------------------------
(* Steps that neither halt nor decide.                                     *)
LEMMA QuietStep ==
  ASSUME IInv, UNCHANGED <<latches, misses, tripped, streak, blame>>,
         pc' \notin {"halt_api", "halt_executor"} \/ pc' = pc
  PROVE  IInv'
<1>1. (Shape /\ Counting /\ ReachabilityIsSustained)'
  BY DEF IInv, Shape, Counting, ReachabilityIsSustained, latches
<1>2. (Causes /\ HaltsStayOnTheirSide)'
  BY DEF IInv, Causes, HaltsStayOnTheirSide, latches
<1> QED
  BY <1>1, <1>2 DEF IInv

(* What trips the main checks is a flaw of the main side, and a node that  *)
(* trips is bad itself.                                                    *)
LEMMA TripsHaveCause ==
  ASSUME NEW o, NEW m
  PROVE  /\ Trips(o, m) \ Nodes # {} => ~Flawless(o)
         /\ \A n \in Trips(o, m) \cap Nodes : o.exec[n] = "bad"
<1>1. ASSUME NEW t \in Trips(o, m), t \notin Nodes PROVE ~Flawless(o)
  BY <1>1 DEF Trips, Flawless, Failing, Read
<1>2. ASSUME NEW n \in Trips(o, m), n \in Nodes PROVE o.exec[n] = "bad"
  BY <1>2, WatchdogAssumption DEF Trips, Failing, Counted, EXECUTOR
<1> QED
  BY <1>1, <1>2

(* The counters after an observation.                                      *)
LEMMA CountersFollow ==
  ASSUME Shape, Counting, NEW o
  PROVE  /\ Sustained(o) \in [Counted -> Nat]
         /\ Streak(o) \in [Counted -> Nat]
         /\ \A c \in {"api", EXECUTOR} : Sustained(o)[c] <= Streak(o)[c]
<1>1. ASSUME NEW c \in Counted
      PROVE  /\ Sustained(o)[c] \in {misses[c], 0, 1, Capped(misses[c] + 1, Threshold[c])}
             /\ Streak(o)[c] \in {0, Capped(streak[c] + 1, Threshold[c])}
  BY DEF Sustained, Streak
<1>2. ASSUME NEW c \in Counted
      PROVE  /\ misses[c] \in Nat /\ streak[c] \in Nat
             /\ Capped(misses[c] + 1, Threshold[c]) \in Nat
             /\ Capped(streak[c] + 1, Threshold[c]) \in Nat
  BY SMTT(60), CountedFacts DEF Shape, Capped
<1>3. Sustained(o) \in [Counted -> Nat] /\ Streak(o) \in [Counted -> Nat]
  BY <1>1, <1>2 DEF Sustained, Streak
<1>4. ASSUME NEW c \in {"api", EXECUTOR}
      PROVE  Sustained(o)[c] <= Streak(o)[c]
  <2>1. c \in Counted /\ c \in Evaluated(o) /\ c # "market" /\ c # "account"
    BY CountedFacts DEF Evaluated, EXECUTOR
  <2>2. CASE c \notin Failing(o)
    BY SMTT(60), <1>1, <1>2, <2>1, <2>2 DEF Sustained
  <2>3. CASE c \in Failing(o)
    <3>1. Sustained(o)[c] = Capped(misses[c] + 1, Threshold[c])
      BY <2>1, <2>3 DEF Sustained
    <3>2. Streak(o)[c] = Capped(streak[c] + 1, Threshold[c])
      BY <2>1, <2>3 DEF Streak
    <3>3. misses[c] <= streak[c]
      BY DEF Counting
    <3> QED
      BY SMTT(60), <1>2, <2>1, <3>1, <3>2, <3>3, CountedFacts DEF Capped
  <2> QED
    BY <2>2, <2>3
<1> QED
  BY <1>3, <1>4

(* The cycle decides.                                                      *)
LEMMA DecideStep ==
  ASSUME IInv, NEW lost \in SUBSET Nodes, Decide(lost)
  PROVE  IInv'
<1> DEFINE o == Seen(obs, Nodes, lost)
           m == Sustained(o)
           trips == Trips(o, m)
<1>1. /\ misses' = m /\ streak' = Streak(o) /\ tripped' = trips
      /\ pc' = IF trips \ Nodes # {} THEN "halt_api" ELSE AfterMain(trips \cap Nodes)
      /\ blame' = blame \cup {s \in {"main"} : ~Flawless(o)}
                        \cup {n \in Nodes : o.exec[n] = "bad"}
      /\ UNCHANGED latches
  BY DEF Decide
<1> HIDE DEF o
<1>2. /\ m \in [Counted -> Nat] /\ Streak(o) \in [Counted -> Nat]
      /\ \A c \in {"api", EXECUTOR} : m[c] <= Streak(o)[c]
  BY CountersFollow DEF IInv
<1>3. Shape' /\ Counting'
  BY <1>1, <1>2 DEF IInv, Shape, Counting, latches
<1>4. ReachabilityIsSustained'
  <2> SUFFICES ASSUME NEW c \in trips \cap {"api", EXECUTOR}
               PROVE  Streak(o)[c] >= Threshold[c]
    BY <1>1 DEF ReachabilityIsSustained
  <2>1. c \notin Nodes
    BY WatchdogAssumption DEF EXECUTOR
  <2>2. m[c] >= Threshold[c]
    BY <2>1 DEF Trips, EXECUTOR
  <2> QED
    BY SMTT(60), <1>2, <2>2, CountedFacts
<1>5. /\ trips \ Nodes # {} => ~Flawless(o)
      /\ \A n \in trips \cap Nodes : o.exec[n] = "bad"
  BY TripsHaveCause
<1>6. Causes'
  <2>1. stored' => "main" \in blame'
    BY <1>1 DEF IInv, Causes, latches
  <2>2. pc' \in {"halt_api", "halt_executor"} => "main" \in blame'
    BY <1>1, <1>5 DEF AfterMain
  <2>3. tripped' \cap Nodes \subseteq blame'
    BY <1>1, <1>5
  <2> QED
    BY <2>1, <2>2, <2>3 DEF Causes
<1>7. HaltsStayOnTheirSide'
  BY <1>1 DEF IInv, HaltsStayOnTheirSide, latches
<1> QED
  BY <1>3, <1>4, <1>6, <1>7 DEF IInv

------------------------------------------------------------------------------
(* The halts.                                                              *)

(* The API is called only after the main side showed or lost something.    *)
LEMMA HaltApiStep ==
  ASSUME IInv, NEW reached \in BOOLEAN, NEW answered \in BOOLEAN, NEW put \in BOOLEAN,
         HaltApi(reached, answered, put)
  PROVE  IInv'
<1>1. /\ "main" \in blame /\ pc' = "halt_executor"
      /\ UNCHANGED <<halted, misses, tripped, streak, blame>>
  BY DEF HaltApi, IInv, Causes
<1>2. (Shape /\ Counting /\ ReachabilityIsSustained)'
  BY <1>1 DEF IInv, Shape, Counting, ReachabilityIsSustained
<1>3. (Causes /\ HaltsStayOnTheirSide)'
  BY <1>1 DEF IInv, Causes, HaltsStayOnTheirSide
<1> QED
  BY <1>2, <1>3 DEF IInv

(* A latch changes on the side that is called and nowhere else.            *)
LEMMA LatchStep ==
  ASSUME Shape, NEW e \in Executors, NEW reached \in BOOLEAN, NEW answered \in BOOLEAN,
         Latch(e, reached, answered)
  PROVE  /\ halted' \in [Executors -> BOOLEAN]
         /\ \A x \in Executors : x # e => halted'[x] = halted[x]
<1>1. CASE halted' = halted
  BY <1>1 DEF Shape
<1>2. CASE halted' = [halted EXCEPT ![e] = @ \/ reached]
  BY <1>2 DEF Shape
<1> QED
  BY <1>1, <1>2 DEF Latch

LEMMA HaltExecutorStep ==
  ASSUME IInv, NEW reached \in BOOLEAN, NEW answered \in BOOLEAN,
         HaltExecutor(reached, answered)
  PROVE  IInv'
<1>1. /\ "main" \in blame /\ pc' \notin {"halt_api", "halt_executor"}
      /\ UNCHANGED <<killed, stored, misses, tripped, streak, blame>>
  BY DEF HaltExecutor, IInv, Causes, AfterMain
<1>2. /\ halted' \in [Executors -> BOOLEAN]
      /\ \A x \in Executors : x # EXECUTOR => halted'[x] = halted[x]
  BY LatchStep, ExecutorsDiffer DEF HaltExecutor, IInv
<1>3. (Shape /\ Counting /\ ReachabilityIsSustained)'
  BY <1>1, <1>2 DEF IInv, Shape, Counting, ReachabilityIsSustained
<1>4. HaltsStayOnTheirSide'
  BY <1>1, <1>2, ExecutorsDiffer DEF IInv, HaltsStayOnTheirSide
<1>5. Causes'
  BY <1>1 DEF IInv, Causes
<1> QED
  BY <1>3, <1>4, <1>5 DEF IInv

LEMMA HaltNodeStep ==
  ASSUME IInv, NEW n \in Nodes, NEW reached \in BOOLEAN, NEW answered \in BOOLEAN,
         HaltNode(n, reached, answered)
  PROVE  IInv'
<1>1. /\ n \in blame /\ pc' \notin {"halt_api", "halt_executor"}
      /\ tripped' \subseteq tripped
      /\ UNCHANGED <<killed, stored, misses, streak, blame>>
  BY DEF HaltNode, IInv, Causes, AfterMain
<1>2. /\ halted' \in [Executors -> BOOLEAN]
      /\ \A x \in Executors : x # n => halted'[x] = halted[x]
  BY LatchStep, ExecutorsDiffer DEF HaltNode, IInv
<1>3. (Shape /\ Counting /\ ReachabilityIsSustained)'
  BY <1>1, <1>2 DEF IInv, Shape, Counting, ReachabilityIsSustained
<1>4. HaltsStayOnTheirSide'
  BY <1>1, <1>2, ExecutorsDiffer DEF IInv, HaltsStayOnTheirSide
<1>5. Causes'
  BY <1>1 DEF IInv, Causes
<1> QED
  BY <1>3, <1>4, <1>5 DEF IInv

------------------------------------------------------------------------------
(* Releases and restarts.                                                  *)

LEMMA ReleaseStep ==
  ASSUME IInv, ReleaseKill \/ ApiRestart \/ \E e \in Executors : ReleaseHalt(e)
  PROVE  IInv'
<1>1. UNCHANGED <<pc, misses, tripped, streak, blame>>
  BY DEF ReleaseKill, ApiRestart, ReleaseHalt, dog
<1>2. /\ stored' => stored
      /\ killed' => killed \/ stored
  BY SMTT(60) DEF ReleaseKill, ApiRestart, ReleaseHalt
<1>3. /\ halted' \in [Executors -> BOOLEAN]
      /\ \A x \in Executors : halted'[x] => halted[x]
  BY DEF ReleaseKill, ApiRestart, ReleaseHalt, IInv, Shape
<1>4. (Shape /\ Counting /\ ReachabilityIsSustained)'
  BY <1>1, <1>3 DEF IInv, Shape, Counting, ReachabilityIsSustained
<1>5. HaltsStayOnTheirSide'
  BY <1>1, <1>2, <1>3, ExecutorsDiffer DEF IInv, HaltsStayOnTheirSide, Causes
<1>6. Causes'
  BY <1>1, <1>2 DEF IInv, Causes
<1> QED
  BY <1>4, <1>5, <1>6 DEF IInv

LEMMA WatchdogRestartStep ==
  ASSUME IInv, WatchdogRestart
  PROVE  IInv'
<1>1. /\ misses' = [c \in Counted |-> 0] /\ streak' = [c \in Counted |-> 0]
      /\ tripped' = {} /\ pc' = "idle" /\ UNCHANGED <<latches, blame>>
  BY DEF WatchdogRestart
<1>2. (Shape /\ Counting /\ ReachabilityIsSustained)'
  BY SMTT(60), <1>1, CountedFacts DEF IInv, Shape, Counting, ReachabilityIsSustained, latches
<1>3. (Causes /\ HaltsStayOnTheirSide)'
  BY <1>1 DEF IInv, Causes, HaltsStayOnTheirSide, latches
<1> QED
  BY <1>2, <1>3 DEF IInv

LEMMA NextIInv == IInv /\ [Next]_vars => IInv'
<1> SUFFICES ASSUME IInv, [Next]_vars PROVE IInv'
  OBVIOUS
<1>1. ASSUME NEW lost, ProbeApi(lost) PROVE IInv'
  BY <1>1, QuietStep DEF ProbeApi
<1>2. ASSUME NEW lost, ProbeExecutor(lost) PROVE IInv'
  BY <1>2, QuietStep DEF ProbeExecutor
<1>3. CASE Change
  BY <1>3, QuietStep DEF Change, dog
<1>4. CASE UNCHANGED vars
  BY <1>4, QuietStep DEF vars, dog
<1> QED
  BY <1>1, <1>2, <1>3, <1>4, DecideStep, HaltApiStep, HaltExecutorStep, HaltNodeStep,
     ReleaseStep, WatchdogRestartStep
  DEF Next, Cycle

------------------------------------------------------------------------------
(* The inductive invariant holds in every reachable state.                 *)
THEOREM Invariance == Spec => []IInv
  BY InitIInv, NextIInv, PTL DEF Spec

(* For any number of nodes, lost probes, lost answers, releases and        *)
(* restarts, the watchdog takes a side as unreachable only after Grace     *)
(* failures in a row and halts a side only for what it saw of that side    *)
(* (checks.py, runner.py).                                                 *)
THEOREM NeverHaltsWithoutCause == Spec => []HaltsHaveCause
<1>1. IInv => HaltsHaveCause
  BY DEF IInv, HaltsHaveCause
<1> QED
  BY <1>1, Invariance, PTL
==============================================================================
