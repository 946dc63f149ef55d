--------------------------- MODULE MCControlPlane ---------------------------
(* Small instances of ControlPlane for TLC: one caller of each component,   *)
(* for what must happen, and callers that share what they change, two       *)
(* handlers, two supervisors on one job table and two watchdogs with one    *)
(* stored window.  The handlers that share the controls run three times:    *)
(* without releases (Controls), with every request at once (Releases), and  *)
(* one request at a time through more faults and a restart (Single).        *)
EXTENDS ControlPlane, TLC

\* A mission that needs the risk gate, and two buckets of the schedule.
GatedMission == {<<"mission", 1>>}
NoMissions == {}
SoleRegistered ==
    [p \in {"p1"} |-> GatedMission \cup {<<"periodic", 0>>, <<"periodic", 1>>}]

\* Every API process signs with the same worker_id; the second one runs without
\* the handlers of the event jobs.
SharedOwner == [p \in Procs |-> "proto-api-safe-worker"]
PartlyRegistered ==
    [p \in Procs |->
        {<<"periodic", 0>>} \cup IF p = "p1" THEN {<<"event", 1>>} ELSE {}]

Symmetry == Permutations(Handlers) \cup Permutations(Dogs)

Requests == {"trigger", "release", "unlock", "assess"}

Releases ==
    INSTANCE RiskControls WITH Kills <- {"k1"}, Ops <- Requests, MaxCrashes <- 0,
        MaxReadFaults <- 0, MaxPutFaults <- 1, MaxBreaches <- 1

Single ==
    INSTANCE RiskControls WITH Kills <- {"k1"}, Ops <- Requests, MaxCrashes <- 1,
        MaxReadFaults <- 1, MaxPutFaults <- 2, MaxBreaches <- 1

\* The startup has connected and read an empty row before any handler runs
\* (restore_controls, awaited by the application's lifespan).
Restored == [Releases!Boot({}) EXCEPT !.status = "durable", !.gen = 2, !.loaded = 2]

RestoredInit ==
    /\ mem = Restored /\ db = {} /\ breach = FALSE
    /\ call = [h \in Handlers |-> Releases!Idle]
    /\ left = IF running = "releases" THEN [crash |-> 0, read |-> 0, put |-> 1, breach |-> 1]
              ELSE [crash |-> 1, read |-> 1, put |-> 2, breach |-> 1]
    /\ past = Releases!Unharmed

SharedInit ==
    /\ running \in Parts \cup {"releases", "single"}
    /\ IF running \in Parts THEN Controls!Init ELSE RestoredInit
    /\ Jobs!Init /\ Coverage!Init

ReleasesNext ==
    running = "releases" /\ Releases!Next /\ UNCHANGED <<running, jobs, coverage>>

\* At most one handler is under way.
SingleNext ==
    /\ running = "single" /\ Single!Next /\ UNCHANGED <<running, jobs, coverage>>
    /\ \E h \in Handlers : \A g \in Handlers \ {h} : call'[g] = Single!Idle

SharedSpec == SharedInit /\ [][Next \/ ReleasesNext \/ SingleNext]_all

\* A control that was set stays set, in memory and in the row a restart restores,
\* until an operator releases it, though two handlers trigger, release, unlock and
\* assess at once (governor_ready, persist_controls, _release), but for a failed
\* release put back over it and for handlers that cross on the row.
ControlsStay ==
    /\ running = "controls" => Controls!ControlsStay
    /\ running = "releases" => Releases!ControlsStay
    /\ running = "single" => Single!ControlsStay
=============================================================================
