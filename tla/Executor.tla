------------------------------ MODULE Executor ------------------------------
(***************************************************************************)
(* The isolated executor of apps/executor/runtime.py: when it lets orders  *)
(* in, how it reconciles the ledger with the venue, and the halt latch     *)
(* that is kept in memory and in one row of the database.                  *)
(*                                                                         *)
(* The OMS is modelled in Oms; of an order only its fill matters here.     *)
(* `filled` are the orders the venue has executed, `booked` the ones whose *)
(* fill is in the ledger, and `drift` says that the account was moved by   *)
(* something else (a withdrawal, a manual trade).  The totals agree when   *)
(* filled = booked and there is no drift.                                  *)
(*                                                                         *)
(* reconcile and release_halt both look at the ledger and then at the      *)
(* venue; each await is a step, so everything else may happen in between.  *)
(* Reconciliations are serialised by _reconcile_lock; `wants` holds the    *)
(* handlers that still have to run theirs before they return.              *)
(***************************************************************************)
EXTENDS Naturals, FiniteSets

CONSTANTS Orders,       \* intents that may be dispatched
          MaxCrashes, MaxDrifts, MaxReadFaults, MaxWriteFaults, MaxReleases, MaxTrips

ASSUME BoundAssumption ==
  {MaxCrashes, MaxDrifts, MaxReadFaults, MaxWriteFaults, MaxReleases, MaxTrips} \subseteq Nat

(* An order is not one of the other callers of reconcile.                  *)
ASSUME OrdersAssumption == Orders \cap {"start", "release", "job"} = {}

VARIABLES phase,     \* "down", "starting" or "up"
          halted,    \* Executor.halted: "no", "divergence" or "watchdog"
          row,       \* the executor_halts row, same values
          sub,       \* where submit stands for each order
          filled, booked, drift,
          rec,       \* the reconciliation holding the lock
          rel,       \* the operator's release_halt
          dog,       \* the watchdog's halt call: "idle" or "write"
          wants,     \* handlers whose reconciliation is still due
          consistent,\* last_consistent: "unknown", "yes" or "no"
          standing,  \* history: a halt was called and no operator has released it
          left       \* what remains of each bound

account == <<filled, booked, drift>>
latch == <<halted, row, standing>>
vars == <<phase, latch, sub, account, rec, rel, dog, wants, consistent, left>>

Callers == Orders \cup {"start", "release", "job"}
Looking == [pc |-> "idle", by |-> "job", seen |-> {}, agree |-> FALSE]

Init ==
  /\ phase = "down"
  /\ halted = "no" /\ row = "no" /\ standing = FALSE
  /\ sub = [o \in Orders |-> "new"]
  /\ filled = {} /\ booked = {} /\ drift = FALSE
  /\ rec = Looking /\ rel = Looking
  /\ dog = "idle"
  /\ wants = {}
  /\ consistent = "unknown"
  /\ left = [crash |-> MaxCrashes, drift |-> MaxDrifts, read |-> MaxReadFaults,
             write |-> MaxWriteFaults, release |-> MaxReleases, trip |-> MaxTrips]

Spend(kind) == left[kind] > 0 /\ left' = [left EXCEPT ![kind] = @ - 1]

------------------------------------------------------------------------------
(* submit: the halt is checked before the OMS lock is waited for.          *)

Admit(o) ==
  /\ phase = "up"
  /\ sub[o] = "new"
  /\ halted = "no"
  /\ sub' = [sub EXCEPT ![o] = "queued"]
  /\ UNCHANGED <<phase, latch, account, rec, rel, dog, wants, consistent, left>>

OmsLockFree == \A o \in Orders : sub[o] # "sent"

Send(o) ==
  /\ sub[o] = "queued"
  /\ OmsLockFree
  /\ sub' = [sub EXCEPT ![o] = "sent"]
  /\ UNCHANGED <<phase, latch, account, rec, rel, dog, wants, consistent, left>>

(* The OMS refuses the order, or one of its writes fails before the venue  *)
(* is called: submit raises and does not reconcile.                        *)
Refused(o) ==
  /\ sub[o] = "queued"
  /\ sub' = [sub EXCEPT ![o] = "new"]
  /\ UNCHANGED <<phase, latch, account, rec, rel, dog, wants, consistent, left>>

(* The answer books what the venue had filled; submit then reconciles.     *)
Answered(o) ==
  /\ sub[o] = "sent"
  /\ sub' = [sub EXCEPT ![o] = "done"]
  /\ booked' = booked \cup ({o} \cap filled)
  /\ wants' = wants \cup {o}
  /\ UNCHANGED <<phase, latch, filled, drift, rec, rel, dog, consistent, left>>

(* poll_open_orders, or an operator's resolve or cancel.                   *)
Book(o) ==
  /\ phase = "up"
  /\ OmsLockFree
  /\ sub[o] = "done"
  /\ o \in filled \ booked
  /\ booked' = booked \cup {o}
  /\ UNCHANGED <<phase, latch, sub, filled, drift, rec, rel, dog, wants, consistent, left>>

(* External: the venue executes an order it holds; the account moves.      *)
VenueFills(o) ==
  /\ sub[o] \in {"sent", "done"}
  /\ o \notin filled
  /\ filled' = filled \cup {o}
  /\ UNCHANGED <<phase, latch, sub, booked, drift, rec, rel, dog, wants, consistent, left>>

VenueDrifts ==
  /\ Spend("drift")
  /\ drift' = ~drift
  /\ UNCHANGED <<phase, latch, sub, filled, booked, rec, rel, dog, wants, consistent>>

------------------------------------------------------------------------------
(* reconcile.                                                              *)

Reconcile(c) ==
  /\ rec.pc = "idle"
  /\ c \in wants \/ (c = "job" /\ phase = "up")
  /\ rec' = [pc |-> "venue", by |-> c, seen |-> booked, agree |-> FALSE]
  /\ UNCHANGED <<phase, latch, sub, account, rel, dog, wants, consistent, left>>

VenueLook(seen) == seen = filled /\ ~drift

ReconcileReads ==
  /\ rec.pc = "venue"
  /\ rec' = [rec EXCEPT !.pc = "decide", !.agree = VenueLook(rec.seen)]
  /\ UNCHANGED <<phase, latch, sub, account, rel, dog, wants, consistent, left>>

(* The caller returns: a start is complete, a release has ended.           *)
Finish ==
  /\ rec' = Looking
  /\ wants' = wants \ {rec.by}
  /\ phase' = IF rec.by = "start" THEN "up" ELSE phase
  /\ rel' = IF rec.by = "release" THEN Looking ELSE rel

(* Mutant: only the first divergence is noticed, not one after a release.  *)
ReconcileDecidesOnce ==
  /\ rec.pc = "decide"
  /\ consistent' = IF rec.agree THEN "yes" ELSE "no"
  /\ IF ~rec.agree /\ halted = "no" /\ consistent # "no"
     THEN /\ halted' = "divergence" /\ standing' = TRUE
          /\ rec' = [rec EXCEPT !.pc = "write"]
          /\ UNCHANGED <<phase, rel, wants>>
     ELSE Finish /\ UNCHANGED <<halted, standing>>
  /\ UNCHANGED <<row, sub, account, dog, left>>

ReconcileDecides ==
  /\ rec.pc = "decide"
  /\ consistent' = IF rec.agree THEN "yes" ELSE "no"
  /\ IF ~rec.agree /\ halted = "no"
     THEN /\ halted' = "divergence" /\ standing' = TRUE
          /\ rec' = [rec EXCEPT !.pc = "write"]
          /\ UNCHANGED <<phase, rel, wants>>
     ELSE Finish /\ UNCHANGED <<halted, standing>>
  /\ UNCHANGED <<row, sub, account, dog, left>>

(* _latch, its second half: the row is replaced in one transaction, or the *)
(* failure is logged and swallowed.                                        *)
Persist(reason) ==
  \/ row' = reason /\ UNCHANGED left
  \/ UNCHANGED row /\ Spend("write")

ReconcilePersists ==
  /\ rec.pc = "write"
  /\ Persist("divergence")
  /\ Finish
  /\ UNCHANGED <<halted, standing, sub, account, dog, consistent>>

(* The venue cannot be read: the caller fails.  A start that fails ends    *)
(* the process.                                                            *)
ReconcileRaises ==
  /\ rec.pc = "venue"
  /\ Spend("read")
  /\ rec' = Looking
  /\ wants' = wants \ {rec.by}
  /\ rel' = IF rec.by = "release" THEN Looking ELSE rel
  /\ phase' = IF rec.by = "start" THEN "down" ELSE phase
  /\ halted' = IF rec.by = "start" THEN "no" ELSE halted
  /\ UNCHANGED <<row, standing, sub, account, dog, consistent>>

------------------------------------------------------------------------------
(* watchdog_halt.                                                          *)

WatchdogHalt ==
  /\ phase = "up"
  /\ dog = "idle"
  /\ halted = "no"
  /\ Spend("trip")
  /\ halted' = "watchdog" /\ standing' = TRUE
  /\ dog' = "write"
  /\ UNCHANGED <<phase, row, sub, account, rec, rel, wants, consistent>>

(* Mutant: only the memory is latched.                                     *)
WatchdogForgets ==
  /\ dog = "write"
  /\ dog' = "idle"
  /\ UNCHANGED <<phase, latch, sub, account, rec, rel, wants, consistent, left>>

WatchdogPersists ==
  /\ dog = "write"
  /\ Persist("watchdog")
  /\ dog' = "idle"
  /\ UNCHANGED <<phase, halted, standing, sub, account, rec, rel, wants, consistent>>

------------------------------------------------------------------------------
(* release_halt.                                                           *)

Release ==
  /\ phase = "up"
  /\ rel.pc = "idle"
  /\ Spend("release")
  /\ rel' = [Looking EXCEPT !.pc = "venue", !.seen = booked]
  /\ UNCHANGED <<phase, latch, sub, account, rec, dog, wants, consistent>>

ReleaseReads ==
  /\ rel.pc = "venue"
  /\ rel' = [rel EXCEPT !.pc = "decide", !.agree = VenueLook(rel.seen)]
  /\ UNCHANGED <<phase, latch, sub, account, rec, dog, wants, consistent, left>>

(* Refused while they disagree; otherwise the row goes first.              *)
ReleaseDecides ==
  /\ rel.pc = "decide"
  /\ IF rel.agree
     THEN row' = "no" /\ rel' = [rel EXCEPT !.pc = "clear"]
     ELSE rel' = Looking /\ UNCHANGED row
  /\ UNCHANGED <<phase, halted, standing, sub, account, rec, dog, wants, consistent, left>>

(* Mutant: no reconciliation after the release.                            *)
ReleaseClearsOnly ==
  /\ rel.pc = "clear"
  /\ halted' = "no" /\ standing' = FALSE
  /\ rel' = Looking
  /\ UNCHANGED <<phase, row, sub, account, rec, dog, wants, consistent, left>>

ReleaseClears ==
  /\ rel.pc = "clear"
  /\ halted' = "no" /\ standing' = FALSE
  /\ rel' = [rel EXCEPT !.pc = "reconcile"]
  /\ wants' = wants \cup {"release"}
  /\ UNCHANGED <<phase, row, sub, account, rec, dog, consistent, left>>

(* Reading the venue or deleting the row fails: nothing has changed.       *)
ReleaseRaises ==
  /\ rel.pc \in {"venue", "decide"}
  /\ Spend("read")
  /\ rel' = Looking
  /\ UNCHANGED <<phase, latch, sub, account, rec, dog, wants, consistent>>

------------------------------------------------------------------------------
(* The process.  An order that was sent comes back as UNKNOWN and may      *)
(* still fill; one that was only queued is gone and may be dispatched      *)
(* again.                                                                  *)
Crash ==
  /\ phase # "down"
  /\ Spend("crash")
  /\ phase' = "down"
  /\ halted' = "no"
  /\ sub' = [o \in Orders |-> IF sub[o] \in {"sent", "done"} THEN "done" ELSE "new"]
  /\ rec' = Looking /\ rel' = Looking
  /\ dog' = "idle"
  /\ wants' = {}
  /\ consistent' = "unknown"
  /\ UNCHANGED <<row, standing, account>>

(* start: restore the halt, recover the book, reconcile, then serve.       *)
Start ==
  /\ phase = "down"
  /\ phase' = "starting"
  /\ halted' = row
  /\ wants' = {"start"}
  /\ UNCHANGED <<row, standing, sub, account, rec, rel, dog, consistent, left>>

------------------------------------------------------------------------------
ReconcileStep == ReconcileReads \/ ReconcileDecides \/ ReconcilePersists
ReleaseStep == ReleaseReads \/ ReleaseDecides \/ ReleaseClears

Next ==
  \/ \E o \in Orders : Admit(o) \/ Send(o) \/ Refused(o) \/ Answered(o) \/ Book(o) \/ VenueFills(o)
  \/ VenueDrifts
  \/ \E c \in Callers : Reconcile(c)
  \/ ReconcileStep \/ ReconcileRaises
  \/ WatchdogHalt \/ WatchdogPersists
  \/ Release \/ ReleaseStep \/ ReleaseRaises
  \/ Crash \/ Start

Spec == Init /\ [][Next]_vars

------------------------------------------------------------------------------
Reasons == {"no", "divergence", "watchdog"}

(* Type invariant of the executor.                                         *)
TypeOK ==
  /\ phase \in {"down", "starting", "up"}
  /\ halted \in Reasons /\ row \in Reasons
  /\ sub \in [Orders -> {"new", "queued", "sent", "done"}]
  /\ filled \subseteq Orders /\ booked \subseteq filled /\ drift \in BOOLEAN
  /\ rec \in [pc : {"idle", "venue", "decide", "write"}, by : Callers,
              seen : SUBSET Orders, agree : BOOLEAN]
  /\ rel \in [pc : {"idle", "venue", "decide", "clear", "reconcile"}, by : Callers,
              seen : SUBSET Orders, agree : BOOLEAN]
  /\ dog \in {"idle", "write"}
  /\ wants \subseteq Callers
  /\ consistent \in {"unknown", "yes", "no"}
  /\ standing \in BOOLEAN
  /\ left \in [{"crash", "drift", "read", "write", "release", "trip"} -> Nat]

(* The executor is open for orders only when the last finished             *)
(* reconciliation agreed, whatever runs at the same time: a halted one     *)
(* that finds a divergence does not latch, and a release clears what it    *)
(* did not see.  While the release's own reconciliation is due, or after   *)
(* a venue read failed in it, only the release's earlier check stands      *)
(* (start, reconcile and release_halt).                                    *)
OpenMeansConsistent ==
  /\ phase = "up" /\ halted = "no"
  /\ rel.pc # "reconcile" /\ left.read = MaxReadFaults
  => consistent = "yes"

(* A halt that is in force and not being written or released is in the     *)
(* database, so a crash now cannot undo it, unless a write failed.         *)
HaltIsDurable ==
  /\ phase = "up" /\ halted # "no"
  /\ rec.pc # "write" /\ dog = "idle" /\ rel.pc # "clear"
  /\ left.write = MaxWriteFaults
  => row # "no"

(* Being open is earned and being halted is kept: what the executor        *)
(* believes, what it last saw and what a restart would find fit together.  *)
HaltsHold == OpenMeansConsistent /\ HaltIsDurable

(* "a restart never releases it": while a halt was called and no operator  *)
(* has released it, a running executor is halted (start and _latch).       *)
RestartKeepsTheHalt == phase = "up" /\ standing => halted # "no"

------------------------------------------------------------------------------
(* The loop keeps reconciling, an operation that has started goes on, and  *)
(* a supervisor restarts the process.                                      *)
Fairness ==
  /\ WF_vars(ReconcileStep)
  /\ \A c \in Callers : SF_vars(Reconcile(c))
  /\ WF_vars(ReleaseStep)
  /\ WF_vars(WatchdogPersists)
  /\ WF_vars(Start)
  /\ \A o \in Orders : WF_vars(Send(o)) /\ WF_vars(Answered(o))

FairSpec == Spec /\ Fairness

(* An account that stays moved halts the executor for good: no release,    *)
(* crash or reconciliation with an old reading leaves it open.             *)
DriftHalts == <>[]drift => <>[](halted # "no")
==============================================================================
