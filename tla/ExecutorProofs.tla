--------------------------- MODULE ExecutorProofs ---------------------------
(***************************************************************************)
(* HaltsHold, for any orders and any number of crashes, drifts, releases,  *)
(* trips and failing calls.                                                *)
(*                                                                         *)
(* Neither half of HaltsHold is inductive.  A reconciliation that ends a   *)
(* release must not be taken for another one, so `Owners` says who a       *)
(* reconciliation works for and where its caller waits; and a divergence   *)
(* found for a start or a release is still latched when its row is         *)
(* written (`Latched`), because no other release can be under way.         *)
(***************************************************************************)
EXTENDS Executor, TLAPS

(* Leaves are Zenon's unless they cite SMT; the time is for slow machines. *)
USE ZenonT(60)

Budgets == {"crash", "drift", "read", "write", "release", "trip"}

Shapes ==
  /\ left \in [Budgets -> Nat]
  /\ left["read"] <= MaxReadFaults /\ left["write"] <= MaxWriteFaults
  /\ rec = [pc |-> rec.pc, by |-> rec.by, seen |-> rec.seen, agree |-> rec.agree]
  /\ rel = [pc |-> rel.pc, by |-> rel.by, seen |-> rel.seen, agree |-> rel.agree]

Owners ==
  /\ phase # "up" => rel.pc = "idle"
  /\ "start" \in wants => phase = "starting"
  /\ "release" \in wants => rel.pc = "reconcile"
  /\ rec.pc # "idle" /\ rec.by = "start" => phase = "starting"
  /\ rec.pc # "idle" /\ rec.by = "release" => rel.pc = "reconcile"

Latched == rec.pc = "write" /\ rec.by \in {"start", "release"} => halted # "no"

Durable ==
  /\ halted # "no" /\ rec.pc # "write" /\ dog = "idle" /\ rel.pc # "clear"
  /\ left["write"] = MaxWriteFaults
  => row # "no"

Open ==
  /\ phase = "up" /\ halted = "no" /\ rel.pc # "reconcile" /\ left["read"] = MaxReadFaults
  => consistent = "yes"

IInv == Shapes /\ Owners /\ Latched /\ Durable /\ Open

LEMMA InitIInv == Init => IInv
<1> SUFFICES ASSUME Init PROVE IInv
  OBVIOUS
<1>1. Shapes
  BY SMTT(60), BoundAssumption DEF Init, Shapes, Looking, Budgets
<1> QED
  BY <1>1 DEF Init, IInv, Owners, Latched, Durable, Open, Looking

\* A fault that is spent is never had again.
LEMMA Spending ==
  ASSUME Shapes, NEW k \in Budgets, Spend(k)
  PROVE  /\ left' \in [Budgets -> Nat]
         /\ \A j \in Budgets : left'[j] <= left[j]
         /\ left'[k] < left[k]
         /\ \A j \in Budgets \ {k} : left'[j] = left[j]
  BY SMTT(60) DEF Shapes, Spend

\* Steps of the orders and of the account do not touch the halt.
LEMMA OrdersKeep ==
  ASSUME IInv, NEW o \in Orders,
         Admit(o) \/ Send(o) \/ Refused(o) \/ Answered(o) \/ Book(o) \/ VenueFills(o)
  PROVE  IInv'
<1>1. o # "start" /\ o # "release"
  BY OrdersAssumption
<1>2. wants' \subseteq wants \cup {o}
  BY DEF Admit, Send, Refused, Answered, Book, VenueFills
<1>3. UNCHANGED <<phase, halted, row, rec, rel, dog, consistent, left>>
  BY DEF Admit, Send, Refused, Answered, Book, VenueFills, latch
<1> QED
  BY <1>1, <1>2, <1>3 DEF IInv, Shapes, Owners, Latched, Durable, Open

LEMMA DriftKeeps == ASSUME IInv, VenueDrifts PROVE IInv'
<1>1. Spend("drift") /\ UNCHANGED <<phase, halted, row, rec, rel, dog, wants, consistent>>
  BY DEF VenueDrifts, latch
<1>2. left' \in [Budgets -> Nat] /\ left'["read"] = left["read"] /\ left'["write"] = left["write"]
  BY <1>1, Spending DEF IInv, Budgets
<1> QED
  BY <1>1, <1>2 DEF IInv, Shapes, Owners, Latched, Durable, Open

LEMMA ReconcileKeeps ==
  ASSUME IInv, NEW c \in Callers, Reconcile(c)
  PROVE  IInv'
<1>1. /\ rec.pc = "idle" /\ (c \in wants \/ c = "job")
      /\ rec' = [pc |-> "venue", by |-> c, seen |-> booked, agree |-> FALSE]
      /\ UNCHANGED <<phase, halted, row, rel, dog, wants, consistent, left>>
  BY DEF Reconcile, latch
<1> QED
  BY <1>1 DEF IInv, Shapes, Owners, Latched, Durable, Open

LEMMA ReconcileReadsKeeps == ASSUME IInv, ReconcileReads PROVE IInv'
<1>1. /\ rec.pc = "venue" /\ rec'.pc = "decide" /\ rec'.by = rec.by
      /\ rec' = [pc |-> rec'.pc, by |-> rec'.by, seen |-> rec'.seen, agree |-> rec'.agree]
      /\ UNCHANGED <<phase, halted, row, rel, dog, wants, consistent, left>>
  BY DEF ReconcileReads, latch, IInv, Shapes
<1> QED
  BY <1>1 DEF IInv, Shapes, Owners, Latched, Durable, Open

\* The end of a reconciliation: what Finish leaves of the halt's bookkeeping.
LEMMA Finished ==
  ASSUME IInv, rec.pc # "idle", Finish
  PROVE  /\ Owners'
         /\ rec' = Looking /\ rel' \in {rel, Looking}
         /\ rec.by # "release" => rel' = rel
         /\ rec.by # "start" => phase' = phase
  BY DEF IInv, Shapes, Owners, Finish, Looking

LEMMA ReconcileDecidesKeeps == ASSUME IInv, ReconcileDecides PROVE IInv'
<1>1. CASE ~rec.agree /\ halted = "no"
  <2>1. /\ halted' = "divergence" /\ rec'.pc = "write" /\ rec'.by = rec.by
        /\ rec' = [pc |-> rec'.pc, by |-> rec'.by, seen |-> rec'.seen, agree |-> rec'.agree]
        /\ UNCHANGED <<phase, row, rel, dog, wants, left>>
    BY <1>1 DEF ReconcileDecides, IInv, Shapes
  <2> QED
    BY <2>1 DEF ReconcileDecides, IInv, Shapes, Owners, Latched, Durable, Open
<1>2. CASE ~(~rec.agree /\ halted = "no")
  <2>1. /\ rec.pc = "decide" /\ Finish /\ UNCHANGED <<halted, row, dog, left>>
        /\ halted = "no" => consistent' = "yes"
    BY <1>2 DEF ReconcileDecides
  <2>2. /\ Owners' /\ rec' = Looking /\ rel' \in {rel, Looking}
        /\ rec.by # "release" => rel' = rel
    BY <2>1, Finished
  <2>3. rec.by = "release" => rel.pc = "reconcile"
    BY <2>1 DEF IInv, Owners
  <2>4. Durable'
    BY <2>1, <2>2, <2>3 DEF IInv, Durable, Looking
  <2> QED
    BY <2>1, <2>2, <2>4 DEF IInv, Shapes, Latched, Open, Looking
<1> QED
  BY <1>1, <1>2

LEMMA Persisting ==
  ASSUME Shapes, NEW reason, reason # "no", Persist(reason)
  PROVE  /\ left' \in [Budgets -> Nat] /\ left'["read"] = left["read"]
         /\ left'["write"] <= left["write"]
         /\ row' # "no" \/ left'["write"] # MaxWriteFaults
<1>1. CASE row' = reason /\ UNCHANGED left
  BY SMTT(60), <1>1 DEF Shapes, Budgets
<1>2. CASE Spend("write")
  <2>1. /\ left' \in [Budgets -> Nat] /\ left'["write"] < left["write"] /\ left'["read"] = left["read"]
    BY <1>2, Spending DEF Budgets
  <2> QED
    BY SMTT(60), <2>1, BoundAssumption DEF Shapes, Budgets
<1> QED
  BY <1>1, <1>2 DEF Persist

LEMMA ReconcilePersistsKeeps == ASSUME IInv, ReconcilePersists PROVE IInv'
<1>1. /\ rec.pc = "write" /\ Persist("divergence") /\ Finish
      /\ UNCHANGED <<halted, dog, consistent>>
  BY DEF ReconcilePersists
<1>2. /\ left' \in [Budgets -> Nat] /\ left'["read"] = left["read"]
      /\ left'["write"] <= left["write"]
      /\ row' # "no" \/ left'["write"] # MaxWriteFaults
  BY <1>1, Persisting DEF IInv
<1>3. /\ Owners' /\ rec' = Looking /\ rel' \in {rel, Looking}
      /\ rec.by # "release" => rel' = rel
      /\ rec.by # "start" => phase' = phase
  BY <1>1, Finished
<1>4. Shapes'
  BY SMTT(60), <1>2, <1>3, BoundAssumption DEF IInv, Shapes, Looking, Budgets
<1>5. Open'
  BY <1>1, <1>2, <1>3 DEF IInv, Latched, Open
<1> QED
  BY <1>2, <1>3, <1>4, <1>5 DEF IInv, Latched, Durable, Looking

LEMMA ReconcileRaisesKeeps == ASSUME IInv, ReconcileRaises PROVE IInv'
<1>1. /\ left' \in [Budgets -> Nat] /\ left'["read"] < left["read"] /\ left'["write"] = left["write"]
  <2>1. Spend("read")
    BY DEF ReconcileRaises
  <2> QED
    BY <2>1, Spending DEF IInv, Budgets
<1>2. Shapes'
  <2>1. rec' = Looking /\ rel' \in {rel, Looking}
    BY DEF ReconcileRaises
  <2> QED
    BY SMTT(60), <1>1, <2>1, BoundAssumption DEF IInv, Shapes, Looking, Budgets
<1>3. left'["read"] # MaxReadFaults
  BY SMTT(60), <1>1, BoundAssumption DEF IInv, Shapes, Budgets
<1>4. Owners' /\ Latched' /\ Durable'
  BY <1>1 DEF ReconcileRaises, IInv, Owners, Latched, Durable, Looking
<1> QED
  BY <1>2, <1>3, <1>4 DEF IInv, Open

\* Steps of the watchdog's call.
LEMMA WatchdogKeeps == ASSUME IInv, WatchdogHalt \/ WatchdogPersists PROVE IInv'
<1>1. CASE WatchdogHalt
  <2>1. /\ Spend("trip") /\ halted' = "watchdog" /\ dog' = "write"
        /\ UNCHANGED <<phase, row, rec, rel, wants, consistent>>
    BY <1>1 DEF WatchdogHalt
  <2>2. left' \in [Budgets -> Nat] /\ left'["read"] = left["read"] /\ left'["write"] = left["write"]
    BY <2>1, Spending DEF IInv, Budgets
  <2> QED
    BY <2>1, <2>2 DEF IInv, Shapes, Owners, Latched, Durable, Open
<1>2. CASE WatchdogPersists
  <2>1. Persist("watchdog") /\ UNCHANGED <<phase, halted, rec, rel, wants, consistent>>
    BY <1>2 DEF WatchdogPersists
  <2>2. /\ left' \in [Budgets -> Nat] /\ left'["read"] = left["read"]
        /\ left'["write"] <= left["write"]
        /\ row' # "no" \/ left'["write"] # MaxWriteFaults
    BY <2>1, Persisting DEF IInv
  <2>3. Shapes'
    BY SMTT(60), <2>1, <2>2, BoundAssumption DEF IInv, Shapes, Budgets
  <2> QED
    BY <2>1, <2>2, <2>3 DEF IInv, Owners, Latched, Durable, Open
<1> QED
  BY <1>1, <1>2

LEMMA ReleaseKeeps == ASSUME IInv, Release PROVE IInv'
<1>1. /\ Spend("release") /\ rel.pc = "idle" /\ phase = "up"
      /\ rel' = [pc |-> "venue", by |-> "job", seen |-> booked, agree |-> FALSE]
      /\ UNCHANGED <<phase, halted, row, rec, dog, wants, consistent>>
  BY DEF Release, latch, Looking
<1>2. left' \in [Budgets -> Nat] /\ left'["read"] = left["read"] /\ left'["write"] = left["write"]
  BY <1>1, Spending DEF IInv, Budgets
<1> QED
  BY <1>1, <1>2 DEF IInv, Shapes, Owners, Latched, Durable, Open

LEMMA ReleaseStepKeeps == ASSUME IInv, ReleaseStep PROVE IInv'
<1>1. CASE ReleaseReads
  <2>1. /\ rel.pc = "venue" /\ rel'.pc = "decide"
        /\ rel' = [pc |-> rel'.pc, by |-> rel'.by, seen |-> rel'.seen, agree |-> rel'.agree]
        /\ UNCHANGED <<phase, halted, row, rec, dog, wants, consistent, left>>
    BY <1>1 DEF ReleaseReads, latch, IInv, Shapes
  <2> QED
    BY <2>1 DEF IInv, Shapes, Owners, Latched, Durable, Open
<1>2. CASE ReleaseDecides
  <2>1. rel.pc = "decide" /\ UNCHANGED <<phase, halted, rec, dog, wants, consistent, left>>
    BY <1>2 DEF ReleaseDecides
  <2>2. \/ rel' = [rel EXCEPT !.pc = "clear"]
        \/ rel' = Looking /\ row' = row
    BY <1>2 DEF ReleaseDecides
  <2>3. CASE rel' = [rel EXCEPT !.pc = "clear"]
    <3>1. /\ rel'.pc = "clear"
          /\ rel' = [pc |-> rel'.pc, by |-> rel'.by, seen |-> rel'.seen, agree |-> rel'.agree]
      BY <2>3 DEF IInv, Shapes
    <3> QED
      BY <2>1, <3>1 DEF IInv, Shapes, Owners, Latched, Durable, Open
  <2>4. CASE rel' = Looking /\ row' = row
    BY <2>1, <2>4 DEF IInv, Shapes, Owners, Latched, Durable, Open, Looking
  <2> QED
    BY <2>2, <2>3, <2>4
<1>3. CASE ReleaseClears
  <2>1. /\ rel.pc = "clear" /\ halted' = "no" /\ rel'.pc = "reconcile"
        /\ rel' = [pc |-> rel'.pc, by |-> rel'.by, seen |-> rel'.seen, agree |-> rel'.agree]
        /\ wants' = wants \cup {"release"}
        /\ UNCHANGED <<phase, row, rec, dog, consistent, left>>
    BY <1>3 DEF ReleaseClears, IInv, Shapes
  <2> QED
    BY <2>1 DEF IInv, Shapes, Owners, Latched, Durable, Open
<1> QED
  BY <1>1, <1>2, <1>3 DEF ReleaseStep

LEMMA ReleaseRaisesKeeps == ASSUME IInv, ReleaseRaises PROVE IInv'
<1>1. /\ Spend("read") /\ rel.pc \in {"venue", "decide"} /\ rel' = Looking
      /\ UNCHANGED <<phase, halted, row, rec, dog, wants, consistent>>
  BY DEF ReleaseRaises, latch
<1>2. left' \in [Budgets -> Nat] /\ left'["read"] < left["read"] /\ left'["write"] = left["write"]
  BY <1>1, Spending DEF IInv, Budgets
<1>3. Shapes' /\ left'["read"] # MaxReadFaults
  BY SMTT(60), <1>1, <1>2, BoundAssumption DEF IInv, Shapes, Looking, Budgets
<1> QED
  BY <1>1, <1>2, <1>3 DEF IInv, Owners, Latched, Durable, Open, Looking

LEMMA ProcessKeeps == ASSUME IInv, Crash \/ Start PROVE IInv'
<1>1. CASE Crash
  <2>1. /\ Spend("crash") /\ phase' = "down" /\ halted' = "no" /\ rec' = Looking
        /\ rel' = Looking /\ wants' = {}
    BY <1>1 DEF Crash
  <2>2. left' \in [Budgets -> Nat] /\ left'["read"] = left["read"] /\ left'["write"] = left["write"]
    BY <2>1, Spending DEF IInv, Budgets
  <2> QED
    BY <2>1, <2>2 DEF IInv, Shapes, Owners, Latched, Durable, Open, Looking
<1>2. CASE Start
  BY <1>2 DEF Start, IInv, Shapes, Owners, Latched, Durable, Open
<1> QED
  BY <1>1, <1>2

LEMMA NextIInv == IInv /\ [Next]_vars => IInv'
<1> SUFFICES ASSUME IInv, [Next]_vars PROVE IInv'
  OBVIOUS
<1>1. CASE UNCHANGED vars
  BY <1>1 DEF vars, latch, IInv, Shapes, Owners, Latched, Durable, Open
<1>2. CASE Next
  BY <1>2, OrdersKeep, DriftKeeps, ReconcileKeeps, ReconcileReadsKeeps, ReconcileDecidesKeeps,
     ReconcilePersistsKeeps, ReconcileRaisesKeeps, WatchdogKeeps, ReleaseKeeps,
     ReleaseStepKeeps, ReleaseRaisesKeeps, ProcessKeeps DEF Next, ReconcileStep
<1> QED
  BY <1>1, <1>2

-----------------------------------------------------------------------------
\* Being open is earned and being halted is kept: an executor that lets orders in
\* has a reconciliation behind it that agreed, and a halt in force is in its row
\* (start, reconcile, release_halt, watchdog_halt and _latch).
THEOREM HaltsAlwaysHold == Spec => []HaltsHold
<1>1. IInv => HaltsHold
  BY DEF IInv, Durable, Open, HaltsHold, OpenMeansConsistent, HaltIsDurable
<1> QED
  BY <1>1, InitIInv, NextIInv, PTL DEF Spec
=============================================================================
