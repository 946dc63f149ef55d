--------------------------- MODULE PromotionProofs ---------------------------
(***************************************************************************)
(* Theorems about Promotion, for every set of scopes and venues, every     *)
(* paper period and any number of crashes, failing saves and days.         *)
(*                                                                         *)
(* StagesAreEarned speaks of memory between operations.  What carries it   *)
(* through crashes and reloads is the same fact about the rows (Floor), a  *)
(* violation's progress through the scopes of its venue (Sweep), and that  *)
(* a row holds the stage last granted as long as no database call raised   *)
(* (InStep).                                                               *)
(***************************************************************************)
EXTENDS Promotion, FiniteSetTheorems, TLAPS

(* Leaves are Zenon's unless they cite SMT; the time is for slow machines. *)
USE ZenonT(60)

(* Once registered, a scope is never LIVE; its clean days count from no    *)
(* earlier than the last violation taken in, and so does its entry into    *)
(* CANARY.                                                                 *)
Floor(s, r) ==
    r # None =>
      /\ r.stage # LIVE
      /\ r.clean <= now
      /\ r.clean + MinPaper >= earliest[s]
      /\ r.stage = CANARY => r.since >= earliest[s]

Floors ==
    \A s \in Scopes :
      /\ earliest[s] <= now + MinPaper
      /\ Floor(s, mem[s])
      /\ Floor(s, db[s])

(* Memory holds every row once it is loaded, and only then does an         *)
(* operation run.                                                          *)
Loading ==
    /\ loaded => \A s \in Scopes : mem[s] = None => db[s] = None
    /\ ~Idle => loaded
    /\ venue # None => ~Idle
    /\ \A i \in 1..Len(saving) : mem[saving[i]] # None

(* What a violation leaves of a record.                                    *)
Swept(s) == mem[s].clean = now /\ mem[s].stage \notin {CANARY, LIVE}

(* A running violation has dealt with every registered scope of its venue  *)
(* that is not waiting, and saved all of those but the one in hand.        *)
Sweep ==
    venue # None =>
      \A s \in On(venue) : mem[s] # None =>
        \/ \E i \in 2..Len(saving) : saving[i] = s
        \/ Swept(s) /\ (s = Head(saving) \/ db[s] = mem[s])

StageIn(r) == IF r = None THEN RESEARCH ELSE r.stage

(* Until a database call raises, a row has the stage last granted, and so  *)
(* has memory but for the scope whose save is running.                     *)
InStep ==
    left.fault = MaxFaults =>
      \A s \in Scopes :
        /\ granted[s] = StageIn(db[s])
        /\ loaded => (~Idle /\ s = Head(saving)) \/ StageOf(s) = StageIn(db[s])

IInv == TypeOK /\ Floors /\ Loading /\ Sweep /\ InStep

------------------------------------------------------------------------------
(* Records.                                                                *)

(* A record is not the absence of one.                                     *)
LEMMA RecordIsSome == \A r \in Record : r # None
  BY SMTT(60) DEF Record, None

(* The records the operations build have their type.                       *)
LEMMA RecordTypes ==
  ASSUME TypeOK, NEW s \in Scopes
  PROVE  /\ NoEvidence \in Evidence
         /\ RecordOf(s) \in Record
         /\ \A r \in Record, t \in Stages :
              /\ Moved(r, t) \in Record
              /\ Moved(r, t).stage = t
              /\ Moved(r, t).since = now
              /\ Moved(r, t).clean = r.clean
<1>1. NoEvidence \in Evidence
  BY SMTT(60), BoundAssumption DEF NoEvidence, Evidence, Days
<1>2. RecordOf(s) \in Record
  BY SMTT(60), <1>1 DEF TypeOK, RecordOf, Record, Stages, RESEARCH, LIVE
<1>3. ASSUME NEW r \in Record, NEW t \in Stages
      PROVE  /\ Moved(r, t) \in Record
             /\ Moved(r, t).stage = t
             /\ Moved(r, t).since = now
             /\ Moved(r, t).clean = r.clean
  BY <1>1 DEF TypeOK, Moved, Record
<1> QED
  BY <1>1, <1>2, <1>3

(* A violation restarts the clean days and takes the record off CANARY.    *)
LEMMA ViolatedRecord ==
  ASSUME TypeOK, NEW s \in Scopes, NEW r \in Record, r.stage # LIVE
  PROVE  /\ Violated(r) \in Record
         /\ Violated(r).clean = now
         /\ Violated(r).stage \notin {CANARY, LIVE}
<1> DEFINE c == [r EXCEPT !.clean = now]
<1>1. c \in Record /\ c.clean = now /\ c.stage = r.stage
  BY DEF TypeOK, Record
<1>2. r.stage = CANARY => r.stage - 1 \in Stages
  BY SMTT(60) DEF Stages, CANARY, RESEARCH, LIVE
<1>3. CASE r.stage = CANARY
  <2>1. Violated(r) = Moved(c, r.stage - 1)
    BY <1>3 DEF Violated
  <2>2. /\ Moved(c, r.stage - 1) \in Record
        /\ Moved(c, r.stage - 1).stage = r.stage - 1
        /\ Moved(c, r.stage - 1).clean = c.clean
    <3> HIDE DEF c
    <3> QED
      BY <1>1, <1>2, <1>3, RecordTypes
  <2> QED
    BY SMTT(60), <1>1, <1>3, <2>1, <2>2 DEF CANARY, LIVE
<1>4. CASE r.stage # CANARY
  BY <1>1, <1>4 DEF Violated
<1> QED
  BY <1>3, <1>4

------------------------------------------------------------------------------
(* The sequence of nothing.                                                *)
LEMMA NoElements ==
  ASSUME NEW S
  PROVE  <<>> \in Seq(S) /\ \A q \in Seq(S) : Len(q) = 0 <=> q = <<>>
  BY SMTT(60)

LEMMA InitIInv == Init => IInv
<1> SUFFICES ASSUME Init PROVE IInv
  OBVIOUS
<1>a. /\ 0 \in Days /\ 0 \in 0..(MaxNow + MinPaper) /\ RESEARCH \in Stages
      /\ MaxCrashes \in 0..MaxCrashes /\ MaxFaults \in 0..MaxFaults
  BY SMTT(60), BoundAssumption DEF Days, Stages, RESEARCH, LIVE
<1>b. left \in [crash : 0..MaxCrashes, fault : 0..MaxFaults]
  BY <1>a DEF Init
<1>c. saving \in Seq(Scopes)
  BY NoElements DEF Init
<1>1. TypeOK
  BY <1>a, <1>b, <1>c DEF Init, TypeOK
<1>2. Floors
  BY SMTT(60), BoundAssumption DEF Init, Floors, Floor
<1>3. Loading
  BY SMTT(60), NoElements DEF Init, Loading, Idle
<1>4. Sweep
  BY DEF Init, Sweep
<1>5. InStep
  BY DEF Init, InStep, StageIn
<1> QED
  BY <1>1, <1>2, <1>3, <1>4, <1>5 DEF IInv

(* A row and the record in memory at rest.                                 *)
LEMMA AtRest ==
  ASSUME IInv, Idle
  PROVE  venue = None
  BY DEF IInv, Loading

------------------------------------------------------------------------------
(* The operations on one scope.                                            *)

(* A change of one record that respects its floor keeps the invariant.     *)
LEMMA ChangeStep ==
  ASSUME IInv, Ready, NEW s \in Scopes, NEW r \in Record, Floor(s, r), Change(s, r)
  PROVE  IInv'
<1> USE DEF IInv
<1>0. UNCHANGED <<now, db, loaded, venue, left, granted, earliest>> /\ saving' = <<s>>
  BY DEF Change
<1>m. /\ mem' \in [Scopes -> Record \cup {None}]
      /\ mem'[s] = r /\ r # None
      /\ \A x \in Scopes \ {s} : mem'[x] = mem[x]
  BY RecordIsSome DEF TypeOK, Change
<1>s. saving' \in Seq(Scopes) /\ Len(saving') = 1 /\ saving'[1] = s /\ Head(saving') = s /\ saving' # <<>>
  BY SMTT(60), <1>0
<1>1. TypeOK'
  BY <1>0, <1>m, <1>s DEF TypeOK
<1>2. Floors'
  BY <1>0, <1>m DEF Floors, Floor
<1>3. Loading'
  BY SMTT(60), <1>0, <1>m, <1>s DEF Loading, Idle, Ready
<1>4. Sweep'
  BY <1>0, AtRest DEF Sweep, Ready
<1>5. InStep'
  BY <1>0, <1>m, <1>s DEF InStep, Ready, Idle, StageOf, StageIn
<1> QED
  BY <1>1, <1>2, <1>3, <1>4, <1>5

(* The record an operation starts from respects its floor.                 *)
LEMMA RecordOfFloor ==
  ASSUME IInv, NEW s \in Scopes
  PROVE  /\ RecordOf(s) \in Record /\ RecordOf(s) # None
         /\ Floor(s, RecordOf(s))
<1>1. RecordOf(s) \in Record /\ RecordOf(s) # None
  BY RecordTypes, RecordIsSome DEF IInv
<1>2. CASE mem[s] # None
  BY <1>1, <1>2 DEF IInv, Floors, RecordOf
<1>3. CASE mem[s] = None
  <2>1. /\ RecordOf(s).stage = RESEARCH /\ RecordOf(s).clean = now
    BY <1>3 DEF RecordOf
  <2>2. now \in Nat /\ earliest[s] <= now + MinPaper
    BY SMTT(60), BoundAssumption DEF IInv, Floors, TypeOK, Days
  <2> QED
    BY SMTT(60), <1>1, <2>1, <2>2, BoundAssumption DEF Floor, RESEARCH, CANARY, LIVE
<1> QED
  BY <1>1, <1>2, <1>3

(* add_evidence changes neither the stage nor a date of the record.        *)
LEMMA AddEvidenceStep ==
  ASSUME IInv, NEW s \in Scopes, NEW k \in Kinds, NEW passed \in BOOLEAN,
         AddEvidence(s, k, passed)
  PROVE  IInv'
<1> DEFINE e == IF passed THEN [at |-> now, passed |-> TRUE] ELSE NoEvidence
           r == [RecordOf(s) EXCEPT !.evidence[k] = e]
<1>1. RecordOf(s) \in Record /\ Floor(s, RecordOf(s)) /\ RecordOf(s) # None
  BY RecordOfFloor
<1>2. e \in Evidence
  BY RecordTypes DEF IInv, TypeOK, Evidence
<1>3. /\ r \in Record /\ r.stage = RecordOf(s).stage
      /\ r.since = RecordOf(s).since /\ r.clean = RecordOf(s).clean
  <2> HIDE DEF e
  <2> QED
    BY <1>1, <1>2 DEF Record
<1>4. Floor(s, r)
  <2> HIDE DEF r
  <2> QED
    BY <1>1, <1>3 DEF Floor
<1>5. Ready /\ Change(s, r)
  BY DEF AddEvidence
<1> HIDE DEF r
<1> QED
  BY <1>3, <1>4, <1>5, ChangeStep

(* promote enters CANARY only when the clean days are full.                *)
LEMMA PromoteStep ==
  ASSUME IInv, NEW s \in Scopes, NEW target \in Stages, Promote(s, target)
  PROVE  IInv'
<1> DEFINE old == RecordOf(s)
           r == Moved(old, target)
<1>1. old \in Record /\ Floor(s, old) /\ old # None
  BY RecordOfFloor
<1>2. /\ r \in Record /\ r.stage = target
      /\ r.since = now /\ r.clean = old.clean
  BY <1>1, RecordTypes DEF IInv
<1>3. Ready /\ Change(s, r) /\ GateOpen(old, target)
  BY DEF Promote
<1>4. /\ now \in Nat /\ MinPaper \in Nat
      /\ old.clean \in Nat /\ old.since \in Nat
      /\ earliest[s] \in Nat
  BY SMTT(60), <1>1, BoundAssumption DEF IInv, TypeOK, Days, Record
<1>5. target = CANARY => now >= old.clean + MinPaper
  <2> HIDE DEF old
  <2> QED
    BY SMTT(60), <1>3, <1>4 DEF GateOpen, CleanFor
<1>6. Floor(s, r)
  <2> HIDE DEF old, r
  <2> QED
    BY SMTT(60), <1>1, <1>2, <1>3, <1>4, <1>5 DEF Floor, GateOpen
<1> HIDE DEF r, old
<1> QED
  BY <1>2, <1>3, <1>6, ChangeStep

(* demote never ends at CANARY: no scope is LIVE.                          *)
LEMMA DemoteStep ==
  ASSUME IInv, NEW s \in Scopes, Demote(s)
  PROVE  IInv'
<1> DEFINE r == Moved(mem[s], StageOf(s) - 1)
<1>1. mem[s] # None /\ mem[s] \in Record /\ StageOf(s) = mem[s].stage
  BY SMTT(60) DEF Demote, StageOf, IInv, TypeOK, RESEARCH
<1>2. Floor(s, mem[s])
  BY DEF IInv, Floors
<1>3. /\ StageOf(s) - 1 \in Stages
      /\ StageOf(s) - 1 \notin {CANARY, LIVE}
  BY SMTT(60), <1>1, <1>2 DEF Demote, Floor, Record, Stages, RESEARCH, CANARY, LIVE
<1>4. /\ r \in Record /\ r.stage = StageOf(s) - 1
      /\ r.since = now /\ r.clean = mem[s].clean
  BY <1>1, <1>3, RecordTypes DEF IInv
<1>5. Floor(s, r)
  <2> HIDE DEF r
  <2> QED
    BY <1>1, <1>2, <1>3, <1>4 DEF Floor
<1>6. Ready /\ Change(s, r)
  BY DEF Demote
<1> HIDE DEF r
<1> QED
  BY <1>4, <1>5, <1>6, ChangeStep

(* A record that a refused operation leaves behind is at RESEARCH.         *)
LEMMA RegisterStep ==
  ASSUME IInv, NEW s \in Scopes, Register(s)
  PROVE  IInv'
<1> DEFINE r == RecordOf(s)
<1>0. /\ UNCHANGED <<now, db, loaded, saving, venue, left, granted, earliest>>
      /\ Ready /\ mem[s] = None
  BY DEF Register
<1>1. r \in Record /\ Floor(s, r) /\ r # None /\ r.stage = RESEARCH
  BY <1>0, RecordOfFloor DEF RecordOf
<1>2. /\ mem' \in [Scopes -> Record \cup {None}] /\ mem'[s] = r
      /\ \A x \in Scopes \ {s} : mem'[x] = mem[x]
  <2> HIDE DEF r
  <2>1. mem' = [mem EXCEPT ![s] = r]
    BY DEF Register, r
  <2> QED
    BY <1>1, <2>1 DEF IInv, TypeOK
<1> HIDE DEF r
<1>3. TypeOK'
  BY <1>0, <1>2 DEF IInv, TypeOK
<1>4. Floors'
  BY <1>0, <1>1, <1>2 DEF IInv, Floors, Floor
<1>5. Loading'
  BY SMTT(60), <1>0, <1>1, <1>2 DEF IInv, Loading, Idle, Ready
<1>6. Sweep'
  BY <1>0, AtRest DEF Sweep, Ready
<1>7. InStep'
  BY <1>0, <1>1, <1>2 DEF IInv, InStep, Ready, Idle, StageOf, StageIn
<1> QED
  BY <1>3, <1>4, <1>5, <1>6, <1>7 DEF IInv

(* _ensure_loaded takes over the rows.                                     *)
LEMMA LoadStep ==
  ASSUME IInv, Load
  PROVE  IInv'
<1>0. /\ UNCHANGED <<now, db, saving, venue, left, granted, earliest>>
      /\ mem' = db /\ loaded' /\ ~loaded /\ saving = <<>>
  BY DEF Load, IInv, Loading, Idle
<1>1. TypeOK'
  BY <1>0 DEF Load, IInv, TypeOK
<1>2. Floors'
  BY <1>0 DEF IInv, Floors, Floor
<1>3. Loading'
  BY SMTT(60), <1>0 DEF IInv, Loading, Idle
<1>4. Sweep'
  BY <1>0, AtRest DEF Sweep, Idle
<1>5. InStep'
  BY <1>0 DEF IInv, InStep, StageOf, StageIn, Idle
<1> QED
  BY <1>1, <1>2, <1>3, <1>4, <1>5 DEF IInv

------------------------------------------------------------------------------
(* A violation.                                                            *)

(* The order in which a violation visits scopes leaves none of them out.   *)
LEMMA OrderIsComplete ==
  ASSUME NEW S, S \subseteq Scopes, NEW order \in Listings(S)
  PROVE  /\ order \in Seq(Scopes)
         /\ \A i \in 1..Len(order) : order[i] \in S
         /\ \A s \in S : \E i \in 1..Len(order) : order[i] = s
<1> DEFINE n == Cardinality(S)
<1>1. IsFiniteSet(S) /\ n \in Nat
  BY ScopesAssumption, FS_Subset, FS_CardinalityType
<1>2. order \in [1..n -> S] /\ \A s \in S : \E i \in 1..n : order[i] = s
  BY DEF Listings, Bijection, Injection, Surjection
<1> HIDE DEF n
<1>3. order \in Seq(S) /\ Len(order) = n
  BY SMTT(60), <1>1, <1>2
<1>4. order \in Seq(Scopes)
  BY SMTT(60), <1>3
<1> QED
  BY <1>2, <1>3, <1>4

(* The first scope of a violation is dealt with, the others wait.          *)
LEMMA ViolationStep ==
  ASSUME IInv, NEW v \in Venues, Violation(v)
  PROVE  IInv'
<1> DEFINE S == {s \in On(v) : mem[s] # None}
<1>0. /\ UNCHANGED <<now, db, loaded, left, granted, earliest>>
      /\ Ready /\ venue' = v
  BY DEF Violation
<1>1. PICK order \in Listings(S) :
        order # <<>> /\ saving' = order /\ mem' = [mem EXCEPT ![Head(order)] = Violated(@)]
  BY DEF Violation
<1>2. S \subseteq Scopes
  BY DEF On
<1>3. /\ order \in Seq(Scopes)
      /\ \A i \in 1..Len(order) : order[i] \in S
      /\ \A s \in S : \E i \in 1..Len(order) : order[i] = s
  BY <1>2, OrderIsComplete
<1> DEFINE h == Head(order)
<1>4. h = order[1] /\ Len(order) \in Nat \ {0}
  BY SMTT(60), <1>1, <1>3
<1>5. h \in S /\ h \in Scopes /\ mem[h] # None /\ mem[h] \in Record
  BY SMTT(60), <1>2, <1>3, <1>4 DEF IInv, TypeOK
<1>6. /\ Violated(mem[h]) \in Record
      /\ Violated(mem[h]).clean = now
      /\ Violated(mem[h]).stage \notin {CANARY, LIVE}
      /\ Violated(mem[h]) # None
  BY <1>5, ViolatedRecord, RecordIsSome DEF IInv, Floors, Floor
<1> HIDE DEF h, S
<1>7. /\ mem' \in [Scopes -> Record \cup {None}]
      /\ mem'[h] = Violated(mem[h])
      /\ \A x \in Scopes \ {h} : mem'[x] = mem[x]
  BY <1>1, <1>5, <1>6 DEF IInv, TypeOK, h
<1>8. now \in Nat /\ MinPaper \in Nat
  BY SMTT(60), BoundAssumption DEF IInv, TypeOK, Days
<1>9. TypeOK'
  BY <1>0, <1>1, <1>3, <1>7 DEF IInv, TypeOK
<1>10. Floors'
  BY SMTT(60), <1>0, <1>6, <1>7, <1>8 DEF IInv, Floors, Floor
<1>11. Loading'
  <2>1. \A i \in 1..Len(order) : mem'[order[i]] # None
    BY <1>2, <1>3, <1>6, <1>7 DEF S
  <2>2. \A s \in Scopes : mem'[s] = None => mem[s] = None
    BY <1>6, <1>7
  <2> QED
    BY <1>0, <1>1, <2>1, <2>2 DEF IInv, Loading, Idle, Ready
<1>12. Sweep'
  <2> SUFFICES ASSUME NEW s \in On(v), mem'[s] # None
               PROVE  \/ \E i \in 2..Len(order) : order[i] = s
                      \/ s = h /\ mem'[s].clean = now /\ mem'[s].stage \notin {CANARY, LIVE}
    BY <1>0, <1>1 DEF Sweep, Swept, On, h
  <2>1. s \in S
    BY <1>5, <1>7 DEF On, S
  <2>2. PICK i \in 1..Len(order) : order[i] = s
    BY <1>3, <2>1
  <2>3. CASE i = 1
    BY <1>4, <1>6, <1>7, <2>2, <2>3
  <2>4. CASE i # 1
    BY SMTT(60), <1>4, <2>2, <2>4
  <2> QED
    BY <2>3, <2>4
<1>13. InStep'
  BY <1>0, <1>1, <1>7 DEF IInv, InStep, Ready, Idle, StageOf, StageIn, h
<1> QED
  BY <1>9, <1>10, <1>11, <1>12, <1>13 DEF IInv

(* What a fault or a crash does to the budgets.                            *)
LEMMA SpendStep ==
  ASSUME TypeOK, NEW what \in {"crash", "fault"}, Spend(what)
  PROVE  /\ left' \in [crash : 0..MaxCrashes, fault : 0..MaxFaults]
         /\ what = "fault" => left'.fault # MaxFaults
         /\ what = "crash" => left'.fault = left.fault
  BY SMTT(60), BoundAssumption DEF TypeOK, Spend

(* A violation that cannot load the rows changes nothing.                  *)
LEMMA ViolationUnreadStep ==
  ASSUME IInv, NEW v \in Venues, ViolationUnread(v)
  PROVE  IInv'
<1>0. UNCHANGED <<now, mem, db, loaded, saving, venue, granted, earliest>>
  BY DEF ViolationUnread
<1>1. /\ left' \in [crash : 0..MaxCrashes, fault : 0..MaxFaults]
      /\ left'.fault # MaxFaults
  BY SpendStep DEF ViolationUnread, IInv
<1>2. TypeOK'
  BY <1>0, <1>1 DEF IInv, TypeOK
<1>3. Floors' /\ Loading'
  BY <1>0 DEF IInv, Floors, Floor, Loading, Idle
<1>4. Sweep'
  BY <1>0 DEF IInv, Sweep, Swept, On
<1>5. InStep'
  BY <1>1 DEF InStep
<1> QED
  BY <1>2, <1>3, <1>4, <1>5 DEF IInv

(* A save that raises: the row stays behind, and the violation is lost.    *)
LEMMA SaveRaisesStep ==
  ASSUME IInv, SaveRaises
  PROVE  IInv'
<1>0. UNCHANGED <<now, mem, db, loaded, earliest>> /\ saving' = <<>> /\ venue' = None
  BY DEF SaveRaises
<1>1. /\ left' \in [crash : 0..MaxCrashes, fault : 0..MaxFaults]
      /\ left'.fault # MaxFaults
  BY SpendStep DEF SaveRaises, IInv
<1>2. Head(saving) \in Scopes /\ mem[Head(saving)] \in Record
  <2>1. saving # <<>> /\ saving \in Seq(Scopes)
    BY DEF SaveRaises, Idle, IInv, TypeOK
  <2>2. Head(saving) = saving[1] /\ 1 \in 1..Len(saving) /\ Head(saving) \in Scopes
    BY SMTT(60), <2>1
  <2> QED
    BY <2>2 DEF IInv, Loading, TypeOK
<1>3. granted' \in [Scopes -> Stages]
  BY <1>2 DEF SaveRaises, IInv, TypeOK, Record
<1>4. saving' \in Seq(Scopes) /\ Len(saving') = 0
  BY <1>0, NoElements
<1>5. TypeOK'
  BY <1>0, <1>1, <1>3, <1>4 DEF IInv, TypeOK
<1>6. Floors'
  BY <1>0 DEF IInv, Floors, Floor
<1>7. Loading'
  BY SMTT(60), <1>0, <1>4 DEF IInv, Loading, Idle
<1>8. Sweep' /\ InStep'
  BY <1>0, <1>1 DEF Sweep, InStep
<1> QED
  BY <1>5, <1>6, <1>7, <1>8 DEF IInv

(* A save commits; a violation goes on to its next scope or is taken in.   *)
LEMMA SaveStep ==
  ASSUME IInv, Save
  PROVE  IInv'
<1> DEFINE s == Head(saving)
           rest == Tail(saving)
<1>0. /\ UNCHANGED <<now, loaded, left>>
      /\ db' = [db EXCEPT ![s] = mem[s]]
      /\ granted' = [granted EXCEPT ![s] = mem[s].stage]
      /\ saving' = rest
  BY DEF Save
<1>1. saving # <<>> /\ saving \in Seq(Scopes)
  BY DEF Save, Idle, IInv, TypeOK
<1>2. /\ s = saving[1] /\ 1 \in 1..Len(saving) /\ s \in Scopes
      /\ rest \in Seq(Scopes) /\ Len(rest) = Len(saving) - 1
      /\ \A i \in 1..Len(rest) : rest[i] = saving[i + 1]
      /\ Len(saving) \in Nat
  BY SMTT(60), <1>1
<1>3. mem[s] # None /\ mem[s] \in Record
  BY SMTT(60), <1>2 DEF IInv, Loading, TypeOK
<1>4. loaded
  BY <1>1 DEF IInv, Loading, Idle
<1> HIDE DEF s, rest
<1>5. /\ db' \in [Scopes -> Record \cup {None}]
      /\ db'[s] = mem[s]
      /\ \A x \in Scopes \ {s} : db'[x] = db[x]
  BY <1>0, <1>2, <1>3 DEF IInv, TypeOK
<1>6. /\ granted' \in [Scopes -> Stages]
      /\ granted'[s] = mem[s].stage
      /\ \A x \in Scopes \ {s} : granted'[x] = granted[x]
  BY <1>0, <1>2, <1>3 DEF IInv, TypeOK, Record
<1>7. now \in Nat /\ MinPaper \in Nat /\ now \in Days
  BY SMTT(60), BoundAssumption DEF IInv, TypeOK, Days
<1>8. CASE rest # <<>>
  <2> DEFINE h == Head(rest)
  <2>1. h = rest[1] /\ 1 \in 1..Len(rest) /\ h = saving[2] /\ 2 \in 1..Len(saving)
    BY SMTT(60), <1>2, <1>8
  <2>2. h \in Scopes /\ mem[h] # None /\ mem[h] \in Record
    BY SMTT(60), <1>1, <2>1 DEF IInv, Loading, TypeOK
  <2>3. /\ Violated(mem[h]) \in Record
        /\ Violated(mem[h]).clean = now
        /\ Violated(mem[h]).stage \notin {CANARY, LIVE}
        /\ Violated(mem[h]) # None
    BY <2>2, ViolatedRecord, RecordIsSome DEF IInv, Floors, Floor
  <2>4. /\ mem' = [mem EXCEPT ![h] = Violated(mem[h])]
        /\ venue' = venue /\ earliest' = earliest
    BY <1>8 DEF Save, rest
  <2> HIDE DEF h
  <2>5. /\ mem' \in [Scopes -> Record \cup {None}]
        /\ mem'[h] = Violated(mem[h])
        /\ \A x \in Scopes \ {h} : mem'[x] = mem[x]
    BY <2>2, <2>3, <2>4 DEF IInv, TypeOK
  <2>6. TypeOK'
    BY <1>0, <1>2, <1>5, <1>6, <2>4, <2>5 DEF IInv, TypeOK
  <2>7. Floors'
    BY SMTT(60), <1>0, <1>5, <1>7, <2>3, <2>4, <2>5 DEF IInv, Floors, Floor
  <2>8. \A x \in Scopes : mem'[x] = None <=> mem[x] = None
    BY <2>2, <2>3, <2>5
  <2>9. \A i \in 1..Len(rest) : i + 1 \in 1..Len(saving) /\ rest[i] \in Scopes
    BY SMTT(60), <1>2
  <2>10. Loading'
    BY SMTT(60), <1>0, <1>2, <1>3, <1>4, <1>5, <1>8, <2>4, <2>8, <2>9 DEF IInv, Loading, Idle
  <2>11. Sweep'
    <3> SUFFICES ASSUME venue # None, NEW x \in On(venue), mem'[x] # None
                 PROVE  \/ \E i \in 2..Len(rest) : rest[i] = x
                        \/ /\ mem'[x].clean = now /\ mem'[x].stage \notin {CANARY, LIVE}
                           /\ x = h \/ db'[x] = mem'[x]
      BY <1>0, <2>4 DEF Sweep, Swept, On, h
    <3>1. x \in Scopes /\ mem[x] # None
      BY <2>8 DEF On
    <3>2. CASE x = h
      BY <2>3, <2>5, <3>2
    <3>3. CASE x # h /\ \E i \in 2..Len(saving) : saving[i] = x
      <4>1. PICK i \in 2..Len(saving) : saving[i] = x
        BY <3>3
      <4>2. i # 2 /\ i - 1 \in 2..Len(rest) /\ rest[i - 1] = saving[i]
        BY SMTT(60), <1>2, <2>1, <3>3, <4>1
      <4> QED
        BY <4>1, <4>2
    <3>4. CASE x # h /\ Swept(x) /\ (x = s \/ db[x] = mem[x])
      BY <1>5, <2>5, <3>1, <3>4 DEF Swept
    <3> QED
      BY <3>1, <3>2, <3>3, <3>4 DEF IInv, Sweep, s
  <2>12. InStep'
    <3> SUFFICES ASSUME left.fault = MaxFaults, NEW x \in Scopes
                 PROVE  /\ granted'[x] = StageIn(db'[x])
                        /\ x = h \/ StageOf(x)' = StageIn(db'[x])
      BY <1>0, <1>8 DEF InStep, StageIn, Idle, h
    <3>1. granted'[x] = StageIn(db'[x])
      BY <1>3, <1>5, <1>6 DEF IInv, InStep, StageIn
    <3>2. x # h => StageOf(x)' = StageIn(db'[x])
      BY SMTT(60), <1>3, <1>4, <1>5, <2>5 DEF IInv, InStep, StageIn, StageOf, s
    <3> QED
      BY <3>1, <3>2
  <2> QED
    BY <2>6, <2>7, <2>10, <2>11, <2>12 DEF IInv
<1>9. CASE rest = <<>>
  <2>1. mem' = mem /\ venue' = None
    BY <1>9 DEF Save, rest
  <2>2. Len(saving) = 1
    BY SMTT(60), <1>2, <1>9
  <2>3. \A x \in Scopes :
          \/ earliest'[x] = earliest[x]
          \/ venue # None /\ x \in On(venue) /\ earliest'[x] = now + MinPaper
    BY <1>9 DEF Save, Reported, rest
  <2>4. earliest' \in [Scopes -> 0..(MaxNow + MinPaper)]
    <3>1. now + MinPaper \in 0..(MaxNow + MinPaper)
      BY SMTT(60), BoundAssumption DEF IInv, TypeOK, Days
    <3> QED
      BY <1>9, <3>1 DEF Save, Reported, rest, IInv, TypeOK
  <2>5. TypeOK'
    BY <1>0, <1>2, <1>5, <1>6, <2>1, <2>4 DEF IInv, TypeOK
  <2>6. Floors'
    <3> SUFFICES ASSUME NEW x \in Scopes
                 PROVE  /\ earliest'[x] <= now + MinPaper
                        /\ Floor(x, mem[x])' /\ Floor(x, db[x])'
      BY <1>0, <2>1 DEF Floors
    <3>1. CASE earliest'[x] = earliest[x]
      BY <1>0, <1>5, <2>1, <3>1 DEF IInv, Floors, Floor
    <3>2. CASE venue # None /\ x \in On(venue) /\ earliest'[x] = now + MinPaper
      <4>1. CASE mem[x] = None
        BY SMTT(60), <1>0, <1>3, <1>4, <1>5, <1>7, <2>1, <3>2, <4>1 DEF IInv, Loading, Floor
      <4>2. CASE mem[x] # None
        <5>1. Swept(x) /\ (x = s \/ db[x] = mem[x])
          BY SMTT(60), <2>2, <3>2, <4>2 DEF IInv, Sweep, s
        <5>2. db'[x] = mem[x]
          BY <1>5, <5>1
        <5> QED
          BY SMTT(60), <1>0, <1>7, <2>1, <3>2, <5>1, <5>2 DEF Floor, Swept
      <4> QED
        BY <4>1, <4>2
    <3> QED
      BY <2>3, <3>1, <3>2
  <2>7. Loading'
    BY SMTT(60), <1>0, <1>2, <1>3, <1>5, <1>9, <2>1, <2>2 DEF IInv, Loading, Idle
  <2>8. Sweep'
    BY <2>1 DEF Sweep
  <2>9. InStep'
    <3> SUFFICES ASSUME left.fault = MaxFaults, NEW x \in Scopes
                 PROVE  /\ granted'[x] = StageIn(db'[x])
                        /\ StageOf(x)' = StageIn(db'[x])
      BY <1>0 DEF InStep, StageIn
    <3> QED
      BY <1>3, <1>4, <1>5, <1>6, <2>1 DEF IInv, InStep, StageIn, StageOf, s
  <2> QED
    BY <2>5, <2>6, <2>7, <2>8, <2>9 DEF IInv
<1> QED
  BY <1>8, <1>9

(* A crash forgets the memory and whatever was running.                    *)
LEMMA CrashStep ==
  ASSUME IInv, Crash
  PROVE  IInv'
<1>0. /\ UNCHANGED <<now, db, granted, earliest>>
      /\ mem' = [s \in Scopes |-> None] /\ loaded' = FALSE
      /\ saving' = <<>> /\ venue' = None
  BY DEF Crash
<1>1. /\ left' \in [crash : 0..MaxCrashes, fault : 0..MaxFaults]
      /\ left'.fault = left.fault
  BY SpendStep DEF Crash, IInv
<1>2. saving' \in Seq(Scopes) /\ Len(saving') = 0
  BY <1>0, NoElements
<1>3. TypeOK'
  BY <1>0, <1>1, <1>2 DEF IInv, TypeOK
<1>4. Floors'
  BY <1>0 DEF IInv, Floors, Floor
<1>5. Loading'
  BY SMTT(60), <1>0, <1>2 DEF Loading, Idle
<1>6. Sweep' /\ InStep'
  BY <1>0, <1>1 DEF IInv, Sweep, InStep, StageIn
<1> QED
  BY <1>3, <1>4, <1>5, <1>6 DEF IInv

(* A day passes between operations.                                        *)
LEMMA NextDayStep ==
  ASSUME IInv, NextDay
  PROVE  IInv'
<1>0. /\ UNCHANGED <<mem, db, loaded, saving, venue, left, granted, earliest>>
      /\ Idle /\ now' = now + 1 /\ now < MaxNow
  BY DEF NextDay
<1>1. now \in Nat /\ MinPaper \in Nat /\ now' \in Days
  BY SMTT(60), <1>0, BoundAssumption DEF IInv, TypeOK, Days
<1>2. TypeOK'
  BY <1>0, <1>1 DEF IInv, TypeOK
<1>3. Floors'
  <2>1. \A s \in Scopes : earliest[s] \in Nat
    BY SMTT(60), BoundAssumption DEF IInv, TypeOK
  <2>2. \A r \in Record : r.clean \in Nat
    BY SMTT(60), BoundAssumption DEF Record, Days
  <2>3. \A s \in Scopes : mem[s] \in Record \cup {None} /\ db[s] \in Record \cup {None}
    BY DEF IInv, TypeOK
  <2> QED
    BY SMTT(60), <1>0, <1>1, <2>1, <2>2, <2>3 DEF IInv, Floors, Floor
<1>4. Loading'
  BY <1>0 DEF IInv, Loading, Idle
<1>5. Sweep'
  BY <1>0, AtRest DEF Sweep
<1>6. InStep'
  BY <1>0 DEF IInv, InStep, StageIn, StageOf, Idle
<1> QED
  BY <1>2, <1>3, <1>4, <1>5, <1>6 DEF IInv

(* Nothing changes in a stuttering step.                                   *)
LEMMA StutterStep ==
  ASSUME IInv, UNCHANGED vars
  PROVE  IInv'
  BY DEF vars, IInv, TypeOK, Floors, Floor, Loading, Sweep, Swept, On, InStep,
         StageIn, StageOf, Idle

LEMMA NextIInv == IInv /\ [Next]_vars => IInv'
  BY LoadStep, SaveStep, SaveRaisesStep, CrashStep, NextDayStep, AddEvidenceStep,
     PromoteStep, DemoteStep, RegisterStep, ViolationStep, ViolationUnreadStep,
     StutterStep
  DEF Next

------------------------------------------------------------------------------
(* The inductive invariant holds in every reachable state.                 *)
THEOREM Invariance == Spec => []IInv
  BY InitIInv, NextIInv, PTL DEF Spec

(* For any number of scopes, crashes, failing saves and violations, a      *)
(* scope certified at CANARY has full clean days behind it, and a stage in *)
(* force was granted by an operation that returned (registry.py).          *)
THEOREM AlwaysEarned == Spec => []StagesAreEarned
<1>1. IInv => StagesAreEarned
  <2>1. IInv => CanaryIsEarned
    BY SMTT(60) DEF IInv, Floors, Floor, CanaryIsEarned, StageOf, RESEARCH, CANARY
  <2>2. ASSUME IInv, Ready, left.fault = MaxFaults, NEW s \in Scopes
        PROVE  StageOf(s) <= granted[s]
    <3>1. StageOf(s) = granted[s] /\ granted[s] \in Stages
      BY <2>2 DEF IInv, InStep, Ready, TypeOK
    <3> QED
      BY SMTT(60), <3>1 DEF Stages, RESEARCH, LIVE
  <2> QED
    BY <2>1, <2>2 DEF InForceWasGranted, StagesAreEarned
<1> QED
  BY <1>1, Invariance, PTL
==============================================================================
