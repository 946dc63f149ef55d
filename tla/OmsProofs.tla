------------------------------ MODULE OmsProofs ------------------------------
(***************************************************************************)
(* The inductive invariant of Oms, for every set of intents and permits,   *)
(* every quantity and any number of crashes and failed writes.             *)
(*                                                                         *)
(* None of the safety properties is inductive by itself.  What carries     *)
(* them is how the three records of an order (the row, the book in memory  *)
(* and the operation under way) may lag behind each other: Lag says that   *)
(* the book is never behind the row, Path what is already durable at each  *)
(* await of submit, and Unsent that an order not yet sent has left no      *)
(* trace outside.                                                          *)
(***************************************************************************)
EXTENDS Oms, TLAPS

(* Leaves are Zenon's unless they cite SMT; the time is for slow machines. *)
USE ZenonT(60)

Early == {ABSENT, "NEW"}

(* The book in memory is at least as far as the row.                       *)
Lag ==
  /\ phase = "down" => call = Idle /\ pending = {}
  /\ phase = "up" => pending = {}
  /\ phase # "down" =>
       \A o \in Intents :
         /\ mem[o].status = ABSENT => db[o].status = ABSENT
         /\ mem[o].status \in Early => db[o].status \in Early
         /\ mem[o].status \notin Early => db[o].status # ABSENT
         /\ db[o].status \in TerminalStatuses => mem[o] = db[o]
         /\ db[o].filled <= mem[o].filled

(* What an operation under way has behind it.                              *)
Path ==
  /\ \A o \in pending : db[o].status \notin TerminalStatuses \cup {ABSENT}
  /\ \A o \in Intents : call.order = o =>
       /\ call.pc # "idle" => db[o].status \notin TerminalStatuses
       /\ call.pc \in {"create", "reserve", "submitted", "send"} =>
            sent[o] = 0 /\ \E p \in spent : PermitFor[p] = o
       /\ call.pc = "create" => db[o].status = ABSENT /\ mem[o].status = ABSENT
       /\ call.pc \in {"reserve", "submitted"} => db[o].status = "NEW"
       /\ call.pc = "submitted" => mem[o].status = "SUBMITTED"
       /\ call.pc = "send" => db[o].status = "SUBMITTED"
       /\ call.pc \in {"submitted", "send"} => HasReservation(o)
       /\ call.pc \in {"wait", "fill"} => sent[o] > 0
       /\ call.pc = "fill" => call.report.filled > mem[o].filled /\ call.report.status # ABSENT
       /\ call.pc \in {"release", "save"} => mem[o].status \notin Early
       /\ call.pc \notin {"idle", "release", "save"} =>
            mem[o].status \notin TerminalStatuses

(* An order that was not sent is unknown to the venue and has no fill.     *)
Unsent ==
  /\ \A o \in Intents : sent[o] = 0 =>
       /\ venue[o] = NoReport
       /\ o \notin inflight
       /\ mem[o].filled = 0
       /\ db[o].filled = 0

(* Money: never more released than reserved, and a terminal order that is  *)
(* about to be saved has released everything it ever held.                 *)
Money ==
  /\ \A o \in Intents : mem[o].released <= Reserved(o) /\ db[o].released <= Reserved(o)
  /\ \A o \in Intents :
       call.order = o /\ call.pc = "save" /\ mem[o].status \in TerminalStatuses /\ HasReservation(o)
         => mem[o].released = Reserved(o)

IInv ==
  /\ TypeOK
  /\ Lag
  /\ Path
  /\ Unsent
  /\ Money
  /\ SentAtMostOnce
  /\ SentIsBacked
  /\ SettledInFull

------------------------------------------------------------------------------
(* What posting a batch does to the ledger (ledger.py post): nothing is    *)
(* ever removed.                                                           *)
LEMMA PostedGrows == \A es, batch : es \subseteq Posted(es, batch)
  BY DEF Posted

(* An accepted single entry is known afterwards, whether it was new or     *)
(* already posted.                                                         *)
LEMMA AcceptedIsKnown ==
  \A es, e : PostAccepted(es, {e}) => Known(Posted(es, {e}), {e}) # {}
  BY DEF Posted, PostAccepted, Known

(* A refused entry is not in the ledger, and the ledger is left alone.     *)
LEMMA RefusedIsUnknown ==
  \A es, e : ~PostAccepted(es, {e}) => Known(es, {e}) = {} /\ Posted(es, {e}) = es
  BY DEF Posted, PostAccepted, Known

(* An id known to a ledger is known to every larger one.                   *)
LEMMA KnownGrows ==
  \A es, fs, batch : es \subseteq fs /\ Known(es, batch) # {} => Known(fs, batch) # {}
  BY DEF Known

(* Posting entries with other ids does not make an id known.               *)
LEMMA KnownSame ==
  \A es, batch, r : (\A e \in batch : EntryId(e) # EntryId(r)) =>
    (Known(Posted(es, batch), {r}) # {} <=> Known(es, {r}) # {})
  BY DEF Posted, Known

(* The reservation ids of an order do not depend on the state.             *)
LEMMA HasReservationNext ==
  \A o : HasReservation(o)' = (Known(ledger', {Reservation(o)}) # {})
  BY DEF HasReservation, Reservation, Entry, HeldAsset, Reserved, UnitHold

(* A reservation the ledger accepts is on record, and no other is touched. *)
LEMMA ReservationAccepted ==
  ASSUME NEW o, PostAccepted(ledger, {Reservation(o)}),
         ledger' = Posted(ledger, {Reservation(o)})
  PROVE  /\ HasReservation(o)'
         /\ \A x : x # o => HasReservation(x)' = HasReservation(x)
<1>1. HasReservation(o)'
  BY HasReservationNext, AcceptedIsKnown
<1>2. ASSUME NEW x, x # o PROVE HasReservation(x)' = HasReservation(x)
  <2>1. \A e \in {Reservation(o)} : EntryId(e) # EntryId(Reservation(x))
    BY SMTT(60), <1>2 DEF EntryId, Reservation, Entry
  <2> QED
    BY <2>1, KnownSame, HasReservationNext DEF HasReservation
<1> QED
  BY <1>1, <1>2

(* A refused reservation is not on record.                                 *)
LEMMA ReservationRefused ==
  ASSUME NEW o, ~PostAccepted(ledger, {Reservation(o)}),
         ledger' = Posted(ledger, {Reservation(o)})
  PROVE  ledger' = ledger /\ ~HasReservation(o)
  BY RefusedIsUnknown DEF HasReservation

(* Fills and releases do not touch reservations.                           *)
LEMMA ReservationsKept ==
  ASSUME NEW batch, \A e \in batch : e.kind # "RESERVATION",
         ledger' = Posted(ledger, batch)
  PROVE  \A x : HasReservation(x)' = HasReservation(x)
<1> SUFFICES ASSUME NEW x PROVE HasReservation(x)' = HasReservation(x)
  OBVIOUS
<1>1. \A e \in batch : EntryId(e) # EntryId(Reservation(x))
  BY DEF EntryId, Reservation, Entry
<1> QED
  BY <1>1, KnownSame, HasReservationNext DEF HasReservation

(* The smaller of two numbers, as _post_fill takes it.                     *)
LEMMA MinOfTwo ==
  ASSUME NEW x \in Int, NEW y \in Int
  PROVE  Min({x, y}) = IF x <= y THEN x ELSE y
<1>1. \E m \in {x, y} : \A z \in {x, y} : m <= z
  BY SMTT(60)
<1>2. Min({x, y}) \in {x, y} /\ \A z \in {x, y} : Min({x, y}) <= z
  BY <1>1 DEF Min
<1> QED
  BY SMTT(60), <1>2

(* The amount reserved for an order is a positive number (_new_order).     *)
LEMMA ReservedType ==
  ASSUME NEW o \in Intents
  PROVE  Reserved(o) \in Nat \ {0} /\ UnitHold(o) \in Nat \ {0}
<1>1. UnitHold(o) \in Nat \ {0}
  BY SMTT(60), AmountAssumption DEF UnitHold
<1>2. \A m, n \in Nat \ {0} : m * n \in Nat \ {0}
  BY SMTT(60)
<1> QED
  BY <1>1, <1>2, AmountAssumption DEF Reserved

(* A fill releases a share of what is still held, never more (_post_fill). *)
LEMMA FillReleaseBound ==
  ASSUME NEW o \in Intents, NEW order \in Orders, NEW n \in Nat,
         order.released <= Reserved(o)
  PROVE  /\ FillRelease(o, order, n) \in Nat
         /\ order.released + FillRelease(o, order, n) <= Reserved(o)
<1>1. UnitHold(o) * n \in Nat
  BY SMTT(60), ReservedType
<1>2. Rest(o, order) \in Nat /\ Rest(o, order) + order.released = Reserved(o)
  BY SMTT(60), ReservedType DEF Rest, Orders
<1>3. FillRelease(o, order, n) \in Nat /\ FillRelease(o, order, n) <= Rest(o, order)
  <2> DEFINE u == UnitHold(o) * n
             r == Rest(o, order)
  <2>1. u \in Int /\ r \in Int /\ u \in Nat /\ r \in Nat
    BY SMTT(60), <1>1, <1>2
  <2> HIDE DEF u, r
  <2>2. Min({u, r}) = IF u <= r THEN u ELSE r
    BY <2>1, MinOfTwo
  <2>3. Min({u, r}) \in Nat /\ Min({u, r}) <= r
    BY SMTT(60), <2>1, <2>2
  <2> QED
    BY <2>3 DEF FillRelease, u, r
<1> QED
  BY SMTT(60), <1>2, <1>3, ReservedType DEF Orders

------------------------------------------------------------------------------
(* A fresh book, empty stores and a venue that knows nothing.              *)
THEOREM InitIInv == Init => IInv
  BY SMTT(60), AmountAssumption, BoundAssumption, ReservedType
  DEF Init, IInv, TypeOK, Lag, Path, Unsent, Money, SentAtMostOnce, SentIsBacked, SettledInFull,
      Early, NoOrder, NoReport, Idle, Orders, Reports, PCs, TerminalStatuses, ABSENT

(* The vocabulary of the step proofs below.                                *)
USE DEF durable, outside, process, faults, At, Idle, NoOrder, NewOrder, NoReport, Early,
        Orders, Reports, PCs, Statuses, VenueConfirmed, Working, TerminalStatuses, ABSENT

(* Orders stay well formed under the edits the OMS makes.                  *)
LEMMA OrderEdits ==
  ASSUME NEW order \in Orders
  PROVE  /\ \A s \in Statuses :
              /\ [order EXCEPT !.status = s] \in Orders
              /\ \A r \in Nat : [order EXCEPT !.status = s, !.released = r] \in Orders
         /\ \A f \in 0 .. Qty, r \in Nat :
              [order EXCEPT !.filled = f, !.released = r] \in Orders
  BY AmountAssumption

(* Reservations are read off the ledger alone.                             *)
LEMMA SameLedger ==
  ASSUME ledger' = ledger
  PROVE  \A x \in Intents : HasReservation(x)' = HasReservation(x)
  BY DEF HasReservation

(* Taking the status of a report keeps the invariant, with or without a    *)
(* fill booked just before (_apply, second half).                          *)
LEMMA TakeStatusKeeps ==
  ASSUME IInv, NEW o \in Intents, NEW order \in Orders, NEW report \in Reports,
         phase # "down", sent[o] > 0, call.pc # "idle" => call.order = o,
         mem[o].status \notin TerminalStatuses, db[o].status \notin TerminalStatuses,
         report.status # ABSENT,
         order.status = mem[o].status, order.filled >= mem[o].filled,
         order.released <= Reserved(o),
         TakeStatus(o, order, report),
         \A x \in Intents : HasReservation(x)' = HasReservation(x),
         venue' \in [Intents -> Reports],
         \A x \in Intents : sent[x] = 0 => venue'[x] = NoReport,
         UNCHANGED <<db, spent, inflight, sent, phase, pending, faults>>
  PROVE  IInv'
<1>t. TypeOK
  BY DEF IInv
<1>l. Lag
  BY DEF IInv
<1>p. Path
  BY DEF IInv
<1>s. Unsent /\ SentAtMostOnce /\ SentIsBacked
  BY DEF IInv
<1>m. Money /\ SettledInFull
  BY DEF IInv
<1>0. PICK moved \in Orders :
        /\ moved.status \notin Early
        /\ moved.filled = order.filled /\ moved.released = order.released
        /\ mem' = [mem EXCEPT ![o] = moved]
        /\ \/ call' = At("release", o)
           \/ /\ call' = At("save", o)
              /\ moved.status \in TerminalStatuses => moved.released = Reserved(o)
  <2> DEFINE legal == LegalMove(order.status, report.status)
             moved == IF legal THEN [order EXCEPT !.status = report.status] ELSE order
  <2>0. order.status \notin Early
    BY <1>t, <1>l, <1>s DEF TypeOK, Lag, Unsent, SentAtMostOnce, SentIsBacked
  <2>1. /\ moved \in Orders /\ moved.status \notin Early
        /\ moved.filled = order.filled /\ moved.released = order.released
    BY <2>0
  <2>2. mem' = [mem EXCEPT ![o] = moved]
    BY DEF TakeStatus
  <2>3. \/ call' = At("release", o)
        \/ /\ call' = At("save", o)
           /\ ~(legal /\ moved.status \in TerminalStatuses /\ Rest(o, moved) > 0)
    BY DEF TakeStatus
  <2>4. ~legal => moved.status \notin TerminalStatuses
    OBVIOUS
  <2> HIDE DEF moved, legal
  <2>5. ~(Rest(o, moved) > 0) => moved.released = Reserved(o)
    BY SMTT(60), <2>1, ReservedType DEF Rest
  <2> QED
    BY <2>1, <2>2, <2>3, <2>4, <2>5
<1>1. TypeOK'
  BY SMTT(60), <1>t, AmountAssumption, <1>0 DEF TypeOK
<1>2. Lag'
  BY SMTT(60), <1>t, <1>l, <1>s, <1>0 DEF TypeOK, Lag, SentIsBacked
<1>3. Path'
  BY SMTT(60), <1>l, <1>p, <1>s, <1>0 DEF Lag, Path, SentIsBacked
<1>4. (Unsent /\ SentAtMostOnce /\ SentIsBacked)'
  BY SMTT(60), <1>s, <1>0 DEF Unsent, SentAtMostOnce, SentIsBacked
<1>5. (Money /\ SettledInFull)'
  BY SMTT(60), <1>m, <1>0 DEF Money, SettledInFull
<1> QED
  BY <1>1, <1>2, <1>3, <1>4, <1>5 DEF IInv

(* So does applying a report of the venue (_apply).                        *)
LEMMA ApplyKeeps ==
  ASSUME IInv, NEW o \in Intents, NEW report \in Reports,
         phase # "down", sent[o] > 0, call.pc # "idle" => call.order = o,
         mem[o].status \notin TerminalStatuses, db[o].status \notin TerminalStatuses,
         report.status # ABSENT,
         Apply(o, report),
         \A x \in Intents : HasReservation(x)' = HasReservation(x),
         venue' \in [Intents -> Reports],
         \A x \in Intents : sent[x] = 0 => venue'[x] = NoReport,
         UNCHANGED <<db, spent, inflight, sent, phase, pending, faults>>
  PROVE  IInv'
<1>t. TypeOK
  BY DEF IInv
<1>l. Lag
  BY DEF IInv
<1>p. Path
  BY DEF IInv
<1>s. Unsent /\ SentAtMostOnce /\ SentIsBacked
  BY DEF IInv
<1>m. Money /\ SettledInFull
  BY DEF IInv
<1>1. CASE report.filled - mem[o].filled = 0 /\ TakeStatus(o, mem[o], report)
  <2>1. mem[o] \in Orders /\ mem[o].filled >= mem[o].filled /\ mem[o].released <= Reserved(o)
    BY SMTT(60), <1>t, <1>m DEF TypeOK, Money
  <2> QED
    BY <1>1, <2>1, TakeStatusKeeps
<1>2. CASE \/ call' = Idle /\ UNCHANGED mem
           \/ /\ report.filled > mem[o].filled
              /\ call' = [pc |-> "fill", order |-> o, report |-> report] /\ UNCHANGED mem
  <2>1. TypeOK'
    BY SMTT(60), <1>t, AmountAssumption, <1>2 DEF TypeOK
  <2>2. Lag'
    BY <1>l, <1>2 DEF Lag
  <2>3. Path'
    BY SMTT(60), <1>p, <1>2 DEF Path
  <2>4. (Unsent /\ SentAtMostOnce /\ SentIsBacked)'
    BY <1>s, <1>2 DEF Unsent, SentAtMostOnce, SentIsBacked
  <2>5. (Money /\ SettledInFull)'
    BY SMTT(60), <1>m, <1>2 DEF Money, SettledInFull
  <2> QED
    BY <2>1, <2>2, <2>3, <2>4, <2>5 DEF IInv
<1>3. report.filled - mem[o].filled > 0 => report.filled > mem[o].filled
  BY SMTT(60), <1>t DEF TypeOK
<1>4. \/ call' = Idle /\ UNCHANGED mem
      \/ /\ report.filled > mem[o].filled
         /\ call' = [pc |-> "fill", order |-> o, report |-> report] /\ UNCHANGED mem
      \/ report.filled - mem[o].filled = 0 /\ TakeStatus(o, mem[o], report)
  BY <1>3 DEF Apply
<1> HIDE DEF Idle, TypeOK, Reports, NoReport
<1> QED
  BY <1>1, <1>2, <1>4

(* An exception leaves an operation without a trace in the book, or ends   *)
(* the process during a restart.                                           *)
LEMMA RaiseKeeps ==
  ASSUME IInv, phase # "down", Raise,
         \A x \in Intents : HasReservation(x)' = HasReservation(x),
         UNCHANGED <<db, spent, outside, faults>>
  PROVE  IInv'
<1>t. TypeOK
  BY DEF IInv
<1>l. Lag
  BY DEF IInv
<1>p. Path
  BY DEF IInv
<1>s. Unsent /\ SentAtMostOnce /\ SentIsBacked
  BY DEF IInv
<1>m. Money /\ SettledInFull
  BY DEF IInv
<1>1. TypeOK'
  BY SMTT(60), <1>t, AmountAssumption DEF Raise, TypeOK
<1>2. Lag'
  BY <1>l DEF Raise, Lag
<1>3. Path'
  BY SMTT(60), <1>p DEF Raise, Path
<1>4. (Unsent /\ SentAtMostOnce /\ SentIsBacked)'
  BY SMTT(60), <1>s DEF Raise, Unsent, SentAtMostOnce, SentIsBacked
<1>5. (Money /\ SettledInFull)'
  BY SMTT(60), <1>m, ReservedType DEF Raise, Money, SettledInFull
<1> QED
  BY <1>1, <1>2, <1>3, <1>4, <1>5 DEF IInv

------------------------------------------------------------------------------
(* The awaits of submit and the writes that end an operation keep IInv.    *)

(* submit spends the permit; nothing else moves before the first await.    *)
LEMMA SubmitStep ==
  ASSUME IInv, \E o \in Intents, p \in Permits : Submit(o, p)
  PROVE  IInv'
<1>t. TypeOK
  BY DEF IInv
<1>l. Lag
  BY DEF IInv
<1>p. Path
  BY DEF IInv
<1>s. Unsent /\ SentAtMostOnce /\ SentIsBacked
  BY DEF IInv
<1>m. Money /\ SettledInFull
  BY DEF IInv
<1>0. PICK o \in Intents, p \in Permits : Submit(o, p)
  OBVIOUS
<1>h. \A x \in Intents : HasReservation(x)' = HasReservation(x)
  BY <1>0, SameLedger DEF Submit, Free
<1>1. TypeOK'
  BY SMTT(60), <1>t, AmountAssumption DEF Submit, TypeOK
<1>2. Lag'
  BY <1>t, <1>l, <1>p, <1>0, <1>h DEF Submit, Free, TypeOK, Lag, Path
<1>3. Path'
  BY SMTT(60), <1>t, <1>l, <1>p, <1>s DEF Submit, Free, TypeOK, Lag, Path, SentIsBacked
<1>4. (Unsent /\ SentAtMostOnce /\ SentIsBacked)'
  BY <1>s, <1>h DEF Submit, Unsent, SentAtMostOnce, SentIsBacked
<1>5. (Money /\ SettledInFull)'
  BY SMTT(60), <1>m, <1>h DEF Submit, Money, SettledInFull
<1> QED
  BY <1>1, <1>2, <1>3, <1>4, <1>5 DEF IInv

(* The row of a new order.                                                 *)
LEMMA CreateOrderStep ==
  ASSUME IInv, CreateOrder
  PROVE  IInv'
<1>t. TypeOK
  BY DEF IInv
<1>l. Lag
  BY DEF IInv
<1>p. Path
  BY DEF IInv
<1>s. Unsent /\ SentAtMostOnce /\ SentIsBacked
  BY DEF IInv
<1>m. Money /\ SettledInFull
  BY DEF IInv
<1>h. \A x \in Intents : HasReservation(x)' = HasReservation(x)
  BY SameLedger DEF CreateOrder
<1>1. TypeOK'
  BY SMTT(60), <1>t, AmountAssumption, ReservedType DEF CreateOrder, TypeOK
<1>2. Lag'
  BY SMTT(60), <1>t, <1>l DEF CreateOrder, TypeOK, Lag
<1>3. Path'
  BY SMTT(60), <1>t, <1>p DEF CreateOrder, TypeOK, Path
<1>4. (Unsent /\ SentAtMostOnce /\ SentIsBacked)'
  BY SMTT(60), <1>p, <1>s, <1>h DEF CreateOrder, Path, Unsent, SentAtMostOnce, SentIsBacked
<1>5. (Money /\ SettledInFull)'
  BY SMTT(60), <1>m, <1>h, ReservedType DEF CreateOrder, Money, SettledInFull
<1> QED
  BY <1>1, <1>2, <1>3, <1>4, <1>5 DEF IInv

(* The hold is posted, or refused and the order rejected.                  *)
LEMMA ReserveStep ==
  ASSUME IInv, Reserve
  PROVE  IInv'
<1>t. TypeOK
  BY DEF IInv
<1>l. Lag
  BY DEF IInv
<1>p. Path
  BY DEF IInv
<1>s. Unsent /\ SentAtMostOnce /\ SentIsBacked
  BY DEF IInv
<1>m. Money /\ SettledInFull
  BY DEF IInv
<1>0. PICK o \in Intents : o = call.order /\ call.pc = "reserve"
  BY <1>t DEF Reserve, TypeOK
<1>b. ledger' = Posted(ledger, {Reservation(o)})
  BY <1>0 DEF Reserve
<1>c. UNCHANGED <<db, spent, outside, phase, pending, faults>>
  BY DEF Reserve
<1>1. CASE PostAccepted(ledger, {Reservation(o)})
  <2>0. mem' = [mem EXCEPT ![o].status = "SUBMITTED"] /\ call' = At("submitted", o)
    BY <1>0, <1>1 DEF Reserve
  <2>h. /\ HasReservation(o)'
        /\ \A x \in Intents : x # o => HasReservation(x)' = HasReservation(x)
    <3> HIDE DEF At
    <3> QED
      BY <1>b, <1>1, ReservationAccepted
  <2>n. db[o].status = "NEW"
    BY <1>p, <1>0 DEF Path
  <2>y. mem' \in [Intents -> Orders]
    <3>1. mem \in [Intents -> Orders]
      BY <1>t DEF TypeOK
    <3> HIDE DEF Orders
    <3> QED
      BY <3>1, <1>0, <2>0, OrderEdits
  <2>1. TypeOK'
    BY SMTT(60), <1>t, AmountAssumption, <1>c, <2>0, <2>y DEF TypeOK
  <2>2. Lag'
    BY SMTT(60), <1>l, <1>p, <1>0, <1>c, <2>0 DEF Lag, Path
  <2>3. Path'
    BY SMTT(60), <1>t, <1>p, <1>0, <1>c, <2>0, <2>h DEF TypeOK, Path
  <2>4. (Unsent /\ SentAtMostOnce /\ SentIsBacked)'
    BY SMTT(60), <1>s, <1>c, <2>0, <2>h DEF Unsent, SentAtMostOnce, SentIsBacked
  <2>5. (Money /\ SettledInFull)'
    BY <1>t, <1>m, <1>c, <2>0, <2>h, <2>n DEF TypeOK, Money, SettledInFull
  <2> QED
    BY <2>1, <2>2, <2>3, <2>4, <2>5 DEF IInv
<1>2. CASE ~PostAccepted(ledger, {Reservation(o)})
  <2>0. mem' = [mem EXCEPT ![o].status = "REJECTED"] /\ call' = At("save", o)
    BY <1>0, <1>2 DEF Reserve
  <2>h. ~HasReservation(o) /\ \A x \in Intents : HasReservation(x)' = HasReservation(x)
    <3> HIDE DEF At
    <3> QED
      BY <1>b, <1>2, SameLedger, ReservationRefused
  <2>y. mem' \in [Intents -> Orders]
    <3>1. mem \in [Intents -> Orders]
      BY <1>t DEF TypeOK
    <3> HIDE DEF Orders
    <3> QED
      BY <3>1, <1>0, <2>0, OrderEdits
  <2>1. TypeOK'
    BY SMTT(60), <1>t, AmountAssumption, <1>c, <2>0, <2>y DEF TypeOK
  <2>2. Lag'
    BY SMTT(60), <1>l, <1>p, <1>0, <1>c, <2>0 DEF Lag, Path
  <2>3. Path'
    BY SMTT(60), <1>t, <1>p, <1>0, <1>c, <2>0 DEF TypeOK, Path
  <2>4. (Unsent /\ SentAtMostOnce /\ SentIsBacked)'
    BY SMTT(60), <1>s, <1>c, <2>0, <2>h DEF Unsent, SentAtMostOnce, SentIsBacked
  <2>5. (Money /\ SettledInFull)'
    BY SMTT(60), <1>m, <1>c, <2>0, <2>h DEF Money, SettledInFull
  <2> QED
    BY <2>1, <2>2, <2>3, <2>4, <2>5 DEF IInv
<1> QED
  BY <1>1, <1>2

(* SUBMITTED is stored before the venue is called.                         *)
LEMMA CommitSubmittedStep ==
  ASSUME IInv, CommitSubmitted
  PROVE  IInv'
<1>t. TypeOK
  BY DEF IInv
<1>l. Lag
  BY DEF IInv
<1>p. Path
  BY DEF IInv
<1>s. Unsent /\ SentAtMostOnce /\ SentIsBacked
  BY DEF IInv
<1>m. Money /\ SettledInFull
  BY DEF IInv
<1>h. \A x \in Intents : HasReservation(x)' = HasReservation(x)
  BY SameLedger DEF CommitSubmitted
<1>1. TypeOK'
  BY SMTT(60), <1>t, AmountAssumption DEF CommitSubmitted, TypeOK
<1>2. Lag'
  BY SMTT(60), <1>t, <1>l DEF CommitSubmitted, TypeOK, Lag
<1>3. Path'
  BY SMTT(60), <1>t, <1>p, <1>h DEF CommitSubmitted, TypeOK, Path
<1>4. (Unsent /\ SentAtMostOnce /\ SentIsBacked)'
  BY SMTT(60), <1>p, <1>s, <1>h DEF CommitSubmitted, Path, Unsent, SentAtMostOnce, SentIsBacked
<1>5. (Money /\ SettledInFull)'
  BY SMTT(60), <1>p, <1>m, <1>h DEF CommitSubmitted, Path, Money, SettledInFull
<1> QED
  BY <1>1, <1>2, <1>3, <1>4, <1>5 DEF IInv

(* The one call of the venue.                                              *)
LEMMA SendStep ==
  ASSUME IInv, Send
  PROVE  IInv'
<1>t. TypeOK
  BY DEF IInv
<1>l. Lag
  BY DEF IInv
<1>p. Path
  BY DEF IInv
<1>s. Unsent /\ SentAtMostOnce /\ SentIsBacked
  BY DEF IInv
<1>m. Money /\ SettledInFull
  BY DEF IInv
<1>h. \A x \in Intents : HasReservation(x)' = HasReservation(x)
  BY SameLedger DEF Send
<1>1. TypeOK'
  BY SMTT(60), <1>t, AmountAssumption DEF Send, TypeOK
<1>2. Lag'
  BY SMTT(60), <1>l DEF Send, Lag
<1>3. Path'
  BY SMTT(60), <1>t, <1>p DEF Send, TypeOK, Path
<1>4. (Unsent /\ SentAtMostOnce /\ SentIsBacked)'
  BY SMTT(60), <1>t, <1>p, <1>s, <1>h DEF Send, TypeOK, Path, Unsent, SentAtMostOnce, SentIsBacked
<1>5. (Money /\ SettledInFull)'
  BY <1>t, <1>l, <1>p, <1>m, <1>h DEF Send, TypeOK, Lag, Path, Money, SettledInFull
<1> QED
  BY <1>1, <1>2, <1>3, <1>4, <1>5 DEF IInv

(* The answer of the venue.                                                *)
LEMMA SubmitAnsweredStep ==
  ASSUME IInv, SubmitAnswered
  PROVE  IInv'
<1>t. TypeOK
  BY DEF IInv
<1>0. PICK o \in Intents : o = call.order /\ call.pc = "wait"
  BY <1>t DEF SubmitAnswered, TypeOK
<1>1. Apply(o, venue[o]) /\ venue[o].status # ABSENT
  BY <1>0 DEF SubmitAnswered
<1>2. UNCHANGED <<durable, outside, phase, pending, faults>>
  BY <1>t DEF SubmitAnswered, TypeOK
<1>3. \A x \in Intents : HasReservation(x)' = HasReservation(x)
  BY <1>2, SameLedger
<1>4. /\ phase # "down" /\ sent[o] > 0 /\ venue[o] \in Reports
      /\ mem[o].status \notin TerminalStatuses /\ db[o].status \notin TerminalStatuses
      /\ venue' \in [Intents -> Reports]
      /\ \A x \in Intents : sent[x] = 0 => venue'[x] = NoReport
  BY SMTT(60), <1>0, <1>2 DEF IInv, TypeOK, Lag, Path, Unsent
<1> QED
  BY <1>0, <1>1, <1>2, <1>3, <1>4, ApplyKeeps

(* No answer: UNKNOWN.                                                     *)
LEMMA SubmitFailsStep ==
  ASSUME IInv, SubmitFails
  PROVE  IInv'
<1>t. TypeOK
  BY DEF IInv
<1>l. Lag
  BY DEF IInv
<1>p. Path
  BY DEF IInv
<1>s. Unsent /\ SentAtMostOnce /\ SentIsBacked
  BY DEF IInv
<1>m. Money /\ SettledInFull
  BY DEF IInv
<1>h. \A x \in Intents : HasReservation(x)' = HasReservation(x)
  BY SameLedger DEF SubmitFails
<1>y. mem' \in [Intents -> Orders]
  <2>1. mem \in [Intents -> Orders] /\ "UNKNOWN" \in Statuses
    BY <1>t DEF TypeOK
  <2>2. mem' = [mem EXCEPT ![call.order].status = "UNKNOWN"]
    BY DEF SubmitFails
  <2> HIDE DEF Orders, Statuses
  <2> QED
    BY <2>1, <2>2, OrderEdits
<1>1. TypeOK'
  BY SMTT(60), <1>t, AmountAssumption, <1>y DEF SubmitFails, TypeOK
<1>2. Lag'
  BY SMTT(60), <1>l, <1>p, <1>s DEF SubmitFails, Lag, Path, SentIsBacked
<1>3. Path'
  BY SMTT(60), <1>l, <1>p, <1>s DEF SubmitFails, Lag, Path, SentIsBacked
<1>4. (Unsent /\ SentAtMostOnce /\ SentIsBacked)'
  BY SMTT(60), <1>s, <1>h DEF SubmitFails, Unsent, SentAtMostOnce, SentIsBacked
<1>5. (Money /\ SettledInFull)'
  BY SMTT(60), <1>p, <1>m, <1>h DEF SubmitFails, Path, Money, SettledInFull
<1> QED
  BY <1>1, <1>2, <1>3, <1>4, <1>5 DEF IInv

(* A fill is posted to the ledger, or refused.                             *)
LEMMA PostFillStep ==
  ASSUME IInv, PostFill
  PROVE  IInv'
<1>t. TypeOK
  BY DEF IInv
<1>0. PICK o \in Intents : o = call.order /\ call.pc = "fill"
  BY <1>t DEF PostFill, TypeOK
<1> DEFINE n     == call.report.filled - mem[o].filled
           batch == FillBatch(o, mem[o], call.report)
           after == [mem[o] EXCEPT !.filled = call.report.filled,
                                   !.released = @ + FillRelease(o, mem[o], n)]
<1>1. UNCHANGED <<db, spent, outside, faults>> /\ ledger' = Posted(ledger, batch)
  BY <1>0 DEF PostFill
<1>2. \A x \in Intents : HasReservation(x)' = HasReservation(x)
  <2>1. \A e \in batch : e.kind # "RESERVATION"
    BY SMTT(60) DEF FillBatch, Entry
  <2> QED
    BY <1>1, <2>1, ReservationsKept
<1>3. /\ phase # "down" /\ sent[o] > 0 /\ call.report \in Reports /\ n \in Nat
      /\ mem[o].status \notin TerminalStatuses /\ db[o].status \notin TerminalStatuses
      /\ venue' \in [Intents -> Reports]
      /\ \A x \in Intents : sent[x] = 0 => venue'[x] = NoReport
  BY SMTT(60), <1>0, <1>1 DEF IInv, TypeOK, Lag, Path, Unsent
<1>4. after \in Orders /\ after.released <= Reserved(o)
  <2>0. mem[o] \in Orders /\ mem[o].released <= Reserved(o) /\ call.report.filled \in 0 .. Qty
    BY <1>t, <1>3
    DEF IInv, TypeOK, Money
  <2>1. /\ FillRelease(o, mem[o], n) \in Nat
        /\ mem[o].released + FillRelease(o, mem[o], n) <= Reserved(o)
    BY <1>3, <2>0, FillReleaseBound
  <2>2. [mem[o] EXCEPT !.filled = call.report.filled,
                       !.released = mem[o].released + FillRelease(o, mem[o], n)] \in Orders
    <3>1. mem[o].released + FillRelease(o, mem[o], n) \in Nat
      BY SMTT(60), <2>0, <2>1
    <3>2. mem[o] \in Orders /\ call.report.filled \in 0 .. Qty
      BY <2>0
    <3> HIDE DEF Orders, n
    <3> QED
      BY <3>1, <3>2, OrderEdits
  <2> QED
    BY <2>0, <2>1, <2>2
<1> HIDE DEF n, batch
<1>5. CASE PostAccepted(ledger, batch)
  <2>1. TakeStatus(o, after, call.report) /\ UNCHANGED <<phase, pending>>
    BY <1>0, <1>5 DEF PostFill, n, batch
  <2>2. /\ call.report.status # ABSENT
        /\ after.status = mem[o].status /\ after.filled >= mem[o].filled
    BY SMTT(60), <1>0 DEF IInv, TypeOK, Path
  <2> HIDE DEF after
  <2> QED
    BY <1>0, <1>1, <1>2, <1>3, <1>4, <2>1, <2>2, TakeStatusKeeps
<1>6. CASE ~PostAccepted(ledger, batch)
  <2>1. Raise
    BY <1>0, <1>6 DEF PostFill, n, batch
  <2> QED
    BY <1>1, <1>2, <1>3, <2>1, RaiseKeeps
<1> QED
  BY <1>5, <1>6

(* What is left of the hold goes back.                                     *)
LEMMA ReleaseRestStep ==
  ASSUME IInv, ReleaseRest
  PROVE  IInv'
<1>t. TypeOK
  BY DEF IInv
<1>l. Lag
  BY DEF IInv
<1>p. Path
  BY DEF IInv
<1>s. Unsent /\ SentAtMostOnce /\ SentIsBacked
  BY DEF IInv
<1>m. Money /\ SettledInFull
  BY DEF IInv
<1>0. PICK o \in Intents : o = call.order /\ call.pc = "release"
  BY <1>t DEF ReleaseRest, TypeOK
<1> DEFINE batch == {FinalRelease(o, mem[o])}
<1>1. UNCHANGED <<db, spent, outside, faults>> /\ ledger' = Posted(ledger, batch)
  BY <1>0 DEF ReleaseRest
<1>2. \A x \in Intents : HasReservation(x)' = HasReservation(x)
  <2>1. \A e \in batch : e.kind # "RESERVATION"
    BY SMTT(60) DEF FinalRelease, Entry
  <2> QED
    BY SMTT(60), <1>1, <2>1, ReservationsKept
<1>3. CASE PostAccepted(ledger, batch)
  <2>0. /\ mem' = [mem EXCEPT ![o].released = Reserved(o)]
        /\ call' = At("save", o)
        /\ UNCHANGED <<phase, pending>>
    BY <1>0, <1>3 DEF ReleaseRest
  <2>1. TypeOK'
    BY SMTT(60), <1>t, AmountAssumption, <1>0, <1>1, <1>2, <2>0, ReservedType DEF TypeOK
  <2>2. Lag'
    BY SMTT(60), <1>l, <1>p, <1>0, <1>1, <2>0 DEF Lag, Path
  <2>3. Path'
    BY SMTT(60), <1>p, <1>0, <1>1, <2>0 DEF Path
  <2>4. (Unsent /\ SentAtMostOnce /\ SentIsBacked)'
    BY SMTT(60), <1>s, <1>1, <1>2, <2>0 DEF Unsent, SentAtMostOnce, SentIsBacked
  <2>5. (Money /\ SettledInFull)'
    BY SMTT(60), <1>t, <1>m, <1>1, <1>2, <2>0, ReservedType DEF TypeOK, Money, SettledInFull
  <2> QED
    BY <2>1, <2>2, <2>3, <2>4, <2>5 DEF IInv
<1>4. CASE ~PostAccepted(ledger, batch)
  <2>1. Raise /\ phase # "down"
    BY SMTT(60), <1>l, <1>0, <1>4 DEF ReleaseRest, Lag
  <2> QED
    BY <1>1, <1>2, <2>1, RaiseKeeps
<1> QED
  BY <1>3, <1>4

(* The row is written.                                                     *)
LEMMA SaveStep ==
  ASSUME IInv, Save
  PROVE  IInv'
<1>t. TypeOK
  BY DEF IInv
<1>l. Lag
  BY DEF IInv
<1>p. Path
  BY DEF IInv
<1>s. Unsent /\ SentAtMostOnce /\ SentIsBacked
  BY DEF IInv
<1>m. Money /\ SettledInFull
  BY DEF IInv
<1>h. \A x \in Intents : HasReservation(x)' = HasReservation(x)
  BY SameLedger DEF Save
<1>1. TypeOK'
  BY SMTT(60), <1>t, AmountAssumption DEF Save, TypeOK
<1>2. Lag'
  BY SMTT(60), <1>t, <1>l DEF Save, TypeOK, Lag
<1>3. Path'
  BY SMTT(60), <1>p DEF Save, Path
<1>4. (Unsent /\ SentAtMostOnce /\ SentIsBacked)'
  BY SMTT(60), <1>p, <1>s, <1>h DEF Save, Path, Unsent, SentAtMostOnce, SentIsBacked
<1>5. (Money /\ SettledInFull)'
  BY SMTT(60), <1>m, <1>h DEF Save, Money, SettledInFull
<1> QED
  BY <1>1, <1>2, <1>3, <1>4, <1>5 DEF IInv

(* A write that raises ends the operation.                                 *)
LEMMA WriteFaultFacts ==
  ASSUME IInv, WriteFault
  PROVE  /\ phase = "up" /\ phase' = "up" /\ call' = Idle
         /\ UNCHANGED <<venue, inflight, sent, pending, crashes>>
         /\ writeFaults' \in 0 .. MaxWriteFaults
<1>1. writeFaults \in 0 .. MaxWriteFaults
  BY DEF IInv, TypeOK
<1>2. writeFaults' \in 0 .. MaxWriteFaults
  BY SMTT(60), <1>1, BoundAssumption DEF WriteFault
<1> QED
  BY <1>2 DEF WriteFault

(* The permit's row raises, committed or not.                              *)
LEMMA ConsumeFailsStep ==
  ASSUME IInv, \E o \in Intents, p \in Permits : ConsumeFails(o, p)
  PROVE  IInv'
<1>t. TypeOK
  BY DEF IInv
<1>l. Lag
  BY DEF IInv
<1>p. Path
  BY DEF IInv
<1>s. Unsent /\ SentAtMostOnce /\ SentIsBacked
  BY DEF IInv
<1>m. Money /\ SettledInFull
  BY DEF IInv
<1>0. PICK o \in Intents, p \in Permits : ConsumeFails(o, p)
  OBVIOUS
<1>a. /\ UNCHANGED <<db, ledger, mem, venue, inflight, sent, pending, crashes, phase>>
      /\ call' = Idle /\ writeFaults' \in 0 .. MaxWriteFaults
      /\ spent' \in {spent, spent \cup {p}}
  BY <1>0, WriteFaultFacts DEF ConsumeFails
<1>h. \A x \in Intents : HasReservation(x)' = HasReservation(x)
  BY <1>a, SameLedger
<1>b. spent \subseteq spent' /\ (spent \subseteq Permits => spent' \subseteq Permits)
  BY <1>a
<1>1. TypeOK'
  BY SMTT(60), <1>t, <1>a, <1>b, AmountAssumption DEF TypeOK
<1>2. Lag'
  BY <1>l, <1>a DEF Lag
<1>3. Path'
  BY SMTT(60), <1>p, <1>a, <1>h DEF Path
<1>4. (Unsent /\ SentAtMostOnce /\ SentIsBacked)'
  BY <1>s, <1>a, <1>b, <1>h DEF Unsent, SentAtMostOnce, SentIsBacked
<1>5. (Money /\ SettledInFull)'
  BY SMTT(60), <1>m, <1>a, <1>h DEF Money, SettledInFull
<1> QED
  BY <1>1, <1>2, <1>3, <1>4, <1>5 DEF IInv

(* The order's row raises, committed or not.                               *)
LEMMA SaveFailsStep ==
  ASSUME IInv, SaveFails
  PROVE  IInv'
<1>t. TypeOK
  BY DEF IInv
<1>l. Lag
  BY DEF IInv
<1>p. Path
  BY DEF IInv
<1>s. Unsent /\ SentAtMostOnce /\ SentIsBacked
  BY DEF IInv
<1>m. Money /\ SettledInFull
  BY DEF IInv
<1> DEFINE row == IF call.pc = "create" THEN NewOrder ELSE mem[call.order]
<1>0. PICK o \in Intents : o = call.order /\ call.pc \in {"create", "submitted", "save"}
  BY <1>t DEF SaveFails, TypeOK
<1>a. /\ UNCHANGED <<ledger, spent, venue, inflight, sent, pending, crashes, phase>>
      /\ phase = "up" /\ call' = Idle /\ writeFaults' \in 0 .. MaxWriteFaults
      /\ mem' = [mem EXCEPT ![o] = row] /\ db' \in {db, [db EXCEPT ![o] = row]}
  BY <1>0, WriteFaultFacts DEF SaveFails
<1>h. \A x \in Intents : HasReservation(x)' = HasReservation(x)
  BY <1>a, SameLedger
<1>y. /\ mem \in [Intents -> Orders] /\ db \in [Intents -> Orders] /\ row \in Orders
      /\ row.filled >= db[o].filled /\ row.filled >= mem[o].filled
      /\ row.status # ABSENT /\ row.released <= Reserved(o)
      /\ row.status \in Early => db[o].status \in Early
      /\ row.status \notin Early => db[o].status # ABSENT
      /\ db[o].status \notin TerminalStatuses
      /\ sent[o] = 0 => row.filled = 0
      /\ sent[o] > 0 => row.status \notin Early
      /\ row.status \in TerminalStatuses /\ HasReservation(o) => row.released = Reserved(o)
  <2>1. CASE call.pc = "create"
    BY SMTT(60), <2>1, <1>0, <1>a, <1>t, <1>p, <1>s, AmountAssumption, ReservedType
    DEF TypeOK, Path, Unsent
  <2>2. CASE call.pc \in {"submitted", "save"}
    <3>1. row = mem[o] /\ mem[o] \in Orders /\ db[o] \in Orders
      BY <2>2, <1>0, <1>t DEF TypeOK
    <3>2. mem[o].status \notin Early /\ db[o].status \notin TerminalStatuses
      BY <2>2, <1>0, <1>p DEF Path
    <3>3. db[o].filled <= mem[o].filled /\ db[o].status # ABSENT
      BY <3>2, <1>a, <1>l DEF Lag
    <3>4. /\ mem[o].released <= Reserved(o)
          /\ mem[o].status \in TerminalStatuses /\ HasReservation(o) =>
               mem[o].released = Reserved(o)
      BY <2>2, <1>0, <1>m, <1>p DEF Money, Path
    <3>5. sent[o] = 0 => mem[o].filled = 0
      BY <1>s DEF Unsent
    <3>6. mem[o].filled >= mem[o].filled
      BY SMTT(60), <3>1
    <3>7. row.filled >= db[o].filled
      BY SMTT(60), <3>1, <3>3
    <3> HIDE DEF row
    <3> QED
      BY <1>t, <3>1, <3>2, <3>3, <3>4, <3>5, <3>6, <3>7 DEF TypeOK
  <2> QED
    BY <1>0, <2>1, <2>2
<1> HIDE DEF row
<1>1. TypeOK'
  BY SMTT(60), <1>t, <1>a, <1>y, AmountAssumption DEF TypeOK
<1>2. Lag'
  BY SMTT(60), <1>t, <1>l, <1>a, <1>y DEF TypeOK, Lag
<1>3. Path'
  BY SMTT(60), <1>l, <1>a DEF Lag, Path
<1>4. (Unsent /\ SentAtMostOnce /\ SentIsBacked)'
  BY SMTT(60), <1>s, <1>a, <1>y, <1>h DEF Unsent, SentAtMostOnce, SentIsBacked
<1>5. (Money /\ SettledInFull)'
  BY SMTT(60), <1>m, <1>a, <1>y, <1>h DEF Money, SettledInFull
<1> QED
  BY <1>1, <1>2, <1>3, <1>4, <1>5 DEF IInv

(* A post of the ledger raises, committed or not.                          *)
LEMMA PostFailsStep ==
  ASSUME IInv, PostFails
  PROVE  IInv'
<1>t. TypeOK
  BY DEF IInv
<1>l. Lag
  BY DEF IInv
<1>p. Path
  BY DEF IInv
<1>s. Unsent /\ SentAtMostOnce /\ SentIsBacked
  BY DEF IInv
<1>m. Money /\ SettledInFull
  BY DEF IInv
<1>0. PICK o \in Intents : o = call.order /\ call.pc \in {"reserve", "fill", "release"}
  BY <1>t DEF PostFails, TypeOK
<1>a. /\ UNCHANGED <<db, spent, mem, venue, inflight, sent, pending, crashes, phase>>
      /\ call' = Idle /\ writeFaults' \in 0 .. MaxWriteFaults
      /\ ledger' = ledger \/ ledger' = Posted(ledger, Batch)
  BY WriteFaultFacts DEF PostFails
<1>r. call.pc = "reserve" => db[o].status = "NEW"
  BY <1>p, <1>0 DEF Path
<1>h. /\ \A x \in Intents : HasReservation(x) => HasReservation(x)'
      /\ \A x \in Intents : db[x].status \in TerminalStatuses => HasReservation(x)' = HasReservation(x)
  <2>1. CASE ledger' = ledger
    BY <2>1, SameLedger
  <2>2. CASE ledger' = Posted(ledger, Batch) /\ call.pc = "reserve"
    <3>1. ledger' = Posted(ledger, {Reservation(o)})
      BY <2>2, <1>0 DEF Batch
    <3>2. CASE PostAccepted(ledger, {Reservation(o)})
      <4>1. HasReservation(o)' /\ \A x : x # o => HasReservation(x)' = HasReservation(x)
        BY <3>1, <3>2, ReservationAccepted
      <4> QED
        BY <4>1, <2>2, <1>r
    <3>3. CASE ~PostAccepted(ledger, {Reservation(o)})
      BY <3>1, <3>3, ReservationRefused, SameLedger
    <3> QED
      BY <3>2, <3>3
  <2>3. CASE ledger' = Posted(ledger, Batch) /\ call.pc \in {"fill", "release"}
    <3>1. \A e \in Batch : e.kind # "RESERVATION"
      <4>1. CASE call.pc = "fill"
        <5>1. Batch = FillBatch(call.order, mem[call.order], call.report)
          BY <4>1 DEF Batch
        <5> QED
          BY SMTT(60), <5>1 DEF FillBatch, Entry
      <4>2. CASE call.pc = "release"
        <5>1. Batch = {FinalRelease(call.order, mem[call.order])}
          BY SMTT(60), <4>2 DEF Batch
        <5> QED
          BY SMTT(60), <5>1 DEF FinalRelease, Entry
      <4> QED
        BY <2>3, <4>1, <4>2
    <3> QED
      BY <2>3, <3>1, ReservationsKept
  <2> QED
    BY <1>0, <1>a, <2>1, <2>2, <2>3
<1>1. TypeOK'
  BY SMTT(60), <1>t, <1>a, AmountAssumption DEF TypeOK
<1>2. Lag'
  BY <1>l, <1>a DEF Lag
<1>3. Path'
  BY SMTT(60), <1>p, <1>a DEF Path
<1>4. (Unsent /\ SentAtMostOnce /\ SentIsBacked)'
  BY <1>s, <1>a, <1>h DEF Unsent, SentAtMostOnce, SentIsBacked
<1>5. (Money /\ SettledInFull)'
  BY SMTT(60), <1>m, <1>a, <1>h DEF Money, SettledInFull
<1> QED
  BY <1>1, <1>2, <1>3, <1>4, <1>5 DEF IInv

------------------------------------------------------------------------------
(* Queries, cancels, restarts and the venue keep IInv, and so does Next.   *)

(* resolve_unknown asks the venue.                                         *)
LEMMA ResolveUnknownStep ==
  ASSUME IInv, \E o \in Intents : ResolveUnknown(o)
  PROVE  IInv'
<1>t. TypeOK
  BY DEF IInv
<1>l. Lag
  BY DEF IInv
<1>p. Path
  BY DEF IInv
<1>s. Unsent /\ SentAtMostOnce /\ SentIsBacked
  BY DEF IInv
<1>m. Money /\ SettledInFull
  BY DEF IInv
<1>0. PICK o \in Intents : ResolveUnknown(o)
  OBVIOUS
<1>1. /\ Free /\ phase # "down" /\ call.pc = "idle"
      /\ mem[o].status \notin TerminalStatuses \cup {ABSENT}
      /\ db[o].status \notin TerminalStatuses
  BY <1>t, <1>l, <1>0 DEF ResolveUnknown, Free, TypeOK, Lag
<1>2. UNCHANGED <<durable, inflight, sent, phase, pending, faults>>
  BY <1>0 DEF ResolveUnknown
<1>3. \A x \in Intents : HasReservation(x)' = HasReservation(x)
  BY <1>2, SameLedger
<1>4. CASE venue[o].status = ABSENT
  <2>0. /\ mem' = [mem EXCEPT ![o].status = "REJECTED"]
        /\ call' = At(IF Rest(o, mem[o]) > 0 THEN "release" ELSE "save", o)
        /\ UNCHANGED venue
    BY <1>0, <1>4 DEF ResolveUnknown
  <2>q. mem[o] \in Orders /\ mem[o].released <= Reserved(o)
    BY <1>t, <1>m DEF TypeOK, Money, SettledInFull
  <2>r. ~(Rest(o, mem[o]) > 0) => mem[o].released = Reserved(o)
    BY SMTT(60), <2>q, ReservedType DEF Rest
  <2>s. mem[o].status = "UNKNOWN"
    BY <1>0 DEF ResolveUnknown
  <2>y. mem' \in [Intents -> Orders]
    <3>1. mem \in [Intents -> Orders]
      BY <1>t DEF TypeOK
    <3> HIDE DEF Orders
    <3> QED
      BY <3>1, <2>0, OrderEdits
  <2>1. TypeOK'
    BY SMTT(60), <1>t, AmountAssumption, <1>2, <2>0, <2>y DEF TypeOK
  <2>2. Lag'
    BY SMTT(60), <1>l, <1>1, <1>2, <2>0, <2>s DEF Lag
  <2>3. Path'
    BY SMTT(60), <1>p, <1>1, <1>2, <2>0, <2>s DEF Path
  <2>4. (Unsent /\ SentAtMostOnce /\ SentIsBacked)'
    BY SMTT(60), <1>s, <1>2, <1>3, <2>0 DEF Unsent, SentAtMostOnce, SentIsBacked
  <2>5. (Money /\ SettledInFull)'
    BY SMTT(60), <1>m, <1>2, <1>3, <2>0, <2>r DEF Money, SettledInFull
  <2> QED
    BY <2>1, <2>2, <2>3, <2>4, <2>5 DEF IInv
<1>5. CASE venue[o].status # ABSENT /\ Apply(o, venue[o])
  <2>1. /\ sent[o] > 0 /\ venue[o] \in Reports /\ venue[o].status # ABSENT
        /\ venue' \in [Intents -> Reports]
        /\ \A x \in Intents : sent[x] = 0 => venue'[x] = NoReport
    BY SMTT(60), <1>t, <1>s, <1>5 DEF ResolveUnknown, TypeOK, Unsent
  <2> QED
    BY <1>1, <1>2, <1>3, <1>5, <2>1, ApplyKeeps
<1> QED
  BY <1>0, <1>4, <1>5 DEF ResolveUnknown

(* refresh asks the venue about a working order.                           *)
LEMMA RefreshStep ==
  ASSUME IInv, \E o \in Intents : Refresh(o)
  PROVE  IInv'
<1>t. TypeOK
  BY DEF IInv
<1>l. Lag
  BY DEF IInv
<1>p. Path
  BY DEF IInv
<1>s. Unsent /\ SentAtMostOnce /\ SentIsBacked
  BY DEF IInv
<1>m. Money /\ SettledInFull
  BY DEF IInv
<1>0. PICK o \in Intents : Refresh(o)
  OBVIOUS
<1>1. /\ Free /\ phase # "down" /\ call.pc = "idle"
      /\ mem[o].status \notin TerminalStatuses \cup {ABSENT}
      /\ db[o].status \notin TerminalStatuses
  BY <1>t, <1>l, <1>0 DEF Refresh, Free, TypeOK, Lag
<1>2. UNCHANGED <<durable, inflight, sent, phase, pending, faults>>
  BY <1>0 DEF Refresh
<1>3. \A x \in Intents : HasReservation(x)' = HasReservation(x)
  BY <1>2, SameLedger
<1>4. CASE /\ mem' = [mem EXCEPT ![o].status = "UNKNOWN"]
           /\ call' = At("save", o)
           /\ venue[o].status = ABSENT
  <2>0. UNCHANGED venue /\ mem[o].status \in Working
    BY <1>0 DEF Refresh
  <2>y. mem' \in [Intents -> Orders]
    <3>1. mem \in [Intents -> Orders]
      BY <1>t DEF TypeOK
    <3> HIDE DEF Orders
    <3> QED
      BY <3>1, <1>4, OrderEdits
  <2>1. TypeOK'
    BY SMTT(60), <1>t, AmountAssumption, <1>2, <1>4, <2>0, <2>y DEF TypeOK
  <2>2. Lag'
    BY SMTT(60), <1>l, <1>1, <1>2, <1>4, <2>0 DEF Lag
  <2>3. Path'
    BY SMTT(60), <1>p, <1>1, <1>2, <1>4, <2>0 DEF Path
  <2>4. (Unsent /\ SentAtMostOnce /\ SentIsBacked)'
    BY SMTT(60), <1>s, <1>2, <1>3, <1>4, <2>0 DEF Unsent, SentAtMostOnce, SentIsBacked
  <2>5. (Money /\ SettledInFull)'
    BY SMTT(60), <1>m, <1>2, <1>3, <1>4, <2>0 DEF Money, SettledInFull
  <2> QED
    BY <2>1, <2>2, <2>3, <2>4, <2>5 DEF IInv
<1>5. CASE venue[o].status # ABSENT /\ Apply(o, venue[o])
  <2>1. /\ sent[o] > 0 /\ venue[o] \in Reports /\ venue[o].status # ABSENT
        /\ venue' \in [Intents -> Reports]
        /\ \A x \in Intents : sent[x] = 0 => venue'[x] = NoReport
    BY SMTT(60), <1>t, <1>s, <1>5 DEF Refresh, TypeOK, Unsent
  <2> QED
    BY <1>1, <1>2, <1>3, <1>5, <2>1, ApplyKeeps
<1> QED
  BY <1>0, <1>4, <1>5 DEF Refresh

(* cancel of a working order.                                              *)
LEMMA CancelStep ==
  ASSUME IInv, \E o \in Intents : Cancel(o)
  PROVE  IInv'
<1>t. TypeOK
  BY DEF IInv
<1>l. Lag
  BY DEF IInv
<1>p. Path
  BY DEF IInv
<1>s. Unsent /\ SentAtMostOnce /\ SentIsBacked
  BY DEF IInv
<1>m. Money /\ SettledInFull
  BY DEF IInv
<1>0. PICK o \in Intents : Cancel(o)
  OBVIOUS
<1>1. /\ Free /\ phase # "down" /\ call.pc = "idle"
      /\ mem[o].status \notin TerminalStatuses \cup {ABSENT}
      /\ db[o].status \notin TerminalStatuses
  BY <1>t, <1>l, <1>0 DEF Cancel, Free, TypeOK, Lag
<1>2. UNCHANGED <<durable, inflight, sent, phase, pending, faults>>
  BY <1>0 DEF Cancel
<1>3. \A x \in Intents : HasReservation(x)' = HasReservation(x)
  BY <1>2, SameLedger
<1>4. PICK answer \in Reports :
        /\ answer.status # ABSENT
        /\ venue' = [venue EXCEPT ![o] = answer]
        /\ Apply(o, answer) \/ UNCHANGED <<mem, call>>
  <2>1. venue[o] \in Reports /\ [venue[o] EXCEPT !.status = "CANCELED"] \in Reports
    BY <1>t DEF TypeOK
  <2>2. PICK answer \in {venue[o]} \cup {[venue[o] EXCEPT !.status = "CANCELED"] :
                                            w \in {venue[o].status} \cap Working} :
          /\ venue' = [venue EXCEPT ![o] = answer]
          /\ Apply(o, answer) \/ UNCHANGED <<mem, call>>
    BY <1>0 DEF Cancel
  <2>3. answer \in Reports /\ answer.status # ABSENT
    BY <1>0, <2>1 DEF Cancel
  <2> QED
    BY <2>2, <2>3
<1>tt. venue[o].status # ABSENT
  BY <1>0 DEF Cancel
<1>5. CASE Apply(o, answer)
  <2>1. /\ sent[o] > 0 /\ answer \in Reports /\ answer.status # ABSENT
        /\ venue' \in [Intents -> Reports]
        /\ \A x \in Intents : sent[x] = 0 => venue'[x] = NoReport
    BY SMTT(60), <1>t, <1>s, <1>4, <1>tt DEF TypeOK, Unsent
  <2> QED
    BY <1>1, <1>2, <1>3, <1>4, <1>5, <1>tt, <2>1, ApplyKeeps
<1>6. CASE UNCHANGED <<mem, call>>
  <2>1. TypeOK'
    BY <1>t, AmountAssumption, <1>1, <1>2, <1>3, <1>4, <1>tt, <1>6 DEF TypeOK
  <2>2. Lag'
    BY <1>t, <1>l, <1>p, <1>1, <1>2, <1>3, <1>4, <1>tt, <1>6 DEF TypeOK, Lag, Path
  <2>3. Path'
    BY <1>t, <1>l, <1>p, <1>s, <1>1, <1>2, <1>3, <1>4, <1>tt, <1>6
    DEF TypeOK, Lag, Path, Unsent, SentAtMostOnce, SentIsBacked
  <2>4. (Unsent /\ SentAtMostOnce /\ SentIsBacked)'
    BY SMTT(60), <1>s, <1>2, <1>3, <1>4, <1>tt, <1>6 DEF Unsent, SentAtMostOnce, SentIsBacked
  <2>5. (Money /\ SettledInFull)'
    BY <1>t, <1>l, <1>p, <1>m, <1>1, <1>2, <1>3, <1>4, <1>tt, <1>6
    DEF TypeOK, Lag, Path, Money, SettledInFull
  <2> QED
    BY <2>1, <2>2, <2>3, <2>4, <2>5 DEF IInv
<1> QED
  BY <1>4, <1>5, <1>6

(* A crash forgets the book.                                               *)
LEMMA CrashStep ==
  ASSUME IInv, Crash
  PROVE  IInv'
<1>t. TypeOK
  BY DEF IInv
<1>l. Lag
  BY DEF IInv
<1>p. Path
  BY DEF IInv
<1>s. Unsent /\ SentAtMostOnce /\ SentIsBacked
  BY DEF IInv
<1>m. Money /\ SettledInFull
  BY DEF IInv
<1>h. \A x \in Intents : HasReservation(x)' = HasReservation(x)
  BY SameLedger DEF Crash
<1>y. mem' \in [Intents -> Orders] /\ venue' \in [Intents -> Reports]
  BY SMTT(60), <1>t, AmountAssumption DEF Crash, TypeOK
<1>1. TypeOK'
  BY SMTT(60), <1>t, AmountAssumption, BoundAssumption DEF Crash, TypeOK
<1>2. Lag'
  BY <1>t, <1>l, <1>p, <1>h, ReservedType DEF Crash, TypeOK, Lag, Path
<1>3. Path'
  BY <1>t, <1>l, <1>p, <1>s, <1>h, ReservedType
  DEF Crash, TypeOK, Lag, Path, Unsent, SentAtMostOnce, SentIsBacked
<1>4. (Unsent /\ SentAtMostOnce /\ SentIsBacked)'
  BY <1>s, <1>h DEF Crash, Unsent, SentAtMostOnce, SentIsBacked
<1>5. (Money /\ SettledInFull)'
  BY SMTT(60), <1>m, <1>h, ReservedType DEF Crash, Money, SettledInFull
<1> QED
  BY <1>1, <1>2, <1>3, <1>4, <1>5 DEF IInv

(* The book is read back from the rows.                                    *)
LEMMA RestartStep ==
  ASSUME IInv, Restart
  PROVE  IInv'
<1>t. TypeOK
  BY DEF IInv
<1>l. Lag
  BY DEF IInv
<1>p. Path
  BY DEF IInv
<1>s. Unsent /\ SentAtMostOnce /\ SentIsBacked
  BY DEF IInv
<1>m. Money /\ SettledInFull
  BY DEF IInv
<1>h. \A x \in Intents : HasReservation(x)' = HasReservation(x)
  BY SameLedger DEF Restart
<1>1. TypeOK'
  BY <1>t, AmountAssumption, <1>h DEF Restart, TypeOK
<1>2. Lag'
  BY SMTT(60), <1>t DEF Restart, TypeOK, Lag
<1>3. Path'
  BY SMTT(60), <1>l DEF Restart, Lag, Path
<1>4. (Unsent /\ SentAtMostOnce /\ SentIsBacked)'
  BY <1>s, <1>h DEF Restart, Unsent, SentAtMostOnce, SentIsBacked
<1>5. (Money /\ SettledInFull)'
  BY <1>t, <1>l, <1>p, <1>m, <1>h DEF Restart, TypeOK, Lag, Path, Money, SettledInFull
<1> QED
  BY <1>1, <1>2, <1>3, <1>4, <1>5 DEF IInv

(* recover is through with its orders.                                     *)
LEMMA RecoverDoneStep ==
  ASSUME IInv, RecoverDone
  PROVE  IInv'
<1>t. TypeOK
  BY DEF IInv
<1>l. Lag
  BY DEF IInv
<1>p. Path
  BY DEF IInv
<1>s. Unsent /\ SentAtMostOnce /\ SentIsBacked
  BY DEF IInv
<1>m. Money /\ SettledInFull
  BY DEF IInv
<1>h. \A x \in Intents : HasReservation(x)' = HasReservation(x)
  BY SameLedger DEF RecoverDone
<1>1. TypeOK'
  BY <1>t, AmountAssumption, <1>h DEF RecoverDone, TypeOK
<1>2. Lag'
  BY <1>t, <1>l, <1>p, <1>h DEF RecoverDone, TypeOK, Lag, Path
<1>3. Path'
  BY <1>t, <1>l, <1>p, <1>s, <1>h
  DEF RecoverDone, TypeOK, Lag, Path, Unsent, SentAtMostOnce, SentIsBacked
<1>4. (Unsent /\ SentAtMostOnce /\ SentIsBacked)'
  BY <1>s, <1>h DEF RecoverDone, Unsent, SentAtMostOnce, SentIsBacked
<1>5. (Money /\ SettledInFull)'
  BY <1>t, <1>l, <1>p, <1>m, <1>h DEF RecoverDone, TypeOK, Lag, Path, Money, SettledInFull
<1> QED
  BY <1>1, <1>2, <1>3, <1>4, <1>5 DEF IInv

(* recover settles one open order.                                         *)
LEMMA RecoverStep ==
  ASSUME IInv, \E o \in Intents : Recover(o)
  PROVE  IInv'
<1>t. TypeOK
  BY DEF IInv
<1>l. Lag
  BY DEF IInv
<1>p. Path
  BY DEF IInv
<1>s. Unsent /\ SentAtMostOnce /\ SentIsBacked
  BY DEF IInv
<1>m. Money /\ SettledInFull
  BY DEF IInv
<1>0. PICK o \in Intents : Recover(o)
  OBVIOUS
<1>1. /\ phase = "recovering" /\ call.pc = "idle" /\ o \in pending
      /\ UNCHANGED <<durable, outside, phase, pending, faults>>
  BY <1>0 DEF Recover
<1>2. \A x \in Intents : HasReservation(x)' = HasReservation(x)
  BY <1>1, SameLedger
<1>3. CASE mem[o].status = "NEW"
  <2> DEFINE released == IF HasReservation(o) THEN mem[o].released ELSE Reserved(o)
             moved    == [mem[o] EXCEPT !.status = "REJECTED", !.released = released]
  <2>0. /\ mem' = [mem EXCEPT ![o] = moved]
        /\ call' = At(IF Rest(o, moved) > 0 THEN "release" ELSE "save", o)
    BY <1>0, <1>3 DEF Recover
  <2>q. mem[o] \in Orders /\ mem[o].released <= Reserved(o)
    BY <1>t, <1>m DEF TypeOK, Money, SettledInFull
  <2>p. released \in Nat /\ released <= Reserved(o)
    BY SMTT(60), <2>q, ReservedType
  <2> HIDE DEF released
  <2>m. /\ moved \in Orders /\ moved.status = "REJECTED" /\ moved.filled = mem[o].filled
        /\ moved.released <= Reserved(o)
    <3>1. moved \in Orders
      <4> HIDE DEF Orders
      <4> QED
        BY <2>q, <2>p, OrderEdits
    <3> QED
      BY <2>q, <2>p, <3>1
  <2>r. ~(Rest(o, moved) > 0) => moved.released = Reserved(o)
    <3> HIDE DEF moved
    <3> QED
      BY SMTT(60), <2>m, ReservedType DEF Rest
  <2>n. db[o].status \in Early \ {ABSENT}
    BY <1>t, <1>l, <1>p, <1>1, <1>3 DEF TypeOK, Lag, Path
  <2> HIDE DEF moved
  <2>f. /\ mem' \in [Intents -> Orders] /\ mem'[o] = moved
        /\ \A x \in Intents : x # o => mem'[x] = mem[x]
    <3> HIDE DEF Orders
    <3> QED
      BY <1>t, <2>0, <2>m DEF TypeOK
  <2>c. /\ call'.pc \in {"release", "save"} /\ call'.order = o /\ call'.report = NoReport
        /\ call'.pc = "save" => moved.released = Reserved(o)
        /\ call' \in [pc : PCs, order : Intents \cup {"none"}, report : Reports]
    BY SMTT(60), <2>0, <2>r, AmountAssumption
  <2>1. TypeOK'
    BY <1>t, <1>0, <1>1, <2>f, <2>c DEF TypeOK
  <2>2. Lag'
    BY <1>l, <1>1, <2>f, <2>m, <2>n DEF Lag
  <2>3. Path'
    BY <1>p, <1>1, <2>f, <2>c, <2>m, <2>n DEF Path
  <2>4. (Unsent /\ SentAtMostOnce /\ SentIsBacked)'
    BY <1>s, <1>1, <1>2, <2>f, <2>m DEF Unsent, SentAtMostOnce, SentIsBacked
  <2>5. (Money /\ SettledInFull)'
    BY <1>m, <1>1, <1>2, <2>f, <2>c, <2>m DEF Money, SettledInFull
  <2> QED
    BY <2>1, <2>2, <2>3, <2>4, <2>5 DEF IInv
<1>4. CASE mem[o].status # "NEW"
  <2>0. mem' = [mem EXCEPT ![o].status = "UNKNOWN"] /\ call' = At("save", o)
    BY <1>0, <1>4 DEF Recover
  <2>y. mem' \in [Intents -> Orders]
    <3>1. mem \in [Intents -> Orders] /\ "UNKNOWN" \in Statuses
      BY <1>t DEF TypeOK
    <3> HIDE DEF Orders, Statuses
    <3> QED
      BY <3>1, <2>0, OrderEdits
  <2>1. TypeOK'
    BY SMTT(60), <1>t, AmountAssumption, <1>1, <2>0, <2>y DEF TypeOK
  <2>2. Lag'
    BY SMTT(60), <1>l, <1>p, <1>1, <2>0 DEF Lag, Path
  <2>3. Path'
    BY SMTT(60), <1>l, <1>p, <1>1, <1>4, <2>0 DEF Lag, Path
  <2>4. (Unsent /\ SentAtMostOnce /\ SentIsBacked)'
    BY SMTT(60), <1>s, <1>1, <1>2, <2>0 DEF Unsent, SentAtMostOnce, SentIsBacked
  <2>5. (Money /\ SettledInFull)'
    BY SMTT(60), <1>t, <1>m, <1>1, <1>2, <2>0 DEF TypeOK, Money, SettledInFull
  <2> QED
    BY <2>1, <2>2, <2>3, <2>4, <2>5 DEF IInv
<1> QED
  BY <1>3, <1>4

(* An order arrives at the venue.                                          *)
LEMMA VenueTakesStep ==
  ASSUME IInv, \E o \in Intents : VenueTakes(o)
  PROVE  IInv'
<1>t. TypeOK
  BY DEF IInv
<1>l. Lag
  BY DEF IInv
<1>p. Path
  BY DEF IInv
<1>s. Unsent /\ SentAtMostOnce /\ SentIsBacked
  BY DEF IInv
<1>m. Money /\ SettledInFull
  BY DEF IInv
<1>0. PICK o \in Intents : VenueTakes(o)
  OBVIOUS
<1>h. \A x \in Intents : HasReservation(x)' = HasReservation(x)
  BY <1>0, SameLedger DEF VenueTakes
<1>a. UNCHANGED <<durable, sent, process, faults>> /\ sent[o] # 0
  BY <1>t, <1>s, <1>0 DEF VenueTakes, TypeOK, Unsent
<1>b. \A x \in Intents : x # o => venue'[x] = venue[x] /\ (x \in inflight' => x \in inflight)
  BY <1>t, <1>0 DEF VenueTakes, TypeOK
<1>1. TypeOK'
  BY SMTT(60), <1>t, AmountAssumption DEF VenueTakes, TypeOK
<1>2. Lag'
  BY <1>l, <1>a DEF Lag
<1>3. Path'
  BY <1>p, <1>a, <1>h DEF Path
<1>4. (Unsent /\ SentAtMostOnce /\ SentIsBacked)'
  BY <1>s, <1>a, <1>b, <1>h DEF Unsent, SentAtMostOnce, SentIsBacked
<1>5. (Money /\ SettledInFull)'
  BY <1>m, <1>a, <1>h DEF Money, SettledInFull
<1> QED
  BY <1>1, <1>2, <1>3, <1>4, <1>5 DEF IInv

(* The venue fills.                                                        *)
LEMMA VenueFillsStep ==
  ASSUME IInv, \E o \in Intents : VenueFills(o)
  PROVE  IInv'
<1>t. TypeOK
  BY DEF IInv
<1>l. Lag
  BY DEF IInv
<1>p. Path
  BY DEF IInv
<1>s. Unsent /\ SentAtMostOnce /\ SentIsBacked
  BY DEF IInv
<1>m. Money /\ SettledInFull
  BY DEF IInv
<1>0. PICK o \in Intents : VenueFills(o)
  OBVIOUS
<1>h. \A x \in Intents : HasReservation(x)' = HasReservation(x)
  BY <1>0, SameLedger DEF VenueFills
<1>a. UNCHANGED <<durable, sent, process, faults>> /\ sent[o] # 0
  <2>1. venue[o].status \in Working
    BY <1>0 DEF VenueFills
  <2>2. NoReport.status = ABSENT /\ ABSENT \notin Working
    BY DEF NoReport, Working, ABSENT
  <2>3. venue[o] # NoReport
    BY <2>1, <2>2
  <2> QED
    BY <1>s, <1>0, <2>3 DEF VenueFills, Unsent
<1>b. \A x \in Intents : x # o => venue'[x] = venue[x] /\ (x \in inflight' => x \in inflight)
  BY <1>t, <1>0 DEF VenueFills, TypeOK
<1>1. TypeOK'
  <2>1. venue' \in [Intents -> Reports]
    <3>1. PICK f \in venue[o].filled + 1 .. Qty :
            venue' = [venue EXCEPT ![o] =
              [status |-> IF f = Qty THEN "FILLED" ELSE "PARTIALLY_FILLED", filled |-> f]]
      BY <1>0 DEF VenueFills
    <3>2. f \in 0 .. Qty
      BY SMTT(60), <1>t DEF TypeOK
    <3> QED
      BY <1>t, <3>1, <3>2 DEF TypeOK
  <2>2. inflight' = inflight
    BY <1>0 DEF VenueFills
  <2> QED
    BY <1>t, <1>a, <2>1, <2>2 DEF TypeOK
<1>2. Lag'
  BY <1>l, <1>a DEF Lag
<1>3. Path'
  BY <1>p, <1>a, <1>h DEF Path
<1>4. (Unsent /\ SentAtMostOnce /\ SentIsBacked)'
  BY <1>s, <1>a, <1>b, <1>h DEF Unsent, SentAtMostOnce, SentIsBacked
<1>5. (Money /\ SettledInFull)'
  BY <1>m, <1>a, <1>h DEF Money, SettledInFull
<1> QED
  BY <1>1, <1>2, <1>3, <1>4, <1>5 DEF IInv

(* The venue ends an order.                                                *)
LEMMA VenueExpiresStep ==
  ASSUME IInv, \E o \in Intents : VenueExpires(o)
  PROVE  IInv'
<1>t. TypeOK
  BY DEF IInv
<1>l. Lag
  BY DEF IInv
<1>p. Path
  BY DEF IInv
<1>s. Unsent /\ SentAtMostOnce /\ SentIsBacked
  BY DEF IInv
<1>m. Money /\ SettledInFull
  BY DEF IInv
<1>0. PICK o \in Intents : VenueExpires(o)
  OBVIOUS
<1>h. \A x \in Intents : HasReservation(x)' = HasReservation(x)
  BY <1>0, SameLedger DEF VenueExpires
<1>y. venue' \in [Intents -> Reports]
  <2>1. venue \in [Intents -> Reports]
    BY <1>t DEF TypeOK
  <2>2. \A r \in Reports : [r EXCEPT !.status = "CANCELED"] \in Reports
    OBVIOUS
  <2>3. venue' = [venue EXCEPT ![o].status = "CANCELED"]
    BY <1>0 DEF VenueExpires
  <2> HIDE DEF Reports
  <2> QED
    BY <2>1, <2>2, <2>3
<1>1. TypeOK'
  BY <1>t, AmountAssumption, <1>0, <1>y DEF VenueExpires, TypeOK
<1>2. Lag'
  BY <1>t, <1>l, <1>p, <1>0, <1>h DEF VenueExpires, TypeOK, Lag, Path
<1>3. Path'
  BY SMTT(60), <1>p, <1>h DEF VenueExpires, Path
<1>4. (Unsent /\ SentAtMostOnce /\ SentIsBacked)'
  BY SMTT(60), <1>s, <1>h DEF VenueExpires, Unsent, SentAtMostOnce, SentIsBacked
<1>5. (Money /\ SettledInFull)'
  BY <1>m, <1>h DEF VenueExpires, Money, SettledInFull
<1> QED
  BY <1>1, <1>2, <1>3, <1>4, <1>5 DEF IInv

(* Nothing happens.                                                        *)
LEMMA StutterStep ==
  ASSUME IInv, UNCHANGED vars
  PROVE  IInv'
<1>t. TypeOK
  BY DEF IInv
<1>l. Lag
  BY DEF IInv
<1>p. Path
  BY DEF IInv
<1>s. Unsent /\ SentAtMostOnce /\ SentIsBacked
  BY DEF IInv
<1>m. Money /\ SettledInFull
  BY DEF IInv
<1>h. \A x \in Intents : HasReservation(x)' = HasReservation(x)
  BY SameLedger DEF vars
<1>1. TypeOK'
  BY <1>t, AmountAssumption, <1>h DEF vars, TypeOK
<1>2. Lag'
  BY <1>l DEF vars, Lag
<1>3. Path'
  BY <1>p, <1>h DEF vars, Path
<1>4. (Unsent /\ SentAtMostOnce /\ SentIsBacked)'
  BY <1>s, <1>h DEF vars, Unsent, SentAtMostOnce, SentIsBacked
<1>5. (Money /\ SettledInFull)'
  BY <1>m, <1>h DEF vars, Money, SettledInFull
<1> QED
  BY <1>1, <1>2, <1>3, <1>4, <1>5 DEF IInv

(* Every step of the OMS keeps the inductive invariant.                    *)
THEOREM NextIInv == IInv /\ [Next]_vars => IInv'
  BY SubmitStep, CreateOrderStep, ReserveStep, CommitSubmittedStep, SendStep, SubmitAnsweredStep,
     SubmitFailsStep, PostFillStep, ReleaseRestStep, SaveStep, SaveFailsStep, PostFailsStep,
     ConsumeFailsStep, ResolveUnknownStep, RefreshStep, CancelStep, CrashStep, RestartStep, RecoverDoneStep, RecoverStep,
     VenueTakesStep, VenueFillsStep, VenueExpiresStep, StutterStep
  DEF Next, OmsStep

------------------------------------------------------------------------------
(* The theorems.                                                           *)

(* The inductive invariant holds in every reachable state.                 *)
THEOREM Invariance == Spec => []IInv
  BY InitIInv, NextIInv, PTL DEF Spec

(* Every variable keeps its type.                                          *)
THEOREM TypeCorrect == Spec => []TypeOK
  BY Invariance, PTL DEF IInv

(* For any number of crashes, failed writes, restarts and permits,         *)
(* adapter.submit is called at most once for an intent.                    *)
THEOREM NeverResent == Spec => []SentAtMostOnce
  BY Invariance, PTL DEF IInv

(* Nothing reaches the venue without a consumed permit, a posted           *)
(* reservation and a row that survives a crash as "maybe sent".            *)
THEOREM AlwaysBacked == Spec => []SentIsBacked
  BY Invariance, PTL DEF IInv

(* A stored terminal order has accounted for everything it held.           *)
THEOREM AlwaysSettled == Spec => []SettledInFull
  BY Invariance, PTL DEF IInv

(* The row that is written at an await of the order store.                 *)
RowWritten ==
  /\ call.pc \in {"create", "submitted", "save"}
  /\ db' = [db EXCEPT ![call.order] = IF call.pc = "create" THEN NewOrder ELSE mem[call.order]]
  /\ UNCHANGED sent

(* Rows are written at three points only, whether or not the write raises: *)
(* creating the order, marking it SUBMITTED, and the save that ends an     *)
(* operation.                                                              *)
LEMMA RowWriters ==
  ASSUME IInv, [Next]_vars
  PROVE  UNCHANGED <<db, sent>> \/ Send \/ RowWritten
<1>1. ASSUME CreateOrder \/ CommitSubmitted \/ Save PROVE RowWritten
  BY <1>1 DEF CreateOrder, CommitSubmitted, Save, RowWritten
<1>2. ASSUME SaveFails PROVE UNCHANGED <<db, sent>> \/ RowWritten
  BY <1>2 DEF SaveFails, WriteFault, RowWritten
<1> QED
  BY <1>1, <1>2
  DEF Next, OmsStep, vars, Submit, Reserve, SubmitAnswered, SubmitFails, PostFill, ReleaseRest,
      PostFails, ConsumeFails, WriteFault, ResolveUnknown, Refresh, Cancel, Crash, Restart,
      RecoverDone, Recover, VenueTakes, VenueFills, VenueExpires

(* Where those steps start from.                                           *)
LEMMA WriterFacts ==
  ASSUME IInv, NEW o \in Intents, o = call.order, call.pc # "idle"
  PROVE  /\ mem[o] \in Orders /\ db[o] \in Orders
         /\ db[o].status \notin TerminalStatuses
         /\ db[o].filled <= mem[o].filled
         /\ sent[o] \in Nat /\ sent[o] = 0 => mem[o].filled = 0 /\ db[o].filled = 0
         /\ call.pc = "create" => db[o].status = ABSENT /\ sent[o] = 0
         /\ call.pc = "submitted" =>
              db[o].status = "NEW" /\ mem[o].status = "SUBMITTED" /\ sent[o] = 0
         /\ call.pc = "send" => db[o].status = "SUBMITTED" /\ sent[o] = 0
         /\ call.pc = "save" => db[o].status # ABSENT /\ mem[o].status # ABSENT
<1>t. TypeOK
  BY DEF IInv
<1>l. Lag
  BY DEF IInv
<1>p. Path
  BY DEF IInv
<1>u. Unsent
  BY DEF IInv
<1>1. phase # "down"
  BY SMTT(60), <1>l DEF Lag
<1>2. mem[o] \in Orders /\ db[o] \in Orders /\ sent[o] \in Nat
  <2> HIDE DEF Orders
  <2> QED
    BY <1>t DEF TypeOK
<1>3. db[o].filled <= mem[o].filled /\ (mem[o].status \notin Early => db[o].status # ABSENT)
  BY <1>l, <1>1 DEF Lag
<1>4. sent[o] = 0 => mem[o].filled = 0 /\ db[o].filled = 0
  BY <1>u DEF Unsent
<1>5. /\ db[o].status \notin TerminalStatuses
      /\ call.pc = "create" => db[o].status = ABSENT /\ sent[o] = 0
      /\ call.pc = "submitted" =>
           db[o].status = "NEW" /\ mem[o].status = "SUBMITTED" /\ sent[o] = 0
      /\ call.pc = "send" => db[o].status = "SUBMITTED" /\ sent[o] = 0
      /\ call.pc = "save" => mem[o].status \notin Early
  BY <1>p DEF Path
<1> QED
  BY <1>2, <1>3, <1>4, <1>5

(* A stored order that is terminal never changes, and a stored fill never  *)
(* shrinks.                                                                *)
THEOREM RowsAreFinal == Spec => StoredOrderIsFinal
<1>1. ASSUME IInv, [Next]_vars, NEW x \in Intents
      PROVE  /\ db[x].status \in TerminalStatuses => db'[x] = db[x]
             /\ db'[x].filled >= db[x].filled
  <2>t. db \in [Intents -> Orders] /\ mem \in [Intents -> Orders]
    BY <1>1 DEF IInv, TypeOK
  <2>1. CASE UNCHANGED <<db, sent>> \/ Send
    BY SMTT(60), <2>1, <2>t DEF Send
  <2>2. CASE RowWritten
    <3>1. PICK o \in Intents : o = call.order /\ call.pc # "idle"
      BY <1>1, <2>2 DEF IInv, RowWritten, TypeOK
    <3>2. \/ db' = [db EXCEPT ![o] = mem[o]]
          \/ call.pc = "create" /\ db' = [db EXCEPT ![o] = NewOrder]
      BY <3>1, <2>2 DEF RowWritten
    <3>3. /\ db[o].status \notin TerminalStatuses /\ db[o].filled <= mem[o].filled
          /\ call.pc = "create" => db[o].filled = 0
      BY SMTT(60), <1>1, <3>1, WriterFacts
    <3> QED
      BY SMTT(60), <2>t, <3>2, <3>3
  <2> QED
    BY <1>1, <2>1, <2>2, RowWriters
<1>2. ASSUME IInv, [Next]_vars
      PROVE  [\A o \in Intents :
                /\ db[o].status \in TerminalStatuses => db'[o] = db[o]
                /\ db'[o].filled >= db[o].filled]_vars
  BY <1>1, <1>2
<1> QED
  BY <1>2, Invariance, PTL DEF Spec, StoredOrderIsFinal

------------------------------------------------------------------------------
(* What the lifecycle sees of a row.                                       *)
LEMMA StageOf ==
  ASSUME NEW o \in Intents
  PROVE  /\ db[o].status = ABSENT => Stage(o) = "none"
         /\ db[o].status \in TerminalStatuses => Stage(o) = "done"
         /\ db[o].status \notin TerminalStatuses \cup {ABSENT} =>
              Stage(o) = IF sent[o] = 0 THEN "open" ELSE "sent"
  BY DEF Stage

(* The same of the next state, and a row and a venue call that do not      *)
(* change leave the order's stage as it is.                                *)
LEMMA StageOfNext ==
  ASSUME NEW o \in Intents
  PROVE  /\ db'[o].status = ABSENT => Stage(o)' = "none"
         /\ db'[o].status \in TerminalStatuses => Stage(o)' = "done"
         /\ db'[o].status \notin TerminalStatuses \cup {ABSENT} =>
              Stage(o)' = IF sent'[o] = 0 THEN "open" ELSE "sent"
         /\ db'[o] = db[o] /\ sent'[o] = sent[o] => Stage(o)' = Stage(o)
  BY DEF Stage

(* A step that touches one order's row or its venue call is the lifecycle  *)
(* step that its stages and fills describe.                                *)
LEMMA OneOrder ==
  ASSUME NEW o \in Intents,
         \A x \in Intents : x # o => db'[x] = db[x] /\ sent'[x] = sent[x],
         db[o].filled \in 0 .. Qty, db'[o].filled \in 0 .. Qty,
         db[o].filled <= db'[o].filled,
         \/ Stage(o)' = Stage(o) /\ db'[o].filled = db[o].filled
         \/ Stage(o) = "none" /\ Stage(o)' = "open" /\ db'[o].filled = db[o].filled
         \/ Stage(o) = "open" /\ Stage(o)' = "sent" /\ db'[o].filled = db[o].filled
         \/ Stage(o) = "sent" /\ Stage(o)' = "sent"
         \/ Stage(o) = "open" /\ Stage(o)' = "done" /\ db'[o].filled = 0
         \/ Stage(o) = "sent" /\ Stage(o)' = "done"
  PROVE  [Lifecycle!Next]_(Lifecycle!lifecycle)
<1> DEFINE stage  == [x \in Intents |-> Stage(x)]
           stage1 == [x \in Intents |-> Stage(x)']
           fill   == [x \in Intents |-> db[x].filled]
           fill1  == [x \in Intents |-> db'[x].filled]
<1>1. \A x \in Intents : x # o => Stage(x)' = Stage(x)
  BY StageOfNext
<1>2. stage1 = [stage EXCEPT ![o] = Stage(o)'] /\ fill1 = [fill EXCEPT ![o] = db'[o].filled]
  BY <1>1
<1>3. CASE Stage(o)' = Stage(o) /\ db'[o].filled = db[o].filled
  <2>1. stage1 = stage /\ fill1 = fill
    BY <1>1, <1>3
  <2> QED
    BY <2>1 DEF Lifecycle!lifecycle
<1>4. CASE Stage(o) = "none" /\ Stage(o)' = "open" /\ db'[o].filled = db[o].filled
  <2>1. fill1 = fill
    BY <1>4
  <2>2. Lifecycle!Open(o)
    BY <1>2, <1>4, <2>1 DEF Lifecycle!Open
  <2> QED
    BY <2>2 DEF Lifecycle!Next
<1>5. CASE Stage(o) = "open" /\ Stage(o)' = "sent" /\ db'[o].filled = db[o].filled
  <2>1. fill1 = fill
    BY <1>5
  <2>2. Lifecycle!Dispatch(o)
    BY <1>2, <1>5, <2>1 DEF Lifecycle!Dispatch
  <2> QED
    BY <2>2 DEF Lifecycle!Next
<1>6. CASE Stage(o) = "sent" /\ Stage(o)' = "sent"
  <2>1. stage1 = stage /\ db'[o].filled \in fill[o] .. Qty
    BY SMTT(60), <1>1, <1>6
  <2>2. Lifecycle!Learn(o)
    BY <1>2, <1>6, <2>1 DEF Lifecycle!Learn
  <2> QED
    BY <2>2 DEF Lifecycle!Next
<1>7. CASE \/ Stage(o) = "open" /\ Stage(o)' = "done" /\ db'[o].filled = 0
           \/ Stage(o) = "sent" /\ Stage(o)' = "done"
  <2>1. db'[o].filled \in fill[o] .. Qty
    BY SMTT(60)
  <2>2. Lifecycle!Close(o)
    BY <1>2, <1>7, <2>1 DEF Lifecycle!Close
  <2> QED
    BY <2>2 DEF Lifecycle!Next
<1> QED
  BY <1>3, <1>4, <1>5, <1>6, <1>7

(* The OMS with all its crashes implements the order lifecycle.            *)
THEOREM Refinement == Spec => ImplementsLifecycle
<1>1. Init => Lifecycle!Init
  BY SMTT(60) DEF Init, Lifecycle!Init, Stage
<1>2. ASSUME IInv, [Next]_vars PROVE [Lifecycle!Next]_(Lifecycle!lifecycle)
  <2>t. /\ db \in [Intents -> Orders] /\ mem \in [Intents -> Orders]
        /\ sent \in [Intents -> Nat]
    BY <1>2 DEF IInv, TypeOK
  <2>1. CASE UNCHANGED <<db, sent>>
    BY <2>1 DEF Lifecycle!lifecycle, Stage
  <2>2. CASE RowWritten \/ Send
    <3>1. PICK o \in Intents : o = call.order /\ call.pc # "idle"
      BY <1>2, <2>2 DEF IInv, RowWritten, Send, TypeOK
    <3>2. \A x \in Intents : x # o => db'[x] = db[x] /\ sent'[x] = sent[x]
      BY <2>2, <2>t, <3>1 DEF RowWritten, Send
    <3>3. CASE RowWritten /\ call.pc = "create"
      <4>1. db[o].status = ABSENT /\ db'[o] = NewOrder /\ sent'[o] = 0 /\ db[o].filled = 0
        BY <1>2, <2>t, <3>1, <3>3, WriterFacts DEF RowWritten
      <4>2. Stage(o) = "none" /\ Stage(o)' = "open" /\ db'[o].filled = db[o].filled
        BY <4>1, StageOf, StageOfNext
      <4> QED
        BY SMTT(60), <3>2, <4>1, <4>2, OneOrder, AmountAssumption
    <3>4. CASE RowWritten /\ call.pc = "submitted"
      <4>1. /\ db[o].status = "NEW" /\ db'[o].status = "SUBMITTED"
            /\ sent[o] = 0 /\ sent'[o] = 0 /\ db[o].filled = 0 /\ db'[o].filled = 0
        BY <1>2, <2>t, <3>1, <3>4, WriterFacts DEF RowWritten
      <4>2. Stage(o)' = Stage(o) /\ db'[o].filled = db[o].filled
        BY <4>1, StageOf, StageOfNext
      <4> QED
        BY SMTT(60), <3>2, <4>1, <4>2, OneOrder, AmountAssumption
    <3>5. CASE Send
      <4>1. /\ db[o].status = "SUBMITTED" /\ db'[o] = db[o]
            /\ sent[o] = 0 /\ sent'[o] = 1 /\ db[o].filled \in 0 .. Qty
        BY SMTT(60), <1>2, <2>t, <3>1, <3>5, WriterFacts DEF Send
      <4>2. Stage(o) = "open" /\ Stage(o)' = "sent" /\ db'[o].filled = db[o].filled
        BY SMTT(60), <4>1, StageOf, StageOfNext
      <4> QED
        BY SMTT(60), <3>2, <4>1, <4>2, OneOrder
    <3>6. CASE RowWritten /\ call.pc = "save"
      <4>1. /\ db[o].status \notin TerminalStatuses \cup {ABSENT}
            /\ db'[o] = mem[o] /\ mem[o].status # ABSENT
            /\ sent'[o] = sent[o] /\ sent[o] \in Nat
            /\ db[o].filled \in 0 .. Qty /\ mem[o].filled \in 0 .. Qty
            /\ db[o].filled <= mem[o].filled
            /\ sent[o] = 0 => mem[o].filled = 0 /\ db[o].filled = 0
        BY <1>2, <2>t, <3>1, <3>6, WriterFacts DEF RowWritten
      <4>2. /\ Stage(o) = IF sent[o] = 0 THEN "open" ELSE "sent"
            /\ Stage(o)' = IF mem[o].status \in TerminalStatuses THEN "done" ELSE Stage(o)
        BY <4>1, StageOf, StageOfNext
      <4> QED
        BY <3>2, <4>1, <4>2, OneOrder
    <3> QED
      BY <2>2, <3>3, <3>4, <3>5, <3>6 DEF RowWritten
  <2> QED
    BY <1>2, <2>1, <2>2, RowWriters
<1> QED
  BY <1>1, <1>2, Invariance, PTL DEF Spec, ImplementsLifecycle, Lifecycle!Spec
==============================================================================
