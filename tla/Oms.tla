--------------------------------- MODULE Oms ---------------------------------
(***************************************************************************)
(* The Order Management System: OrderManager (services/oms/manager.py)     *)
(* with its permit ledger and order store (services/oms/store.py), posting *)
(* to the ledger and talking to one venue.                                 *)
(*                                                                         *)
(* Every operation holds the OMS lock, so operations never interleave with *)
(* each other; but each await is a point where the process may die, the    *)
(* venue may move on, or the awaited write or call may fail.  An action    *)
(* below is therefore the code between two awaits: one durable write or    *)
(* one venue call together with the synchronous code after it.  `call` is  *)
(* the operation that holds the lock and where it stands.                  *)
(*                                                                         *)
(* An order is identified with its intent: the client order id is derived  *)
(* from the intent id (attempt 0 is the only one ever used).               *)
(***************************************************************************)
EXTENDS OrderStatus, Ledger

CONSTANTS
  Intents,        \* the TradeIntents ever presented
  Buys,           \* the intents with side BUY; the others are SELL
  Unsupported,    \* intents with an unknown instrument or no limit price
  Permits,        \* permit ids
  PermitFor,      \* [Permits -> Intents]: the intent a permit is bound to
  Qty,            \* quantity of every intent
  Hold,           \* quote held per unit of a BUY: limit price and fee reserve
  Price,          \* quote paid per unit, fees included; at most Hold
  PaperVenue,     \* TRUE: the in-process paper venue, forgotten in a crash
  LateArrival,    \* TRUE: a submit may reach the venue after its caller gave up
  MaxCrashes,     \* bound on process crashes
  MaxWriteFaults  \* bound on durable writes that raise

ASSUME IntentAssumption == Buys \subseteq Intents /\ Unsupported \subseteq Intents
ASSUME PermitAssumption == PermitFor \in [Permits -> Intents]
ASSUME AmountAssumption == /\ Qty \in Nat \ {0}
                           /\ Hold \in Nat \ {0}
                           /\ Price \in 1..Hold
ASSUME AssetAssumption == {"base", "quote"} \subseteq Assets
ASSUME FlagAssumption == PaperVenue \in BOOLEAN /\ LateArrival \in BOOLEAN
ASSUME BoundAssumption == MaxCrashes \in Nat /\ MaxWriteFaults \in Nat

VARIABLES
  mem,        \* _orders: the in-memory book, by intent
  db,         \* oms_orders: the rows of the order store
  ledger,     \* ledger_entries: the posted entries
  spent,      \* risk_permits: consumed permit ids
  venue,      \* what the venue holds for each client order id (external)
  inflight,   \* submit requests on their way to the venue
  sent,       \* history: how often adapter.submit was called for an intent
  mishaps,    \* history: the orders that [late] the venue took after they were
              \* given up, [cut] lost the record of a posted fill, and
              \* [failed] had a write raise
  phase,      \* "up", "down" or "recovering"
  pending,    \* rows recover() has loaded and still has to look at
  call,       \* the operation holding the OMS lock
  crashes, writeFaults

durable == <<db, ledger, spent>>
outside == <<venue, inflight, sent, mishaps>>
process == <<mem, phase, pending, call>>
faults  == <<crashes, writeFaults>>
vars    == <<durable, outside, process, faults>>

------------------------------------------------------------------------------
(* Managed orders, reports and ledger entries.                             *)

NoOrder  == [status |-> ABSENT, filled |-> 0, released |-> 0]
NewOrder == [NoOrder EXCEPT !.status = "NEW"]

NoReport == [status |-> ABSENT, filled |-> 0]

UnitHold(o) == IF o \in Buys THEN Hold ELSE 1
HeldAsset(o) == IF o \in Buys THEN "quote" ELSE "base"
Reserved(o) == Qty * UnitHold(o)

Entry(o, kind, asset, key, amount) ==
  [order |-> o, kind |-> kind, asset |-> asset, key |-> key, amount |-> amount]

Reservation(o) == Entry(o, "RESERVATION", HeldAsset(o), FINAL, - Reserved(o))

(* has_entry on the id of the order's reservation.                         *)
HasReservation(o) == Known(ledger, {Reservation(o)}) # {}

Rest(o, order) == Reserved(o) - order.released

FinalRelease(o, order) == Entry(o, "RELEASE", HeldAsset(o), FINAL, Rest(o, order))

(* Mutant: the first fill gives the whole reservation back.                *)
FillReleaseAll(o, order, increment) == Reserved(o)

FillRelease(o, order, increment) ==
  Min({UnitHold(o) * increment, Rest(o, order)})

(* Mutant: the cumulative quantity instead of the increment.               *)
FillBatchCumulative(o, order, report) ==
  {Entry(o, "TRADE", "base", report.filled, report.filled),
   Entry(o, "TRADE", "quote", report.filled, - Price * report.filled)}

(* The batch _post_fill writes: both legs, and a share of the reservation. *)
FillBatch(o, order, report) ==
  LET increment == report.filled - order.filled
      sign      == IF o \in Buys THEN 1 ELSE -1
      release   == FillRelease(o, order, increment)
  IN  {Entry(o, "TRADE", "base", report.filled, sign * increment),
       Entry(o, "TRADE", "quote", report.filled, - sign * Price * increment)}
      \cup {Entry(o, "RELEASE", HeldAsset(o), report.filled, r) : r \in {release} \ {0}}

Idle == [pc |-> "idle", order |-> "none", report |-> NoReport]
At(pc, o) == [pc |-> pc, order |-> o, report |-> NoReport]

------------------------------------------------------------------------------
Init ==
  /\ mem = [o \in Intents |-> NoOrder]
  /\ db = [o \in Intents |-> NoOrder]
  /\ ledger = {}
  /\ spent = {}
  /\ venue = [o \in Intents |-> NoReport]
  /\ inflight = {}
  /\ sent = [o \in Intents |-> 0]
  /\ mishaps = [late |-> {}, cut |-> {}, failed |-> {}]
  /\ phase = "up"
  /\ pending = {}
  /\ call = Idle
  /\ crashes = 0
  /\ writeFaults = 0

Free == phase = "up" /\ call.pc = "idle"

(* An exception leaves the operation.  In recover() it fails the start.    *)
Raise ==
  IF phase = "recovering"
  THEN /\ phase' = "down"
       /\ mem' = [o \in Intents |-> NoOrder]
       /\ pending' = {}
       /\ call' = Idle
  ELSE /\ call' = Idle
       /\ UNCHANGED <<mem, phase, pending>>

(* After the fills of a report are in: take its status; a status the table *)
(* forbids is only saved; a terminal one first releases what is held.      *)
TakeStatus(o, order, report) ==
  LET legal == LegalMove(order.status, report.status)
      moved == IF legal THEN [order EXCEPT !.status = report.status] ELSE order
      frees == legal /\ moved.status \in TerminalStatuses /\ Rest(o, moved) > 0
  IN  /\ mem' = [mem EXCEPT ![o] = moved]
      /\ call' = At(IF frees THEN "release" ELSE "save", o)

(* _apply, up to its first await.                                          *)
Apply(o, report) ==
  LET increment == report.filled - mem[o].filled IN
  \/ increment < 0 /\ call' = Idle /\ UNCHANGED mem
  \/ increment > 0 /\ call' = [pc |-> "fill", order |-> o, report |-> report] /\ UNCHANGED mem
  \/ increment = 0 /\ TakeStatus(o, mem[o], report)

------------------------------------------------------------------------------
(* submit.  An intent already in the book returns the existing order and   *)
(* changes nothing; a permit that is spent or does not cover the intent is *)
(* refused and changes nothing.                                            *)

Submit(o, p) ==
  /\ Free
  /\ mem[o].status = ABSENT
  /\ PermitFor[p] = o
  /\ p \notin spent
  /\ spent' = spent \cup {p}
  /\ call' = IF o \in Unsupported THEN Idle ELSE At("create", o)
  /\ UNCHANGED <<db, ledger, outside, mem, phase, pending, faults>>

(* Mutant: the new order is not persisted before its reservation.          *)
CreateOrderUnsaved ==
  /\ call.pc = "create"
  /\ mem' = [mem EXCEPT ![call.order] = NewOrder]
  /\ call' = At("reserve", call.order)
  /\ UNCHANGED <<durable, outside, phase, pending, faults>>

CreateOrder ==
  /\ call.pc = "create"
  /\ mem' = [mem EXCEPT ![call.order] = NewOrder]
  /\ db' = [db EXCEPT ![call.order] = NewOrder]
  /\ call' = At("reserve", call.order)
  /\ UNCHANGED <<ledger, spent, outside, phase, pending, faults>>

Reserve ==
  LET o == call.order
      batch == {Reservation(o)}
  IN  /\ call.pc = "reserve"
      /\ ledger' = Posted(ledger, batch)
      /\ IF PostAccepted(ledger, batch)
         THEN /\ mem' = [mem EXCEPT ![o].status = "SUBMITTED"]
              /\ call' = At("submitted", o)
         ELSE /\ mem' = [mem EXCEPT ![o].status = "REJECTED"]
              /\ call' = At("save", o)
      /\ UNCHANGED <<db, spent, outside, phase, pending, faults>>

(* Mutant: SUBMITTED is not persisted before the venue is called.          *)
CommitSubmittedUnsaved ==
  /\ call.pc = "submitted"
  /\ call' = At("send", call.order)
  /\ UNCHANGED <<durable, outside, mem, phase, pending, faults>>

CommitSubmitted ==
  /\ call.pc = "submitted"
  /\ db' = [db EXCEPT ![call.order] = mem[call.order]]
  /\ call' = At("send", call.order)
  /\ UNCHANGED <<ledger, spent, outside, mem, phase, pending, faults>>

Send ==
  /\ call.pc = "send"
  /\ sent' = [sent EXCEPT ![call.order] = @ + 1]
  /\ inflight' = inflight \cup {call.order}
  /\ call' = At("wait", call.order)
  /\ UNCHANGED <<durable, venue, mishaps, mem, phase, pending, faults>>

SubmitAnswered ==
  /\ call.pc = "wait"
  /\ venue[call.order].status # ABSENT
  /\ Apply(call.order, venue[call.order])
  /\ UNCHANGED <<durable, outside, phase, pending, faults>>

(* Any exception of adapter.submit: a timeout, a dropped connection, a 5xx *)
(* answer.  The request may be lost, already taken, or still under way;    *)
(* the paper venue, called in process, can only fail before it takes it.   *)
SubmitFails ==
  /\ call.pc = "wait"
  /\ PaperVenue => call.order \in inflight
  /\ mem' = [mem EXCEPT ![call.order].status = "UNKNOWN"]
  /\ call' = At("save", call.order)
  /\ \/ inflight' = inflight \ {call.order}
     \/ LateArrival /\ inflight' = inflight
  /\ UNCHANGED <<durable, venue, sent, mishaps, phase, pending, faults>>

------------------------------------------------------------------------------
(* The rest of _apply, _release_rest and _commit.                          *)

PostFill ==
  LET o     == call.order
      order == mem[o]
      batch == FillBatch(o, order, call.report)
      after == [order EXCEPT
                  !.filled = call.report.filled,
                  !.released = @ + FillRelease(o, order, call.report.filled - order.filled)]
  IN  /\ call.pc = "fill"
      /\ ledger' = Posted(ledger, batch)
      /\ IF PostAccepted(ledger, batch)
         THEN TakeStatus(o, after, call.report) /\ UNCHANGED <<phase, pending>>
         ELSE Raise
      /\ UNCHANGED <<db, spent, outside, faults>>

(* Mutant: the final release is subtracted from `released`.                *)
ReleaseRestNegated ==
  LET o == call.order
  IN  /\ call.pc = "release"
      /\ ledger' = Posted(ledger, {FinalRelease(o, mem[o])})
      /\ mem' = [mem EXCEPT ![o].released = @ - Rest(o, mem[o])]
      /\ call' = At("save", o)
      /\ UNCHANGED <<db, spent, outside, phase, pending, faults>>

ReleaseRest ==
  LET o     == call.order
      batch == {FinalRelease(o, mem[o])}
  IN  /\ call.pc = "release"
      /\ ledger' = Posted(ledger, batch)
      /\ IF PostAccepted(ledger, batch)
         THEN /\ mem' = [mem EXCEPT ![o].released = Reserved(o)]
              /\ call' = At("save", o)
              /\ UNCHANGED <<phase, pending>>
         ELSE Raise
      /\ UNCHANGED <<db, spent, outside, faults>>

Save ==
  /\ call.pc = "save"
  /\ db' = [db EXCEPT ![call.order] = mem[call.order]]
  /\ pending' = pending \ {call.order}
  /\ call' = Idle
  /\ UNCHANGED <<ledger, spent, outside, mem, phase, faults>>

(* A durable write raises while the service is up: the operation ends      *)
(* there.  The write may have been committed all the same, and the book in *)
(* memory then lags behind or stays ahead.  (In recover() it fails the     *)
(* start, which is the crash.)                                             *)
WriteFault ==
  /\ phase = "up"
  /\ writeFaults < MaxWriteFaults
  /\ writeFaults' = writeFaults + 1
  /\ call' = Idle
  /\ UNCHANGED <<venue, inflight, sent, phase, pending, crashes>>

Failed(o) == [mishaps EXCEPT !.failed = @ \cup {o}]

(* The insert of the consumed permit.                                      *)
ConsumeFails(o, p) ==
  /\ call.pc = "idle"
  /\ mem[o].status = ABSENT
  /\ PermitFor[p] = o
  /\ p \notin spent
  /\ spent' \in {spent, spent \cup {p}}
  /\ WriteFault
  /\ UNCHANGED <<db, ledger, mem, mishaps>>

(* The order's row.  A new order is in the book before its row is written. *)
SaveFails ==
  LET o   == call.order
      row == IF call.pc = "create" THEN NewOrder ELSE mem[o]
  IN  /\ call.pc \in {"create", "submitted", "save"}
      /\ WriteFault
      /\ mem' = [mem EXCEPT ![o] = row]
      /\ db' \in {db, [db EXCEPT ![o] = row]}
      /\ mishaps' = Failed(o)
      /\ UNCHANGED <<ledger, spent>>

(* The batch the operation is about to post.                               *)
Batch ==
  LET o == call.order
  IN  CASE call.pc = "reserve" -> {Reservation(o)}
        [] call.pc = "fill"    -> FillBatch(o, mem[o], call.report)
        [] OTHER               -> {FinalRelease(o, mem[o])}

(* A post of the ledger.  The orders in memory do not learn of it.         *)
PostFails ==
  LET o == call.order
  IN  /\ call.pc \in {"reserve", "fill", "release"}
      /\ WriteFault
      /\ \/ ledger' = ledger /\ mishaps' = Failed(o)
         \/ /\ ledger' = Posted(ledger, Batch) /\ ledger' # ledger
            /\ mishaps' = [Failed(o) EXCEPT !.cut = @ \cup {w \in {o} : call.pc = "fill"}]
      /\ UNCHANGED <<db, spent, mem>>

------------------------------------------------------------------------------
(* The operations on an order that already exists.  A query or a cancel    *)
(* that raises changes nothing here and is left out.                       *)

(* Mutant: an order the venue does not know is sent again.                 *)
ResolveUnknownResend(o) ==
  /\ Free
  /\ mem[o].status = "UNKNOWN"
  /\ IF venue[o].status = ABSENT
     THEN call' = At("send", o) /\ UNCHANGED mem
     ELSE Apply(o, venue[o])
  /\ UNCHANGED <<durable, outside, phase, pending, faults>>

ResolveUnknown(o) ==
  /\ Free
  /\ mem[o].status = "UNKNOWN"
  /\ IF venue[o].status = ABSENT
     THEN /\ mem' = [mem EXCEPT ![o].status = "REJECTED"]
          /\ call' = At(IF Rest(o, mem[o]) > 0 THEN "release" ELSE "save", o)
     ELSE Apply(o, venue[o])
  /\ UNCHANGED <<durable, outside, phase, pending, faults>>

(* Mutant: only a changed fill is noticed, not a changed status.           *)
RefreshFillsOnly(o) ==
  /\ Free
  /\ mem[o].status \in Working
  /\ venue[o].filled # mem[o].filled
  /\ Apply(o, venue[o])
  /\ UNCHANGED <<durable, outside, phase, pending, faults>>

Refresh(o) ==
  /\ Free
  /\ mem[o].status \in Working
  /\ \/ /\ venue[o].status = ABSENT
        /\ mem' = [mem EXCEPT ![o].status = "UNKNOWN"]
        /\ call' = At("save", o)
     \/ /\ venue[o].status # ABSENT
        /\ venue[o].status # mem[o].status \/ venue[o].filled # mem[o].filled
        /\ Apply(o, venue[o])
  /\ UNCHANGED <<durable, outside, phase, pending, faults>>

(* The venue cancels a working order, or answers with what it holds.  The  *)
(* answer may be lost after the venue has acted.                           *)
Cancel(o) ==
  /\ Free
  /\ mem[o].status \in Statuses \ (TerminalStatuses \cup {"UNKNOWN"})
  /\ venue[o].status # ABSENT
  /\ \E answer \in {venue[o]} \cup {[venue[o] EXCEPT !.status = "CANCELED"] :
                                      w \in {venue[o].status} \cap Working} :
       /\ venue' = [venue EXCEPT ![o] = answer]
       /\ \/ Apply(o, answer)
          \/ answer # venue[o] /\ UNCHANGED <<mem, call>>
  /\ UNCHANGED <<durable, inflight, sent, mishaps, phase, pending, faults>>

------------------------------------------------------------------------------
(* Crash and recover().                                                    *)

Crash ==
  /\ phase # "down"
  /\ crashes < MaxCrashes
  /\ crashes' = crashes + 1
  /\ phase' = "down"
  /\ mem' = [o \in Intents |-> NoOrder]
  /\ pending' = {}
  /\ call' = Idle
  /\ venue' = IF PaperVenue THEN [o \in Intents |-> NoReport] ELSE venue
  /\ \/ LateArrival /\ ~PaperVenue /\ inflight' = inflight
     \/ inflight' = {}
  /\ mishaps' = [mishaps EXCEPT !.cut = @ \cup {o \in Intents : mem[o].filled > db[o].filled}]
  /\ UNCHANGED <<durable, sent, writeFaults>>

(* Mutant: recover() also reopens orders that are already terminal.        *)
RestartReopens ==
  /\ phase = "down"
  /\ phase' = "recovering"
  /\ mem' = db
  /\ pending' = {o \in Intents : db[o].status \notin {"UNKNOWN", ABSENT}}
  /\ UNCHANGED <<durable, outside, call, faults>>

Restart ==
  /\ phase = "down"
  /\ phase' = "recovering"
  /\ mem' = db
  /\ pending' = {o \in Intents :
                   db[o].status \notin TerminalStatuses \cup {"UNKNOWN", ABSENT}}
  /\ UNCHANGED <<durable, outside, call, faults>>

(* Mutant: every open order is taken for one that never reached the venue. *)
RecoverRejects(o) ==
  /\ phase = "recovering"
  /\ call.pc = "idle"
  /\ o \in pending
  /\ mem' = [mem EXCEPT ![o].status = "REJECTED"]
  /\ call' = At(IF Rest(o, mem[o]) > 0 THEN "release" ELSE "save", o)
  /\ UNCHANGED <<durable, outside, phase, pending, faults>>

Recover(o) ==
  /\ phase = "recovering"
  /\ call.pc = "idle"
  /\ o \in pending
  /\ IF mem[o].status = "NEW"
     THEN LET released == IF HasReservation(o) THEN mem[o].released ELSE Reserved(o)
              moved    == [mem[o] EXCEPT !.status = "REJECTED", !.released = released]
          IN  /\ mem' = [mem EXCEPT ![o] = moved]
              /\ call' = At(IF Rest(o, moved) > 0 THEN "release" ELSE "save", o)
     ELSE /\ mem' = [mem EXCEPT ![o].status = "UNKNOWN"]
          /\ call' = At("save", o)
  /\ UNCHANGED <<durable, outside, phase, pending, faults>>

RecoverDone ==
  /\ phase = "recovering"
  /\ call.pc = "idle"
  /\ pending = {}
  /\ phase' = "up"
  /\ UNCHANGED <<durable, outside, mem, pending, call, faults>>

------------------------------------------------------------------------------
(* The venue (external): takes a request, fills a working order step by    *)
(* step, or ends it.  The paper venue decides everything on arrival.       *)

(* The order was called "not found at venue", or its hold is released.     *)
GivenUp(o) ==
  \/ mem[o].status = "REJECTED"
  \/ \E e \in ledger : e.order = o /\ e.kind = "RELEASE"

VenueTakes(o) ==
  /\ o \in inflight
  /\ inflight' = inflight \ {o}
  /\ \E status \in VenueConfirmed \ {"PARTIALLY_FILLED"} :
       venue' = [venue EXCEPT ![o] =
                   [status |-> status, filled |-> IF status = "FILLED" THEN Qty ELSE 0]]
  /\ mishaps' = [mishaps EXCEPT !.late = @ \cup {w \in {o} : GivenUp(w)}]
  /\ UNCHANGED <<durable, sent, process, faults>>

VenueFills(o) ==
  /\ ~PaperVenue
  /\ venue[o].status \in Working
  /\ \E f \in venue[o].filled + 1 .. Qty :
       venue' = [venue EXCEPT ![o] =
                   [status |-> IF f = Qty THEN "FILLED" ELSE "PARTIALLY_FILLED", filled |-> f]]
  /\ UNCHANGED <<durable, inflight, sent, mishaps, process, faults>>

VenueExpires(o) ==
  /\ ~PaperVenue
  /\ venue[o].status \in Working
  /\ venue' = [venue EXCEPT ![o].status = "CANCELED"]
  /\ UNCHANGED <<durable, inflight, sent, mishaps, process, faults>>

------------------------------------------------------------------------------
OmsStep ==
  \/ CreateOrder \/ Reserve \/ CommitSubmitted \/ Send
  \/ SubmitAnswered \/ SubmitFails \/ PostFill \/ ReleaseRest \/ Save

Next ==
  \/ \E o \in Intents, p \in Permits : Submit(o, p)
  \/ OmsStep
  \/ SaveFails \/ PostFails
  \/ \E o \in Intents, p \in Permits : ConsumeFails(o, p)
  \/ \E o \in Intents : ResolveUnknown(o) \/ Refresh(o) \/ Cancel(o)
  \/ Crash \/ Restart \/ RecoverDone
  \/ \E o \in Intents : Recover(o)
  \/ \E o \in Intents : VenueTakes(o) \/ VenueFills(o) \/ VenueExpires(o)

Spec == Init /\ [][Next]_vars

------------------------------------------------------------------------------
(* Properties.                                                             *)

Orders == [status : Statuses \cup {ABSENT}, filled : 0 .. Qty, released : Nat]
Reports == [status : VenueConfirmed \cup {ABSENT}, filled : 0 .. Qty]
PCs == {"idle", "create", "reserve", "submitted", "send", "wait", "fill", "release", "save"}

(* Type invariant of the OMS, its stores and the venue it talks to.        *)
TypeOK ==
  /\ mem \in [Intents -> Orders]
  /\ db \in [Intents -> Orders]
  /\ spent \subseteq Permits
  /\ venue \in [Intents -> Reports]
  /\ inflight \subseteq Intents
  /\ sent \in [Intents -> Nat]
  /\ phase \in {"up", "down", "recovering"}
  /\ pending \subseteq Intents
  /\ call \in [pc : PCs, order : Intents \cup {"none"}, report : Reports]
  /\ call.pc # "idle" => call.order \in Intents
  /\ crashes \in 0 .. MaxCrashes
  /\ writeFaults \in 0 .. MaxWriteFaults

Traded(o) == SumAmounts({e \in ledger : e.order = o /\ e.kind = "TRADE" /\ e.asset = "base"})

(* What the ledger still holds back for an order.                          *)
Outstanding(o) == - SumAmounts({e \in ledger : e.order = o /\ ~IsTotal(e)})

(* adapter.submit is called at most once for an intent, whatever crashes,  *)
(* failed writes, restarts and second permits happen in between: an        *)
(* UNKNOWN order is never resent (manager.py submit and resolve_unknown).  *)
SentAtMostOnce == \A o \in Intents : sent[o] <= 1

(* Whatever has been sent is backed by durable state: a consumed permit, a *)
(* posted reservation and a stored row that recover() will not take for an *)
(* order that never left (manager.py submit: consume, save, reserve,       *)
(* commit, and only then the venue).                                       *)
SentIsBacked ==
  \A o \in Intents : sent[o] > 0 =>
    /\ \E p \in spent : PermitFor[p] = o
    /\ HasReservation(o)
    /\ db[o].status \notin {ABSENT, "NEW"}

(* "Persisted before the reservation, so a crash never orphans funds":     *)
(* money held in the ledger always belongs to a stored order that is still *)
(* open, which a restart therefore finds and settles.                      *)
NoOrphanedFunds ==
  \A o \in Intents : Outstanding(o) > 0 =>
    db[o].status \notin TerminalStatuses \cup {ABSENT}

(* The order keeps at least its unfilled share on hold while it may still  *)
(* fill, and never gives back more than it held: _post_fill releases pro   *)
(* rata and _release_rest the remainder, also when writes fail.  An order  *)
(* that lost the record of a posted fill releases that share twice.        *)
HoldCoversTheOrder ==
  \A o \in Intents \ mishaps.cut : HasReservation(o) =>
    /\ Outstanding(o) >= 0
    /\ venue[o].status \in Working =>
         Outstanding(o) >= UnitHold(o) * (Qty - venue[o].filled)

(* What the ledger has traded for an order, in its own direction.          *)
Booked(o) == IF o \in Buys THEN Traded(o) ELSE - Traded(o)

(* The ledger never records more than the venue executed: a fill posted    *)
(* just before a crash is not counted twice.                               *)
FillCountedOnce == \A o \in Intents : Booked(o) \in 0 .. venue[o].filled

(* The ledger records more than the venue executed for no order, except    *)
(* one whose process learned nothing of a fill it had posted: by a crash   *)
(* or a failing save before the row, or by a post that raised after its    *)
(* commit.  No other order is affected (_apply, _post_fill, _commit).      *)
OnlyLostFillsCountTwice ==
  \A o \in Intents \ mishaps.cut : Booked(o) \in 0 .. venue[o].filled

(* No asset is ever overdrawn: what is available after every reservation,  *)
(* fill and release stays non-negative (ledger.py _guard, plus fills that  *)
(* cost at most what was held for them).                                   *)
NoOverdraft == \A a \in {"base", "quote"} : Available(ledger, a) >= 0

(* Money is neither lost nor invented by crashes and failed writes: no     *)
(* hold outlives its order, and no asset is overdrawn while it lasts.      *)
FundsAreSafe == NoOrphanedFunds /\ NoOverdraft

(* A stored terminal order tells the truth for good: its status and fill   *)
(* agree with a venue that is done with it too, and the ledger has booked  *)
(* that fill, exactly so unless the record of a posted fill was lost, when *)
(* it may have booked more.  The exception is an order that was on its way *)
(* when the venue was asked: resolve_unknown calls it REJECTED and it may  *)
(* arrive afterwards.                                                      *)
TerminalAgrees ==
  \A o \in Intents : db[o].status \in TerminalStatuses =>
    /\ \/ /\ venue[o].status \in {db[o].status, ABSENT}
          /\ venue[o].filled = db[o].filled
          /\ o \notin inflight
       \/ db[o].status = "REJECTED" /\ db[o].filled = 0 /\ o \in inflight \cup mishaps.late
    /\ Booked(o) >= db[o].filled
    /\ o \notin mishaps.cut => Booked(o) = db[o].filled

(* A stored order that reached a terminal status never changes again, and  *)
(* a stored fill never shrinks, across restarts included.                  *)
StoredOrderIsFinal ==
  [][\A o \in Intents :
       /\ db[o].status \in TerminalStatuses => db'[o] = db[o]
       /\ db'[o].filled >= db[o].filled]_vars

(* "fills are always recorded because the venue already executed them":    *)
(* whenever an operation could learn of a fill, the ledger would accept    *)
(* the batch that records it, so no order is stuck on a refused fill.      *)
FillsAlwaysRecorded ==
  \A o \in Intents :
    /\ Free
    /\ mem[o].status \in Working \cup {"UNKNOWN"}
    /\ venue[o].filled > mem[o].filled
    => PostAccepted(ledger, FillBatch(o, mem[o], venue[o]))

(* Holds and fills keep in step: what may still fill is covered, and, as   *)
(* long as no posted fill was forgotten, what was filled can be booked,    *)
(* while orders compete for the same balance and writes fail.              *)
HoldsFollowFills ==
  HoldCoversTheOrder /\ (mishaps.cut = {} => FillsAlwaysRecorded)

(* "Whatever is still reserved at a terminal state is released": a stored  *)
(* terminal order whose reservation was posted accounts for all of it.     *)
SettledInFull ==
  \A o \in Intents :
    db[o].status \in TerminalStatuses /\ HasReservation(o)
      => db[o].released = Reserved(o)

(* An order the book calls REJECTED has no trade in the ledger: resolving  *)
(* an unknown order to "not found at venue" never disowns a posted fill.   *)
RejectedTradedNothing ==
  \A o \in Intents : mem[o].status = "REJECTED" => Traded(o) = 0

(* "The venue confirms it never received the order": an order stored as    *)
(* REJECTED is not, and will not be, live at the venue.                    *)
RejectedStaysAway ==
  \A o \in Intents : db[o].status = "REJECTED" => venue[o].status \in {"REJECTED", ABSENT}

(* The durable book and the venue calls implement the order lifecycle.     *)
Stage(o) ==
  CASE db[o].status = ABSENT              -> "none"
    [] db[o].status \in TerminalStatuses -> "done"
    [] OTHER                              -> IF sent[o] = 0 THEN "open" ELSE "sent"

Lifecycle == INSTANCE OrderLifecycle WITH
               stage <- [o \in Intents |-> Stage(o)],
               fill  <- [o \in Intents |-> db[o].filled]

(* Every behaviour of the OMS, crashes included, is a behaviour of the     *)
(* order lifecycle: opened once, dispatched at most once, closed for good. *)
ImplementsLifecycle == Lifecycle!Spec

------------------------------------------------------------------------------
(* Fairness.  The event loop runs an operation to its end, a supervisor    *)
(* restarts the process and recover() goes through its rows (weak).  The   *)
(* poller keeps refreshing working orders; the FIFO asyncio lock lets it   *)
(* in eventually although others hold it in between (strong).  Nothing is  *)
(* assumed of the operator, who alone resolves unknown orders.             *)
Fairness ==
  /\ WF_vars(OmsStep)
  /\ WF_vars(Restart)
  /\ WF_vars(RecoverDone)
  /\ \A o \in Intents : WF_vars(Recover(o)) /\ SF_vars(Refresh(o))

FairSpec == Spec /\ Fairness

(* Once the venue is done with an order, the stored order becomes terminal *)
(* too, or the book shows it as UNKNOWN, for the operator to resolve: the  *)
(* poller leaves nothing working for ever, whatever crashes, partial fills *)
(* and late answers come in between.  The exceptions: a write of the order *)
(* itself raised, which only the next restart makes up for; or a posted    *)
(* fill was forgotten or an order given up before it arrived, after which  *)
(* the ledger may refuse a fill.                                           *)
EventuallySettled ==
  \A o \in Intents :
    venue[o].status \in TerminalStatuses
      ~> \/ db[o].status \in TerminalStatuses
         \/ mem[o].status = "UNKNOWN"
         \/ o \in mishaps.failed \/ mishaps.cut \cup mishaps.late # {}
==============================================================================
