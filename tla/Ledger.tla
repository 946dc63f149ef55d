------------------------------- MODULE Ledger -------------------------------
(***************************************************************************)
(* The transactional ledger of services/oms/ledger.py, as operators over   *)
(* the set of posted entries.  Balances are sums of signed entries; a      *)
(* batch is posted whole or not at all; entry ids are deterministic, so    *)
(* re-posting a known batch changes nothing.                               *)
(*                                                                         *)
(* An entry is a record [order, kind, asset, key, amount].  Its id is      *)
(* everything but the amount (entry_id hashes the client order id, the     *)
(* kind, the asset and the key).  The key of a fill is the cumulative      *)
(* quantity it brings the order to; FINAL is the key "final" of the last   *)
(* release and also stands for the empty key of a reservation.             *)
(***************************************************************************)
EXTENDS Integers, FiniteSetsExt

CONSTANTS Assets,        \* asset symbols
          Opening        \* [Assets -> Nat]: OPENING_BALANCE entries

ASSUME OpeningAssumption == Opening \in [Assets -> Nat]

FINAL == 0

EntryId(e) == <<e.order, e.kind, e.asset, e.key>>

IsTotal(e) == e.kind \in {"TRADE", "FEE"}

SumAmounts(es) == MapThenSumSet(LAMBDA e : e.amount, es)

(* summarize: total = OPENING_BALANCE + TRADE + FEE,                       *)
(*            reserved = -(RESERVATION + RELEASE).                         *)
Total(es, a) == Opening[a] + SumAmounts({e \in es : e.asset = a /\ IsTotal(e)})

ReservedIn(es, a) == - SumAmounts({e \in es : e.asset = a /\ ~IsTotal(e)})

Available(es, a) == Total(es, a) - ReservedIn(es, a)

(* Mutant: the available balance is not checked.                           *)
GuardReservedOnly(es, batch) ==
  \A a \in {e.asset : e \in {b \in batch : ~IsTotal(b)}} : ReservedIn(es, a) >= 0

(* _guard looks only at the assets whose reservations the batch touches.   *)
Guard(es, batch) ==
  \A a \in {e.asset : e \in {b \in batch : ~IsTotal(b)}} :
    /\ ReservedIn(es, a) >= 0
    /\ Available(es, a) >= 0

Known(es, batch) == {e \in batch : \E f \in es : EntryId(f) = EntryId(e)}

(* post either succeeds (newly applied, or already applied in full) or     *)
(* raises LedgerRejected and leaves the ledger alone.                      *)
PostAccepted(es, batch) ==
  \/ Known(es, batch) = batch
  \/ Known(es, batch) = {} /\ Guard(es \cup batch, batch)

Posted(es, batch) ==
  IF Known(es, batch) = {} /\ PostAccepted(es, batch) THEN es \cup batch ELSE es
==============================================================================
