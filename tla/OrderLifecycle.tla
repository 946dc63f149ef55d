--------------------------- MODULE OrderLifecycle ---------------------------
(***************************************************************************)
(* What the OMS promises about one order, seen from its durable state and  *)
(* the venue: an order is opened once, dispatched at most once, learns of  *)
(* fills only after it was dispatched, and once closed never changes.      *)
(* There are no processes, crashes or retries here; Oms implements this    *)
(* specification in spite of all of them.                                  *)
(***************************************************************************)
EXTENDS Integers

CONSTANTS Intents, Qty

VARIABLES stage,    \* "none", "open", "sent" or "done"
          fill      \* quantity on record

lifecycle == <<stage, fill>>

Init ==
  /\ stage = [o \in Intents |-> "none"]
  /\ fill = [o \in Intents |-> 0]

Open(o) ==
  /\ stage[o] = "none"
  /\ stage' = [stage EXCEPT ![o] = "open"]
  /\ UNCHANGED fill

Dispatch(o) ==
  /\ stage[o] = "open"
  /\ stage' = [stage EXCEPT ![o] = "sent"]
  /\ UNCHANGED fill

Learn(o) ==
  /\ stage[o] = "sent"
  /\ \E f \in fill[o] .. Qty : fill' = [fill EXCEPT ![o] = f]
  /\ UNCHANGED stage

(* An order that never left can only close empty.                          *)
Close(o) ==
  /\ stage[o] \in {"open", "sent"}
  /\ stage' = [stage EXCEPT ![o] = "done"]
  /\ \E f \in fill[o] .. Qty :
       /\ stage[o] = "open" => f = 0
       /\ fill' = [fill EXCEPT ![o] = f]

Next == \E o \in Intents : Open(o) \/ Dispatch(o) \/ Learn(o) \/ Close(o)

Spec == Init /\ [][Next]_lifecycle
==============================================================================
