----------------------------- MODULE OrderStatus -----------------------------
(***************************************************************************)
(* The order state machine of services/execution/contracts.py: the         *)
(* statuses, the terminal ones and the transition table that every change  *)
(* of a managed order goes through.  ABSENT stands for "no such order": a  *)
(* missing row, a missing dictionary entry, or a venue answering that it   *)
(* does not know the id.                                                   *)
(***************************************************************************)

ABSENT == "ABSENT"

Statuses == {"NEW", "SUBMITTED", "ACKNOWLEDGED", "PARTIALLY_FILLED",
             "FILLED", "CANCELED", "REJECTED", "UNKNOWN"}

TerminalStatuses == {"FILLED", "CANCELED", "REJECTED"}

VenueConfirmed == {"ACKNOWLEDGED", "PARTIALLY_FILLED"} \cup TerminalStatuses

Working == {"ACKNOWLEDGED", "PARTIALLY_FILLED"}

AllowedTransitions(status) ==
  CASE status = "NEW"              -> {"SUBMITTED", "REJECTED"}
    [] status = "SUBMITTED"        -> VenueConfirmed \cup {"UNKNOWN"}
    [] status = "ACKNOWLEDGED"     -> {"PARTIALLY_FILLED", "FILLED", "CANCELED", "UNKNOWN"}
    [] status = "PARTIALLY_FILLED" -> {"PARTIALLY_FILLED", "FILLED", "CANCELED", "UNKNOWN"}
    [] status = "UNKNOWN"          -> VenueConfirmed
    [] OTHER                       -> {}

(* `_set_status` accepts the status the order already has without asking   *)
(* the table; anything else must be an allowed transition.                 *)
LegalMove(old, new) == new = old \/ new \in AllowedTransitions(old)
==============================================================================
