------------------------------- MODULE Locks -------------------------------
(***************************************************************************)
(* The parts whose requests await under a lock they share: the ChatGPT     *)
(* profile, whose refresh and send tasks take a file lock and a gate       *)
(* (Conversation), and the paper simulator, whose orders take              *)
(* _simulation_lock (Paper).                                               *)
(*                                                                         *)
(* They have no state in common; a behaviour is one of theirs, and the     *)
(* variables it does not use hold Unlocked.                                *)
(***************************************************************************)
EXTENDS Integers

CONSTANTS ProfileTasks, Subjects, MaxMessages, MaxRefresh, MaxExpiries, MaxRequests

CONSTANTS Clients, Assets, Prices, Quantities, OrderIds, Conditions, PaperFee,
          MaxOrderNotional, MaxPositionNotional, MaxQuantity, MaxOpen, MaxGross,
          MaxConcentration, MaxDrawdown, Frames, Bootstrapped, StopMove, AutoAsset, AutoQuantity,
          LastPaperTick, MaxOrders, MaxEvents

VARIABLE locking    \* the component of this behaviour
VARIABLES disk, flock, gate, conv, requested, honoured, lost, replied, expiries,
          requests, minted   \* Conversation
VARIABLES runtime, replay, port, queue, change, pilot, boot, store, tick, replies,
          restarted, sent, events   \* Paper
VARIABLE task       \* of both

profileVars == <<disk, flock, gate, conv, requested, honoured, lost, replied,
                 expiries, requests, minted>>
paperVars == <<runtime, replay, port, queue, change, pilot, boot, store, tick,
               replies, restarted, sent, events>>
locks == <<locking, profileVars, paperVars, task>>

Profile == INSTANCE Conversation WITH Tasks <- ProfileTasks, made <- minted

Paper == INSTANCE Paper WITH
    Ids <- OrderIds, Fee <- PaperFee, LastTick <- LastPaperTick,
    clock <- tick, answered <- replies, revived <- restarted

-----------------------------------------------------------------------------
\* No task of the host has the name an unheld lock holds (flock, _gate).
ASSUME TaskAssumption == Profile!Nobody \notin ProfileTasks

-----------------------------------------------------------------------------
\* What the variables of the other component hold.
Unlocked == "unlocked"

NoProfile ==
    /\ disk = Unlocked /\ flock = Unlocked /\ gate = Unlocked /\ conv = Unlocked
    /\ requested = Unlocked /\ honoured = Unlocked /\ lost = Unlocked
    /\ replied = Unlocked /\ expiries = Unlocked /\ requests = Unlocked
    /\ minted = Unlocked
NoPaper ==
    /\ runtime = Unlocked /\ replay = Unlocked /\ port = Unlocked /\ queue = Unlocked
    /\ change = Unlocked /\ pilot = Unlocked /\ boot = Unlocked /\ store = Unlocked
    /\ tick = Unlocked /\ replies = Unlocked /\ restarted = Unlocked
    /\ sent = Unlocked /\ events = Unlocked

LocksInit ==
    \/ locking = "conversation" /\ Profile!Init /\ NoPaper
    \/ locking = "paper" /\ Paper!Init /\ NoProfile

LocksNext ==
    \/ locking = "conversation" /\ Profile!Next /\ UNCHANGED <<locking, paperVars>>
    \/ locking = "paper" /\ Paper!Next /\ UNCHANGED <<locking, profileVars>>

LocksSpec == LocksInit /\ [][LocksNext]_locks

-----------------------------------------------------------------------------
\* No rotated refresh token is presented again and no stored answer is replaced,
\* though processes of the host share the profile (access_token, send).
ConversationIsKept == locking = "conversation" => Profile!ConversationIsKept

\* A saved profile stays bound to its registration and its account, whatever errors,
\* sign-outs and half-finished sign-ins follow (connect, _clear_tokens).
ProfileKeepsItsAccount == [][locking = "conversation" => Profile!ProfileKept]_locks

\* The position an order's risk check saw is the one its fill is applied to, whatever
\* the autopilot, the operator and other callers do meanwhile (_simulate_locked).
CheckStillHolds == locking = "paper" => Paper!CheckStillHolds

\* An order answered as accepted or duplicate has its fill in the journal, across
\* failed commits, resets and restarts (_simulate_locked, append).
AnswersAreTrue == locking = "paper" => Paper!AnswersAreTrue
=============================================================================
