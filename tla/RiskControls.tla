---------------------------- MODULE RiskControls ----------------------------
(***************************************************************************)
(* The kill switches and the lockdown latch of the risk governor           *)
(* (services/risk/governor.py), kept in the memory of the API process and  *)
(* in one row of the control store (apps/api/app/risk_surface.py and       *)
(* control_state.py).                                                      *)
(*                                                                         *)
(* A control in force is an element of a set, so merging is a union.  Each *)
(* handler runs alone until it awaits: the store's connection, the read or *)
(* the write of the row, the accounts, the journal.  The code between two  *)
(* awaits is one step, written as operators that take the process memory m *)
(* and the handler's call c to <<m', c'>>.  `early` says that the store's  *)
(* retry interval has not passed.                                          *)
(***************************************************************************)
EXTENDS Naturals

CONSTANTS Kills,      \* kill switches: global, one per venue, one per strategy
          Handlers,   \* request handlers that run concurrently
          Ops,        \* the requests that arrive, of the four there are
          MaxCrashes, MaxReadFaults, MaxPutFaults, MaxBreaches

Lockdown == "lockdown"
Controls == Kills \cup {Lockdown}

VARIABLES mem,    \* the process: ctl in force, cache (_controls_saved), loaded
                  \* (_controls_loaded), the store's status and generation, and as
                  \* history the controls owed: set and not released by an operator
          call,   \* what each handler is doing
          db,     \* the risk_controls row
          breach, \* an account breaches its daily-loss or drawdown limit
          left,   \* what remains of each bound
          past    \* history: the controls owed that a failed release erased when
                  \* it was put back (lost), and whether handlers crossed on the row

vars == <<mem, call, db, breach, left, past>>

Boot(row) ==
  [ctl |-> {}, cache |-> {}, loaded |-> 0, status |-> "pending", gen |-> 1, owed |-> row]
Idle == [op |-> "none", on |-> {}, pc |-> "idle", stage |-> "ready", nested |-> FALSE,
         before |-> {}, snap |-> {}, gen |-> 0]

Unharmed == [lost |-> {}, crossed |-> FALSE]

Init ==
  /\ db = {}
  /\ mem = Boot(db)
  /\ call = [h \in Handlers |-> Idle]
  /\ breach = FALSE
  /\ left = [crash |-> MaxCrashes, read |-> MaxReadFaults, put |-> MaxPutFaults,
             breach |-> MaxBreaches]
  /\ past = Unharmed

Spend(kind) == left[kind] > 0 /\ left' = [left EXCEPT ![kind] = @ - 1]

At(c, pc) == [c EXCEPT !.pc = pc]
Unavailable(m) == [m EXCEPT !.status = "unavailable"]

------------------------------------------------------------------------------
(* governor_ready, up to its first await: it returns when the controls    *)
(* are loaded for this connection, or when it is too early to reconnect;   *)
(* else it waits for the saved row or for the store.                       *)
Loaded(m, early) ==
  IF m.status = "durable" THEN m.loaded = m.gen ELSE m.status = "unavailable" /\ early

Await(m, c) ==
  IF m.status = "durable" THEN [At(c, "get") EXCEPT !.gen = m.gen] ELSE At(c, "connect")

\* K is what the caller goes on with.
Ready(m, c, early, K(_, _)) == IF Loaded(m, early) THEN K(m, c) ELSE <<m, Await(m, c)>>

(* The handler ends: a release that was not saved is put back, all of it.  *)
Finish(m, c, ok) ==
  IF c.op \in {"release", "unlock"} /\ ~ok
  THEN <<[m EXCEPT !.ctl = c.before, !.owed = @ \cup (c.on \cap c.before)], Idle>>
  ELSE <<m, Idle>>

StartPut(m, c) == <<m, [At(c, "put") EXCEPT !.snap = m.ctl]>>

(* Mutant: the row is written whether or not it was read.                  *)
SaveBlind(m, c) == IF m.ctl = m.cache THEN Finish(m, c, TRUE) ELSE StartPut(m, c)

(* persist_controls after its governor_ready: never write over a row that  *)
(* was not read, and skip a write that would change nothing.               *)
Save(m, c) ==
  IF m.loaded # m.gen THEN Finish(m, c, FALSE)
  ELSE IF m.ctl = m.cache THEN Finish(m, c, TRUE)
  ELSE StartPut(m, c)

Persist(m, c, early) == Ready(m, [c EXCEPT !.stage = "save"], early, Save)

SetControls(m, on) == [m EXCEPT !.ctl = @ \cup on, !.owed = @ \cup on]

(* _release: forget first, then save.                                      *)
ReleaseControls(m, c, early) ==
  Persist([m EXCEPT !.ctl = @ \ c.on, !.owed = @ \ c.on], [c EXCEPT !.before = m.ctl], early)

(* Mutant: an assessment goes on without the durable controls.             *)
AssessAnyway(m, c) == <<m, At(c, "account")>>

(* assess refuses while the store is configured and not available.         *)
Assess(m, c) == IF m.status = "durable" THEN <<m, At(c, "account")>> ELSE <<m, Idle>>

(* What each handler does once governor_ready has returned.                *)
Act(m, c, early) ==
  CASE c.op = "trigger" -> Persist(SetControls(m, c.on), c, early)
    [] c.op = "release" -> ReleaseControls(m, c, early)
    [] c.op = "unlock"  -> <<m, At(c, "accounts")>>
    [] c.op = "assess"  -> Assess(m, c)

(* governor_ready returns, to the handler or to its persist_controls; the  *)
(* persist_controls inside governor_ready comes first.                     *)
Resume(m, c, early) ==
  LET d == [c EXCEPT !.nested = FALSE]
  IN IF c.stage = "ready" THEN Act(m, d, early) ELSE Save(m, d)

SaveNested(m, c, early) ==
  IF m.loaded # m.gen \/ m.ctl = m.cache THEN Resume(m, c, early) ELSE StartPut(m, c)

Continue(m, c, early) == IF c.nested THEN SaveNested(m, c, early) ELSE Resume(m, c, early)

(* Mutant: a failing read leaves the controls marked as loaded.            *)
UnreadableButLoaded(m, c) == [m EXCEPT !.loaded = c.gen]

(* The saved row could not be read.                                        *)
Unreadable(m, c) == Unavailable(m)

(* Mutant: the row is merged and never written back.                       *)
MergeOnly(m, c, early) ==
  Continue([m EXCEPT !.ctl = @ \cup c.snap, !.cache = @ \cup c.snap, !.loaded = c.gen], c, early)

(* The saved row is merged, and written back when memory is stricter.      *)
Merge(m, c, early) ==
  LET n == [m EXCEPT !.ctl = @ \cup c.snap, !.cache = c.snap, !.loaded = c.gen]
      K(x, y) == SaveNested(x, y, early)
  IN IF n.ctl = c.snap THEN Continue(n, c, early)
     ELSE Ready(n, [c EXCEPT !.nested = TRUE], early, K)

(* The write is over; the cache follows the one that finished last.        *)
Written(m, c, ok, early) ==
  LET n == IF ok THEN [m EXCEPT !.cache = c.snap] ELSE Unavailable(m)
  IN IF c.nested THEN Resume(n, c, early) ELSE Finish(n, c, ok)

(* RiskGovernor.assess: a breach latches the lockdown, and a permit needs  *)
(* a clean account and no control in force.  Both are journaled next.  The *)
(* order is one that every kill switch covers and that is not reduce-only. *)
Decide(m, c) ==
  IF breach THEN <<SetControls(m, {Lockdown}), At(c, "journal")>>
  ELSE <<m, IF m.ctl = {} THEN At(c, "permit") ELSE Idle>>

------------------------------------------------------------------------------
(* A handler is writing the row, or has read or is writing it.             *)
Writing(c) == c.pc \in {"put", "wrote"}
HoldsRow(c) == Writing(c) \/ c.pc = "merge"

(* The step of handler h puts its release back, from the snapshot it took. *)
PutsBack(h) == call[h].op \in {"release", "unlock"} /\ call'[h] = Idle /\ mem'.ctl = call[h].before

(* The step changes the controls, reads the row or writes it while another *)
(* handler is writing it, or writes it while another has yet to merge it.  *)
Crosses(h) ==
  \E g \in Handlers \ {h} :
    \/ Writing(call[g]) /\ (mem'.ctl # mem.ctl \/ HoldsRow(call'[h]))
    \/ HoldsRow(call[g]) /\ Writing(call'[h])

(* Nobody holds a copy of the row: memory, its cache and the row agree.    *)
Agree == {mem'.ctl, mem'.cache} = {db'} /\ \A h \in Handlers : ~HoldsRow(call'[h])

(* The history after a step of handler h.                                  *)
Remember(h) ==
  past' = [lost |-> (past.lost \cup IF PutsBack(h) THEN mem.ctl \cap mem'.owed ELSE {}) \ mem'.ctl,
           crossed |-> (past.crossed \/ Crosses(h)) /\ ~Agree]

Become(h, r) ==
  /\ mem' = r[1]
  /\ call' = [call EXCEPT ![h] = r[2]]

Requests ==
  {r \in [op : {"trigger", "release"}, on : {{k} : k \in Kills}]
           \cup {[op |-> "unlock", on |-> {Lockdown}], [op |-> "assess", on |-> {}]} : r.op \in Ops}

Request(h, r, early) ==
  LET K(m, c) == Act(m, c, early)
  IN /\ call[h].pc = "idle"
     /\ Become(h, Ready(mem, [Idle EXCEPT !.op = r.op, !.on = r.on], early, K))
     /\ UNCHANGED <<db, breach, left>>
     /\ Remember(h)

(* ControlPlaneStore.start: each success is a new connection to reload for. *)
Connect(h, early) ==
  /\ call[h].pc = "connect"
  /\ \/ /\ mem' = [mem EXCEPT !.status = "durable", !.gen = @ + 1]
        /\ call' = [call EXCEPT ![h] = [At(@, "get") EXCEPT !.gen = mem.gen + 1]]
        /\ UNCHANGED left
     \/ Spend("read") /\ Become(h, Continue(Unavailable(mem), call[h], early))
  /\ UNCHANGED <<db, breach>>

Get(h, early) ==
  /\ call[h].pc = "get"
  /\ \/ /\ call' = [call EXCEPT ![h] = [At(@, "merge") EXCEPT !.snap = db]]
        /\ UNCHANGED <<mem, left>>
     \/ Spend("read") /\ Become(h, Continue(Unreadable(mem, call[h]), call[h], early))
  /\ UNCHANGED <<db, breach>>

GotRow(h, early) ==
  /\ call[h].pc = "merge"
  /\ Become(h, Merge(mem, call[h], early))
  /\ UNCHANGED <<db, breach, left>>

(* The row is replaced in one transaction.                                 *)
Put(h) ==
  /\ call[h].pc = "put"
  /\ db' = call[h].snap
  /\ call' = [call EXCEPT ![h].pc = "wrote"]
  /\ UNCHANGED <<mem, breach, left>>

(* The write returns, or fails before or after it took effect.             *)
PutDone(h, early) ==
  /\ \/ /\ call[h].pc = "wrote"
        /\ UNCHANGED left
        /\ Become(h, Written(mem, call[h], TRUE, early))
     \/ /\ call[h].pc \in {"put", "wrote"}
        /\ Spend("put")
        /\ Become(h, Written(mem, call[h], FALSE, early))
  /\ UNCHANGED <<db, breach>>

(* The account is read and the decision made.                              *)
AccountRead(h) ==
  /\ call[h].pc = "account"
  /\ Become(h, Decide(mem, call[h]))
  /\ UNCHANGED <<db, breach, left>>

Journaled(h, early) ==
  /\ \/ call[h].pc = "journal" /\ Become(h, Persist(mem, call[h], early))
     \/ call[h].pc = "permit" /\ Become(h, <<mem, Idle>>)
  /\ UNCHANGED <<db, breach, left>>

(* release_lockdown: refused while an account still breaches.              *)
AccountsRead(h, early) ==
  /\ call[h].pc = "accounts"
  /\ Become(h, IF breach THEN <<mem, Idle>> ELSE ReleaseControls(mem, call[h], early))
  /\ UNCHANGED <<db, breach, left>>

(* External: the account's equity crosses a limit, or recovers.            *)
EquityMoves ==
  /\ Spend("breach")
  /\ breach' = ~breach
  /\ UNCHANGED <<mem, call, db, past>>

Restart ==
  /\ Spend("crash")
  /\ mem' = Boot(db)
  /\ call' = [h \in Handlers |-> Idle]
  /\ past' = Unharmed
  /\ UNCHANGED <<db, breach>>

Step(h) ==
  /\ \E early \in BOOLEAN :
       \/ Connect(h, early) \/ Get(h, early) \/ GotRow(h, early) \/ Put(h) \/ PutDone(h, early)
       \/ AccountRead(h) \/ Journaled(h, early) \/ AccountsRead(h, early)
  /\ Remember(h)

Next ==
  \/ \E h \in Handlers :
       Step(h) \/ \E r \in Requests, early \in BOOLEAN : Request(h, r, early)
  \/ EquityMoves
  \/ Restart

Spec == Init /\ [][Next]_vars

------------------------------------------------------------------------------
Calls ==
  [op : {"none", "trigger", "release", "unlock", "assess"}, on : SUBSET Controls,
   pc : {"idle", "connect", "get", "merge", "put", "wrote", "account", "accounts",
         "journal", "permit"},
   stage : {"ready", "save"}, nested : BOOLEAN,
   before : SUBSET Controls, snap : SUBSET Controls, gen : Nat]

(* Type invariant of the controls.                                         *)
TypeOK ==
  /\ mem \in [ctl : SUBSET Controls, cache : SUBSET Controls, loaded : Nat,
              status : {"pending", "durable", "unavailable"}, gen : Nat,
              owed : SUBSET Controls]
  /\ mem.loaded <= mem.gen
  /\ call \in [Handlers -> Calls]
  /\ db \subseteq Controls
  /\ breach \in BOOLEAN
  /\ left \in [{"crash", "read", "put", "breach"} -> Nat]
  /\ past \in [lost : SUBSET Controls, crossed : BOOLEAN]

(* What a step that issues a permit needs: no control is owed, other than  *)
(* one that a failed release erased.                                       *)
PermitNeedsNothingOwed ==
  \A h \in Handlers :
    call[h].pc = "account" /\ call'[h].pc = "permit" => mem.owed \subseteq past.lost

(* No permit is issued while a control that was restored or set is owed:   *)
(* after a restart the saved row is merged before any assessment gets      *)
(* through, whichever handler reconnects and whatever cannot be read or    *)
(* written.  A control that a failed release erased is not seen again.     *)
PermitsRespectControls == [][PermitNeedsNothingOwed]_vars

Current == mem.status = "durable" /\ mem.loaded = mem.gen

(* "every release is an explicit operator action": while assessments are   *)
(* accepted on merged controls, every control owed is in force in memory.  *)
(* The exception is a control that a failing release erased: it puts back  *)
(* the snapshot it took, without what was set or merged since.             *)
OnlyOperatorsRelease == Current => mem.owed \subseteq mem.ctl \cup past.lost

(* "a deploy can neither clear a lockdown nor release a kill switch": when *)
(* no handler is running and the store is connected, every control owed is *)
(* in the row that a restart restores, unless it was lost so, or handlers  *)
(* crossed on the row and no later read or write has set it right.         *)
QuietMeansSaved ==
  (\A h \in Handlers : call[h].pc = "idle") /\ Current /\ ~past.crossed
     => mem.owed \subseteq db \cup past.lost

(* A control that was set stays set, in memory while the process lives and *)
(* in the row it would restore, until an operator releases it, but for a   *)
(* failed release put back over it and for handlers that cross on the row. *)
ControlsStay == OnlyOperatorsRelease /\ QuietMeansSaved

------------------------------------------------------------------------------
(* Awaits end, and proposals keep being assessed.                          *)
Fairness ==
  \A h \in Handlers :
    /\ WF_vars(Step(h))
    /\ SF_vars(Request(h, [op |-> "assess", on |-> {}], FALSE))

FairSpec == Spec /\ Fairness

(* A control set while the store is away reaches the row once the store    *)
(* answers again, unless an operator releases it or the process dies with  *)
(* it: the next governor_ready reconnects, merges and writes.              *)
ControlsBecomeDurable ==
  \A k \in Controls : [](k \in mem.owed => <>(k \in db \/ k \notin mem.owed))
==============================================================================
