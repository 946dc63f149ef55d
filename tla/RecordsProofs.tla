--------------------------- MODULE RecordsProofs ---------------------------
(***************************************************************************)
(* Theorems about the parts that keep books, for any number of clients,    *)
(* writers, faults and restarts: a signal is handed over once, a frozen    *)
(* holdout has one verdict and its lineage is whole, a decision once told  *)
(* is never retold otherwise, the connector honours one approval, and the  *)
(* cash of a backtest balances.                                            *)
(*                                                                         *)
(* Each part has an inductive invariant of its own (SignalsInv,            *)
(* ResearchInv, MemoryInv, ConnectorInv, LabInv); RecordsInv says the one  *)
(* that is running keeps its invariant.                                    *)
(***************************************************************************)
EXTENDS Records, Sequences, TLAPS

(* Leaves are Zenon's unless they cite SMT; the time is for slow machines. *)
USE ZenonT(60)

-----------------------------------------------------------------------------
(* The signal journal. *)

\* A delivery past its body is about an id.
Typed ==
    /\ flight \in [Deliveries -> [at : {"none", "body", "record", "recorded"},
                                  id : Inbox!Ids \cup {"none"}, created : BOOLEAN]]
    /\ \A d \in Deliveries : flight[d].at # "none" => flight[d].id \in Inbox!Ids
    /\ handed \in [Inbox!Ids -> 0..1]

\* What was handed over is in the journal.
Journalled == \A i \in Inbox!Ids : handed[i] = 1 => i \in journal

\* A delivery that created the event has yet to hand it over.
Creates(d) ==
    flight[d].created =>
        /\ flight[d].at = "recorded"
        /\ flight[d].id \in journal
        /\ handed[flight[d].id] = 0

\* Two deliveries never created the same event.
OneCreator ==
    \A d, e \in Deliveries :
        flight[d].created /\ flight[e].created /\ flight[d].id = flight[e].id => d = e

SignalsInv == Typed /\ Journalled /\ (\A d \in Deliveries : Creates(d)) /\ OneCreator

LEMMA SignalsInit == Inbox!Init => SignalsInv
BY SMTT(60) DEF Inbox!Init, SignalsInv, Typed, Journalled, Creates, OneCreator, Inbox!NoDelivery

\* Steps that leave the journal and the hand-overs alone and may only begin, move
\* or drop deliveries that have created nothing.
LEMMA Before ==
    ASSUME SignalsInv, UNCHANGED <<journal, handed>>, NEW d \in Deliveries,
           NEW f \in [at : {"none", "body", "record", "recorded"},
                      id : Inbox!Ids \cup {"none"}, created : {FALSE}],
           f.at # "none" => f.id \in Inbox!Ids,
           flight' = [flight EXCEPT ![d] = f]
    PROVE  SignalsInv'
BY DEF SignalsInv, Typed, Journalled, Creates, OneCreator

LEMMA Dropped ==
    ASSUME SignalsInv, NEW d \in Deliveries, UNCHANGED handed, journal \subseteq journal',
           flight' = [flight EXCEPT ![d] = Inbox!NoDelivery]
    PROVE  SignalsInv'
BY SMTT(60) DEF SignalsInv, Typed, Journalled, Creates, OneCreator, Inbox!NoDelivery

LEMMA ArrivesKeeps ==
    ASSUME SignalsInv, NEW d \in Deliveries, NEW i \in Inbox!Ids, NEW place \in {"body", "record"},
           Inbox!Arrives(d, i, place), UNCHANGED <<journal, handed>>
    PROVE  SignalsInv'
<1> DEFINE f == [at |-> place, id |-> i, created |-> FALSE]
<1>1. f \in [at : {"none", "body", "record", "recorded"}, id : Inbox!Ids \cup {"none"}, created : {FALSE}]
  OBVIOUS
<1>2. flight' = [flight EXCEPT ![d] = f]
  BY DEF Inbox!Arrives
<1> QED
  BY <1>1, <1>2, Before

\* ingest only moves a delivery on to the journal.
LEMMA IngestKeeps ==
    ASSUME SignalsInv, NEW d \in Deliveries, Inbox!ingest(d)
    PROVE  SignalsInv'
<1> DEFINE f == [flight[d] EXCEPT !.at = "record"]
<1>1. flight[d].at = "body" /\ flight' = [flight EXCEPT ![d] = f] /\ UNCHANGED <<journal, handed>>
  BY DEF Inbox!ingest, SignalsInv, Typed
<1>2. f \in [at : {"none", "body", "record", "recorded"}, id : Inbox!Ids \cup {"none"}, created : {FALSE}]
      /\ f.id \in Inbox!Ids
  BY <1>1 DEF SignalsInv, Typed, Creates
<1> QED
  BY <1>1, <1>2, Before

\* record names this delivery the creator only if the id was not in the journal,
\* and then no delivery created it and nobody was handed it.
LEMMA JournalKeeps ==
    ASSUME SignalsInv, NEW d \in Deliveries, Inbox!record(d)
    PROVE  SignalsInv'
<1> DEFINE i == flight[d].id
<1> DEFINE f == [at |-> "recorded", id |-> i, created |-> i \notin journal]
<1>1. flight[d].at = "record" /\ i \in Inbox!Ids
  BY DEF Inbox!record, SignalsInv, Typed
<1>2. flight' = [flight EXCEPT ![d] = f] /\ journal' = journal \cup {i} /\ UNCHANGED handed
  BY DEF Inbox!record
<1>3. Typed' /\ Journalled'
  BY <1>1, <1>2 DEF SignalsInv, Typed, Journalled
<1>4. ASSUME NEW e \in Deliveries PROVE Creates(e)'
  BY SMTT(60), <1>1, <1>2 DEF SignalsInv, Typed, Journalled, Creates
<1>5. OneCreator'
  BY <1>1, <1>2 DEF SignalsInv, Typed, Creates, OneCreator
<1> QED
  BY <1>3, <1>4, <1>5 DEF SignalsInv

\* Finish hands over what this delivery created, and no other delivery did.
LEMMA FinishKeeps ==
    ASSUME SignalsInv, NEW d \in Deliveries, Inbox!Finish(d)
    PROVE  SignalsInv'
<1>1. CASE flight[d].created
  <2> DEFINE i == flight[d].id
  <2>1. i \in Inbox!Ids /\ handed[i] = 0 /\ i \in journal
    BY <1>1 DEF SignalsInv, Typed, Creates
  <2>2. /\ handed' = [handed EXCEPT ![i] = @ + 1]
        /\ flight' = [flight EXCEPT ![d] = Inbox!NoDelivery] /\ UNCHANGED journal
    BY <1>1 DEF Inbox!Finish, Inbox!Answer
  <2>3. handed' = [handed EXCEPT ![i] = 1]
    BY SMTT(60), <2>1, <2>2 DEF SignalsInv, Typed
  <2>4. Typed' /\ Journalled' /\ OneCreator'
    BY SMTT(60), <2>1, <2>2, <2>3 DEF SignalsInv, Typed, Journalled, OneCreator, Inbox!NoDelivery
  <2>5. ASSUME NEW e \in Deliveries PROVE Creates(e)'
    BY <1>1, <2>1, <2>2, <2>3 DEF SignalsInv, Typed, OneCreator, Creates, Inbox!NoDelivery
  <2> QED
    BY <2>4, <2>5 DEF SignalsInv
<1>2. CASE ~flight[d].created
  <2>1. UNCHANGED <<journal, handed>> /\ flight' = [flight EXCEPT ![d] = Inbox!NoDelivery]
    BY <1>2 DEF Inbox!Finish, Inbox!Answer
  <2> QED
    BY <2>1, Dropped
<1> QED
  BY <1>1, <1>2

LEMMA SignalsStep == SignalsInv /\ (Inbox!Next \/ UNCHANGED Inbox!vars) => SignalsInv'
<1> SUFFICES ASSUME SignalsInv, (Inbox!Next \/ UNCHANGED Inbox!vars) PROVE SignalsInv'
  OBVIOUS
<1>1. ASSUME UNCHANGED <<flight, journal, handed>> PROVE SignalsInv'
  BY <1>1 DEF SignalsInv, Typed, Journalled, Creates, OneCreator
<1>2. CASE Inbox!reset_signal_state
  BY <1>2 DEF Inbox!reset_signal_state, SignalsInv, Typed, Journalled, Creates, OneCreator, Inbox!NoDelivery
<1>3. ASSUME NEW d \in Deliveries,
             Inbox!SignalRejected(d) \/ Inbox!RejectedByAge(d) \/ Inbox!IngestDuplicate(d) \/ Inbox!JournalUnavailable(d)
      PROVE  SignalsInv'
  <2>1. UNCHANGED handed /\ journal \subseteq journal' /\ flight' = [flight EXCEPT ![d] = Inbox!NoDelivery]
    BY <1>3 DEF Inbox!SignalRejected, Inbox!RejectedByAge, Inbox!IngestDuplicate, Inbox!JournalUnavailable, Inbox!Refuse, Inbox!Answer
  <2> QED
    BY <2>1, Dropped
<1>4. ASSUME NEW d \in Deliveries, Inbox!tradingview_webhook(d) PROVE SignalsInv'
  <2>1. PICK a \in Alerts : Inbox!Arrives(d, a, "body")
    BY <1>4 DEF Inbox!tradingview_webhook
  <2>2. a \in Inbox!Ids /\ UNCHANGED <<journal, handed>>
    BY <1>4 DEF Inbox!tradingview_webhook, Inbox!Ids
  <2> QED
    BY <2>1, <2>2, ArrivesKeeps
<1>5. ASSUME NEW d \in Deliveries, Inbox!accept_internal_signal(d) PROVE SignalsInv'
  <2>1. PICK i \in Own : Inbox!Arrives(d, i, "record")
    BY <1>5 DEF Inbox!accept_internal_signal
  <2>2. i \in Inbox!Ids /\ UNCHANGED <<journal, handed>>
    BY <1>5 DEF Inbox!accept_internal_signal, Inbox!Ids
  <2> QED
    BY <2>1, <2>2, ArrivesKeeps
<1>6. CASE \/ UNCHANGED Inbox!vars \/ Inbox!WindowMoves \/ \E a \in Alerts : Inbox!Ages(a)
  BY <1>1, <1>6 DEF Inbox!vars, Inbox!WindowMoves, Inbox!Ages
<1> QED
  BY <1>2, <1>3, <1>4, <1>5, <1>6, IngestKeeps, JournalKeeps, FinishKeeps DEF Inbox!Next

-----------------------------------------------------------------------------
(* The research store. *)

LineageParts == {"prediction", "audit", "calibration"}

\* What a request may insert: a whole lineage, or rows of no lineage.
Inserts(q) ==
    \/ /\ q.op = "lineage"
       /\ \E c \in Experiments, v \in Store!Quality, b \in BOOLEAN : q.rows = Store!LineageRows(c, v, b)
    \/ /\ q.op # "lineage"
       /\ \A x \in q.rows : x.id[1] \notin LineageParts
       /\ q.op = "evaluate" =>
            \A x \in q.rows : x.id = Store!frozen_holdout_consumption_id(q.decision.id)

IsRequest(q) ==
    /\ q = [op |-> q.op, at |-> q.at, rows |-> q.rows, decision |-> q.decision]
    /\ q.at \in {"insert", "select"} =>
        /\ Inserts(q)
        /\ \A x, y \in q.rows : x.id = y.id => x = y

Requested ==
    /\ reqs = [r \in Requests |-> reqs[r]]
    /\ \A r \in Requests : IsRequest(reqs[r])

\* Rows have one payload for an id: the primary keys.
RowsKeyed == \A x, y \in rows : x.id = y.id => x = y

ResearchInv == Requested /\ RowsKeyed /\ Store!VerdictIsFinal /\ Store!LineageIsWhole

-----------------------------------------------------------------------------
\* A request that moves on stays one.
LEMMA RequestMoves ==
    ASSUME NEW r \in Requests, NEW q, Requested, IsRequest(q), reqs' = [reqs EXCEPT ![r] = q]
    PROVE  Requested'
  BY DEF Requested, IsRequest

LEMMA NoRequestIsOne == IsRequest(Store!NoRequest)
  BY DEF IsRequest, Store!NoRequest

LEMMA ResearchInit == Store!Init => ResearchInv
<1> SUFFICES ASSUME Store!Init PROVE ResearchInv
  OBVIOUS
<1>1. Requested
  BY NoRequestIsOne DEF Store!Init, Requested
<1> QED
  BY <1>1 DEF Store!Init, ResearchInv, RowsKeyed, Store!VerdictIsFinal, Store!LineageIsWhole

\* A step that leaves the tables and the answers alone.
LEMMA Reads ==
    ASSUME ResearchInv, Requested', UNCHANGED <<rows, told>>
    PROVE  ResearchInv'
  BY DEF ResearchInv, RowsKeyed, Store!VerdictIsFinal, Store!LineageIsWhole, Store!Stored

\* The rows of a lineage are its own, with one payload.
LEMMA LineageShape ==
    ASSUME NEW c, NEW v, NEW b \in BOOLEAN
    PROVE  /\ \A x \in Store!LineageRows(c, v, b) :
                x.id[1] \in LineageParts /\ x.id[2] = c /\ x.payload = v
           /\ \A x, y \in Store!LineageRows(c, v, b) : x.id = y.id => x = y
           /\ Store!Row(<<"prediction", c>>, v) \in Store!LineageRows(c, v, b)
  BY SMTT(60) DEF Store!LineageRows, Store!Row, LineageParts

\* A transaction that is committed without a clash keeps ids unique.
LEMMA KeysKept ==
    ASSUME ResearchInv, NEW r \in Requests, reqs[r].at = "insert", ~Store!Clash(r),
           rows' = rows \cup reqs[r].rows
    PROVE  RowsKeyed'
  BY DEF ResearchInv, RowsKeyed, Requested, IsRequest, Store!Clash, Store!Stored

\* And it keeps every lineage whole.
LEMMA LineageKept ==
    ASSUME ResearchInv, NEW r \in Requests, reqs[r].at = "insert", ~Store!Clash(r),
           rows' = rows \cup reqs[r].rows
    PROVE  Store!LineageIsWhole'
<1> DEFINE q == reqs[r]
           Of(S, c) == {y \in S : y.id[1] \in LineageParts /\ y.id[2] = c}
<1>1. Inserts(q)
  BY DEF ResearchInv, Requested, IsRequest
<1>2. ASSUME NEW x \in rows, x.id[1] \in LineageParts
      PROVE  \E b \in BOOLEAN : Store!LineageRows(x.id[2], x.payload, b) = Of(rows, x.id[2])
  BY <1>2 DEF ResearchInv, Store!LineageIsWhole, LineageParts
<1>3. SUFFICES ASSUME NEW x \in rows', x.id[1] \in LineageParts
               PROVE  \E b \in BOOLEAN : Store!LineageRows(x.id[2], x.payload, b) = Of(rows', x.id[2])
  BY DEF Store!LineageIsWhole, LineageParts
<1>4. CASE \A z \in q.rows : z.id[1] \notin LineageParts
  <2>1. x \in rows /\ Of(rows', x.id[2]) = Of(rows, x.id[2])
    BY <1>3, <1>4
  <2> QED
    BY <1>2, <1>3, <2>1
<1>5. ASSUME NEW c, NEW v, NEW b \in BOOLEAN, q.rows = Store!LineageRows(c, v, b)
      PROVE  \E d \in BOOLEAN : Store!LineageRows(x.id[2], x.payload, d) = Of(rows', x.id[2])
  <2>1. ASSUME NEW y \in rows, y.id[1] \in LineageParts PROVE y.id[2] # c
    <3>1. SUFFICES ASSUME y.id[2] = c PROVE FALSE
      OBVIOUS
    <3>2. PICK d \in BOOLEAN : Store!LineageRows(c, y.payload, d) = Of(rows, c)
      BY <1>2, <2>1, <3>1
    <3>3. Store!Row(<<"prediction", c>>, y.payload) \in rows
      BY <3>2, LineageShape
    <3>4. Store!Row(<<"prediction", c>>, v) \in q.rows
      BY SMTT(60), <1>5, LineageShape
    <3> QED
      BY SMTT(60), <3>3, <3>4 DEF Store!Clash, Store!Stored, Store!Row
  <2>2. \A z \in q.rows : z.id[1] \in LineageParts /\ z.id[2] = c /\ z.payload = v
    <3>1. \A z \in Store!LineageRows(c, v, b) : z.id[1] \in LineageParts /\ z.id[2] = c /\ z.payload = v
      BY LineageShape
    <3> QED
      BY <1>5, <3>1
  <2>3. CASE x \in q.rows
    <3>1. Of(rows', c) = q.rows
      BY <2>1, <2>2
    <3> QED
      BY <1>5, <2>2, <2>3, <3>1
  <2>4. CASE x \in rows
    <3>1. Of(rows', x.id[2]) = Of(rows, x.id[2])
      BY <1>3, <2>1, <2>2, <2>4
    <3> QED
      BY <1>2, <1>3, <2>4, <3>1
  <2> QED
    BY <2>3, <2>4
<1> QED
  BY <1>1, <1>4, <1>5 DEF Inserts

\* What a request answers is in the table.
LEMMA AnswerKept ==
    ASSUME ResearchInv, NEW r \in Requests, reqs[r].at \in {"insert", "select"}, Store!Answer(r),
           rows \subseteq rows', reqs[r].op = "evaluate" => reqs[r].rows \subseteq rows'
    PROVE  Store!VerdictIsFinal' /\ Requested'
<1> DEFINE q == reqs[r]
           Final(seal, status) == \E y \in rows' :
               y.id = Store!frozen_holdout_consumption_id(seal) /\ y.payload.status = status
<1>1. Requested'
  BY RequestMoves, NoRequestIsOne DEF ResearchInv, Store!Answer, Store!End
<1>2. ASSUME NEW x \in told
      PROVE  Final(x.seal, x.status)
  BY DEF ResearchInv, Store!VerdictIsFinal, Store!Stored
<1>3. ASSUME q.op = "evaluate", NEW z \in q.rows
      PROVE  Final(q.decision.id, z.payload.status)
  <2>1. z.id = Store!frozen_holdout_consumption_id(q.decision.id)
    BY <1>3 DEF ResearchInv, Requested, IsRequest, Inserts
  <2> QED
    BY <1>3, <2>1
<1>4. CASE q.op = "evaluate"
  <2>1. told' = told \cup {[seal |-> q.decision.id, status |-> z.payload.status] : z \in q.rows}
    BY <1>4 DEF Store!Answer
  <2>2. ASSUME NEW x \in told'
        PROVE  Final(x.seal, x.status)
    <3>1. CASE x \in told
      BY <3>1, <1>2
    <3>2. CASE x \notin told
      <4>1. PICK z \in q.rows : x = [seal |-> q.decision.id, status |-> z.payload.status]
        BY <2>1, <3>2
      <4> QED
        BY <1>3, <1>4, <4>1
    <3> QED
      BY <3>1, <3>2
  <2> QED
    BY <1>1, <2>2 DEF Store!VerdictIsFinal, Store!Stored
<1>5. CASE q.op # "evaluate"
  BY <1>1, <1>2, <1>5 DEF Store!Answer, Store!VerdictIsFinal, Store!Stored
<1> QED
  BY <1>4, <1>5

-----------------------------------------------------------------------------
\* Beginning a request.
LEMMA Begins ==
    ASSUME ResearchInv, NEW r \in Requests, NEW op, NEW place, NEW new, NEW decision,
           IsRequest([op |-> op, at |-> place, rows |-> new, decision |-> decision]),
           Store!Begin(r, op, place, new, decision)
    PROVE  ResearchInv'
<1>1. Requested'
  BY RequestMoves DEF ResearchInv, Store!Begin
<1> QED
  BY <1>1, Reads DEF Store!Begin

\* One row of no lineage is something a request may insert.
LEMMA OneRow ==
    ASSUME NEW op, op \notin {"lineage", "evaluate"}, NEW id, id[1] \notin LineageParts, NEW payload
    PROVE  IsRequest([op |-> op, at |-> "insert", rows |-> {Store!Row(id, payload)}, decision |-> {}])
  BY SMTT(60) DEF IsRequest, Inserts, Store!Row

LEMMA SingleRowsKeep ==
    ASSUME ResearchInv, NEW r \in Requests,
           Store!validate_experiment(r) \/ Store!seal_holdout(r) \/ Store!promotion_evaluate_endpoint(r)
    PROVE  ResearchInv'
<1>1. CASE Store!validate_experiment(r)
  <2>1. PICK e \in Experiments, v \in Store!Quality :
          Store!Begin(r, "experiment", "insert", {Store!Row(<<"experiment", e>>, v)}, {})
    BY <1>1 DEF Store!validate_experiment, Store!persist_research_experiment
  <2>2. <<"experiment", e>>[1] \notin LineageParts
    BY DEF LineageParts
  <2> QED
    BY <2>1, <2>2, OneRow, Begins
<1>2. CASE Store!seal_holdout(r)
  <2>1. PICK s \in Store!SealIds : Store!Begin(r, "seal", "insert", {Store!Row(s, s)}, {})
    BY <1>2 DEF Store!seal_holdout, Store!persist_frozen_holdout_seal
  <2>2. s[1] \notin LineageParts
    BY SMTT(60) DEF LineageParts, Store!SealIds
  <2> QED
    BY <2>1, <2>2, OneRow, Begins
<1>3. CASE Store!promotion_evaluate_endpoint(r)
  <2>1. PICK x \in Experiments, e \in Evidence, p \in PromotionPolicies :
          Store!Begin(r, "promote", "insert",
                {Store!Row(<<"promotion", x, e, p>>,
                     [seal |-> e.seal, status |-> Store!evaluate_promotion_gate(e, p)])}, {})
    BY <1>3 DEF Store!promotion_evaluate_endpoint, Store!persist_model_promotion_decision
  <2>2. <<"promotion", x, e, p>>[1] \notin LineageParts
    BY DEF LineageParts
  <2> QED
    BY <2>1, <2>2, OneRow, Begins
<1> QED
  BY <1>1, <1>2, <1>3

LEMMA LineageBegins ==
    ASSUME ResearchInv, NEW r \in Requests, Store!persist_quant_lineage(r)
    PROVE  ResearchInv'
<1>1. PICK c \in Experiments, v \in Store!Quality, b \in BOOLEAN :
        Store!Begin(r, "lineage", "insert", Store!LineageRows(c, v, b), {})
  BY DEF Store!persist_quant_lineage
<1>2. \A x, y \in Store!LineageRows(c, v, b) : x.id = y.id => x = y
  BY LineageShape
<1>3. IsRequest([op |-> "lineage", at |-> "insert", rows |-> Store!LineageRows(c, v, b), decision |-> {}])
  BY <1>2 DEF IsRequest, Inserts
<1> QED
  BY <1>1, <1>3, Begins

LEMMA HoldoutKeeps ==
    ASSUME ResearchInv, NEW r \in Requests, Store!evaluate_holdout(r) \/ Store!Evaluate(r)
    PROVE  ResearchInv'
<1>1. CASE Store!evaluate_holdout(r)
  <2>1. PICK d : Store!Begin(r, "evaluate", "load", {}, d)
    BY <1>1 DEF Store!evaluate_holdout
  <2>2. IsRequest([op |-> "evaluate", at |-> "load", rows |-> {}, decision |-> d])
    BY DEF IsRequest
  <2> QED
    BY <2>1, <2>2, Begins
<1>2. CASE Store!Evaluate(r)
  <2> DEFINE d   == reqs[r].decision
             new == Store!consume_frozen_holdout_decision(d.id, d)
  <2>1. \A x \in new : x.id = Store!frozen_holdout_consumption_id(d.id) /\ x.id[1] \notin LineageParts
    BY SMTT(60) DEF Store!consume_frozen_holdout_decision, Store!Row, Store!frozen_holdout_consumption_id, LineageParts
  <2>2. \A x, y \in new : x = y
    BY DEF Store!consume_frozen_holdout_decision
  <2>3. IsRequest([op |-> "evaluate", at |-> "insert", rows |-> new, decision |-> d])
    <3> HIDE DEF new
    <3> QED
      BY <2>1, <2>2 DEF IsRequest, Inserts
  <2>4. \/ reqs' = [reqs EXCEPT ![r] = [op |-> "evaluate", at |-> "insert", rows |-> new, decision |-> d]]
        \/ reqs' = [reqs EXCEPT ![r] = Store!NoRequest]
    BY <1>2 DEF Store!Evaluate, Store!End
  <2>5. Requested'
    BY <2>3, <2>4, RequestMoves, NoRequestIsOne DEF ResearchInv
  <2> QED
    BY <1>2, <2>5, Reads DEF Store!Evaluate
<1> QED
  BY <1>1, <1>2

LEMMA StoreInsertKeeps ==
    ASSUME ResearchInv, NEW r \in Requests, Store!insert(r)
    PROVE  ResearchInv'
<1>1. Store!VerdictIsFinal' /\ Requested'
  BY AnswerKept DEF Store!insert
<1> QED
  BY <1>1, KeysKept, LineageKept DEF Store!insert, ResearchInv

LEMMA ClashKeeps ==
    ASSUME ResearchInv, NEW r \in Requests, Store!IntegrityError(r)
    PROVE  ResearchInv'
<1> DEFINE q == [op |-> reqs[r].op, at |-> "select", rows |-> reqs[r].rows, decision |-> reqs[r].decision]
<1>1. IsRequest(q)
  BY SMTT(60) DEF Store!IntegrityError, ResearchInv, Requested, IsRequest, Inserts
<1>2. reqs' = [reqs EXCEPT ![r] = q]
  <2>1. reqs[r] = [op |-> reqs[r].op, at |-> reqs[r].at, rows |-> reqs[r].rows,
                   decision |-> reqs[r].decision]
    BY DEF ResearchInv, Requested, IsRequest
  <2>2. [reqs[r] EXCEPT !.at = "select"] = q
    BY SMTT(60), <2>1
  <2>3. reqs' = [reqs EXCEPT ![r] = [reqs[r] EXCEPT !.at = "select"]]
    BY DEF Store!IntegrityError
  <2> QED
    BY <2>2, <2>3
<1>3. Requested'
  BY <1>1, <1>2, RequestMoves DEF ResearchInv
<1> QED
  BY <1>3, Reads DEF Store!IntegrityError

LEMMA CompareKeeps ==
    ASSUME ResearchInv, NEW r \in Requests, Store!Compare(r)
    PROVE  ResearchInv'
<1>1. CASE Store!SamePayload(r)
  <2>1. Store!VerdictIsFinal' /\ Requested'
    BY <1>1, AnswerKept DEF Store!Compare, Store!SamePayload
  <2> QED
    BY <2>1 DEF Store!Compare, ResearchInv, RowsKeyed, Store!LineageIsWhole
<1>2. CASE ~Store!SamePayload(r)
  <2>1. Requested'
    BY <1>2, RequestMoves, NoRequestIsOne DEF Store!Compare, Store!End, ResearchInv
  <2> QED
    BY <1>2, <2>1, Reads DEF Store!Compare
<1> QED
  BY <1>1, <1>2

LEMMA StoreFailureKeeps ==
    ASSUME ResearchInv, NEW r \in Requests, Store!CallFails(r)
    PROVE  ResearchInv'
<1>1. Requested'
  BY RequestMoves, NoRequestIsOne DEF Store!CallFails, Store!End, ResearchInv
<1>2. CASE UNCHANGED rows
  BY <1>1, <1>2, Reads DEF Store!CallFails
<1>3. CASE reqs[r].at = "insert" /\ ~Store!Clash(r) /\ rows' = rows \cup reqs[r].rows
  <2>1. RowsKeyed' /\ Store!LineageIsWhole'
    BY <1>3, KeysKept, LineageKept
  <2>2. Store!VerdictIsFinal'
    BY <1>3 DEF ResearchInv, Store!CallFails, Store!VerdictIsFinal, Store!Stored
  <2> QED
    BY <1>1, <2>1, <2>2 DEF ResearchInv
<1> QED
  BY <1>2, <1>3 DEF Store!CallFails

LEMMA ResearchStep == ResearchInv /\ (Store!Next \/ UNCHANGED Store!vars) => ResearchInv'
<1> SUFFICES ASSUME ResearchInv, (Store!Next \/ UNCHANGED Store!vars) PROVE ResearchInv'
  OBVIOUS
<1>1. CASE UNCHANGED Store!vars
  BY SMTT(60), <1>1, Reads DEF Store!vars, ResearchInv, Requested, IsRequest, Inserts
<1>2. CASE Store!Next
  <2>1. PICK r \in Requests :
          \/ Store!validate_experiment(r) \/ Store!persist_quant_lineage(r) \/ Store!seal_holdout(r) \/ Store!evaluate_holdout(r)
          \/ Store!promotion_evaluate_endpoint(r) \/ Store!Evaluate(r)
          \/ Store!insert(r) \/ Store!IntegrityError(r) \/ Store!Compare(r) \/ Store!CallFails(r)
    BY <1>2 DEF Store!Next
  <2> QED
    BY <2>1, SingleRowsKeep, LineageBegins, HoldoutKeeps, StoreInsertKeeps, ClashKeeps,
       CompareKeeps, StoreFailureKeeps
<1> QED
  BY <1>1, <1>2

-----------------------------------------------------------------------------
(* The decision memory. *)

\* A row has three columns, and an id one row.
TableKeyed ==
    /\ \A x \in table : x = [id |-> x.id, entry |-> x.entry, outcome |-> x.outcome]
    /\ \A x, y \in table : x.id = y.id => x = y

Task(t) ==
    /\ t = [op |-> t.op, at |-> t.at, id |-> t.id, value |-> t.value]
    /\ t.at = "insert" => t.op # "outcome"
    /\ t.at \in {"update", "again"} => t.op = "outcome"
    /\ t.op = "outcome" => t.value # Memory!NoOutcome

\* What the tasks are about to do.
Purpose ==
    /\ tasks = [w \in Writers |-> tasks[w]]
    /\ \A w \in Writers : Task(tasks[w])

\* No outcome that was answered is the mark of a missing one.
Answers == \A a \in told : a.op = "outcome" => a.value # Memory!NoOutcome

MemoryInv == TableKeyed /\ Purpose /\ Answers /\ Memory!MemoryIsImmutable

-----------------------------------------------------------------------------
\* A task that changes its place keeps its purpose: Call, Proceed, Return, Raise.
LEMMA TaskMoves ==
    ASSUME NEW w \in Writers, NEW t, Purpose, Task(t), tasks' = [tasks EXCEPT ![w] = t]
    PROVE  Purpose'
  BY DEF Purpose, Task

LEMMA NoTaskIsATask == Task(Memory!NoTask)
  BY DEF Task, Memory!NoTask

\* A call that begins (the three callers of the store).
LEMMA CallKeeps ==
    ASSUME MemoryInv, NEW w \in Writers, NEW op, NEW d, NEW value, Memory!Call(w, op, d, value),
           op = "outcome" => value # Memory!NoOutcome
    PROVE  MemoryInv'
  <1> DEFINE t == [op |-> op, at |-> "get", id |-> d, value |-> value]
  <1>1. Task(t)
    BY DEF Task
  <1>2. Purpose'
    BY <1>1, TaskMoves DEF MemoryInv, Memory!Call
  <1> QED
    BY <1>2 DEF MemoryInv, Memory!Call, TableKeyed, Answers, Memory!MemoryIsImmutable

\* A call that ends with an exception.
LEMMA RaiseKeeps ==
    ASSUME MemoryInv, NEW w \in Writers, Memory!Raise(w)
    PROVE  Purpose' /\ Answers'
  BY TaskMoves, NoTaskIsATask DEF MemoryInv, Memory!Raise, Answers

\* A call that answers with what the table holds.
LEMMA ReturnKeeps ==
    ASSUME MemoryInv, NEW w \in Writers, NEW value, Memory!Return(w, value),
           tasks[w].op = "outcome" => value # Memory!NoOutcome
    PROVE  Purpose' /\ Answers'
  <1>1. Purpose'
    BY TaskMoves, NoTaskIsATask DEF MemoryInv, Memory!Return
  <1> DEFINE a == [op |-> tasks[w].op, id |-> tasks[w].id, value |-> value]
  <1>2. told' = told \cup {a} /\ (a.op = "outcome" => a.value # Memory!NoOutcome)
    BY DEF Memory!Return
  <1>3. Answers'
    BY <1>2 DEF MemoryInv, Answers
  <1> QED
    BY <1>1, <1>3

\* A row that is answered without a write (get_entry, get_decision, get_again).
LEMMA ReadKeeps ==
    ASSUME MemoryInv, NEW w \in Writers, NEW x \in Memory!RowsOf(tasks[w].id), NEW row,
           Memory!ReturnStored(w, row), UNCHANGED table,
           row = IF tasks[w].op = "outcome" THEN x.outcome ELSE x.entry
    PROVE  MemoryInv'
  <1>1. CASE row = tasks[w].value
    <2>1. Memory!Return(w, row)
      BY <1>1 DEF Memory!ReturnStored
    <2>2. Purpose' /\ Answers'
      BY <1>1, <2>1, ReturnKeeps DEF MemoryInv, Purpose, Task
    <2>3. Memory!MemoryIsImmutable'
      BY SMTT(60), <2>1 DEF MemoryInv, Memory!Return, Memory!MemoryIsImmutable, Memory!RowsOf
    <2> QED
      BY <2>2, <2>3 DEF MemoryInv, TableKeyed
  <1>2. CASE row # tasks[w].value
    <2>1. Memory!Raise(w)
      BY <1>2 DEF Memory!ReturnStored
    <2> QED
      BY <2>1, RaiseKeeps DEF MemoryInv, Memory!Raise, TableKeyed, Memory!MemoryIsImmutable
  <1> QED
    BY <1>1, <1>2

\* A task that goes on to its next call.
LEMMA ProceedKeeps ==
    ASSUME MemoryInv, NEW w \in Writers, NEW place, Memory!Proceed(w, place), UNCHANGED table,
           place = "insert" => tasks[w].op # "outcome",
           place \in {"update", "again"} => tasks[w].op = "outcome"
    PROVE  MemoryInv'
  <1> DEFINE t == [tasks[w] EXCEPT !.at = place]
  <1>1. tasks' = [tasks EXCEPT ![w] = t]
    BY DEF Memory!Proceed
  <1>2. Task(t)
    BY SMTT(60) DEF MemoryInv, Purpose, Task
  <1>3. Purpose'
    BY <1>1, <1>2, TaskMoves DEF MemoryInv
  <1> QED
    BY <1>3 DEF MemoryInv, Memory!Proceed, TableKeyed, Answers, Memory!MemoryIsImmutable

\* The row that record inserts is the first of its id.
LEMMA InsertKeeps ==
    ASSUME MemoryInv, NEW w \in Writers, tasks[w].at = "insert", Memory!RowsOf(tasks[w].id) = {},
           table' = table \cup {[id |-> tasks[w].id, entry |-> tasks[w].value, outcome |-> Memory!NoOutcome]}
    PROVE  TableKeyed' /\ \A x \in table : x \in table'
  BY SMTT(60) DEF MemoryInv, TableKeyed, Memory!RowsOf

\* The row that record_outcome updates had no outcome, so nobody was told of one.
LEMMA UpdateKeeps ==
    ASSUME MemoryInv, NEW w \in Writers, NEW x \in Memory!RowsOf(tasks[w].id), x.outcome = Memory!NoOutcome,
           table' = (table \ {x}) \cup {Memory!Resolved(x, w)}
    PROVE  /\ TableKeyed'
           /\ \A a \in told : \E y \in table' :
                y.id = a.id /\ a.value = IF a.op = "outcome" THEN y.outcome ELSE y.entry
  <1> DEFINE r == Memory!Resolved(x, w)
  <1>1. r = [id |-> x.id, entry |-> x.entry, outcome |-> tasks[w].value]
    BY SMTT(60) DEF MemoryInv, TableKeyed, Memory!RowsOf, Memory!Resolved
  <1>2. TableKeyed'
    BY SMTT(60), <1>1 DEF MemoryInv, TableKeyed, Memory!RowsOf
  <1>3. ASSUME NEW a \in told
        PROVE  \E y \in table' : y.id = a.id /\ a.value = IF a.op = "outcome" THEN y.outcome ELSE y.entry
    <2>1. PICK y \in table : y.id = a.id /\ a.value = IF a.op = "outcome" THEN y.outcome ELSE y.entry
      BY DEF MemoryInv, Memory!MemoryIsImmutable
    <2>2. CASE y # x
      BY <2>1, <2>2
    <2>3. CASE y = x
      <3>1. a.op # "outcome"
        BY <2>1, <2>3 DEF MemoryInv, Answers
      <3> QED
        BY SMTT(60), <1>1, <2>1, <2>3, <3>1
    <2> QED
      BY <2>2, <2>3
  <1> QED
    BY <1>2, <1>3

-----------------------------------------------------------------------------
LEMMA MemoryInit == Memory!Init => MemoryInv
  BY NoTaskIsATask DEF Memory!Init, MemoryInv, TableKeyed, Purpose, Answers, Memory!MemoryIsImmutable

LEMMA StutterKeeps == ASSUME MemoryInv, UNCHANGED Memory!vars PROVE MemoryInv'
  BY DEF Memory!vars, MemoryInv, TableKeyed, Purpose, Task, Answers, Memory!MemoryIsImmutable

\* The three callers.
LEMMA CallersKeep ==
    ASSUME MemoryInv, NEW w \in Writers,
           Memory!_shadow_decision_job(w) \/ Memory!_record_decision(w) \/ Memory!ResolveDecision(w)
    PROVE  MemoryInv'
  <1>1. CASE Memory!_shadow_decision_job(w)
    BY <1>1, CallKeeps DEF Memory!_shadow_decision_job
  <1>2. CASE Memory!_record_decision(w)
    BY <1>2, CallKeeps DEF Memory!_record_decision
  <1>3. CASE Memory!ResolveDecision(w)
    <2>1. PICK d \in Decisions, o \in Outcomes, t \in 0..clock :
            Memory!Call(w, "outcome", d, [text |-> o, resolved_at |-> t])
      BY <1>3 DEF Memory!ResolveDecision
    <2>2. [text |-> o, resolved_at |-> t] # Memory!NoOutcome
      BY SMTT(60) DEF Memory!NoOutcome
    <2> QED
      BY <2>1, <2>2, CallKeeps
  <1> QED
    BY <1>1, <1>2, <1>3

\* The reads of record and record_outcome.
LEMMA ReadsKeep ==
    ASSUME MemoryInv, NEW w \in Writers, Memory!get_entry(w) \/ Memory!get_decision(w) \/ Memory!get_again(w)
    PROVE  MemoryInv'
  <1>1. CASE Memory!get_entry(w)
    BY <1>1, ReadKeeps, ProceedKeeps DEF Memory!get_entry
  <1>2. CASE Memory!get_decision(w)
    <2>1. CASE Memory!Raise(w)
      BY <1>2, <2>1, RaiseKeeps DEF Memory!get_decision, MemoryInv, Memory!Raise, TableKeyed, Memory!MemoryIsImmutable
    <2>2. CASE ~Memory!Raise(w)
      <3>1. PICK x \in Memory!RowsOf(tasks[w].id) : Memory!ReturnStored(w, x.outcome) \/ Memory!Proceed(w, "update")
        BY <1>2, <2>2 DEF Memory!get_decision
      <3> QED
        BY <1>2, <3>1, ReadKeeps, ProceedKeeps DEF Memory!get_decision
    <2> QED
      BY <2>1, <2>2
  <1>3. CASE Memory!get_again(w)
    BY <1>3, ReadKeeps DEF Memory!get_again, MemoryInv, Purpose, Task
  <1> QED
    BY <1>1, <1>2, <1>3

\* The writes that are answered.
LEMMA RecordKeeps == ASSUME MemoryInv, NEW w \in Writers, Memory!record(w) PROVE MemoryInv'
  <1>1. CASE Memory!RowsOf(tasks[w].id) # {}
    BY <1>1, RaiseKeeps DEF Memory!record, MemoryInv, Memory!Raise, TableKeyed, Memory!MemoryIsImmutable
  <1>2. CASE Memory!RowsOf(tasks[w].id) = {}
    <2>1. TableKeyed' /\ \A x \in table : x \in table'
      BY <1>2, InsertKeeps DEF Memory!record
    <2>2. tasks[w].op # "outcome" /\ Memory!Return(w, tasks[w].value)
      BY <1>2 DEF Memory!record, MemoryInv, Purpose, Task
    <2> DEFINE r == [id |-> tasks[w].id, entry |-> tasks[w].value, outcome |-> Memory!NoOutcome]
               b == [op |-> tasks[w].op, id |-> tasks[w].id, value |-> tasks[w].value]
    <2>3. told' = told \cup {b} /\ r \in table'
      BY <1>2, <2>2 DEF Memory!record, Memory!Return
    <2>4. b.id = r.id /\ b.op # "outcome" /\ b.value = r.entry
      BY <2>2
    <2>5. Memory!MemoryIsImmutable'
      BY <2>1, <2>3, <2>4 DEF MemoryInv, Memory!MemoryIsImmutable
    <2> QED
      BY <2>1, <2>2, <2>5, ReturnKeeps DEF MemoryInv
  <1> QED
    BY <1>1, <1>2

LEMMA OutcomeKeeps == ASSUME MemoryInv, NEW w \in Writers, Memory!record_outcome(w) PROVE MemoryInv'
  <1>1. PICK x \in Memory!RowsOf(tasks[w].id) :
          IF x.outcome # Memory!NoOutcome THEN Memory!Proceed(w, "again") /\ UNCHANGED table
          ELSE table' = (table \ {x}) \cup {Memory!Resolved(x, w)} /\ Memory!Return(w, tasks[w].value)
    BY DEF Memory!record_outcome
  <1>2. tasks[w].op = "outcome" /\ tasks[w].value # Memory!NoOutcome
    BY DEF Memory!record_outcome, MemoryInv, Purpose, Task
  <1>3. CASE x.outcome # Memory!NoOutcome
    BY <1>1, <1>2, <1>3, ProceedKeeps
  <1>4. CASE x.outcome = Memory!NoOutcome
    <2>1. /\ TableKeyed'
          /\ \A a \in told : \E y \in table' :
               y.id = a.id /\ a.value = IF a.op = "outcome" THEN y.outcome ELSE y.entry
      BY <1>1, <1>4, UpdateKeeps
    <2>2. Memory!Resolved(x, w).id = tasks[w].id /\ Memory!Resolved(x, w).outcome = tasks[w].value
      BY SMTT(60) DEF Memory!Resolved, Memory!RowsOf, MemoryInv, TableKeyed
    <2> DEFINE b == [op |-> tasks[w].op, id |-> tasks[w].id, value |-> tasks[w].value]
    <2>3. told' = told \cup {b} /\ Memory!Resolved(x, w) \in table'
      BY <1>1, <1>4 DEF Memory!Return
    <2>4. b.id = Memory!Resolved(x, w).id /\ b.op = "outcome" /\ b.value = Memory!Resolved(x, w).outcome
      BY <1>2, <2>2
    <2>5. Memory!MemoryIsImmutable'
      BY <2>1, <2>3, <2>4 DEF Memory!MemoryIsImmutable
    <2> QED
      BY <1>1, <1>2, <1>4, <2>1, <2>5, ReturnKeeps DEF MemoryInv
  <1> QED
    BY <1>3, <1>4

\* A call that failed, whether or not it was committed.
LEMMA FailureKeeps == ASSUME MemoryInv, NEW w \in Writers, Memory!CallFails(w) PROVE MemoryInv'
  <1>1. Purpose' /\ Answers' /\ told' = told
    BY RaiseKeeps DEF Memory!CallFails, Memory!Raise
  <1>2. CASE UNCHANGED table
    BY <1>1, <1>2 DEF MemoryInv, TableKeyed, Memory!MemoryIsImmutable
  <1>3. CASE /\ tasks[w].at = "insert" /\ Memory!RowsOf(tasks[w].id) = {}
             /\ table' = table \cup {[id |-> tasks[w].id, entry |-> tasks[w].value, outcome |-> Memory!NoOutcome]}
    BY <1>1, <1>3, InsertKeeps DEF MemoryInv, Memory!MemoryIsImmutable
  <1>4. CASE \E x \in Memory!RowsOf(tasks[w].id) :
                x.outcome = Memory!NoOutcome /\ table' = (table \ {x}) \cup {Memory!Resolved(x, w)}
    BY <1>1, <1>4, UpdateKeeps DEF MemoryInv, Memory!MemoryIsImmutable
  <1> QED
    BY <1>2, <1>3, <1>4 DEF Memory!CallFails

LEMMA MemoryStep == MemoryInv /\ (Memory!Next \/ UNCHANGED Memory!vars) => MemoryInv'
  BY StutterKeeps, CallersKeep, ReadsKeep, RecordKeeps, OutcomeKeeps, FailureKeeps DEF Memory!Next

-----------------------------------------------------------------------------
(* The connector. *)

\* The tokens of a dictionary were approved with the secret s, descend from approvals
\* that are not among the given lines, and leave each approval one refresh token.
Descend(g, s, lines, n) ==
    /\ \A x \in DOMAIN g : g[x].token = s /\ g[x].line \in 1..n /\ g[x].line \notin lines
    /\ \A x, y \in DOMAIN g :
          g[x].kind = "refresh" /\ g[y].kind = "refresh" /\ g[x].line = g[y].line => x = y

\* A code can still be redeemed: its approval has no token yet and was not revoked.
Redeemable ==
    \A x \in DOMAIN codes :
        x \in 1..made /\ x \notin revoked /\ \A y \in DOMAIN grants : grants[y].line # x

\* A put under way is of this process, and records what was revoked before it.
Saving ==
    saving # Connector!NoDocument =>
        /\ saving.token_fingerprint = secret
        /\ gone \subseteq saving.lines /\ saving.lines \subseteq revoked
        /\ Descend(saving.grants, secret, saving.lines, made)

\* The row holds nothing that a completed put has recorded as revoked.
Saved ==
    stored # Connector!NoDocument =>
        Descend(stored.grants, stored.token_fingerprint, gone, made)

\* What the endpoint answered, it answered to a credential that is still good.
Honoured ==
    answer.kind = "answered" =>
        \/ answer.by = <<"static", secret>>
        \/ /\ answer.by[2] \in DOMAIN grants
           /\ grants[answer.by[2]].kind = "access"
           /\ grants[answer.by[2]].expires > clock

ConnectorInv ==
    /\ made \in Nat /\ gone \subseteq revoked /\ revoked \subseteq 1..made
    /\ Descend(grants, secret, revoked, made)
    /\ Redeemable /\ Saving /\ Saved /\ Honoured

LEMMA ConnectorInit == Connector!Init => ConnectorInv
BY SMTT(60) DEF Connector!Init, ConnectorInv, Descend, Redeemable, Saving, Saved, Honoured,
   Connector!NoDocument, Connector!Quiet, Connector!Empty

\* Fewer tokens, fewer lines and more ids leave a dictionary as sound as it was.
LEMMA DescendKeeps ==
    ASSUME NEW g, NEW s, NEW lines, NEW n \in Nat, Descend(g, s, lines, n),
           NEW S, NEW fewer, fewer \subseteq lines, NEW m \in Nat, n <= m
    PROVE  Descend(Connector!Drop(g, S), s, fewer, m) /\ Descend(g, s, fewer, m)
<1>1. 1..n \subseteq 1..m
  BY SMTT(60)
<1> QED
  BY <1>1 DEF Descend, Connector!Drop

\* _prune only drops.
LEMMA PruneDrops == \A f : Connector!_prune(f) = Connector!Drop(f, Connector!Expired(f))
BY DEF Connector!_prune

\* A pair of tokens for an approval that has no refresh token left.
LEMMA IssueKeeps ==
    ASSUME NEW g, NEW s, NEW lines, NEW n, Descend(g, s, lines, n), NEW a, NEW b, a # b,
           NEW A, NEW B, A.token = s, B.token = s, A.line = B.line,
           A.line \in 1..n, A.line \notin lines, A.kind = "access",
           \A x \in DOMAIN g : g[x].kind = "refresh" => g[x].line # A.line
    PROVE  Descend(Connector!With(Connector!With(g, a, A), b, B), s, lines, n)
<1> DEFINE h == Connector!With(Connector!With(g, a, A), b, B)
<1>1. /\ DOMAIN h = DOMAIN g \cup {a, b}
      /\ h[b] = B /\ h[a] = A
      /\ \A x \in DOMAIN g : x # a /\ x # b => h[x] = g[x]
  BY DEF Connector!With
<1> HIDE DEF h
<1>2. ASSUME NEW x \in DOMAIN h
      PROVE  /\ h[x].token = s /\ h[x].line \in 1..n /\ h[x].line \notin lines
             /\ h[x].kind = "refresh" => x # a
             /\ x # a /\ x # b => x \in DOMAIN g /\ h[x] = g[x]
  BY <1>1 DEF Descend
<1>3. ASSUME NEW x \in DOMAIN h, NEW y \in DOMAIN h,
             h[x].kind = "refresh", h[y].kind = "refresh", h[x].line = h[y].line
      PROVE  x = y
  <2>1. CASE x # b /\ y # b
    BY <1>2, <1>3, <2>1 DEF Descend
  <2>2. CASE x = b \/ y = b
    BY <1>1, <1>2, <1>3, <2>2
  <2> QED
    BY <2>1, <2>2
<1> QED
  BY <1>2, <1>3 DEF Descend, h

\* _persist saves what the handler leaves, now or when the lock is handed over.
LEMMA PersistKeeps ==
    ASSUME Saving, made \in Nat, made' \in Nat, made <= made',
           UNCHANGED <<secret, gone>>, gone \subseteq revoked', revoked \subseteq revoked',
           Descend(grants', secret, revoked', made'),
           UNCHANGED saving \/ \E cl : Connector!_persist(cl, grants', revoked')
    PROVE  Saving'
<1>1. CASE UNCHANGED saving
  <2> SUFFICES ASSUME saving # Connector!NoDocument
               PROVE  Descend(saving.grants, secret, saving.lines, made')
    BY <1>1 DEF Saving, Connector!NoDocument
  <2> QED
    BY DescendKeeps DEF Saving
<1>2. CASE ~UNCHANGED saving
  <2>1. PICK cl : saving' = Connector!_document(cl, grants', revoked')
    BY <1>2 DEF Connector!_persist
  <2>2. /\ saving'.token_fingerprint = secret /\ saving'.grants = grants'
        /\ saving'.lines = revoked'
    BY <2>1 DEF Connector!_document
  <2> QED
    BY <2>2 DEF Saving
<1> QED
  BY <1>1, <1>2

\* What a handler has to keep: the tokens it leaves and the codes.
LEMMA HandlerKeeps ==
    ASSUME ConnectorInv, made' \in Nat, made <= made', UNCHANGED <<secret, gone, stored>>,
           revoked \subseteq revoked', revoked' \subseteq 1..made',
           Descend(grants', secret, revoked', made'), Redeemable', answer' = Connector!Quiet,
           UNCHANGED saving \/ \E cl : Connector!_persist(cl, grants', revoked')
    PROVE  ConnectorInv'
<1>1. Saving'
  BY PersistKeeps DEF ConnectorInv
<1>2. Saved'
  <2> SUFFICES ASSUME stored # Connector!NoDocument
               PROVE  Descend(stored.grants, stored.token_fingerprint, gone, made')
    BY DEF Saved, Connector!NoDocument
  <2> QED
    BY DescendKeeps DEF ConnectorInv, Saved
<1>3. Honoured'
  BY DEF Honoured, Connector!Quiet
<1> QED
  BY <1>1, <1>2, <1>3 DEF ConnectorInv

\* Housekeeping forgets codes and tokens, never adds one.
LEMMA ForgetKeeps ==
    ASSUME ConnectorInv, NEW S, NEW T, codes' = Connector!Drop(codes, S) \/ codes' = codes,
           grants' = Connector!Drop(grants, T) \/ grants' = grants, UNCHANGED <<made, revoked, secret>>
    PROVE  Redeemable' /\ Descend(grants', secret, revoked', made')
<1>1. /\ DOMAIN codes' \subseteq DOMAIN codes /\ DOMAIN grants' \subseteq DOMAIN grants
      /\ \A x \in DOMAIN grants' : grants'[x] = grants[x]
  BY DEF Connector!Drop
<1> QED
  BY <1>1 DEF ConnectorInv, Redeemable, Descend

\* register_client.
LEMMA RegisterKeeps == ASSUME ConnectorInv, Connector!register_client PROVE ConnectorInv'
<1>1. /\ grants' = Connector!Drop(grants, Connector!Expired(grants))
      /\ codes' = Connector!Drop(codes, Connector!Expired(codes))
      /\ UNCHANGED <<made, revoked, secret, gone, stored>> /\ answer' = Connector!Quiet
      /\ Connector!_persist(clients', grants', revoked')
  BY PruneDrops DEF Connector!register_client
<1>2. made <= made
  BY SMTT(60) DEF ConnectorInv
<1> QED
  BY <1>1, <1>2, ForgetKeeps, HandlerKeeps DEF ConnectorInv

\* authorize_decision: the new code is an id that nothing descends from.
LEMMA AuthorizeKeeps == ASSUME ConnectorInv, Connector!authorize_decision PROVE ConnectorInv'
<1>0. UNCHANGED <<secret, gone, stored, saving, revoked>> /\ answer' = Connector!Quiet
  BY DEF Connector!authorize_decision, Connector!saves
<1>n. made \in Nat /\ made <= made /\ made + 1 \in Nat /\ made <= made + 1
      /\ 1..made \subseteq 1..(made + 1) /\ made + 1 \in 1..(made + 1) /\ made + 1 \notin 1..made
  BY SMTT(60) DEF ConnectorInv
<1>1. CASE UNCHANGED <<codes, grants, made>>
  BY <1>0, <1>1, <1>n, ForgetKeeps, HandlerKeeps DEF ConnectorInv
<1>2. ASSUME NEW v, made' = made + 1, grants' = Connector!_prune(grants),
             codes' = Connector!With(Connector!_prune(codes), made + 1, v)
      PROVE  ConnectorInv'
  <2>1. /\ DOMAIN codes' \subseteq DOMAIN codes \cup {made + 1}
        /\ DOMAIN grants' \subseteq DOMAIN grants /\ \A x \in DOMAIN grants' : grants'[x] = grants[x]
    BY <1>2 DEF Connector!With, Connector!_prune, Connector!Drop
  <2>2. Descend(grants', secret, revoked, made + 1) /\ revoked \subseteq 1..(made + 1)
    BY <1>n, <2>1 DEF ConnectorInv, Descend
  <2>4. ASSUME NEW x \in DOMAIN codes'
        PROVE  /\ x \in 1..(made + 1) /\ x \notin revoked
               /\ \A y \in DOMAIN grants' : grants'[y].line # x
    <3>1. CASE x \in DOMAIN codes
      BY <3>1, <1>n, <2>1 DEF ConnectorInv, Redeemable
    <3>2. CASE x = made + 1
      BY <3>2, <1>n, <2>1 DEF ConnectorInv, Descend
    <3> QED
      BY <2>1, <2>4, <3>1, <3>2
  <2>5. revoked' = revoked /\ made' = made + 1 /\ secret' = secret
    BY <1>0, <1>2
  <2>3. Redeemable'
    BY <2>4, <2>5 DEF Redeemable
  <2> QED
    BY <1>0, <1>n, <2>5, <2>2, <2>3, HandlerKeeps
<1> QED
  BY <1>1, <1>2 DEF Connector!authorize_decision

\* A pair of tokens is all that a pair of tokens adds.
LEMMA PairAdds ==
    ASSUME NEW g, NEW a, NEW A, NEW b, NEW B, NEW h,
           h = Connector!With(Connector!With(g, a, A), b, B), NEW y \in DOMAIN h
    PROVE  h[y] = A \/ h[y] = B \/ (y \in DOMAIN g /\ h[y] = g[y])
BY SMTT(60) DEF Connector!With

\* _issue for an approval that has no code, was not revoked, and whose only
\* refresh token, if it has one, is among the tokens popped before.
LEMMA IssueStep ==
    ASSUME ConnectorInv, NEW c, NEW line \in 1..made, NEW old, Connector!_issue(c, line, old),
           line \notin revoked, line \notin DOMAIN codes', DOMAIN codes' \subseteq DOMAIN codes,
           \A x \in DOMAIN grants : grants[x].kind = "refresh" /\ grants[x].line = line => x \in old,
           UNCHANGED <<secret, clients, stored, gone, revoked>>, answer' = Connector!Quiet
    PROVE  ConnectorInv'
<1> DEFINE kept == Connector!_prune(Connector!Drop(grants, old))
           G(kind, ttl) == [client |-> c, kind |-> kind, expires |-> clock + ttl,
                            line |-> line, token |-> secret]
<1>n. /\ made \in Nat /\ made + 2 \in Nat /\ made <= made /\ made <= made + 2
      /\ made + 1 # made + 2 /\ 1..made \subseteq 1..(made + 2)
  BY SMTT(60) DEF ConnectorInv
<1>1. DOMAIN kept \subseteq DOMAIN grants \ old /\ \A x \in DOMAIN kept : kept[x] = grants[x]
  BY DEF Connector!_prune, Connector!Drop
<1>2. Descend(kept, secret, revoked, made) /\ Descend(kept, secret, revoked, made + 2)
  BY <1>n, <1>1 DEF ConnectorInv, Descend
<1>3. CASE grants' = kept /\ UNCHANGED <<saving, waiting, made>>
  <2>1. Redeemable'
    BY <1>1, <1>3 DEF ConnectorInv, Redeemable
  <2>2. Descend(grants', secret, revoked', made') /\ revoked' \subseteq 1..made'
    BY <1>2, <1>3 DEF ConnectorInv
  <2> QED
    BY <2>1, <2>2, <1>3, <1>n, HandlerKeeps
<1>4. CASE /\ made' = made + 2
           /\ grants' = Connector!With(Connector!With(kept, made + 1, G("access", AccessTTL)),
                                       made + 2, G("refresh", RefreshTTL))
           /\ Connector!_persist(clients, grants', revoked)
  <2>1. /\ G("access", AccessTTL).token = secret /\ G("refresh", RefreshTTL).token = secret
        /\ G("access", AccessTTL).line = line /\ G("refresh", RefreshTTL).line = line
        /\ G("access", AccessTTL).kind = "access"
    OBVIOUS
  <2>2. \A x \in DOMAIN kept : kept[x].kind = "refresh" => kept[x].line # line
    BY <1>1
  <2>3. Descend(grants', secret, revoked, made + 2)
    BY <1>4, <1>2, <1>n, <2>1, <2>2, IssueKeeps
  <2>4. \A y \in DOMAIN grants' : grants'[y].line = line \/ (y \in DOMAIN grants /\ grants'[y] = grants[y])
    <3> HIDE DEF kept, G
    <3> SUFFICES ASSUME NEW y \in DOMAIN grants'
                 PROVE  grants'[y].line = line \/ (y \in DOMAIN grants /\ grants'[y] = grants[y])
      OBVIOUS
    <3>1. \/ grants'[y] = G("access", AccessTTL) \/ grants'[y] = G("refresh", RefreshTTL)
          \/ y \in DOMAIN kept /\ grants'[y] = kept[y]
      BY SMTT(60), <1>4, PairAdds
    <3> QED
      BY <1>1, <2>1, <3>1
  <2>5. Redeemable'
    BY <2>4, <1>4, <1>n DEF ConnectorInv, Redeemable
  <2>6. Descend(grants', secret, revoked', made') /\ revoked' \subseteq 1..made'
    BY <2>3, <1>4, <1>n DEF ConnectorInv
  <2>7. \E cl : Connector!_persist(cl, grants', revoked')
    BY <1>4
  <2>8. made' \in Nat /\ made <= made'
    BY <1>4, <1>n
  <2> QED
    BY <2>5, <2>6, <2>7, <2>8, HandlerKeeps
<1> QED
  BY <1>3, <1>4 DEF Connector!_issue

\* token with a code: the code is gone whatever follows.
LEMMA RedeemKeeps ==
    ASSUME ConnectorInv, NEW c, NEW x, NEW proven, Connector!redeem_code(c, x, proven)
    PROVE  ConnectorInv'
<1>1. /\ x \in DOMAIN codes /\ UNCHANGED <<secret, clients, stored, gone, revoked>>
      /\ answer' = Connector!Quiet
  BY DEF Connector!redeem_code
<1>2. CASE codes' = Connector!_prune(Connector!Drop(codes, {x})) /\ Connector!_issue(c, x, {})
  <2>1. DOMAIN codes' \subseteq DOMAIN codes \ {x}
    BY <1>2 DEF Connector!_prune, Connector!Drop
  <2>2. /\ x \in 1..made /\ x \notin revoked
        /\ \A y \in DOMAIN grants : grants[y].line # x
    BY <1>1 DEF ConnectorInv, Redeemable
  <2> QED
    BY <1>1, <1>2, <2>1, <2>2, IssueStep
<1>3. CASE codes' = Connector!Drop(codes, {x}) /\ UNCHANGED <<grants, saving, waiting, made>>
  <2>1. made <= made
    BY SMTT(60) DEF ConnectorInv
  <2> QED
    BY <1>1, <1>3, <2>1, ForgetKeeps, HandlerKeeps DEF ConnectorInv
<1> QED
  BY <1>2, <1>3 DEF Connector!redeem_code

\* token with a refresh token: the token presented is gone whatever follows.
LEMMA RefreshKeeps ==
    ASSUME ConnectorInv, NEW c, NEW x, Connector!refresh_grant(c, x)
    PROVE  ConnectorInv'
<1>1. /\ x \in DOMAIN grants /\ UNCHANGED <<secret, clients, stored, gone, revoked>>
      /\ answer' = Connector!Quiet
  BY DEF Connector!refresh_grant
<1>2. CASE /\ grants[x].kind = "refresh" /\ codes' = Connector!_prune(codes)
           /\ Connector!_issue(c, grants[x].line, {x})
  <2>1. DOMAIN codes' \subseteq DOMAIN codes
    BY <1>2 DEF Connector!_prune, Connector!Drop
  <2>2. grants[x].line \in 1..made /\ grants[x].line \notin revoked
    BY <1>1 DEF ConnectorInv, Descend
  <2>3. grants[x].line \notin DOMAIN codes'
    BY <1>1, <2>1 DEF ConnectorInv, Redeemable
  <2>4. \A y \in DOMAIN grants : grants[y].kind = "refresh" /\ grants[y].line = grants[x].line => y \in {x}
    BY <1>1, <1>2 DEF ConnectorInv, Descend
  <2> QED
    BY <1>1, <1>2, <2>1, <2>2, <2>3, <2>4, IssueStep
<1>3. CASE grants' = Connector!Drop(grants, {x}) /\ UNCHANGED <<codes, saving, waiting, made>>
  <2>1. made <= made
    BY SMTT(60) DEF ConnectorInv
  <2> QED
    BY <1>1, <1>3, <2>1, ForgetKeeps, HandlerKeeps DEF ConnectorInv
<1> QED
  BY <1>2, <1>3 DEF Connector!refresh_grant

\* revoke_all: nothing is left, and everything that was left counts as revoked.
LEMMA RevokeKeeps == ASSUME ConnectorInv, Connector!revoke_all PROVE ConnectorInv'
<1>1. /\ codes' = Connector!Empty /\ grants' = Connector!Empty
      /\ revoked' = revoked \cup {grants[x].line : x \in DOMAIN grants} \cup DOMAIN codes
      /\ UNCHANGED <<secret, stored, gone, made>> /\ answer' = Connector!Quiet
      /\ Connector!_persist(clients', grants', revoked')
  BY DEF Connector!revoke_all
<1>2. DOMAIN Connector!Empty = {}
  BY SMTT(60) DEF Connector!Empty
<1>3. Redeemable' /\ Descend(grants', secret, revoked', made')
  BY <1>1, <1>2 DEF Redeemable, Descend
<1>4. revoked' \subseteq 1..made'
  BY <1>1 DEF ConnectorInv, Redeemable, Descend
<1>5. made <= made
  BY SMTT(60) DEF ConnectorInv
<1> QED
  BY <1>1, <1>3, <1>4, <1>5, HandlerKeeps DEF ConnectorInv

\* mcp_endpoint: an answered call carried the static token or a live access token.
LEMMA EndpointKeeps == ASSUME ConnectorInv, Connector!mcp_endpoint PROVE ConnectorInv'
<1>1. UNCHANGED <<secret, codes, grants, saving, stored, gone, made, revoked, clock>>
  BY DEF Connector!mcp_endpoint, Connector!memory, Connector!saves
<1>2. PICK credential, message :
         answer' = [kind |-> Connector!Outcome(credential, message), by |-> credential]
  BY DEF Connector!mcp_endpoint
<1>3. Honoured'
  <2> SUFFICES ASSUME answer'.kind = "answered"
               PROVE  \/ credential = <<"static", secret>>
                      \/ /\ credential[2] \in DOMAIN grants
                         /\ grants[credential[2]].kind = "access"
                         /\ grants[credential[2]].expires > clock
    BY <1>1, <1>2 DEF Honoured
  <2>1. Connector!_authorized(credential)
    BY <1>2 DEF Connector!Outcome
  <2>2. CASE \E x \in 1..made : credential = <<"oauth", x>> /\ Connector!valid_access_token(x)
    <3> PICK x \in 1..made : credential = <<"oauth", x>> /\ Connector!valid_access_token(x)
      BY <2>2
    <3>1. credential[2] = x
      BY SMTT(60)
    <3> QED
      BY <3>1 DEF Connector!valid_access_token
  <2> QED
    BY <2>1, <2>2 DEF Connector!_authorized
<1>4. Redeemable' /\ Saving' /\ Saved'
  BY <1>1 DEF ConnectorInv, Redeemable, Saving, Saved, Connector!NoDocument
<1> QED
  BY <1>1, <1>3, <1>4 DEF ConnectorInv

\* A put that ends: what it recorded as revoked is in no token it wrote, and the
\* document the next one in the queue computes is of this moment.
LEMMA PutKeeps == ASSUME ConnectorInv, NEW ok, Connector!PutEnds(ok) PROVE ConnectorInv'
<1>1. /\ saving # Connector!NoDocument /\ answer' = Connector!Quiet
      /\ UNCHANGED <<secret, codes, grants, clock, made, revoked>>
      /\ \/ stored' = saving /\ gone' = gone \cup saving.lines
         \/ UNCHANGED <<stored, gone>>
      /\ \/ saving' = Connector!NoDocument
         \/ saving' = Connector!_document(clients, grants, revoked)
  BY DEF Connector!PutEnds, Connector!memory
<1>2. /\ saving.token_fingerprint = secret
      /\ gone \subseteq saving.lines /\ saving.lines \subseteq revoked
      /\ Descend(saving.grants, secret, saving.lines, made)
  BY <1>1 DEF ConnectorInv, Saving
<1>3. gone' \subseteq revoked' /\ gone' \subseteq gone \cup saving.lines
  BY <1>1, <1>2 DEF ConnectorInv
<1>4. Saving'
  <2>1. CASE saving' = Connector!_document(clients, grants, revoked)
    <3>1. /\ saving'.token_fingerprint = secret /\ saving'.grants = grants
          /\ saving'.lines = revoked
      BY <2>1 DEF Connector!_document
    <3> QED
      BY <1>1, <1>3, <3>1 DEF ConnectorInv, Saving
  <2> QED
    BY <1>1, <2>1 DEF Saving, Connector!NoDocument
<1>5. Saved'
  <2>1. CASE stored' = saving /\ gone' = gone \cup saving.lines
    <3>1. gone' = saving.lines
      BY <2>1, <1>2
    <3> QED
      BY <1>1, <1>2, <2>1, <3>1 DEF Saved
  <2>2. CASE UNCHANGED <<stored, gone>>
    BY <1>1, <2>2 DEF ConnectorInv, Saved, Connector!NoDocument
  <2> QED
    BY <1>1, <2>1, <2>2
<1>6. Redeemable' /\ Descend(grants', secret', revoked', made')
  BY <1>1 DEF ConnectorInv, Redeemable
<1>7. Honoured'
  BY <1>1 DEF Honoured, Connector!Quiet
<1> QED
  BY <1>1, <1>3, <1>4, <1>5, <1>6, <1>7 DEF ConnectorInv

\* Time, and a step of another part of the program.
LEMMA IdleKeeps ==
    ASSUME ConnectorInv, UNCHANGED <<secret, codes, grants, saving, stored, made, revoked, gone>>,
           answer' = Connector!Quiet \/ UNCHANGED <<answer, clock>>
    PROVE  ConnectorInv'
<1>1. Redeemable' /\ Saving' /\ Saved'
  BY DEF ConnectorInv, Redeemable, Saving, Saved, Connector!NoDocument
<1>2. Honoured'
  <2>1. CASE answer' = Connector!Quiet
    BY <2>1 DEF Honoured, Connector!Quiet
  <2>2. CASE UNCHANGED <<answer, clock>>
    BY <2>2 DEF ConnectorInv, Honoured
  <2> QED
    BY <2>1, <2>2
<1> QED
  BY <1>1, <1>2 DEF ConnectorInv

\* Restart: only a document of the same secret comes back, and every revocation it
\* does not know of is one that no completed put has recorded.
LEMMA RestartKeeps == ASSUME ConnectorInv, Connector!Restart PROVE ConnectorInv'
<1>1. PICK s, readable :
         /\ secret' = s /\ Connector!restore_oauth(s, readable)
         /\ codes' = Connector!Empty /\ saving' = Connector!NoDocument
         /\ answer' = Connector!Quiet /\ revoked' = gone /\ UNCHANGED <<stored, gone, made>>
  BY DEF Connector!Restart
<1>2. DOMAIN Connector!Empty = {}
  BY SMTT(60) DEF Connector!Empty
<1>3. made <= made
  BY SMTT(60) DEF ConnectorInv
<1>4. Descend(grants', s, gone, made)
  <2>1. CASE grants' = Connector!Empty
    BY <2>1, <1>2 DEF Descend
  <2>2. ASSUME NEW S, stored # Connector!NoDocument, stored.token_fingerprint = s,
               grants' = Connector!Drop(stored.grants, S)
        PROVE  Descend(grants', s, gone, made)
    BY <2>2, <1>3, DescendKeeps DEF ConnectorInv, Saved
  <2> QED
    BY <1>1, <2>1, <2>2 DEF Connector!restore_oauth
<1>5. Redeemable' /\ Saving' /\ Honoured'
  BY <1>1, <1>2 DEF Redeemable, Saving, Honoured, Connector!NoDocument, Connector!Quiet
<1>6. Saved'
  BY <1>1 DEF ConnectorInv, Saved, Connector!NoDocument
<1> QED
  BY <1>1, <1>4, <1>5, <1>6 DEF ConnectorInv

\* Every step of the connector.
LEMMA ConnectorStep == ASSUME ConnectorInv, Connector!Next PROVE ConnectorInv'
<1>1. CASE Connector!token
  BY <1>1, RedeemKeeps, RefreshKeeps DEF Connector!token
<1>2. CASE Connector!Tick
  BY <1>2, IdleKeeps DEF Connector!Tick, Connector!memory, Connector!saves
<1> QED
  BY <1>1, <1>2, RegisterKeeps, AuthorizeKeeps, RevokeKeeps, EndpointKeeps, PutKeeps, RestartKeeps
  DEF Connector!Next

LEMMA ConnectorServes == ConnectorInv => Connector!ServedByOneApproval
BY DEF ConnectorInv, Descend, Honoured, Connector!ServedByOneApproval

-----------------------------------------------------------------------------
(* The backtests. *)

\* Books that balance: what was paid for the open position and its fee is what is
\* missing from the capital and the results.
Balanced(b) ==
    /\ b.cash \in Nat /\ b.pnl \in Int
    /\ b.book.qty \in Nat /\ b.book.price \in Nat /\ b.book.fee \in Int
    /\ b.book.stop \in Nat /\ b.book.target \in Nat
    /\ b.cash + b.book.qty * b.book.price + b.book.fee = Capital + b.pnl
    /\ b.book.qty = 0 => b.book.fee = 0

LabInv == Balanced(Lab!Now) /\ pending.qty \in Int

LEMMA NowIs == Lab!Now.cash = cash /\ Lab!Now.book = book /\ Lab!Now.pnl = pnl
BY DEF Lab!Now

LEMMA FlatIs ==
    /\ Lab!Flat.qty = 0 /\ Lab!Flat.price = 0 /\ Lab!Flat.fee = 0
    /\ Lab!Flat.stop = 0 /\ Lab!Flat.target = 0
BY DEF Lab!Flat

LEMMA LabInit == Lab!Init => LabInv
<1> SUFFICES ASSUME Lab!Init PROVE LabInv
  OBVIOUS
<1>1. cash = Capital /\ book = Lab!Flat /\ pnl = 0 /\ pending.qty = 0
  BY DEF Lab!Init, Lab!NoOrder
<1> QED
  BY SMTT(60), <1>1, NowIs, FlatIs, LabAssumption DEF LabInv, Balanced

\* An exit at any price: fees are at most what is sold.
LEMMA CloseKeeps ==
    ASSUME NEW b, Balanced(b), NEW raw \in Nat
    PROVE  Balanced(Lab!close_position(b, raw))
<1> DEFINE n == b.book.qty * Lab!Sold(raw)
           c == Lab!close_position(b, raw)
<1>1. /\ c.cash = b.cash + n - Lab!Fee(n) /\ c.book = Lab!Flat
      /\ c.pnl = b.pnl + n - Lab!Fee(n) - b.book.qty * b.book.price - b.book.fee
  BY DEF Lab!close_position
<1>2. Lab!Sold(raw) \in Nat
  BY SMTT(60) DEF Lab!Sold
<1>3. n \in Nat
  BY SMTT(60), <1>2 DEF Balanced
<1> HIDE DEF n, c
<1>4. Lab!Fee(n) \in Nat /\ Lab!Fee(n) <= n
  BY SMTT(60), <1>3 DEF Lab!Fee
<1>5. b.book.qty * b.book.price \in Int
  BY SMTT(60) DEF Balanced
<1>6. c.cash \in Nat /\ c.pnl \in Int /\ c.cash = Capital + c.pnl
  <2> DEFINE v == b.book.qty * b.book.price
  <2>1. /\ b.cash \in Nat /\ b.pnl \in Int /\ b.book.fee \in Int /\ v \in Int /\ Capital \in Nat
        /\ b.cash + v + b.book.fee = Capital + b.pnl
    BY <1>5, LabAssumption DEF Balanced
  <2>2. c.pnl = b.pnl + n - Lab!Fee(n) - v - b.book.fee
    BY <1>1
  <2> HIDE DEF v
  <2> QED
    BY SMTT(60), <1>1, <1>3, <1>4, <2>1, <2>2
<1>7. 0 * 0 = 0 /\ c.cash + 0 + 0 = c.cash /\ 0 \in Nat /\ 0 \in Int
  BY SMTT(60), <1>6
<1>8. Balanced(c)
  BY <1>1, <1>6, <1>7, FlatIs DEF Balanced
<1> QED
  BY <1>8 DEF c

\* A price at which fees are exact.
LEMMA BoughtIs ==
    ASSUME NEW open \in Levels
    PROVE  \E f \in Nat : f > 0 /\ Lab!Bought(open) = 10 * f /\ Lab!Fee(Lab!Bought(open)) = f
<1>1. open \in Nat /\ open > 0 /\ open % 100 = 0
  BY LabAssumption
<1>2. PICK k \in Nat : open = 100 * k /\ k > 0
  <2>1. open = 100 * (open \div 100) /\ open \div 100 \in Nat /\ open \div 100 > 0
    BY SMTT(60), <1>1
  <2> QED
    BY <2>1
<1>3. Lab!Bought(open) = 110 * k
  BY SMTT(60), <1>2 DEF Lab!Bought
<1>4. Lab!Fee(110 * k) = 11 * k
  BY SMTT(60) DEF Lab!Fee
<1>5. 11 * k \in Nat /\ 11 * k > 0 /\ 110 * k = 10 * (11 * k)
  BY SMTT(60), <1>2
<1> QED
  BY <1>3, <1>4, <1>5

\* An order is cut to what the cash pays for, its fee included.
LEMMA AffordableIs ==
    ASSUME NEW f \in Nat, f > 0, cash \in Nat, NEW n \in Int, NEW p \in Nat, p = 10 * f,
           Lab!Fee(p) = f, NEW q, q = Lab!Affordable(n, p)
    PROVE  /\ q \in Int /\ q * p \in Int /\ Lab!Fee(q * p) \in Int
           /\ q > 0 => q * p + Lab!Fee(q * p) <= cash
<1>1. \A m \in Int : m * p \in Int /\ Lab!Fee(m * p) \in Int
  BY SMTT(60) DEF Lab!Fee
<1>2. CASE q = n /\ ~(n * p + Lab!Fee(n * p) > cash)
  BY SMTT(60), <1>1, <1>2
<1>3. CASE q = cash \div (p + f)
  <2>1. q \in Nat /\ q * (10 * f + f) <= cash
    BY SMTT(60), <1>3
  <2>2. q * (10 * f) = 10 * (q * f) /\ q * f \in Nat /\ q * (10 * f + f) = 11 * (q * f)
    BY SMTT(60), <2>1
  <2>3. Lab!Fee(10 * (q * f)) = q * f
    BY SMTT(60), <2>2 DEF Lab!Fee
  <2>4. q * p + Lab!Fee(q * p) <= cash
    BY SMTT(60), <2>1, <2>2, <2>3
  <2>5. q \in Int
    BY SMTT(60), <2>1
  <2> QED
    BY <1>1, <2>4, <2>5
<1> QED
  BY <1>2, <1>3 DEF Lab!Affordable

\* An entry at the open.
LEMMA FillKeeps ==
    ASSUME LabInv, NEW open \in Levels, book.qty = 0
    PROVE  Balanced(Lab!FillBuy(open))
<1>1. PICK f \in Nat : f > 0 /\ Lab!Bought(open) = 10 * f /\ Lab!Fee(Lab!Bought(open)) = f
  BY BoughtIs
<1> DEFINE p == Lab!Bought(open)
           q == Lab!Affordable(pending.qty, p)
           b == Lab!FillBuy(open)
<1>2. cash \in Nat /\ pnl \in Int /\ pending.qty \in Int /\ cash = Capital + pnl /\ Capital \in Nat
  <2>1. /\ cash \in Nat /\ pnl \in Int /\ pending.qty \in Int /\ book.price \in Nat /\ book.fee = 0
        /\ cash + book.qty * book.price + book.fee = Capital + pnl /\ Capital \in Nat
    BY NowIs, LabAssumption DEF LabInv, Balanced
  <2> QED
    BY SMTT(60), <2>1
<1>3. b = Lab!Now \/
      /\ q > 0 /\ b.cash = cash - q * p - Lab!Fee(q * p) /\ b.pnl = pnl
      /\ b.book.qty = q /\ b.book.price = p /\ b.book.fee = Lab!Fee(q * p)
      /\ b.book.stop = p \div 2 /\ b.book.target = (p * 3) \div 2
  BY DEF Lab!FillBuy
<1> HIDE DEF p, q, b
<1>4. p \in Nat /\ p \div 2 \in Nat /\ (p * 3) \div 2 \in Nat
  BY SMTT(60), <1>1 DEF p
<1>5. /\ q \in Int /\ q * p \in Int /\ Lab!Fee(q * p) \in Int
      /\ q > 0 => q * p + Lab!Fee(q * p) <= cash
  BY <1>1, <1>2, <1>4, AffordableIs DEF p, q
<1>6. CASE b = Lab!Now
  BY <1>6 DEF LabInv, b
<1>7. CASE b # Lab!Now
  <2>1. /\ b.cash \in Nat /\ b.cash + q * p + Lab!Fee(q * p) = Capital + b.pnl /\ q \in Nat
        /\ q # 0
    <3> DEFINE x == q * p
               y == Lab!Fee(x)
    <3>1. x \in Int /\ y \in Int /\ q > 0 /\ q \in Int /\ x + y <= cash /\ b.cash = cash - x - y
          /\ b.pnl = pnl
      BY <1>3, <1>5, <1>7
    <3> HIDE DEF x, y
    <3>2. b.cash \in Nat /\ b.cash + x + y = Capital + b.pnl /\ q \in Nat /\ q # 0
      BY SMTT(60), <1>2, <3>1
    <3> QED
      BY <3>2 DEF x, y
  <2> QED
    BY <1>2, <1>3, <1>4, <1>5, <1>7, <2>1 DEF Balanced, b
<1> QED
  BY <1>6, <1>7

\* The smaller and the larger of two, and the smallest of three.
LEMMA MinMaxIn ==
    ASSUME NEW a \in Int, NEW b \in Int, NEW c \in Int
    PROVE  Lab!Min({a, b}) \in {a, b} /\ Lab!Max({a, b}) \in {a, b} /\ Lab!Min({a, b, c}) \in {a, b, c}
<1>1. \E x \in {a, b} : \A y \in {a, b} : x <= y
  BY SMTT(60)
<1>2. \E x \in {a, b} : \A y \in {a, b} : x >= y
  BY SMTT(60)
<1>3. \E x \in {a, b, c} : \A y \in {a, b, c} : x <= y
  BY SMTT(60)
<1> QED
  BY <1>1, <1>2, <1>3 DEF Lab!Min, Lab!Max

\* quantity is a number of lots.
LEMMA QuantityType ==
    ASSUME NEW price \in Levels, NEW strength \in 0..2, NEW equity \in Int, cash \in Int
    PROVE  Lab!quantity(price, strength, equity) \in Int
<1> DEFINE left == Lab!Max({0, Lab!Min({(equity * 10) \div Capital, 10})})
           risk == (RiskQty * strength * left * left) \div 200
           e == Lab!Max({equity, 0})
           q == Lab!Min({risk, e \div price, cash \div price})
<1>1. (equity * 10) \div Capital \in Int /\ 10 \in Int /\ 0 \in Int
  BY SMTT(60), LabAssumption
<1>2. Lab!Min({(equity * 10) \div Capital, 10}) \in Int
  BY <1>1, MinMaxIn
<1>3. left \in Int /\ e \in Int
  BY <1>1, <1>2, MinMaxIn
<1> HIDE DEF left, e
<1>4. risk \in Int
  <2>1. RiskQty * strength * left * left \in Int
    BY SMTT(60), <1>3, LabAssumption
  <2> QED
    BY SMTT(60), <2>1
<1>5. e \div price \in Int /\ cash \div price \in Int
  BY SMTT(60), <1>3, LabAssumption
<1> HIDE DEF risk
<1>6. q \in Int
  <2>1. q \in {risk, e \div price, cash \div price}
    BY <1>4, <1>5, MinMaxIn
  <2> HIDE DEF q
  <2> QED
    BY <2>1, <1>4, <1>5
<1>7. Lab!quantity(price, strength, equity) \in {0, q}
  BY DEF Lab!quantity, left, risk, e
<1> QED
  BY <1>1, <1>6, <1>7

\* One bar of run.
LEMMA FilledKeeps ==
    ASSUME LabInv, NEW bar, bar.open \in Levels
    PROVE  Balanced(Lab!Filled(bar))
<1>1. bar.open \in Nat /\ Balanced(Lab!Now)
  BY LabAssumption DEF LabInv
<1>2. CASE pending.kind = "buy" /\ book.qty = 0
  BY <1>2, FillKeeps DEF Lab!Filled
<1>3. CASE pending.kind = "sell" /\ book.qty > 0 /\ pending.kind # "buy"
  BY <1>1, <1>3, CloseKeeps DEF Lab!Filled
<1>4. CASE ~(pending.kind = "buy" /\ book.qty = 0) /\ ~(pending.kind = "sell" /\ book.qty > 0)
  BY <1>1, <1>4 DEF Lab!Filled
<1> QED
  BY <1>2, <1>3, <1>4

LEMMA ProtectedKeeps ==
    ASSUME NEW b, Balanced(b), NEW bar, bar.open \in Levels
    PROVE  Balanced(Lab!Protected(b, bar))
<1>1. bar.open \in Nat /\ bar.open \in Int /\ b.book.stop \in Nat /\ b.book.stop \in Int
      /\ b.book.target \in Nat /\ b.book.target \in Int
  BY SMTT(60), LabAssumption DEF Balanced
<1>2. Lab!Min({bar.open, b.book.stop}) \in Nat /\ Lab!Max({bar.open, b.book.target}) \in Nat
  BY <1>1, MinMaxIn
<1>3. CASE b.book.qty > 0 /\ bar.low <= b.book.stop
  BY <1>2, <1>3, CloseKeeps DEF Lab!Protected
<1>4. CASE /\ ~(b.book.qty > 0 /\ bar.low <= b.book.stop)
           /\ b.book.qty > 0 /\ bar.low > b.book.stop /\ bar.high >= b.book.target
  BY <1>2, <1>4, CloseKeeps DEF Lab!Protected
<1>5. CASE /\ ~(b.book.qty > 0 /\ bar.low <= b.book.stop)
           /\ ~(b.book.qty > 0 /\ bar.low > b.book.stop /\ bar.high >= b.book.target)
  BY <1>5 DEF Lab!Protected
<1> QED
  BY <1>3, <1>4, <1>5

LEMMA NoOrderType == Lab!NoOrder.qty \in Int
BY SMTT(60) DEF Lab!NoOrder

\* The order decided at the close is a number of lots.
LEMMA DecidesType ==
    ASSUME NEW b, Balanced(b), NEW bar, bar.close \in Levels, NEW strength \in 0..2, NEW exit, NEW out,
           cash \in Int
    PROVE  Lab!Decides(b, bar, strength, exit, out).qty \in Int
<1> DEFINE e == Lab!Marked(b, bar)
           q == Lab!quantity(bar.close, strength, e)
           d == Lab!Decides(b, bar, strength, exit, out)
<1>1. e \in Int
  BY SMTT(60), LabAssumption DEF Lab!Marked, Balanced
<1> HIDE DEF e
<1>2. q \in Int
  BY <1>1, QuantityType
<1> HIDE DEF q
<1> DEFINE A == b.book.qty > 0 /\ (exit \/ at.bar + 1 - b.book.since + 1 >= max_bars)
           B == b.book.qty = 0 /\ strength > 0 /\ ~out /\ Lab!admits(strength, e) /\ q > 0
<1>3. CASE A
  <2>1. d = [kind |-> "sell", qty |-> b.book.qty]
    <3>1. ~B
      BY SMTT(60), <1>3
    <3> QED
      BY <1>3, <3>1 DEF Lab!Decides, e, q
  <2>2. b.book.qty \in Int
    BY SMTT(60) DEF Balanced
  <2> HIDE DEF d
  <2>3. d.qty = b.book.qty
    BY <2>1
  <2> QED
    BY <2>2, <2>3 DEF d
<1>4. CASE ~A /\ B
  <2>1. d = [kind |-> "buy", qty |-> q]
    BY <1>4 DEF Lab!Decides, e, q
  <2> HIDE DEF d
  <2>2. d.qty = q
    BY <2>1
  <2> QED
    BY <1>2, <2>2 DEF d
<1>5. CASE ~A /\ ~B
  <2>1. d = Lab!NoOrder
    BY <1>5 DEF Lab!Decides, e, q
  <2> HIDE DEF d
  <2>2. d.qty \in Int
    BY <2>1, NoOrderType
  <2> QED
    BY <2>2 DEF d
<1> QED
  BY <1>3, <1>4, <1>5

\* run: a bar, and at the last one the position is closed.
LEMMA RunKeeps == ASSUME LabInv, Lab!run PROVE LabInv'
<1>1. PICK bar \in Lab!Bars, strength \in 0..2, exit \in BOOLEAN :
        LET marked == Lab!Protected(Lab!Filled(bar), bar)
            out == eliminated \/ Lab!Marked(marked, bar) < Floor
            last == at.bar + 1 = WindowLen
            b == IF last THEN Lab!Closed(marked, bar) ELSE marked
        IN  /\ cash' = b.cash /\ book' = b.book /\ pnl' = b.pnl
            /\ pending' = IF last THEN Lab!NoOrder ELSE Lab!Decides(b, bar, strength, exit, out)
  BY DEF Lab!run
<1> DEFINE marked == Lab!Protected(Lab!Filled(bar), bar)
           out == eliminated \/ Lab!Marked(marked, bar) < Floor
           last == at.bar + 1 = WindowLen
           b == IF last THEN Lab!Closed(marked, bar) ELSE marked
<1>2. bar.open \in Levels /\ bar.close \in Levels
  BY DEF Lab!Bars
<1>3. Balanced(marked)
  BY <1>2, FilledKeeps, ProtectedKeeps
<1>4. /\ cash' = b.cash /\ book' = b.book /\ pnl' = b.pnl
      /\ pending' = IF last THEN Lab!NoOrder ELSE Lab!Decides(b, bar, strength, exit, out)
  BY <1>1
<1> HIDE DEF marked, out, last
<1>5. Balanced(b)
  <2>1. bar.close \in Nat
    BY <1>2, LabAssumption
  <2> QED
    BY <1>3, <2>1, CloseKeeps DEF Lab!Closed
<1> HIDE DEF b
<1>6. Balanced(Lab!Now)'
  <2>1. /\ Lab!Now'.cash = b.cash /\ Lab!Now'.book = b.book /\ Lab!Now'.pnl = b.pnl
    BY <1>4 DEF Lab!Now
  <2> QED
    BY <1>5, <2>1 DEF Balanced
<1>7. pending'.qty \in Int
  <2>1. cash \in Int
    BY SMTT(60), NowIs DEF LabInv, Balanced
  <2> QED
    BY <1>2, <1>4, <1>5, <2>1, NoOrderType, DecidesType
<1> QED
  BY <1>6, <1>7 DEF LabInv

LEMMA LabStep == ASSUME LabInv, Lab!Next PROVE LabInv'
<1>1. CASE UNCHANGED <<cash, book, pending, pnl>>
  BY <1>1 DEF LabInv, Lab!Now, Balanced
<1> QED
  BY <1>1, RunKeeps DEF Lab!Next, Lab!walk_forward, Lab!NextWindow

LEMMA LabBalances == LabInv => Lab!BooksBalance
<1> SUFFICES ASSUME LabInv PROVE Lab!BooksBalance
  OBVIOUS
<1>1. /\ cash \in Nat /\ pnl \in Int /\ book.price \in Nat /\ Capital \in Nat
      /\ cash + book.qty * book.price + book.fee = Capital + pnl /\ (book.qty = 0 => book.fee = 0)
  BY NowIs, LabAssumption DEF LabInv, Balanced
<1> QED
  BY SMTT(60), <1>1 DEF Lab!BooksBalance

LEMMA LabIdle == ASSUME LabInv, UNCHANGED <<cash, book, pending, pnl>> PROVE LabInv'
BY DEF LabInv, Lab!Now, Balanced

-----------------------------------------------------------------------------
(* The books together. *)

RecordsInv ==
    /\ running = "signals" => SignalsInv
    /\ running = "research" => ResearchInv
    /\ running = "memory" => MemoryInv
    /\ running = "connector" => ConnectorInv
    /\ running = "backtest" => LabInv

LEMMA RecordsStart == RecordsInit => RecordsInv
<1> SUFFICES ASSUME RecordsInit PROVE RecordsInv
  OBVIOUS
<1>1. ASSUME running = "signals" PROVE SignalsInv
  <2>1. Inbox!Init
    BY <1>1 DEF RecordsInit
  <2> QED
    BY <2>1, SignalsInit
<1>2. ASSUME running = "research" PROVE ResearchInv
  <2>1. Store!Init
    BY <1>2 DEF RecordsInit
  <2> QED
    BY <2>1, ResearchInit
<1>3. ASSUME running = "memory" PROVE MemoryInv
  <2>1. Memory!Init
    BY <1>3 DEF RecordsInit
  <2> QED
    BY <2>1, MemoryInit
<1>4. ASSUME running = "connector" PROVE ConnectorInv
  <2>1. Connector!Init
    BY <1>4 DEF RecordsInit
  <2> QED
    BY <2>1, ConnectorInit
<1>5. ASSUME running = "backtest" PROVE LabInv
  <2>1. Lab!Init
    BY <1>5 DEF RecordsInit
  <2> QED
    BY <2>1, LabInit
<1> QED
  BY <1>1, <1>2, <1>3, <1>4, <1>5 DEF RecordsInv

\* A step of the composition is one of the component that is running, which keeps
\* its invariant; the others are not running before or after it.
LEMMA RecordsStep == RecordsInv /\ [RecordsNext]_records => RecordsInv'
<1> SUFFICES ASSUME RecordsInv, [RecordsNext]_records PROVE RecordsInv'
  OBVIOUS
<1>0. running' = running
  BY DEF RecordsNext, records
<1>1. ASSUME running = "signals" PROVE SignalsInv'
  <2>1. Inbox!Next \/ UNCHANGED Inbox!vars
    BY <1>1 DEF RecordsNext, records, inboxVars, Inbox!vars
  <2> QED
    BY <1>1, <2>1, SignalsStep DEF RecordsInv
<1>2. ASSUME running = "research" PROVE ResearchInv'
  <2>1. Store!Next \/ UNCHANGED Store!vars
    BY <1>2 DEF RecordsNext, records, storeVars, Store!vars
  <2> QED
    BY <1>2, <2>1, ResearchStep DEF RecordsInv
<1>3. ASSUME running = "memory" PROVE MemoryInv'
  <2>1. Memory!Next \/ UNCHANGED Memory!vars
    BY <1>3 DEF RecordsNext, records, memoryVars, Memory!vars
  <2> QED
    BY <1>3, <2>1, MemoryStep DEF RecordsInv
<1>4. ASSUME running = "connector" PROVE ConnectorInv'
  <2>1. \/ Connector!Next
        \/ UNCHANGED <<secret, codes, grants, saving, stored, made, revoked, gone, answer, clock>>
    BY <1>4 DEF RecordsNext, records, connectorVars
  <2> QED
    BY <1>4, <2>1, ConnectorStep, IdleKeeps DEF RecordsInv
<1>5. ASSUME running = "backtest" PROVE LabInv'
  <2>1. Lab!Next \/ UNCHANGED <<cash, book, pending, pnl>>
    BY <1>5 DEF RecordsNext, records, labVars
  <2> QED
    BY <1>5, <2>1, LabStep, LabIdle DEF RecordsInv
<1> QED
  BY <1>0, <1>1, <1>2, <1>3, <1>4, <1>5 DEF RecordsInv

LEMMA Invariance == RecordsSpec => []RecordsInv
BY RecordsStart, RecordsStep, PTL DEF RecordsSpec

\* A signal is handed to the agents at most once, however often it is delivered,
\* evicted, retried or sent again after a restart (tradingview_webhook and
\* accept_internal_signal).
THEOREM NeverHandedTwice == RecordsSpec => []HandedOnce
  <1>1. RecordsInv => HandedOnce
    BY SMTT(60) DEF RecordsInv, SignalsInv, Typed, HandedOnce, Inbox!HandedOnce
  <1> QED
    BY <1>1, Invariance, PTL

\* What the research store has answered stays true and whole, whatever requests
\* race, fail after their commit and are retried: consume_frozen_holdout_decision
\* and persist_quant_lineage.
THEOREM AnswersStayTrue == RecordsSpec => []RecordsAreFinal
  <1>1. RecordsInv => RecordsAreFinal
    BY DEF RecordsInv, ResearchInv, RecordsAreFinal, Store!RecordsAreFinal
  <1> QED
    BY <1>1, Invariance, PTL

\* No two evaluations of a frozen holdout are told different results.
OneVerdict ==
    running = "research" => \A x, y \in told : x.seal = y.seal => x.status = y.status

\* The consumption id of a seal is a primary key, so the verdicts evaluate_holdout
\* answers for a seal are one.
THEOREM VerdictsAgree == RecordsSpec => []OneVerdict
  <1>1. RecordsInv => OneVerdict
    BY SMTT(60) DEF RecordsInv, ResearchInv, Store!VerdictIsFinal, RowsKeyed, OneVerdict, Store!Stored
  <1> QED
    BY <1>1, Invariance, PTL

\* What record or record_outcome has answered stays in the table, unchanged:
\* competing writers, retried jobs and calls that fail after their commit
\* included (DecisionMemoryStore).
THEOREM Immutable == RecordsSpec => []MemoryIsImmutable
  <1>1. RecordsInv => MemoryIsImmutable
    BY DEF RecordsInv, MemoryInv, MemoryIsImmutable
  <1> QED
    BY <1>1, Invariance, PTL

\* Every token the connector honours descends from one approval under the token now
\* configured, and none of a revoked one, through rotations, saves that fail or race
\* and restarts (token, revoke_all, _persist, restore_oauth).
THEOREM AlwaysOneApproval == RecordsSpec => []ServedByOneApproval
<1>1. RecordsInv => ServedByOneApproval
  BY ConnectorServes DEF RecordsInv, ServedByOneApproval
<1> QED
  BY <1>1, Invariance, PTL

\* The cash of a backtest is never negative and is the capital and the results whenever
\* the agent is flat, for any prices, capital and risk budget (run, walk_forward).
THEOREM BooksAlwaysBalance == RecordsSpec => []BooksBalance
<1>1. RecordsInv => BooksBalance
  BY LabBalances DEF RecordsInv, BooksBalance
<1> QED
  BY <1>1, Invariance, PTL
=============================================================================
