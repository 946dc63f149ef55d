------------------------------ MODULE Research ------------------------------
(***************************************************************************)
(* The research store: experiments, frozen holdouts, promotion decisions   *)
(* and quant lineages, all appended to tables whose ids are fingerprints   *)
(* of what they are about.                                                 *)
(*                                                                         *)
(*   apps/api/app/validation_surface.py        validate_experiment         *)
(*   apps/api/app/holdout_surface.py           seal_holdout,               *)
(*                                             evaluate_holdout            *)
(*   apps/api/app/promotion_guard_surface.py   promotion_evaluate_endpoint *)
(*   apps/api/app/research_persistence.py, holdout_persistence.py          *)
(*   services/validation/holdout.py, promotion.py                          *)
(*                                                                         *)
(* Several requests run at once and await every read and every             *)
(* transaction.  A fingerprint is what it is taken of.  Returns are known  *)
(* by a quality, measured against the thresholds of a policy.              *)
(***************************************************************************)
EXTENDS Integers

CONSTANTS
    Experiments,   \* manifests with their validation plans
    Contexts,      \* frozen contexts: dataset, window, versions, parameters
    Requests,      \* requests that may run together
    Ops,           \* the operations checked
    PromotionPolicies,  \* [minimum, maximum]
    Evidence,      \* [kind, sharpe, overfitting, control, passed, consumed, seal]: optional
                   \* measures may be None; what is said of the holdout is the caller's
    MaxCalls,      \* bound: requests made
    MaxFaults      \* bound: failed transactions

None == -1
Quality == 0..1

VARIABLES
    durable,  \* whether there is a persistence engine
    rows,     \* the rows of the tables: [id, payload]
    reqs,     \* the requests: [op, at, rows, decision]
    told,     \* history: the verdicts evaluate_holdout answered: [seal, status]
    counts    \* [calls, faults]

vars == <<durable, rows, reqs, told, counts>>

NoRequest == [op |-> "none", at |-> "none", rows |-> {}, decision |-> {}]

Init ==
    /\ durable \in BOOLEAN
    /\ rows = {}
    /\ reqs = [r \in Requests |-> NoRequest]
    /\ told = {}
    /\ counts = [calls |-> 0, faults |-> 0]

Row(id, payload) == [id |-> id, payload |-> payload]
Stored(id) == {x \in rows : x.id = id}
End(r) == reqs' = [reqs EXCEPT ![r] = NoRequest]

\* Nothing is written without an engine: seal_holdout and evaluate_holdout refuse,
\* the others answer that nothing was persisted.
Open(r, op) == durable /\ op \in Ops /\ reqs[r] = NoRequest /\ counts.calls < MaxCalls

\* A request starts with the rows it will insert, or with a read.
Begin(r, op, at, new, decision) ==
    /\ counts' = [counts EXCEPT !.calls = @ + 1]
    /\ reqs' = [reqs EXCEPT ![r] = [op |-> op, at |-> at, rows |-> new, decision |-> decision]]
    /\ UNCHANGED <<durable, rows, told>>

-----------------------------------------------------------------------------
\* Experiments and quant lineages.

\* The id covers the manifest and the plan, the payload the returns as well.
persist_research_experiment(e, returns) == {Row(<<"experiment", e>>, returns)}

validate_experiment(r) ==
    /\ Open(r, "experiment")
    /\ \E e \in Experiments, returns \in Quality :
        Begin(r, "experiment", "insert", persist_research_experiment(e, returns), {})

\* The rows of a lineage; the calibration row only with a calibration report.
LineageRows(c, value, calibrated) ==
    {Row(<<part, c>>, value) : part \in {"prediction", "audit"}}
        \cup (IF calibrated THEN {Row(<<"calibration", c>>, value)} ELSE {})

persist_quant_lineage(r) ==
    /\ Open(r, "lineage")
    /\ \E c \in Experiments, value \in Quality, calibrated \in BOOLEAN :
        Begin(r, "lineage", "insert", LineageRows(c, value, calibrated), {})

-----------------------------------------------------------------------------
\* Frozen holdouts. A seal is known by its context and its experiment.

SealIds == {<<"seal", e, c>> : e \in Experiments, c \in Contexts}

persist_frozen_holdout_seal(s) == {Row(s, s)}

seal_holdout(r) ==
    /\ Open(r, "seal")
    /\ \E s \in SealIds : Begin(r, "seal", "insert", persist_frozen_holdout_seal(s), {})

\* The thresholds of FrozenHoldoutPolicy that a caller may choose.
HoldoutPolicies == [samples : {1}, sharpe : Quality]
Measures == [samples : Quality, sharpe : Quality]

\* evaluate_holdout: the caller names a row, and the context and the returns.
evaluate_holdout(r) ==
    /\ Open(r, "evaluate")
    /\ \E id \in {x.id : x \in rows} \cup SealIds, c \in Contexts,
          m \in Measures, p \in HoldoutPolicies :
        Begin(r, "evaluate", "load", {}, [id |-> id, context |-> c, measures |-> m, policy |-> p])

\* The checks of evaluate_frozen_holdout; every one of them has to pass.
failed_checks(m, p) == {k \in DOMAIN m : m[k] < p[k]}
StatusOf(m, p) == IF failed_checks(m, p) = {} THEN "PASSED" ELSE "FAILED"

\* The evidence is about the context that was sealed.
_context_mismatches(seal, d) == d.context # seal[3]

\* frozen_holdout_consumption_id: one for a seal, whatever the evidence.
frozen_holdout_consumption_id(seal) == <<"consumption", seal>>

\* The payload of a consumption: the verdict and the fingerprint of its evaluation.
consume_frozen_holdout_decision(seal, d) ==
    {Row(frozen_holdout_consumption_id(seal),
         [status |-> StatusOf(d.measures, d.policy), failed |-> failed_checks(d.measures, d.policy),
          measures |-> d.measures, policy |-> d.policy])}

\* Whether the id is that of a stored seal: there may be no row, or one of another kind.
load_frozen_holdout_seal(id) == Stored(id) # {} /\ id \in SealIds

\* The seal is read and the evidence evaluated; without a seal, or about another
\* context, the request ends.
Evaluate(r) ==
    /\ reqs[r].at = "load"
    /\ LET d == reqs[r].decision
       IN  IF load_frozen_holdout_seal(d.id) /\ ~_context_mismatches(d.id, d)
           THEN reqs' = [reqs EXCEPT ![r] = [op |-> "evaluate", at |-> "insert", decision |-> d,
                                             rows |-> consume_frozen_holdout_decision(d.id, d)]]
           ELSE End(r)
    /\ UNCHANGED <<durable, rows, told, counts>>

-----------------------------------------------------------------------------
\* Promotion decisions, with one measure for each kind of check.

\* What the constructors accept: fractions lie between 0 and 1, and a measure that
\* is optional may be missing.
PromotionGatePolicy(p) == p.minimum \in Int /\ p.maximum \in Quality
PromotionGateEvidence(e) ==
    /\ e.kind \in {"CONTROL", "ALPHA_CANDIDATE"}
    /\ e.sharpe \in Int /\ e.overfitting \in Quality \cup {None}

_minimum_check(observed, minimum) == observed # None /\ observed >= minimum
_maximum_check(observed, maximum) == observed # None /\ observed <= maximum
\* The control may reach a ratio below one of the Sharpe of the candidate.
_negative_control_check(observed, sharpe) == observed # None /\ sharpe > 0 /\ observed < sharpe

_candidate_checks(e, p) ==
    /\ _minimum_check(e.sharpe, p.minimum)
    /\ _maximum_check(e.overfitting, p.maximum)
    /\ _negative_control_check(e.control, e.sharpe)
    /\ e.passed /\ e.consumed /\ e.seal # <<>>

evaluate_promotion_gate(e, p) ==
    CASE e.kind = "CONTROL" -> "CONTROL_ONLY"
      [] e.kind # "CONTROL" /\ _candidate_checks(e, p) -> "PAPER_TRADING_ELIGIBLE"
      [] OTHER -> "RESEARCH_ONLY"

\* The id of a decision covers its evidence and its policy, so it covers its status.
persist_model_promotion_decision(x, e, p) ==
    {Row(<<"promotion", x, e, p>>, [seal |-> e.seal, status |-> evaluate_promotion_gate(e, p)])}

promotion_evaluate_endpoint(r) ==
    /\ Open(r, "promote")
    /\ \E x \in Experiments, e \in Evidence, p \in PromotionPolicies :
        /\ PromotionGatePolicy(p) /\ PromotionGateEvidence(e)
        /\ Begin(r, "promote", "insert", persist_model_promotion_decision(x, e, p), {})

-----------------------------------------------------------------------------
\* Transactions.

\* What a request that ended well answers: evaluate_holdout its verdict.
Answer(r) ==
    /\ told' = IF reqs[r].op = "evaluate"
               THEN told \cup {[seal |-> reqs[r].decision.id, status |-> x.payload.status] : x \in reqs[r].rows}
               ELSE told
    /\ End(r)

Clash(r) == \E x \in reqs[r].rows : Stored(x.id) # {}

\* A faulty insert: a transaction for every row, the first of which may be the last.
RowByRow(r) ==
    /\ reqs[r].at = "insert" /\ ~Clash(r)
    /\ \/ rows' = rows \cup reqs[r].rows
       \/ \E x \in reqs[r].rows : rows' = rows \cup {x}
    /\ Answer(r)
    /\ UNCHANGED <<durable, counts>>

\* One transaction inserts every row.
insert(r) ==
    /\ reqs[r].at = "insert" /\ ~Clash(r)
    /\ rows' = rows \cup reqs[r].rows
    /\ Answer(r)
    /\ UNCHANGED <<durable, counts>>

\* IntegrityError: an id is taken. The stored rows are read next.
IntegrityError(r) ==
    /\ reqs[r].at = "insert" /\ Clash(r)
    /\ reqs' = [reqs EXCEPT ![r].at = "select"]
    /\ UNCHANGED <<durable, rows, told, counts>>

\* _lineage_complete: every row is there with its payload, and no calibration row more.
_lineage_complete(r) ==
    /\ reqs[r].rows \subseteq rows
    /\ \A x \in reqs[r].rows : x.id[1] = "prediction" =>
        LET calibration == <<"calibration", x.id[2]>>
        IN  Stored(calibration) \subseteq reqs[r].rows

\* A faulty comparison: a taken id is a retry, whatever it holds.
AnyRetry(r) == TRUE

\* A retry finds what it would have written.
SamePayload(r) == IF reqs[r].op = "lineage" THEN _lineage_complete(r) ELSE reqs[r].rows \subseteq rows

\* The retry is answered as such; anything else is a collision.
Compare(r) ==
    /\ reqs[r].at = "select"
    /\ IF SamePayload(r) THEN Answer(r) ELSE End(r) /\ UNCHANGED told
    /\ UNCHANGED <<durable, rows, counts>>

\* The database call fails; an insert may have been committed. The caller sees an error.
CallFails(r) ==
    /\ reqs[r].at # "none" /\ counts.faults < MaxFaults
    /\ counts' = [counts EXCEPT !.faults = @ + 1]
    /\ \/ UNCHANGED rows
       \/ reqs[r].at = "insert" /\ ~Clash(r) /\ rows' = rows \cup reqs[r].rows
    /\ End(r)
    /\ UNCHANGED <<durable, told>>

Next ==
    \E r \in Requests :
        \/ validate_experiment(r) \/ persist_quant_lineage(r) \/ seal_holdout(r) \/ evaluate_holdout(r)
        \/ promotion_evaluate_endpoint(r) \/ Evaluate(r)
        \/ insert(r) \/ IntegrityError(r) \/ Compare(r) \/ CallFails(r)

Spec == Init /\ [][Next]_vars

-----------------------------------------------------------------------------

\* Rows have one payload for an id; requests are where they can be.
TypeOK ==
    /\ \A x, y \in rows : x.id = y.id => x = y
    /\ \A r \in Requests : reqs[r].at \in {"none", "load", "insert", "select"}
    /\ told \subseteq [seal : SealIds, status : {"PASSED", "FAILED"}]

\* A frozen holdout has one verdict: whatever evaluations of a seal race, fail,
\* are retried or come with other returns or another policy, no two callers are
\* told different results, and what they are told is what is stored
\* (consume_frozen_holdout_decision).
VerdictIsFinal ==
    \A x \in told : \E y \in Stored(frozen_holdout_consumption_id(x.seal)) : y.payload.status = x.status

\* The stored rows of a correlation id are the whole lineage of one pipeline
\* result: persist_quant_lineage, under failures and competing writers.
LineageIsWhole ==
    \A x \in rows : x.id[1] \in {"prediction", "audit", "calibration"} =>
        \E calibrated \in BOOLEAN :
            LineageRows(x.id[2], x.payload, calibrated)
                = {y \in rows : y.id[1] \in {"prediction", "audit", "calibration"} /\ y.id[2] = x.id[2]}

\* What the store has answered stays true and whole: one verdict for a holdout and
\* one pipeline result for a lineage, though writers race, fail and retry.
RecordsAreFinal == VerdictIsFinal /\ LineageIsWhole

\* A stored decision that makes a candidate eligible for paper trading names a
\* holdout that was consumed and passed: promotion_evaluate_endpoint.
EligibleHasAHoldout ==
    \A x \in rows : x.id[1] = "promotion" /\ x.payload.status = "PAPER_TRADING_ELIGIBLE" =>
        \E y \in Stored(frozen_holdout_consumption_id(x.payload.seal)) : y.payload.status = "PASSED"
=============================================================================
