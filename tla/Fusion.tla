------------------------------- MODULE Fusion -------------------------------
(* From signals to a candidate order (services/agents/fusion.py) and the   *)
(* reviewer's bounded say on it (services/agents/review.py), as operators. *)
(* Strengths, scores and size factors are tenths; source weights are       *)
(* halves; quantities are lots and prices are ticks.                       *)
EXTENDS RiskEngine, FiniteSetsExt

WINDOW == 300
MIN_SCORE == 6
EXIT_MIN_SCORE == 2
MIN_SIGNALS == 1
CONFLICT_STRENGTH == 5

SourceWeight == [TRADINGVIEW |-> 2, PROTO_STRATEGY |-> 2, PROTO_AGENT |-> 1]
Sign == [LONG |-> 1, SHORT |-> -1, FLAT |-> 0]

\* The latest signal of each (source, strategy) inside the window; the first of equals.
Live(signals, now) ==
  LET inWindow == {s \in signals : s.observed <= now /\ s.received >= now - WINDOW}
  IN {s \in inWindow :
        \A t \in inWindow : <<s.source, s.strategy>> = <<t.source, t.strategy>>
          => s.observed > t.observed \/ (s.observed = t.observed /\ s.received <= t.received)}

(* The weighted vote: `score` is the signed mean in tenths, kept as a      *)
(* numerator over the total weight.                                        *)
fuse(signals, now, min_score) ==
  LET live == Live(signals, now)
      Strong(d) == \E s \in live : s.direction = d /\ s.strength >= CONFLICT_STRENGTH
      weight == MapThenSumSet(LAMBDA s : SourceWeight[s.source], live)
      vote == MapThenSumSet(
                LAMBDA s : Sign[s.direction] * s.strength * SourceWeight[s.source], live)
      none == [direction |-> "FLAT", vote |-> 0, weight |-> 1]
  IN CASE Cardinality(live) < MIN_SIGNALS -> none
       [] Strong("LONG") /\ Strong("SHORT") -> none
       [] vote * 10 >= min_score * weight ->
            [direction |-> "LONG", vote |-> vote, weight |-> weight]
       [] vote <= -EXIT_MIN_SCORE * weight ->
            [direction |-> "SHORT", vote |-> vote, weight |-> weight]
       [] OTHER -> none

\* min_score is given in hundredths: an agent's survival instinct raises it.
DEFAULT_MIN_SCORE == MIN_SCORE * 10

NoIntent == [side |-> "NONE", quantity |-> 0, price |-> 0]

usable_quote(quote) ==
  quote.known /\ quote.age <= MAX_QUOTE_AGE /\ 0 < quote.bid /\ quote.bid < quote.ask

Accepted(grid, intent) ==
  IF order_violation(grid, intent.quantity, intent.price) THEN NoIntent ELSE intent

(* Quantities a buy may take: the conviction's share of the risk budget,   *)
(* the rest of the position's budget and the leverage headroom.            *)
BuyQuantity(decision, quote, equity, held) ==
  LET budget == equity * MAX_RISK_PER_POSITION
      unit == quote.ask * STOP_DISTANCE
      convinced == (budget * Least(decision.vote, 10 * decision.weight))
                     \div (unit * 10 * decision.weight)
      room == (budget \div unit) - held
      headroom == equity - held * quote.ask
  IN IF headroom <= 0 \/ room <= 0 THEN 0
     ELSE Least(convinced, Least(room, headroom \div quote.ask))

\* A buy on LONG; on SHORT a sell of what is held, never a short.
build_candidate(decision, quote, equity, position, reference, grid) ==
  CASE decision.direction = "FLAT" \/ ~usable_quote(quote) -> NoIntent
    [] decision.direction = "SHORT" ->
         IF position <= 0 THEN NoIntent
         ELSE Accepted(grid, [side |-> "SELL", quantity |-> position, price |-> quote.bid])
    [] OTHER ->
         Accepted(grid, [side |-> "BUY", price |-> quote.ask,
           quantity |-> BuyQuantity(decision, quote, conservative_equity(equity, reference),
                                    Greatest(position, 0))])

-----------------------------------------------------------------------------
\* The reviews that pass validation; `factor` is in tenths.
Reviews ==
  {[verdict |-> "APPROVE", factor |-> 10]}
  \cup [verdict : {"REDUCE"}, factor : 1 .. 9]
  \cup [verdict : {"DEFER", "VETO"}, factor : {0}]

(* What a reviewer may answer: the deterministic one approves, an AI one   *)
(* answers any valid review and defers on every failure, a missing one     *)
(* always defers.                                                          *)
ReviewsOf(reviewer) ==
  CASE reviewer = "deterministic" -> {r \in Reviews : r.verdict = "APPROVE"}
    [] reviewer = "claude" -> Reviews
    [] OTHER -> {r \in Reviews : r.verdict = "DEFER"}

\* The quantity can only shrink.
apply_review(intent, review, grid) ==
  LET quantity == (intent.quantity * review.factor) \div 10
  IN CASE review.verdict = "APPROVE" -> intent
       [] review.verdict # "REDUCE" -> NoIntent
       [] quantity <= 0 \/ quantity >= intent.quantity -> NoIntent
       [] OTHER -> Accepted(grid, [intent EXCEPT !.quantity = quantity])
=============================================================================
