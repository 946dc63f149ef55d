----------------------------- MODULE RiskEngine -----------------------------
(* The checks of the Risk Engine (services/risk/engine.py) with the limits *)
(* of services/execution/constitution.py, as operators. Fractions are      *)
(* basis points (1/10000) and every quotient of the code is multiplied     *)
(* out, so the comparisons are exact. Timestamps are seconds or minutes.   *)
EXTENDS Integers, FiniteSets

BPS == 10000

\* The constitution: capital in BRL, fractions in basis points.
REFERENCE_CAPITAL == 10000
CANARY_CAPITAL == 500
MAX_RISK_PER_POSITION == 25
MAX_DAILY_LOSS == 100
MAX_DRAWDOWN == 500
MAX_GROSS_LEVERAGE == 10000

\* The operational policy (RiskPolicy); the venue cap is optional, here absent.
STOP_DISTANCE == 200
PRICE_COLLAR == 50
MAX_SPREAD == 200
MAX_QUOTE_AGE == 10

Stages == {"RESEARCH", "REPLAY", "SHADOW", "PAPER", "CANARY", "LIVE"}
CERTIFIED_STAGES == {"PAPER", "SHADOW"}

Least(a, b) == IF a <= b THEN a ELSE b
Greatest(a, b) == IF a >= b THEN a ELSE b

\* Capital in the quote currency at `brl` BRL per unit; no rate (0) is no capital.
reference_capital_in(brl) == IF brl = 0 THEN 0 ELSE REFERENCE_CAPITAL \div brl
canary_capital_in(brl) == IF brl = 0 THEN 0 ELSE CANARY_CAPITAL \div brl

conservative_equity(equity, reference) ==
  IF equity <= 0 \/ reference <= 0 THEN 0
  ELSE Least(equity, Least(reference, REFERENCE_CAPITAL))

(* A sell that only reduces what is held is exempt from the sizing checks; *)
(* quantities are multiples of the lot and prices of the tick.             *)
order_violation(grid, quantity, price) ==
  \/ quantity < grid.min_quantity
  \/ quantity % grid.lot_size # 0
  \/ price <= 0
  \/ price % grid.tick_size # 0
  \/ quantity * price < grid.min_notional

(* Regular sessions in minutes of the exchange's own day; `weekday` counts *)
(* from Monday = 0. A zone without a modelled session is closed.           *)
Sessions == [Sao_Paulo |-> <<600, 1075>>, New_York |-> <<570, 960>>]

session_open(session, weekday, minute) ==
  \/ session = "CONTINUOUS_24_7"
  \/ /\ session \in DOMAIN Sessions
     /\ weekday < 5
     /\ Sessions[session][1] <= minute
     /\ minute < Sessions[session][2]

(* A loss is measured against the equity it started from, capped by the    *)
(* reference capital; without a positive baseline it counts as total.      *)
LossBase(account) ==
  Least(IF account.reference > 0 THEN account.reference ELSE REFERENCE_CAPITAL,
        REFERENCE_CAPITAL)

AtLeast(from, account, limit) ==
  \/ from <= 0
  \/ (from - account.equity) * BPS >= limit * Least(from, LossBase(account))

account_breach(account) ==
  IF AtLeast(account.start, account, MAX_DAILY_LOSS) THEN "DAILY_LOSS"
  ELSE IF AtLeast(account.peak, account, MAX_DRAWDOWN) THEN "DRAWDOWN"
  ELSE "none"

fresh_quote(quote) ==
  /\ quote.known
  /\ 0 < quote.bid
  /\ quote.bid < quote.ask
  /\ quote.age \in 0 .. MAX_QUOTE_AGE

Touch(intent, quote) == IF intent.side = "BUY" THEN quote.ask ELSE quote.bid

\* A market order is priced at the touch; 0 is "no price".
OrderPrice(intent, quote) ==
  IF intent.price > 0 THEN intent.price
  ELSE IF fresh_quote(quote) THEN Touch(intent, quote) ELSE 0

PriceCollar(intent, quote) ==
  LET price == OrderPrice(intent, quote)
      touch == Touch(intent, quote)
  IN IF intent.side = "BUY" THEN price * BPS <= touch * (BPS + PRICE_COLLAR)
                            ELSE price * BPS >= touch * (BPS - PRICE_COLLAR)

Reducing(intent, account) ==
  /\ intent.side = "SELL"
  /\ intent.reduce_only
  /\ intent.quantity <= Greatest(account.position, 0)

\* The equity a position is sized on: a canary's is capped once more.
SizingEquity(intent, account, canary) ==
  LET equity == conservative_equity(account.equity, account.reference)
  IN IF intent.stage = "CANARY" THEN Least(equity, Greatest(canary, 0)) ELSE equity

(* What is held, what still works at the venue and the order itself must   *)
(* fit the budget of one position.                                         *)
WithinPositionBudget(units, price, equity) ==
  units * price * STOP_DISTANCE <= equity * MAX_RISK_PER_POSITION

(* The checks of one proposal as pairs of a name and its outcome. `market` *)
(* holds the venue's facts: known, session, weekday, minute and grid.      *)
Checks(intent, account, controls, quote, market, scope, canary) ==
  LET price == OrderPrice(intent, quote)
      position == Greatest(account.position, 0)
      equity == SizingEquity(intent, account, canary)
      units == position + Greatest(account.open_buys, 0) + intent.quantity
  IN { <<"stage_certified", \/ intent.stage \in CERTIFIED_STAGES
                            \/ intent.stage = "CANARY" /\ scope = "CANARY">>,
       <<"kill_switches", ~controls.killed>>,
       <<"instrument_known", market.known>>,
       <<"spot_no_short", intent.side = "BUY" \/ intent.quantity <= position>>,
       <<"sell_is_reduce_only", intent.side = "BUY" \/ intent.reduce_only>>,
       <<"fresh_quote", fresh_quote(quote)>>,
       <<"price_collar", fresh_quote(quote) => PriceCollar(intent, quote)>>,
       <<"session_open", market.known =>
            session_open(market.session, market.weekday, market.minute)>>,
       <<"venue_grid", market.known /\ price > 0 =>
            ~order_violation(market.grid, intent.quantity, price)>> }
     \cup
     IF Reducing(intent, account) THEN {}
     ELSE { <<"quote_spread", fresh_quote(quote) =>
                 (quote.ask - quote.bid) * 2 * BPS
                   <= MAX_SPREAD * (quote.ask + quote.bid)>>,
            <<"no_lockdown", controls.lockdown = "none"
                             /\ account_breach(account) = "none">>,
            <<"canary_capital_known", intent.stage = "CANARY" => canary > 0>>,
            <<"risk_per_position", WithinPositionBudget(units, price, equity)>>,
            <<"gross_leverage",
                /\ account.known
                /\ (account.exposure + intent.quantity * price) * BPS
                     <= equity * MAX_GROSS_LEVERAGE>> }

Rejections(intent, account, controls, quote, market, scope, canary) ==
  { check[1] : check \in
      { c \in Checks(intent, account, controls, quote, market, scope, canary)
          : ~c[2] } }

\* A permit is issued exactly when no check fails (RiskEngine.evaluate).
Approved(intent, account, controls, quote, market, scope, canary) ==
  Rejections(intent, account, controls, quote, market, scope, canary) = {}
=============================================================================
