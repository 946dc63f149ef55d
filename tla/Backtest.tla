------------------------------ MODULE Backtest ------------------------------
(***************************************************************************)
(* The backtester of the strategy lab, and the walk-forward evaluation     *)
(* that chains its runs.                                                   *)
(*                                                                         *)
(*   services/research/backtest.py     run, SizingModel                    *)
(*   services/research/walkforward.py  walk_forward, windows               *)
(*                                                                         *)
(* Bars and the signals of a plan are any.  Which configuration a train    *)
(* window selects, if one, is any too: its Sharpe is left out.  Money is   *)
(* in units of which a price level is ten thousand, so that slippage and   *)
(* fees, a tenth each, are exact.                                          *)
(***************************************************************************)
EXTENDS Integers, FiniteSets

CONSTANTS
    Levels,       \* prices, in units
    Capital,      \* the agent's capital
    Floor,        \* ELIMINATION_FLOOR
    RiskQty,      \* what the risk budget buys at full strength, in lots
    MinNotional,  \* min_notional
    max_bars,     \* the time stop of a plan
    WindowLen,    \* bars in a test window
    Windows       \* test windows

Min(S) == CHOOSE x \in S : \A y \in S : x <= y
Max(S) == CHOOSE x \in S : \A y \in S : x >= y

VARIABLES
    at,          \* [window, bar, plan]: where the evaluation is, and whether it trades
    cash,
    book,        \* [qty, price, fee, stop, target, since]
    pending,     \* the order decided at the last close
    eliminated,  \* the agent stopped trading in this window
    pnl,         \* the sum of the trades' results
    fallen,      \* history: the equity was once below the floor
    revived      \* history: a position was opened after that

vars == <<at, cash, book, pending, eliminated, pnl, fallen, revived>>

Flat == [qty |-> 0, price |-> 0, fee |-> 0, stop |-> 0, target |-> 0, since |-> 0]
NoOrder == [kind |-> "none", qty |-> 0]

Init ==
    /\ at = [window |-> 1, bar |-> 0, plan |-> "select"]
    /\ cash = Capital /\ book = Flat /\ pending = NoOrder
    /\ eliminated = FALSE /\ pnl = 0
    /\ fallen = FALSE /\ revived = FALSE

-----------------------------------------------------------------------------
\* Costs and sizing.

Bought(price) == (price * 11) \div 10
Sold(price) == (price * 9) \div 10
Fee(notional) == notional \div 10

\* Entries have to clear a bar that rises as the equity falls: a weak one does
\* only while the capital is whole.
admits(strength, equity) == strength = 2 \/ equity >= Capital

\* The risk budget, shrunk by the square of what is left (in tenths), within the
\* equity and the cash, in whole lots.
quantity(price, strength, equity) ==
    LET left == Max({0, Min({(equity * 10) \div Capital, 10})})
        risk == (RiskQty * strength * left * left) \div 200
        q == Min({risk, Max({equity, 0}) \div price, cash \div price})
    IN  IF q * price < MinNotional THEN 0 ELSE q

-----------------------------------------------------------------------------
\* One bar of run.

\* The books after an order or an exit: [cash, book, pnl].
Now == [cash |-> cash, book |-> book, pnl |-> pnl]

\* A faulty exit, whose trade leaves out what the entry cost in fees.
CloseWithoutEntryFee(b, raw) ==
    LET notional == b.book.qty * Sold(raw)
    IN  [cash |-> b.cash + notional - Fee(notional), book |-> Flat,
         pnl |-> b.pnl + notional - Fee(notional) - b.book.qty * b.book.price]

close_position(b, raw) ==
    LET notional == b.book.qty * Sold(raw)
    IN  [cash |-> b.cash + notional - Fee(notional), book |-> Flat,
         pnl |-> b.pnl + notional - Fee(notional) - b.book.qty * b.book.price - b.book.fee]

\* The open moved away: the order shrinks to what the cash pays for.
Affordable(q, price) ==
    IF q * price + Fee(q * price) > cash THEN cash \div (price + Fee(price)) ELSE q

\* A buy decided at the last close fills at the open, if it still clears the minimum.
FillBuy(open) ==
    LET price == Bought(open)
        q == Affordable(pending.qty, price)
        fee == Fee(q * price)
    IN  IF q > 0 /\ q * price >= MinNotional
        THEN [cash |-> cash - q * price - fee, pnl |-> pnl,
              book |-> [qty |-> q, price |-> price, fee |-> fee, stop |-> price \div 2,
                        target |-> (price * 3) \div 2, since |-> at.bar + 1]]
        ELSE Now

Filled(bar) ==
    CASE pending.kind = "buy" /\ book.qty = 0 -> FillBuy(bar.open)
      [] pending.kind = "sell" /\ book.qty > 0 -> close_position(Now, bar.open)
      [] OTHER -> Now

\* Inside the bar the stop goes before the target.
Protected(b, bar) ==
    CASE b.book.qty > 0 /\ bar.low <= b.book.stop -> close_position(b, Min({bar.open, b.book.stop}))
      [] b.book.qty > 0 /\ bar.low > b.book.stop /\ bar.high >= b.book.target ->
            close_position(b, Max({bar.open, b.book.target}))
      [] OTHER -> b

Marked(b, bar) == b.cash + b.book.qty * bar.close

Bars ==
    {b \in [open : Levels, low : Levels, high : Levels, close : Levels] :
        b.low <= b.open /\ b.low <= b.close /\ b.open <= b.high /\ b.close <= b.high}

\* What the plan says at this close: an exit, a time stop or an entry.
Decides(b, bar, strength, exit, out) ==
    LET equity == Marked(b, bar)
        q == quantity(bar.close, strength, equity)
    IN  CASE b.book.qty > 0 /\ (exit \/ at.bar + 1 - b.book.since + 1 >= max_bars) ->
                [kind |-> "sell", qty |-> b.book.qty]
          [] b.book.qty = 0 /\ strength > 0 /\ ~out /\ admits(strength, equity) /\ q > 0 ->
                [kind |-> "buy", qty |-> q]
          [] OTHER -> NoOrder

\* The last close of the window: the position is closed there, and nothing is decided.
Closed(b, bar) == IF b.book.qty > 0 THEN close_position(b, bar.close) ELSE b

run ==
    /\ at.plan = "trade" /\ at.bar < WindowLen
    /\ \E bar \in Bars, strength \in 0..2, exit \in BOOLEAN :
        LET marked == Protected(Filled(bar), bar)
            out == eliminated \/ Marked(marked, bar) < Floor
            last == at.bar + 1 = WindowLen
            b == IF last THEN Closed(marked, bar) ELSE marked
        IN  /\ cash' = b.cash /\ book' = b.book /\ pnl' = b.pnl
            /\ eliminated' = out
            /\ pending' = IF last THEN NoOrder ELSE Decides(b, bar, strength, exit, out)
            /\ fallen' = (fallen \/ Marked(marked, bar) < Floor)
            /\ revived' = (revived \/ (fallen /\ book.qty = 0 /\ Filled(bar).book.qty > 0))
    /\ at' = [at EXCEPT !.bar = @ + 1]

-----------------------------------------------------------------------------
\* walk_forward.

\* A window's test starts with the equity of the last one, in a run of its own; it
\* is flat when no configuration made money on the train window.
walk_forward ==
    /\ at.plan = "select"
    /\ \E plan \in {"trade", "abstain"} : at' = [at EXCEPT !.plan = plan]
    /\ eliminated' = FALSE
    /\ UNCHANGED <<cash, book, pending, pnl, fallen, revived>>

\* Consecutive tests are contiguous.
NextWindow ==
    /\ at.plan # "select" /\ (at.plan = "trade" => at.bar = WindowLen)
    /\ at.window < Windows
    /\ at' = [window |-> at.window + 1, bar |-> 0, plan |-> "select"]
    /\ UNCHANGED <<cash, book, pending, eliminated, pnl, fallen, revived>>

Next == run \/ walk_forward \/ NextWindow

Spec == Init /\ [][Next]_vars

-----------------------------------------------------------------------------

\* The evaluation stays within its windows and the book is long only.
TypeOK ==
    /\ at.window \in 1..Windows /\ at.bar \in 0..WindowLen
    /\ book.qty \in Nat /\ cash \in Int /\ pnl \in Int
    /\ pending.kind \in {"none", "buy", "sell"}

\* The books balance: whenever the agent is flat its cash is the capital and the
\* results of its trades, fees and slippage included, and cash never goes below
\* zero though opens gap away from the close an order was sized at (run).
BooksBalance ==
    /\ cash >= 0
    /\ book.qty = 0 => cash = Capital + pnl

\* An agent whose equity fell below the elimination floor opens no position again.
EliminatedStopsTrading == ~revived
=============================================================================
