----------------------------- MODULE RiskEngine -----------------------------
(***************************************************************************)
(* evaluate() of risk/engine.py, the veto every order passes, as pure      *)
(* operators over integers: money and quantities in whole units, a         *)
(* fraction of equity, a conviction or a multiplier in percent, a stop in  *)
(* halves of the ATR.  The division of a budget by a price rounds down, as *)
(* snap_to_increment does with it in the end.                              *)
(*                                                                         *)
(* A verdict is approved if every gate holds.  The order of the gates only *)
(* decides which reason a rejection reports, so they are conjuncts here.   *)
(* The loop always has a session when it asks (loop.py:118), so the        *)
(* session is not optional.                                                *)
(***************************************************************************)
EXTENDS SessionRules, FiniteSetsExt

CONSTANTS MaxPositionPct,       \* MAX_POSITION_PCT
          MaxExposurePct,       \* MAX_TOTAL_EXPOSURE_PCT
          MaxOpenPositions,     \* MAX_OPEN_POSITIONS
          RiskPct,              \* RISK_PER_TRADE
          MinConviction,        \* MIN_CONVICTION, in percent
          MinNotionalPerMille,  \* MIN_ORDER_NOTIONAL_PCT, in thousandths of equity
          KStop, KTake          \* K_STOP, K_TAKE, in halves of the ATR

\* The watchlist is a list.
ASSUME SymbolsAssumption == IsFiniteSet(Symbols)
ASSUME RiskLimitsAssumption ==
  /\ {MaxPositionPct, MaxExposurePct, RiskPct, KStop, KTake} \subseteq Nat \ {0}
  /\ {MaxOpenPositions, MinConviction, MinNotionalPerMille} \subseteq Nat

Action == {"BUY", "SELL", "HOLD"}
NewsRisk == {"LOW", "MEDIUM", "HIGH", "CRITICAL"}
Percent == 0..100
TradeProposal == [symbol: Symbols, action: Action, conviction: Percent,
                  size_multiplier: Percent, stop_atr: Nat]
FeatureBundle == [finite: BOOLEAN, close: Int, half_atr: Int]
AssetSpec == [tradable: BOOLEAN, increment: Nat, min_order_size: Nat]
\* A symbol that the dictionary positions does not hold has quantity 0 here.
Position == [qty: Nat, value: Int]
PortfolioState == [equity: Int, cash: Int, positions: [Symbols -> Position]]

holds(portfolio, symbol) == portfolio.positions[symbol].qty > 0
open_count(portfolio) == Cardinality({s \in Symbols : holds(portfolio, s)})
magnitude(value) == IF value < 0 THEN -value ELSE value
\* The sum of a number per symbol.
total(amounts) == FoldFunction(+, 0, amounts)
gross_exposure(portfolio) ==
  total([s \in Symbols |-> magnitude(portfolio.positions[s].value)])

\* Mutant: round up to the increment.
snap_up(qty, increment) ==
  IF increment <= 0 THEN qty ELSE ((qty + increment - 1) \div increment) * increment

\* Floor, never round.  An increment that is not positive leaves the quantity.
snap_to_increment(qty, increment) ==
  IF increment <= 0 THEN qty ELSE (qty \div increment) * increment

smaller(a, b) == IF a <= b THEN a ELSE b

-----------------------------------------------------------------------------
(* The gates of every proposal                                             *)

\* Entries only: an exit is always let through.
session_allows(p, session) ==
  p.action = "BUY" => ~session.halted /\ ~cooling_down(session, p.symbol)

inputs_valid(f, portfolio) ==
  f.finite /\ f.half_atr > 0 /\ f.close > 0 /\ portfolio.equity > 0

gates_pass(p, f, portfolio, asset, news_risk, session) ==
  /\ p.action # "HOLD"
  /\ session_allows(p, session)
  /\ asset.tradable
  /\ news_risk # "CRITICAL"
  /\ p.conviction >= MinConviction
  /\ inputs_valid(f, portfolio)

-----------------------------------------------------------------------------
(* SELL: close what is held, and never more                                *)

exit_qty(p, portfolio, asset) ==
  snap_to_increment(portfolio.positions[p.symbol].qty, asset.increment)

exit_allowed(p, portfolio, asset) ==
  holds(portfolio, p.symbol) /\ exit_qty(p, portfolio, asset) > 0

-----------------------------------------------------------------------------
(* BUY: a slot, a stop above zero, and the least of four quantities        *)

slot_free(p, portfolio) ==
  holds(portfolio, p.symbol) \/ open_count(portfolio) < MaxOpenPositions

stop_mult(p) == IF p.stop_atr > 0 THEN p.stop_atr ELSE KStop
stop_distance(p, f) == stop_mult(p) * f.half_atr
stop_px(p, f) == f.close - stop_distance(p, f)
take_px(p, f) == f.close + (KTake * stop_distance(p, f)) \div KStop

\* In ten-thousandths: equity * RISK_PER_TRADE * size_multiplier.
risk_budget(p, portfolio) == portfolio.equity * RiskPct * p.size_multiplier

\* In hundredths: what the symbol, and the whole book, may still grow by.
position_headroom(p, portfolio) ==
  MaxPositionPct * portfolio.equity - 100 * portfolio.positions[p.symbol].value
exposure_headroom(portfolio) ==
  MaxExposurePct * portfolio.equity - 100 * gross_exposure(portfolio)

sized_qty(p, f, portfolio) ==
  smaller(smaller(position_headroom(p, portfolio) \div (100 * f.close),
                  exposure_headroom(portfolio) \div (100 * f.close)),
          smaller(portfolio.cash \div f.close,
                  risk_budget(p, portfolio) \div (10000 * stop_distance(p, f))))
entry_qty(p, f, portfolio, asset) ==
  snap_to_increment(sized_qty(p, f, portfolio), asset.increment)

entry_allowed(p, f, portfolio, asset) ==
  LET qty == entry_qty(p, f, portfolio, asset)
  IN /\ slot_free(p, portfolio)
     /\ stop_px(p, f) > 0
     /\ risk_budget(p, portfolio) > 0
     /\ position_headroom(p, portfolio) > 0
     /\ exposure_headroom(portfolio) > 0
     /\ portfolio.cash > 0
     /\ qty > 0 /\ qty * f.close >= asset.min_order_size
     /\ 1000 * qty * f.close >= MinNotionalPerMille * portfolio.equity

-----------------------------------------------------------------------------

approved(p, f, portfolio, asset, news_risk, session) ==
  /\ gates_pass(p, f, portfolio, asset, news_risk, session)
  /\ \/ p.action = "SELL" /\ exit_allowed(p, portfolio, asset)
     \/ p.action = "BUY" /\ entry_allowed(p, f, portfolio, asset)

\* The quantity of an approved proposal.
approved_qty(p, f, portfolio, asset) ==
  IF p.action = "SELL" THEN exit_qty(p, portfolio, asset)
  ELSE entry_qty(p, f, portfolio, asset)

=============================================================================
