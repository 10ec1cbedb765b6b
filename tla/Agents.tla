------------------------------- MODULE Agents -------------------------------
(***************************************************************************)
(* The part of agents/ that is arithmetic and not a language model: what   *)
(* each agent's stub answers when the model does not (offline, failed,     *)
(* timed out), and the arbiter that is the portfolio manager's stub.       *)
(* Scores, convictions, sentiments and multipliers are in hundredths.      *)
(* Rationales, price levels and the labels that only prompts read are left *)
(* out.                                                                    *)
(***************************************************************************)
EXTENDS RiskEngine, Sequences

CONSTANTS MaxCandidates,     \* MAX_CANDIDATES
          SentimentWeight,   \* SENTIMENT_WEIGHT, in percent
          NoSymbol           \* "-", the symbol of a proposal about nothing

ASSUME WeightAssumption == SentimentWeight \in Nat /\ MaxCandidates \in Nat

\* What the stubs read of a FeatureBundle.
Chart == [tradeable: BOOLEAN, trend_score: Int, wild: BOOLEAN]   \* wild: atr_pct > 0.03
\* The outputs of the specialists, and what the portfolio manager is given.
TechnicalOutput == [direction: Action, conviction: Percent]
NewsOutput == [sentiment: Int, news_risk: NewsRisk]
RiskOutput == [size_multiplier: Percent, suggested_stop_atr: Nat]
SymbolOpinions == [symbol: Symbols, technical: TechnicalOutput, news: NewsOutput, risk: RiskOutput]

HOLD_about(symbol, conviction) ==
  [symbol |-> symbol, action |-> "HOLD", conviction |-> conviction,
   size_multiplier |-> 100, stop_atr |-> KStop]

-----------------------------------------------------------------------------
(* Stubs                                                                   *)

\* The first MaxCandidates of a set of places, in an order of them: the k-th
\* has k - 1 before it.
first_few(places, order) ==
  [k \in 1..smaller(Cardinality(places), MaxCandidates) |->
     CHOOSE n \in places : Cardinality({m \in places : <<m, n>> \in order}) = k - 1]

\* rank_symbols(): the tradeable ones by descending score, the watchlist's
\* order among equals (sorted() is stable), the first few.
Outranks(charts, watchlist, i, j) ==
  LET score(n) == charts[watchlist[n]].trend_score
  IN score(i) > score(j) \/ (score(i) = score(j) /\ i < j)
rank_symbols(charts, watchlist) ==
  LET tradeable == {n \in DOMAIN watchlist : charts[watchlist[n]].tradeable}
      shortlist == first_few(tradeable, {e \in tradeable \X tradeable :
                                           Outranks(charts, watchlist, e[1], e[2])})
  IN [k \in DOMAIN shortlist |-> watchlist[shortlist[k]]]

technical_stub(chart, has_position) ==
  LET score == chart.trend_score
      conviction == smaller(50 + magnitude(score) \div 4, 80)
  IN IF score > 50 THEN [direction |-> "BUY", conviction |-> conviction]
     ELSE IF score < -50 /\ has_position THEN [direction |-> "SELL", conviction |-> conviction]
     ELSE [direction |-> "HOLD", conviction |-> 50]

\* Never CRITICAL: no offline heuristic vetoes.
news_stub(sentiment) ==
  [sentiment |-> sentiment,
   news_risk |-> IF sentiment <= -60 THEN "HIGH" ELSE IF sentiment <= -25 THEN "MEDIUM" ELSE "LOW"]

risk_stub(chart, news, portfolio) ==
  LET halved(x, cut) == IF cut THEN x \div 2 ELSE x
      near_cap == 1000 * gross_exposure(portfolio) > 8 * MaxExposurePct * portfolio.equity
  IN [size_multiplier |-> halved(halved(halved(100, chart.wild),
                                        news.news_risk \in {"HIGH", "CRITICAL"}), near_cap),
      suggested_stop_atr |-> IF chart.wild THEN 5 ELSE 4]

-----------------------------------------------------------------------------
(* arbiter.py, over opinions: records of symbol, technical, news and risk  *)

clamped(x) == IF x < 0 THEN 0 ELSE smaller(x, 10000)

\* In millionths: conviction nudged by sentiment, times the multiplier.
blended(op, sign) ==
  clamped(100 * op.technical.conviction + sign * SentimentWeight * op.news.sentiment)
    * op.risk.size_multiplier
score_opinion(op) ==
  IF op.technical.direction = "BUY" THEN blended(op, 1)
  ELSE IF op.technical.direction = "SELL" THEN blended(op, -1)
  ELSE 0
rounded(score) == (score + 5000) \div 10000

\* A BUY in a position that is within half a percent of its cap would only
\* collect a rejection.
has_headroom(op, portfolio) ==
  \/ op.technical.direction # "BUY"
  \/ ~holds(portfolio, op.symbol) \/ portfolio.equity <= 0
  \/ 1000 * portfolio.positions[op.symbol].value
       < (10 * MaxPositionPct - 5) * portfolio.equity

\* sorted(..., reverse=True)[0] of the opinions that S numbers: the first of
\* those with the highest score.
leader(opinions, S) ==
  opinions[CHOOSE n \in S :
             \A m \in S : LET a == score_opinion(opinions[n]) b == score_opinion(opinions[m])
                         IN a > b \/ (a = b /\ n <= m)]

proposal_of(op) ==
  [symbol |-> op.symbol, action |-> op.technical.direction,
   conviction |-> rounded(score_opinion(op)),
   size_multiplier |-> op.risk.size_multiplier,
   stop_atr |-> op.risk.suggested_stop_atr]

\* Mutant: an arbiter that looks neither at headroom nor at news.
arbitrate_by_score(opinions, portfolio) ==
  LET best == leader(opinions, DOMAIN opinions)
  IN IF opinions = <<>> THEN HOLD_about(NoSymbol, 0)
     ELSE IF best.technical.direction = "HOLD" \/ score_opinion(best) < 10000 * MinConviction
          THEN HOLD_about(best.symbol, 0)
     ELSE proposal_of(best)

deterministic_arbitrate(opinions, portfolio) ==
  LET actionable == {n \in DOMAIN opinions : has_headroom(opinions[n], portfolio)}
      best == leader(opinions, actionable)
  IN IF opinions = <<>> THEN HOLD_about(NoSymbol, 0)
     ELSE IF actionable = {} THEN HOLD_about(opinions[1].symbol, 0)
     ELSE IF best.technical.direction = "HOLD" \/ score_opinion(best) < 10000 * MinConviction
          THEN HOLD_about(best.symbol, rounded(score_opinion(best)))
     ELSE IF best.news.news_risk = "CRITICAL" THEN HOLD_about(best.symbol, 0)
     ELSE proposal_of(best)

=============================================================================
