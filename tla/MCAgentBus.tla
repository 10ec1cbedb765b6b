----------------------------- MODULE MCAgentBus -----------------------------
(* The instance of AgentBus that TLC checks: two symbols, one of which may *)
(* be held at a full or at a small size.                                   *)
EXTENDS AgentBus

CONSTANTS btc, eth

MCSymbols == {btc, eth}
MCWatchlist == <<btc, eth>>
MCScoutAnswers == {<<>>, <<eth>>, <<btc, eth>>}
MCTechnicalAnswers == {[direction |-> "HOLD", conviction |-> 50]}
MCNewsAnswers == {[sentiment |-> -80, news_risk |-> "CRITICAL"]}
MCRiskAnswers == {[size_multiplier |-> 100, suggested_stop_atr |-> 4]}
MCPMAnswers == {[action |-> "BUY", conviction |-> 80], [action |-> "SELL", conviction |-> 60]}
chart(tradeable, score) == [tradeable |-> tradeable, trend_score |-> score, wild |-> FALSE]
MCMarkets ==
  {[headlines |-> TRUE,
    charts |-> [s \in MCSymbols |-> chart(TRUE, IF s = btc THEN 90 ELSE 40)]],
   [headlines |-> FALSE,
    charts |-> [s \in MCSymbols |-> chart(s = eth, 60)]]}
Holding(qty) ==
  [equity |-> 1000000, cash |-> 1000000 - 500 * qty,
   positions |-> [s \in MCSymbols |-> IF s = btc THEN [qty |-> qty, value |-> 500 * qty]
                                      ELSE [qty |-> 0, value |-> 0]]]
MCBooks == {Holding(200)}
=============================================================================
