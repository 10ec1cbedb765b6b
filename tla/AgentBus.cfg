SPECIFICATION FairSpec
CONSTANTS
  btc = btc
  eth = eth
  Symbols <- MCSymbols
  Equities = {}
  MaxDrawdownPct = 5
  CooldownBars = 6
  CooldownBarsAfterTake = 2
  MaxPositionPct = 10
  MaxExposurePct = 50
  MaxOpenPositions = 3
  RiskPct = 1
  MinConviction = 60
  MinNotionalPerMille = 5
  KStop = 4
  KTake = 6
  MaxCandidates = 3
  SentimentWeight = 15
  NoSymbol = NoSymbol
  Watchlist <- MCWatchlist
  NewsTTL = 0
  RegimeTTL = 1
  EnableDebate = TRUE
  DebateRounds = 2
  ScoutAnswers <- MCScoutAnswers
  TechnicalAnswers <- MCTechnicalAnswers
  NewsAnswers <- MCNewsAnswers
  RiskAnswers <- MCRiskAnswers
  PMAnswers <- MCPMAnswers
  Sentiments = {0}
  Markets <- MCMarkets
  Books <- MCBooks
  Nothing = Nothing
INVARIANTS TypeOK EveryCallIsJournaled FallbackStands
PROPERTIES CriticalHolds BarDecides
