SPECIFICATION Spec
CONSTANTS
  btc = btc
  eth = eth
  Symbols <- MCSymbols
  Watchlists <- MCWatchlists
  Runs = {r1, r2}
  MaxBars = 2
  TimeBudget = TRUE
  FeedBars = 1
  MaxEdits = 2
  Env = {}
  NoSymbol = NoSymbol
CHECK_DEADLOCK FALSE
INVARIANT OwnBars
