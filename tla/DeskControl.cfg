SPECIFICATION FairSpec
CONSTANTS
  btc = btc
  eth = eth
  Symbols <- MCSymbols
  Watchlists <- MCWatchlists
  Runs = {r1, r2}
  MaxBars = 2
  TimeBudget = TRUE
  FeedBars = 1
  MaxEdits = 2
  Env = {"startup_fails", "feed_outage"}
  NoSymbol = NoSymbol
CHECK_DEADLOCK FALSE
INVARIANTS TypeOK OneDriver RunningMeansDriven PauseHolds FullAllowance ClosedMeansQuiet
PROPERTIES TrackedIsTicked TimeIsUp
