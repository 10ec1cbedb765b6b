SPECIFICATION FairSpec
CONSTANTS
  PanelAgents = {"regime", "scout"}
  CachedAgents = {"regime"}
  BarAgents <- MCBarAgents
  Assets = {btc}
  Watchlists <- MCWatchlists
  ShownProposals = 1
  TTL <- MCTTL
  MaxWrites = 4
  MaxProcesses = 2
  MaxEdits = 2
  Nothing = Nothing
INVARIANTS TypeOK NoStaleCards TapeIsBounded NothingMissed
PROPERTY StreamCatchesUp
