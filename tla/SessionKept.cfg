SPECIFICATION MCSpec
CONSTANTS
  Symbols = {btc, eth}
  Equities = {0, 95, 96, 100}
  MaxDrawdownPct = 5
  CooldownBars = 3
  CooldownBarsAfterTake = 1
  NoSession = NoSession
  NoSymbol = NoSymbol
  HaltFlattens = FALSE
  Env = {"crash", "calls_fail"}
  MaxBar = 6
  MaxDay = 1
SYMMETRY Symmetry
INVARIANTS TypeOK NothingToLose
PROPERTIES NoEntryAfterBreach CooldownHonoured HaltIsSticky
