SPECIFICATION Spec
CONSTANTS
  Symbols = {btc, eth}
  Equities = {0, 95, 96, 100}
  MaxDrawdownPct = 5
  CooldownBars = 3
  CooldownBarsAfterTake = 1
  NoSession = NoSession
  NoSymbol = NoSymbol
  HaltFlattens = FALSE
  Env = {}
  MaxBar = 6
  MaxDay = 1
PROPERTY StopOutHonoured
