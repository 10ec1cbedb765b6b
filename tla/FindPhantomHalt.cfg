SPECIFICATION Spec
CONSTANTS
  Symbols = {btc, eth}
  Equities = {}
  MaxDrawdownPct = 5
  CooldownBars = 2
  CooldownBarsAfterTake = 1
  MaxPositionPct = 10
  MaxExposurePct = 50
  MaxOpenPositions = 3
  RiskPct = 1
  MinConviction = 60
  MinNotionalPerMille = 5
  KStop = 4
  KTake = 6
  Prices = {460, 500, 530}
  HalfAtrs = {2, 15}
  Multipliers = {25, 100}
  Asset <- MCAsset
  InitialCash = 1000000
  FeeBps = 10
  MaxBars = 4
  Env = {"bars_fail", "add_on"}
  NoLot = NoLot
SYMMETRY Symmetry
CHECK_DEADLOCK FALSE
INVARIANT HaltIsEarned
