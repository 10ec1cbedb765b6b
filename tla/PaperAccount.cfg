SPECIFICATION Spec
CONSTANTS
  Symbols = {btc, eth, sol}
  Equities = {}
  MaxDrawdownPct = 5
  CooldownBars = 2
  CooldownBarsAfterTake = 1
  MaxPositionPct = 60
  MaxExposurePct = 100
  MaxOpenPositions = 2
  RiskPct = 1
  MinConviction = 60
  MinNotionalPerMille = 5
  KStop = 4
  KTake = 6
  Prices = {460, 530}
  HalfAtrs = {2, 15}
  Multipliers = {100}
  Asset <- MCAsset
  InitialCash = 1000000
  FeeBps = 10
  MaxBars = 4
  Env = {"bars_fail"}
  NoLot = NoLot
SYMMETRY Symmetry
CHECK_DEADLOCK FALSE
INVARIANTS TypeOK CashNeverNegative HaltIsEarned
PROPERTY CapsRespected
