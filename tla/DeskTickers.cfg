SPECIFICATION Spec
CONSTANTS
  Symbols = {btc}
  OrderIds = {o1, o2, o3}
  PosIds = {p1, p2, p3}
  Tasks = {loop}
  Tickers = {trade}
  Lot = 1
  MaxHeld = 1
  Env = {"exit_raises", "async_fill"}
  NoPos = NoPos
  NoOrder = NoOrder
  NoRow = NoRow
  NoCaller = NoCaller
  NoRecon = NoRecon
SYMMETRY Symmetry
INVARIANT CloseHasOwner
