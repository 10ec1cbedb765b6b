SPECIFICATION FairSpec
CONSTANTS
  Symbols = {btc}
  OrderIds = {o1, o2, o3}
  PosIds = {p1, p2}
  Tasks = {loop}
  Tickers = {}
  Lot = 1
  MaxHeld = 1
  Env = {"pending_cancel", "call_fails"}
  NoPos = NoPos
  NoOrder = NoOrder
  NoRow = NoRow
  NoCaller = NoCaller
  NoRecon = NoRecon
PROPERTIES StopPriceFlattens TakePriceFlattens
