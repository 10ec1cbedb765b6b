SPECIFICATION Spec
CONSTANTS
  Symbols = {btc}
  OrderIds = {o1, o2, o3}
  PosIds = {p1, p2}
  Tasks = {loop}
  Tickers = {}
  Lot = 2
  MaxHeld = 4
  Env = {"pending_cancel", "call_fails", "exit_raises", "late_reject", "partial_stop"}
  NoPos = NoPos
  NoOrder = NoOrder
  NoRow = NoRow
  NoCaller = NoCaller
  NoRecon = NoRecon
SYMMETRY Symmetry
INVARIANTS TypeOK SellsCovered NoNakedPosition
PROPERTY KeepsTheBook
