SPECIFICATION Spec
CONSTANTS
  Symbols = {btc}
  OrderIds = {o1, o2, o3, o4}
  PosIds = {p1, p2}
  Tasks = {loop}
  Tickers = {}
  Lot = 1
  MaxHeld = 1
  Env = {"crash", "lost_reply", "list_fails"}
  NoPos = NoPos
  NoOrder = NoOrder
  NoRow = NoRow
  NoCaller = NoCaller
  NoRecon = NoRecon
SYMMETRY Symmetry
INVARIANTS CancelBeforeClose JournalCoversTracked
PROPERTY RestartRestoresProtection
