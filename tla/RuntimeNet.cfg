CONSTANTS
  i1 = i1
  i2 = i2
  Intents = {i1, i2}
  Symbols = {i1, i2}
  SymbolOf <- OwnSymbol
  OrderQty = 1
  Prices = {100}
  Mode = "PAPER"
  Networked = TRUE
  NamesParent = TRUE
  NoIntent = NoIntent
  Admissible = {i1, i2}
  QueueSize = 1
SPECIFICATION Spec
SYMMETRY Renamings
INVARIANTS AtMostOneSend QueuedIsHeld CachedGateSound
PROPERTIES SendsAreClear AbortedStartSendsNothing
CHECK_DEADLOCK FALSE
