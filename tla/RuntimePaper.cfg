CONSTANTS
  i1 = i1
  i2 = i2
  btc = btc
  Intents = {i1, i2}
  Symbols = {btc}
  SymbolOf <- OneSymbol
  OrderQty = 1
  Prices = {100}
  Mode = "PAPER"
  Networked = FALSE
  NamesParent = TRUE
  NoIntent = NoIntent
  Admissible = {i1, i2}
  QueueSize = 1
SPECIFICATION FairSpec
INVARIANTS TypeOK ReadyMeansProtected EachOnce OutcomesAreTrue
PROPERTIES QueuedIsSettled StopCompletes
CHECK_DEADLOCK FALSE
