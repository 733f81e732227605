CONSTANTS
  i1 = i1
  i2 = i2
  btc = btc
  Intents = {i1, i2}
  Symbols = {btc}
  SymbolOf <- OneSymbol
  OrderQty = 1
  Prices = {100}
  Mode = "TESTNET"
  Networked = TRUE
  NamesParent = FALSE
  NoIntent = NoIntent
  Admissible = {i1, i2}
SPECIFICATION Spec
SYMMETRY Renamings
INVARIANTS AtMostOneSend
