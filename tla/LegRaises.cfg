CONSTANTS
  i1 = i1
  btc = btc
  Intents = {i1}
  Symbols = {btc}
  SymbolOf <- OneSymbol
  OrderQty = 2
  Prices = {100}
  Mode = "TESTNET"
  Networked = TRUE
  NamesParent = FALSE
  NoIntent = NoIntent
  Admissible = {i1}
SPECIFICATION Spec
PROPERTIES ConfirmedLegsCount
