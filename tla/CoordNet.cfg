CONSTANTS
  i1 = i1
  btc = btc
  Intents = {i1}
  Symbols = {btc}
  SymbolOf <- OneSymbol
  OrderQty = 2
  Prices = {100, 101}
  Mode = "PAPER"
  Networked = TRUE
  NamesParent = TRUE
  NoIntent = NoIntent
  Admissible = {i1}
SPECIFICATION Spec
INVARIANTS NoPhantomFills LegsWithinFills ExchangeKnownDurably
PROPERTIES SubmissionReopensProtected ImplementsContract
