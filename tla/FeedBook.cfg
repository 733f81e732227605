CONSTANTS
  Prices = {1, 2, 3}
  TopPrice = 3
  Quantities = {0, 1}
  MaxUpdates = 3
  NoBook = NoBook
SPECIFICATION FairSpec
INVARIANTS TypeOK UsableIsVenue NeverOlder OneVerdict
PROPERTIES ImplementsReplica Heals
