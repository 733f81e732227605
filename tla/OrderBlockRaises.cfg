CONSTANTS
  Price = 1000
  RiskUsd = 100
  MinimumConfidence = 75
  MaxPositions = 2
  DrawdownKill = 3
  HighVolatility = 10
  EntryCost = 1
  GateLedger = TRUE
  Readings <- Turning
  Quiet <- QuietEvidence
  Rare <- Small
  Positions = {0, 2}
  Drawdowns = {0, 3}
SPECIFICATION Spec
INVARIANTS EveryContextIsAnswered
