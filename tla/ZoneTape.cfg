CONSTANTS
  Timeframes = {1, 2}
  Shapes <- Minutes
  Places = 4
  MaxMinutes = 4
SPECIFICATION Spec
INVARIANTS OpenGapsFacePrice HeldBlocksContainPrice
PROPERTIES ZonesMoveForward ConfidenceIsEarned
