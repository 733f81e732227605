CONSTANTS
  Timeframes = {1}
  Shapes <- Minutes
  Places = 5
  MaxMinutes = 6
  SwingStrength = 1
SPECIFICATION Spec
INVARIANTS BreaksAreOfKnownSwings NoSideIsFavoured
PROPERTIES TrendsAreEarned SweepsStand
