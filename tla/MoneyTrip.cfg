SPECIFICATION Spec
CONSTANTS
  P = 16
  Emin = 25
  Emax = 18
  W = 18
  MinMinor = 100
  MaxMinor = 1000
  Texts <- MCTexts
CHECK_DEADLOCK FALSE
INVARIANTS ShownAsSent RoundsToNearest PrintedParsesBack
