CONSTANTS
  Batch = {b1, b2}
  Photo = {1}
  Runner = {r1, r2}
  MaxVersion = 1
  MaxGen = 4
  MaxToken = 2
  MaxRevision = 2
  MaxFaults = 1
SPECIFICATION Spec
INVARIANTS BatchInv ResultMatchesPermit
PROPERTIES NewerIntentWins StoppedStaysStill
SYMMETRY Symmetry
CHECK_DEADLOCK FALSE
