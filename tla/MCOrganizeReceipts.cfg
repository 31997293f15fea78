CONSTANTS
  Page = {g1, g2}
  Changes <- OneOfTwo
  MaxTime = 2
  MaxResends = 1
  MaxSetBacks = 1
  TTL = 1
  Ahead = 1
  Limit = 1
SPECIFICATION Spec
INVARIANTS TypeOK AppliedAtMostOnce MissingMeansNotApplied ConfirmedIsApplied LaterChangesWait RefusedHasNoEffect
CHECK_DEADLOCK FALSE
