CONSTANTS
  Batch = {b1}
  Photo = {1, 2}
  Runner = {r1, r2}
  MaxVersion = 1
  MaxGen = 2
  MaxToken = 1
  MaxRevision = 2
  MaxFaults = 1
SPECIFICATION FairSpec
PROPERTIES RunningEnds
CHECK_DEADLOCK FALSE
