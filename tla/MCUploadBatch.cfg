CONSTANTS
  Task = {t1, t2}
  Request = {q1, q2}
  Row = {r1}
  Limit = 2
  MaxDisturbances = 1
SPECIFICATION FairSpec
INVARIANTS UploadInv SavedIsStored RestingRowIsSettled
PROPERTIES OwnIsNotSkipped RowsComeToRest
CHECK_DEADLOCK FALSE
