CONSTANTS
  Caller = {c1, c2, c3}
  Key = {k1, k2}
  Object = {o1, o2}
  NoKey = NoKey
  NoObject = NoObject
  Workers = {1, 2}
SPECIFICATION FairPipeSpec
INVARIANTS MutualExclusion MapHoldsKeysInUse LockInv SlotInv
PROPERTIES ImplementsKeyedMutex EveryCallerFinishes
