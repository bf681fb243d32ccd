SPECIFICATION FairSpec
CONSTANTS
  w1 = w1
  w2 = w2
  other = other
  Waiter = {w1, w2}
  Foreign = {other}
  SnapshotAt = {1}
  MaxIndex = 2
  MaxTerm = 4
  MaxCrashes = 1
CHECK_DEADLOCK FALSE
INVARIANTS
  TypeOK
  SliceInRange
  SendNeverBlocks
  OwnResponse
PROPERTIES
  ImplementsStateMachine
  CommittedIsApplied
  ExecuteReturns
