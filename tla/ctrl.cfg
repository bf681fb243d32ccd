SPECIFICATION Spec
CONSTANTS
  r1 = r1
  r2 = r2
  c1 = c1
  c2 = c2
  Nil = Nil
  Replica = {r1}
  Clerk = {c1}
  NShards = 4
  Request <- Requests
  MaxCommands = 3
  MaxLog = 4
INVARIANTS
  TypeOK
  EffectOnce
  AnsweredTakesEffect
  ShardsPartitioned
PROPERTIES
  JoinBalances
  LeaveMovesOrphans
  LoopsTerminate
CHECK_DEADLOCK FALSE
