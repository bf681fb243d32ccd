SPECIFICATION Spec
CONSTANTS
  r1 = r1
  r2 = r2
  c1 = c1
  c2 = c2
  Nil = Nil
  Replica = {r1}
  Clerk = {c1}
  NShards = 4
  Request <- JoinAndLeave
  MaxCommands = 2
  MaxLog = 2
PROPERTY LeaveServesOrphans
CHECK_DEADLOCK FALSE
