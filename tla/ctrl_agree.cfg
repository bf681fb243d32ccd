SPECIFICATION Spec
CONSTANTS
  r1 = r1
  r2 = r2
  c1 = c1
  c2 = c2
  Nil = Nil
  Replica = {r1, r2}
  Clerk = {c1}
  NShards = 4
  Request <- Requests
  MaxCommands = 1
  MaxLog = 2
INVARIANT ReplicasAgree
CHECK_DEADLOCK FALSE
