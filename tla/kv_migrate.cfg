SPECIFICATION MCSpec
CONSTANTS
  a1 = a1
  a2 = a2
  b1 = b1
  c1 = c1
  x = x
  y = y
  z = z
  Nil = Nil
  Replica = {a1, a2, b1}
  Group = {1, 2}
  group <- groups
  Shard = {x, y, z}
  Configs <- Exchange
  Clerk = {}
  Request <- Appends
  MaxCommands = 0
  MaxRepeats = 0
CHECK_DEADLOCK FALSE
INVARIANTS
  ReplicasAgree
PROPERTIES
  MigrationCompletes
