SPECIFICATION Spec
CONSTANTS
  a1 = a1
  a2 = a2
  b1 = b1
  c1 = c1
  x = x
  y = y
  z = z
  Nil = Nil
  Replica = {a1, b1}
  Group = {1, 2}
  group <- groups
  Shard = {x}
  Configs <- ThereAndBack
  Clerk = {c1}
  Request <- Appends
  MaxCommands = 1
  MaxRepeats = 1
VIEW Relevant
CHECK_DEADLOCK FALSE
INVARIANTS
  TypeOK
  OneOwner
  ShardHistory
  ExactlyOnce
PROPERTIES
  ConfigurationWaits
