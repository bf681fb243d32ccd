SPECIFICATION MCSpec
CONSTANTS
  n1 = n1
  n2 = n2
  v1 = v1
  Nil = Nil
  EmptyEntry = EmptyEntry
  Server = {n1, n2}
  Value = {v1, EmptyEntry}
  SnapshotAt = {2}
  MayCrash = {}
  MaxElections = 2
  MaxIndex = 4
  MaxCommands = 2
  MaxInFlight = 2
CHECK_DEADLOCK FALSE
INVARIANTS
  MatchIndexSound
  IndexesInRange
PROPERTIES
  PeersCatchUp
  EntriesCommit
