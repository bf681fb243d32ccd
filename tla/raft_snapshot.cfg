SPECIFICATION Spec
CONSTANTS
  n1 = n1
  n2 = n2
  n3 = n3
  v1 = v1
  Nil = Nil
  Server = {n1, n2, n3}
  Value = {v1}
  SnapshotAt = {1}
  MayCrash = {n1, n2, n3}
  MaxElections = 2
  MaxIndex = 2
  MaxInFlight = 1
SYMMETRY Symmetry
VIEW Relevant
CHECK_DEADLOCK FALSE
INVARIANTS
  TypeOK
  StateMachineSafety
  LogMatching
  Durable
  IndexesInRange
  MatchIndexSound
PROPERTIES
  CommittedStays
  VoteOnce
  ImplementsReplicatedLog
