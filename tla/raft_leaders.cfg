SPECIFICATION Spec
CONSTANTS
  n1 = n1
  n2 = n2
  n3 = n3
  v1 = v1
  Nil = Nil
  Server = {n1, n2, n3}
  Value = {v1}
  SnapshotAt = {}
  MayCrash = {}
  MaxElections = 3
  MaxIndex = 2
  MaxInFlight = 1
SYMMETRY Symmetry
VIEW RelevantAndVotes
CHECK_DEADLOCK FALSE
INVARIANTS
  ElectionSafety
  StateMachineSafety
  LeaderCompleteness
