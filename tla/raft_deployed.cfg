SPECIFICATION DeployedSpec
CONSTANTS
  n1 = n1
  n2 = n2
  n3 = n3
  v1 = v1
  Nil = Nil
  Server = {n1, n2, n3}
  Value = {v1}
  SnapshotAt = {}
  MayCrash = {}
  MaxElections = 2
  MaxIndex = 0
  MaxInFlight = 0
SYMMETRY Symmetry
CHECK_DEADLOCK FALSE
INVARIANT OneLeaderPerTerm
