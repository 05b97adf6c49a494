SPECIFICATION NorthSpec
CONSTANTS
  c1 = c1  c2 = c2  n1 = n1  n2 = n2  u1 = u1  u2 = u2  Ctl = Ctl  None = None
  UEs = {u1, u2}
  Cells = {a, b}
  Nodes = {n1}
  Calls = {i1, i2}
  Conns = {c1}
  NodeOf <- OneConn
  Mixed = {c1}
  ControlOutcomes = {"acked"}
  MaxCrashes = 1
  UeReqs = {g}
  CellReqs = {h}
  NgapIDs = {1}
  NgapOf <- SameNgap
INVARIANTS
  NorthboundTypeOK
  AnswersAreSnapshots
  ReportedDoneAttempted
SYMMETRY Symmetry
