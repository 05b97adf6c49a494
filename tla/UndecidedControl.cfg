SPECIFICATION StartedSpec
CONSTANTS
  c1 = c1  c2 = c2  n1 = n1  n2 = n2  Ctl = Ctl  None = None
  UEs = {u1}
  Cells = {a, b}
  Nodes = {n1}
  Calls = {i1, i2}
  Conns = {c1}
  NodeOf <- OneConn
  Mixed = {}
  ControlOutcomes = {"acked"}
  MaxCrashes = 0
INVARIANTS
  ControlOnlyApproved
