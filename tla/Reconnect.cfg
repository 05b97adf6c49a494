SPECIFICATION NorthFairSpec
CONSTANTS
  c1 = c1  c2 = c2  n1 = n1  n2 = n2  u1 = u1  u2 = u2  Ctl = Ctl  None = None
  UEs = {u1}
  Cells = {a, b}
  Nodes = {n1}
  Calls = {i1, i2}
  Conns = {c1, c2}
  NodeOf <- Reconnected
  Mixed = {}
  ControlOutcomes = {"acked"}
  MaxCrashes = 0
  UeReqs = {}
  CellReqs = {h}
  NgapIDs = {1}
  NgapOf <- OneNgap
INVARIANTS
  NoForgottenRequest
  NoControlStorm
PROPERTIES
  EveryCallAnswered
  SettledUnderLoad
