SPECIFICATION FairSpec
CONSTANTS
  c1 = c1  c2 = c2  n1 = n1  n2 = n2  Ctl = Ctl  None = None
  UEs = {u1}
  Cells = {a, b}
  Nodes = {n1, n2}
  Calls = {i1, i2}
  Conns = {c1, c2}
  NodeOf <- TwoNodes
  Mixed = {c1}
  ControlOutcomes = {"acked", "failed"}
  MaxCrashes = 1
INVARIANTS
  TypeOK
  NoForgottenRequest
  ControlAnswersIndication
  DoneMeansAttempted
PROPERTIES
  KeepsContract
  RequestsSettle
