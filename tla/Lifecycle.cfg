SPECIFICATION LifecycleFairSpec
CONSTANTS
  c1 = c1  c2 = c2  n1 = n1  n2 = n2  h1 = h1  h2 = h2  None = None
  Nodes = {n1, n2}
  Channels = {h1, h2}
  MaxStreams = 2
  Conns = {c1, c2}
  NodeOf <- TwoEnds
  ChannelOf <- TwoChannels
  NodeInfos <- Various
  Reads = {TRUE, FALSE}
  Mixed = {c1}
  MaxChanges = 1
INVARIANTS
  LifecycleTypeOK
  FirstErrorSurvived
  FedByOwnNode
PROPERTIES
  EveryMonitorFed
  ConnectionHandled
  EndComesToRest
