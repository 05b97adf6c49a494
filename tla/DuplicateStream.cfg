SPECIFICATION BrokerSpec
CONSTANTS
  c1 = c1  c2 = c2  c3 = c3  c4 = c4  h1 = h1  h2 = h2  None = None
  Conns = {c1, c2, c3, c4}
  Channels = {h1, h2}
  ChannelOf <- Shared
  MaxStreams = 4
INVARIANTS
  OneStreamPerChannel
