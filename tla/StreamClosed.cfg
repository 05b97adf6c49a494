SPECIFICATION FairSpec
CONSTANTS
  Inds = {x1}
  Refused = {}
  Pumps = {p1}
  Readers = {r1}
  bufferMaxSize = 2
  NoInd = NoInd
PROPERTIES
  CloseEndsRecv
