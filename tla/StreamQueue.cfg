SPECIFICATION FairSpec
CONSTANTS
  Inds = {x1, x2, x3, x4, x5}
  Refused = {x1, x2, x3, x4}
  Pumps = {p1, p2}
  Readers = {r1, r2}
  bufferMaxSize = 2
  NoInd = NoInd
INVARIANTS
  TypeOK
  NoLostWakeup
  GracefulClose
PROPERTIES
  ImplementsMailbox
  Delivered
