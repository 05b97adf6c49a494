SPECIFICATION PayloadSpec
CONSTANTS
  Cells = {"a", "b"}
  OtherIDs = {7, 8}
  MaxItems = 2
  MaxDepth = 4
  Requests <- PlainRequests
  None = None
  Base = 2
  WordOctets = 8
  Power <- PowersOfTwo
  Widths <- GuamiWidths
  NgapIDs = {1, 2}
INVARIANTS
  AnswerIsNRCell
CHECK_DEADLOCK FALSE
