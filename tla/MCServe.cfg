CONSTANTS
  c1 = c1
  c2 = c2
  Conn = {c1, c2}
  Byte = {"a", "b", "L", "C"}
  Lead = {"L"}
  Continue = {"C"}
  Piece <- MCPiece
  Requests <- MCRequests
  Buffer = 1
SPECIFICATION FairSpec
CHECK_DEADLOCK FALSE
INVARIANTS
  TypeOK
  ResponseWhole
PROPERTIES
  StreamFaithful
  Answered
