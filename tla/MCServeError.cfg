CONSTANTS
  c1 = c1
  c2 = c2
  Conn = {c1}
  Byte = {"a", "b", "L", "C"}
  Lead = {"L"}
  Continue = {"C"}
  Piece <- MCPiece
  Requests <- MCPlainRequests
  Buffer = 1
SPECIFICATION Spec
CHECK_DEADLOCK FALSE
INVARIANT OneHead
