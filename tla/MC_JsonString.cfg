CONSTANTS
  Pieces <- MCPieces
  Literals <- MCLiterals
SPECIFICATION Spec
INVARIANTS TypeOK ParsesRight RoundTrip AssertsHold
PROPERTY WritesFit
CHECK_DEADLOCK FALSE
