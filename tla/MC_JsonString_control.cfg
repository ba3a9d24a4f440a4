CONSTANTS
  Pieces <- AllPieces
  Literals <- SeparatorLiterals
SPECIFICATION Spec
INVARIANT NoControlWritten
CHECK_DEADLOCK FALSE
