CONSTANTS
  a = a
  b = b
  NUL = NUL
  Junk = Junk
  NULL = NULL
  NoString = NoString
  Blocks = {b1, b2}
  Chars <- MC_Chars
  Inputs <- MC_Inputs
  InitSizes = {1, 3}
  Chunk = 2
  SIZE_MAX = 15
  AllocMayFail = FALSE
  MaxText = 4
SPECIFICATION Spec
PROPERTY TextKept
