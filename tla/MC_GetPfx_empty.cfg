CONSTANTS
  a = a
  b = b
  NULL = NULL
  NUL = NUL
  Junk = Junk
  Blocks = {b1}
  Chunk = 2
  SIZE_MAX = 15
  AllocMayFail = TRUE
  Payload = {a, b}
  OpenToken = OpenToken
  OpenValue = OpenValue
  Close = Close
  Number = Number
  Bearer = Bearer
  MetadataTrue = MetadataTrue
  AcceptJson = AcceptJson
  Diagnostic = Diagnostic
  Bodies <- MC_Bodies
  BufSize = 3
  HdrSize = 2
  MaxBody = 5
SPECIFICATION Spec
CHECK_DEADLOCK FALSE
INVARIANT PrintsOnlySecret
