CONSTANTS
  Texts <- AllTexts
  MaxLen = 19
SPECIFICATION Spec
INVARIANT NoFault
INVARIANT NothingLost
INVARIANT AcceptsJson
INVARIANT PrintsWhatWasRead
PROPERTY Returns
CHECK_DEADLOCK FALSE
