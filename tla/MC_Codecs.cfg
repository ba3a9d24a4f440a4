CONSTANTS
  Texts <- MC_Texts
  CodePoints <- MC_CodePoints
  Data <- MC_Data
  Foreign <- MC_Foreign
  SizeMod = 512
SPECIFICATION CodecsSpec
INVARIANTS ScanTypeOK ValidIsEncoded EncodedIsValid EncodeFits DecodesBack DecodersAgree
CHECK_DEADLOCK FALSE
