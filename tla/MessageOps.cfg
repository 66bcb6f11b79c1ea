SPECIFICATION FairSpec
CONSTANTS
  LengthBase = 4
  Slots = {"a", "b"}
  MAX_NDEF_RECORDS = 2
  NewRecords <- MCRecords
  ForeignData <- MCForeign
  Meaning <- MCMeaning
  Methods = {"construct", "add", "copy", "assign", "encode", "decode", "destroy"}
  IntLimit = 128
  HeapSize = 4
INVARIANTS
  TypeOK
  Ownership
  SizeIsExact
  StaysInside
PROPERTIES
  RoundTrip
  DecodeEnds
