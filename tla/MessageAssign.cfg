SPECIFICATION Spec
CONSTANTS
  LengthBase = 4
  Slots = {"a", "b"}
  MAX_NDEF_RECORDS = 2
  NewRecords <- MCFewRecords
  ForeignData <- MCForeign
  Meaning <- MCMeaning
  Methods = {"construct", "add", "assign"}
  IntLimit = 128
  HeapSize = 4
PROPERTY AssignCopies
