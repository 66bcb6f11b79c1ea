SPECIFICATION FairSpec
CONSTANTS
  NumPages = 80
  PageRange = 80
  SizeRange = 4096
  Messages <- MCLongMessages
  UserOps = {"read", "write", "clean"}
  InitialTags <- MCLongTags
  BeyondImage <- MCBeyond
  MaxFaults = 0
INVARIANTS
  CountableReadFits
  WrittenPrefix
  ReadAllButTail
PROPERTIES
  UserAreaOnly
  OperationReturns
