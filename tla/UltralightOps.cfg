SPECIFICATION FairSpec
CONSTANTS
  NumPages = 20
  PageRange = 32
  SizeRange = 4096
  Messages <- MCMessages
  UserOps = {"read", "write", "clean"}
  InitialTags <- MCTags
  BeyondImage <- MCBeyond
  MaxFaults = 1
INVARIANTS
  TypeOK
  ReadAllButTail
  TooLongRefused
PROPERTIES
  UserAreaOnly
  ImplementsNdefStore
  CleanConverges
