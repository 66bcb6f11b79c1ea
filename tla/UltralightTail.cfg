SPECIFICATION Spec
CONSTANTS
  NumPages = 20
  PageRange = 32
  SizeRange = 4096
  Messages <- MCMessages
  UserOps = {"read", "write"}
  InitialTags <- MCUsedTags
  BeyondImage <- MCBeyond
  MaxFaults = 0
INVARIANT ReadReturnsStored
