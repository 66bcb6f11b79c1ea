SPECIFICATION Spec
CONSTANTS
  NumPages = 80
  PageRange = 80
  SizeRange = 4096
  Messages <- MCLongMessages
  UserOps = {"read"}
  InitialTags <- MCClaimTags
  BeyondImage <- MCBeyond
  MaxFaults = 0
INVARIANT ReadFitsBuffer
