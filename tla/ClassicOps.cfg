SPECIFICATION FairSpec
CONSTANTS
  LongStart = 16
  BlockRange = 64
  NumBlocks = 16
  FormatSectors = 4
  Messages <- MCMessages
  ReadKeys = {"ndef", "other"}
  UserOps = {"read", "write", "format", "clean"}
  InitialTags <- MCTags
  BeyondBlock <- MCBeyond
  MaxFaults = 2
INVARIANTS
  TypeOK
  ReadPrefix
  FormatOk
PROPERTIES
  NeverLosesCleanKey
  ImplementsNdefStore
  OperationReturns
  RepairConverges
  WriteConverges
