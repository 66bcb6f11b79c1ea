SPECIFICATION Spec
CONSTANTS
  LongStart = 16
  BlockRange = 64
  NumBlocks = 64
  FormatSectors = 4
  Messages <- MCLongMessages
  ReadKeys = {"ndef"}
  UserOps = {"read", "write"}
  InitialTags <- MCEdgeTags
  BeyondBlock <- MCBeyond
  MaxFaults = 0
INVARIANTS
  AuthCovers
  DataCommandsSpareTrailers
  WrittenPrefix
  ReadRecognises
  WriteFailsOnlyWhenFull
PROPERTIES
  WriteSparesDirectory
  ImplementsNdefStore
