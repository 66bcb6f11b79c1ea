SPECIFICATION Spec
CONSTANTS
  LongStart = 16
  BlockRange = 64
  NumBlocks = 16
  FormatSectors = 4
  Messages <- MCOneMessage
  ReadKeys = {}
  UserOps = {"clean"}
  InitialTags <- MCInterrupted
  BeyondBlock <- MCBeyond
  MaxFaults = 1
INVARIANT CleanReportsTruth
