SPECIFICATION Spec
CONSTANTS
  ByteRange = 16
  MTU = 5
  Files <- MCWholeFiles
  NoCard = NoCard
  MaxFaults = 2
INVARIANTS
  ReadReturnsFile
