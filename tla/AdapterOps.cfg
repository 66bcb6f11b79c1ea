SPECIFICATION FairAdapterSpec
CONSTANTS
  ByteRange = 16
  MTU = 5
  Files <- MCTwoFiles
  NoCard = NoCard
  MaxFaults = 1
  TagVars = {"tag", "last"}
  MaxMessages = 2
  PiccType <- MCPiccType
  InitialStore <- MCStore
  CardKey <- MCCardKey
  Messages <- MCMessages
  EmptyMessage <- MCEmpty
  MifareKeys = {"user"}
INVARIANTS
  AdapterTypeOK
  ReadsMeetTheirFile
  PiecesInOrder
  ReadsAllButTwo
  MessagesOwned
  HaltHides
PROPERTIES
  TagsTellTruth
  CardIsFound
