SPECIFICATION FairSpec
CHECK_DEADLOCK FALSE
CONSTANTS
  WORD = 32
  BUFCAP = 6
  Char <- MCChar
  Path = {"f"}
  MaxFd = 4
  Inherited <- MCInherited
  Errors = {"stdout"}
  Modes <- MCModes
  Contents <- MCContents
  Texts <- MCTexts
  Elements <- MCElements
  Prints <- MCPrints
  Boxes <- MCBoxes
  Counts = {0, 2}
  MaxCalls = 3
  MaxPrinted = 1
INVARIANTS
  TypeOK
  StdStreamsKept
  HandlesMatch
  PrintsMeaning
PROPERTIES
  KeepsPromise
  CallsReturn
