SPECIFICATION FairSpec
CONSTANTS
  MAX_ATEXIT = 3
  Numbered = 4
  MaxDepth = 6
  MaxInit = 2
  Codes <- MCCodes
  NullFns <- MCNullFns
INVARIANTS
  TypeOK
  CalledOnce
  ExitCallsAll
PROPERTIES
  KeepsStack
  ExitEnds
