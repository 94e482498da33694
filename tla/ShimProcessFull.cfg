SPECIFICATION Spec
CONSTANTS
  MAX_ATEXIT = 2
  Numbered = 3
  MaxDepth = 5
  MaxInit = 2
  Codes <- MCCodes
  NullFns <- MCNullFns
INVARIANT AcceptedAreCalled
