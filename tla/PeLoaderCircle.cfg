SPECIFICATION FairSpec
CONSTANTS
  WORD = 256
  PAGE_SIZE = 16
  Name <- MCName
  SLOT_SIZE = 1
  INITIAL_CAP = 1
  PE_MAX_TLS_CALLBACKS = 2
  NAME_CAP = 3
  HIGHLOW = 3
  ORDINALS = 32
  Files <- MCCircleFiles
PROPERTY Ends
