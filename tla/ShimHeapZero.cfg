SPECIFICATION Spec
CONSTANTS
  WORD = 64
  ALIGN = 2
  GROW = 4
  HeapStart = 20
  BrkMax = 30
  Value = {0, 1}
  Request = {1, 3}
  ZeroFlags = {TRUE, FALSE}
  MaxBlocks = 3
CHECK_DEADLOCK FALSE
PROPERTY ReAllocKeepsBytes
