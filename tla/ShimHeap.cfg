SPECIFICATION EnvSpec
CONSTANTS
  WORD = 64
  ALIGN = 2
  GROW = 4
  HeapStart = 20
  BrkMax = 30
  Value = {0, 1}
  Request = {0, 1, 3, 5}
  ZeroFlags = {FALSE}
  MaxBlocks = 4
  SPACE = 1
  Argvs <- MCArgvs
  Envps <- MCEnvps
CHECK_DEADLOCK FALSE
INVARIANTS
  TypeOK
  BlocksSeparate
  NoFault
  CommandLineKept
  EnvironmentKept
PROPERTY KeepsPromise
