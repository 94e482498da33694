SPECIFICATION MCSpec
CONSTANTS
  WORD = 128
  PAGE_SIZE = 8
  Name <- MCName
  SLOT_SIZE = 2
  ELF_MAX_SEGMENTS = 2
  SHIM_MIN_BASE = 64
  ShimPhdrs <- MCShimPhdrs
  ShimSize = 0
  ShimSyms <- MCEmpty
  ShimTable <- MCEmpty
  LowerCase <- MCEmpty
  EHSIZE = 1
  PHSIZE = 1
INVARIANT SegmentsPlaced
