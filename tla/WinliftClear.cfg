SPECIFICATION Spec
CONSTANTS
  WORD = 128
  PAGE_SIZE = 8
  Name <- MCName
  SLOT_SIZE = 2
  ELF_MAX_SEGMENTS = 6
  SHIM_MIN_BASE = 64
  ShimPhdrs <- MCShimPhdrs
  ShimSize = 7
  ShimSyms <- MCShimSyms
  ShimTable <- MCShimTable
  LowerCase <- MCLowerCase
  EHSIZE = 1
  PHSIZE = 1
  Images <- MCImages
INVARIANT AcceptedImageClear
