SPECIFICATION Spec
CONSTANTS
  BLOCK_BITS = 4
  NDADDR = 2
  WordBits = 16
  FragmentSize = 4
  SectorsPerBlock = 2
  Files <- ReadableFiles
  Offsets <- Starts
  Sizes <- ShortRanges
INVARIANTS
  TypeOK
  BdlIsContiguous
  BdlReadsFile
  OnlyHolesShortenARead
  BlockCountsAgree
