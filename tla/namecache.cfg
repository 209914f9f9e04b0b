SPECIFICATION Spec
CONSTANTS
  Names <- SomeNames
  Fold <- Upcased
  RootIno = 2
  NoRequest = NoRequest
  Dir <- SmallDisk
  McbIds = {root, m1, m2, m3}
  RootMcb = root
  NoMcb = NoMcb
  Handles = {h1, h2}
  MaxDepth = 1
  McbsPerLevel = 2
  MaxOthers = 1
  Wishes = {"directory", "file", "new"}
  Paths <- SomePaths
  WildNames <- Wild
SYMMETRY Symmetric
INVARIANTS
  TypeOK
  ListIsTree
  HeldIsKept
  FullFileNameIsOnDisk
  CountsAgree
PROPERTIES
  ReapingMakesRoom
  OpensWhatIsOnDisk
