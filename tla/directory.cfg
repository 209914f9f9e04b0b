SPECIFICATION Spec
CONSTANTS
  Queries = {q1, q2}
  Directories <- SomeDirectories
  Requests <- SomeRequests
  NoPattern = NoPattern
  Raw = Raw
  ULongs = 65536
SYMMETRY Symmetric
INVARIANTS
  TypeOK
  PositionIsAnEntry
  NothingSkipped
  BufferIsChained
  EndIsTheEnd
PROPERTIES
  EachOnce
