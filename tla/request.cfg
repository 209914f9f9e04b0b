SPECIFICATION Spec
CONSTANTS
  Irps = {i1, i2}
  NoIrp = NoIrp
  Contexts = {c1, c2}
  MaxBlocks = 2
  Kinds = {"read", "stream", "dasd", "query", "lock", "notify"}
  Leftovers = {FALSE}
INVARIANTS
  TypeOK
  CompletedIsReleased
  NeverLost
  FailureIsReported
  ContextIsItsOwn
  TransferOutlivesParts
PROPERTIES
  RequestEnds
CHECK_DEADLOCK FALSE
