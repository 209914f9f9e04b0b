\* Two file objects of two processes on one file.
SPECIFICATION Spec
CONSTANTS
  FileObjects = {o1, o2}
  Processes = {p1, p2}
  NoObject = NoObject
  Bytes = {1}
  Modes = {"read"}
  OpenKinds <- MCOpenKinds
  LockKinds = {TRUE, FALSE}
  MaxCount = 2
  MaxShares = 3
  MaxLocks = 2
SYMMETRY Symmetric
INVARIANTS TypeOK OpenFilesShare LocksAreOfHandles LockedIsQuestionable
CHECK_DEADLOCK FALSE
