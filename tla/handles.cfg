\* Handles opened and closed on files, directories and the volume, with locks.
SPECIFICATION Spec
CONSTANTS
  FileObjects = {f1, f2}
  Files = {dir, file}
  Dirs = {dir}
  Fcbs = {x1, x2}
  VolumeObject = VolumeObject
  NoObject = NoObject
  MaxULong = 4
  MaxCount = 2
  Requests = {"read", "volume", "lock", "overwrite"}
SYMMETRY Symmetry
INVARIANTS TypeOK SingleFcbPerFile OpenFileHandleCountIsSum LockOwnerIsOpen
PROPERTIES LockTakenOnlyWhenQuiet
CHECK_DEADLOCK FALSE
