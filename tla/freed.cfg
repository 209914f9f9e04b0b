\* A dismount while a cleanup is queued to a worker thread.
SPECIFICATION Spec
CONSTANTS
  FileObjects = {f1, f2}
  Files = {dir, file}
  Dirs = {dir}
  Fcbs = {x1, x2}
  VolumeObject = VolumeObject
  NoObject = NoObject
  MaxULong = 7
  MaxCount = 3
  Requests = {"dismount"}
SYMMETRY Symmetry
INVARIANTS QueuedRequestKeepsVcb
CHECK_DEADLOCK FALSE
