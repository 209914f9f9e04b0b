\* Liveness: no symmetry.
SPECIFICATION FairSpec
CONSTANTS
  FileObjects = {f1, f2}
  Files = {file}
  Dirs = {}
  Fcbs = {x1}
  VolumeObject = VolumeObject
  NoObject = NoObject
  MaxULong = 7
  MaxCount = 2
  Requests = {"read", "query", "verify", "invalidate", "shutdown"}
PROPERTIES QueuedRequestsEnd SystemRequestEnds
CHECK_DEADLOCK FALSE
