\* Handles, and everything that purges or tears down the volume.
SPECIFICATION Spec
CONSTANTS
  FileObjects = {f1, f2}
  Files = {a, b}
  Dirs = {}
  Fcbs = {x1}
  VolumeObject = VolumeObject
  NoObject = NoObject
  MaxULong = 7
  MaxCount = 3
  Requests = {"read", "dismount", "remove", "verify", "invalidate", "unload", "nothing"}
SYMMETRY Symmetry
INVARIANTS FcbNeverDangling CountsCover
CHECK_DEADLOCK FALSE
