SPECIFICATION Spec
CONSTANTS
  Volumes = {c, d}
  Labels <- SomeLabels
  MaxPartitions = 3
  Numbers = {0, 1, 2, 3}
  NoVolume = NoVolume
  NoSuper = NoSuper
SYMMETRY Symmetric
INVARIANTS
  MountsASelection
  ReadsItsPartition
