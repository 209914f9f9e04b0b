SPECIFICATION Spec
CONSTANTS
  Irps = {i1, i2}
  NoIrp = NoIrp
  Contexts = {c1, c2}
  MaxBlocks = 1
  Kinds = {"read", "query"}
  Leftovers = {TRUE, FALSE}
SYMMETRY Symmetric
INVARIANT
  ContextIsItsOwn
CHECK_DEADLOCK FALSE
