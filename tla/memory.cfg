\* Threads that allocate, free and end, with one page of three blocks.
SPECIFICATION Spec
CONSTANTS
  Threads = {t1, t2}
  BlockSize = 2
  PageBlocks = 3
  MaxPages = 1
  MaxTag = 3
SYMMETRY Symmetry
INVARIANTS
  NodesConserved
  BlocksWhole
CHECK_DEADLOCK FALSE
