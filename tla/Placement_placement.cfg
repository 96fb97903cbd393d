SPECIFICATION Spec
CONSTANTS
  Workers = {w1, w2}
  Removals = {r1, r2}
  NArchives = 3
  FileOf <- Names
  SizeMB <- Sizes
  Weight <- Weights
  Emergency = 2
  Target = 1
  MaxEvents = 2
  None = None
SYMMETRY Symmetry
INVARIANTS
    PlacementIsSound
PROPERTIES
    CleansEnough
    RemovedNodeIsEmptied
CHECK_DEADLOCK FALSE
