SPECIFICATION Spec
CONSTANTS
  Writers = {w1, w2}
  w1 = w1
  w2 = w2
  w3 = w3
  nested = nested
  payload = payload
  receipt = receipt
  stray = stray
  Root = Root
  None = None
  Dirs <- Nested
  Files <- PairFiles
  Plan <- PairPlan
  Parent <- PairParent
  MaxEntries = 2
  MaxBytes = 3
  MaxTrees = 3
  MaxMeddles = 2
  MaxFaults = 0
  MaxCrashes = 0
INVARIANTS WithinCompiledBounds
PROPERTIES ReturnIsSound NothingIsReplaced
SYMMETRY PairSymmetry
