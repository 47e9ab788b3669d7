SPECIFICATION FairSpec
CONSTANTS
  Writers = {w1, w2, w3}
  w1 = w1
  w2 = w2
  w3 = w3
  nested = nested
  payload = payload
  receipt = receipt
  stray = stray
  Root = Root
  None = None
  Dirs <- Nested
  Files <- NestedFiles
  Plan <- NestedPlan
  Parent <- NestedParent
  MaxEntries = 3
  MaxBytes = 3
  MaxTrees = 3
  MaxMeddles = 0
  MaxFaults = 1
  MaxCrashes = 1
INVARIANTS TypeOK FinalIsWhole SingleWinner
PROPERTIES ImplementsCreateOnce EveryTransactionEnds
