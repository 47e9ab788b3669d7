SPECIFICATION Spec
CONSTANTS
  MaxName = 2
  MaxTarEntries = 4
  MaxTarBytes = 2
  MaxFileBytes = 1
  MaxMetadata = 14
  MaxLiveEntries = 2
  MaxLiveBytes = 2
  Images <- MCImages
  Strays <- MCStrays
  BlobOrder <- MCBlobOrder
  None = None
  MaxTroubles = 1
INVARIANTS
  RetainedIsTheStack
  RefusalHasACause
  ProjectionIsATree
