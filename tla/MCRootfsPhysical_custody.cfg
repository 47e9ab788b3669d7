SPECIFICATION FairSpec
CONSTANTS
  N = 4
  Kind <- DeepKind
  Parent <- DeepParent
  NumDirs = 2
  SealOrder <- DeepSealOrder
  None = None
  MaxMeddles = 2
  MaxFaults = 2
INVARIANTS
  TypeOK
  JournalIsSound
PROPERTIES
  MaterializedIsExact
  OnlyOwnIsUnlinked
  SpoiledIsLeftAlone
  CustodyUntilGone
  RefusalHasACause
  EveryCallReturns
