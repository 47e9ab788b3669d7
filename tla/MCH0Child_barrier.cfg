SPECIFICATION FairSpec
CONSTANTS
  Script <- SessionScript
  MaxMeddles = 2
  MaxFaults = 1
INVARIANTS
  AcceptedIsMeasured
  NobodyIsOrphaned
PROPERTIES
  EveryWaitEnds
