SPECIFICATION Spec
CONSTANTS
  N = 3
  SnapOrder <- PathOrder
  Packets = {P, Q}
  Junk = Junk
  Mixed = Mixed
  NoFile = NoFile
  MaxObjects = 1
  MaxMeddles = 2
  MaxFaults = 1
INVARIANTS
  AcceptedIsOneInstant
  RefusalHasACause
