SPECIFICATION Spec
CONSTANTS
  Publishers = {p, q}
  Payloads <- OnePayload
  None = None
  Outsider = Outsider
  ByPath = FALSE
  MaxMeddles = 0
  MaxFaults = 1
  MaxCrashes = 1
INVARIANTS
  TypeOK
  FinalIsWhole
  RenamedIsPublished
PROPERTIES
  ImplementsCreateOnce
