SPECIFICATION Spec
CONSTANTS
  Publishers = {p}
  Payloads <- OnePayload
  None = None
  Outsider = Outsider
  ByPath = TRUE
  MaxMeddles = 2
  MaxFaults = 1
  MaxCrashes = 1
INVARIANTS
  ReturnedIsDurable
