SPECIFICATION Spec
CONSTANTS
  Publishers = {p, q}
  Payloads <- OnePayload
  None = None
  Outsider = Outsider
  ByPath = TRUE
  MaxMeddles = 0
  MaxFaults = 0
  MaxCrashes = 0
INVARIANTS
  SomePublisherWins
