SPECIFICATION Spec
CONSTANTS
  Leases <- MCLeases
  Builds <- MCBuilds
  Received <- MCReceived
  Codes <- MCCodes
INVARIANTS
  TypeOK
  WriteInBounds
  FindInBounds
  FindCorrect
  RoundTrip
  
  SendsFit
PROPERTIES
  Terminates
CHECK_DEADLOCK FALSE
