SPECIFICATION Spec
CONSTANTS
  Word = 512
  MsPerSec = 21
  NoTime = NoTime
  ServerTimes <- MCShortLeases
  RenewDelays = {0, 1, 20, 100}
INVARIANTS
  CountedFromBound
