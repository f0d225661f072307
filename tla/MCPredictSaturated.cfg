CONSTANTS
  Order = 2
  Vocab = 2
  Cap = 4
  ActiveCap = 2
  SigMax = 7
  One = 2
  Refractory = 3
  Leak = 4
  W0 = 1
  WMin <- MCWMin
  WMax = 7
  Delta = 2
  DeltaCap = 8
  EscRounds = 6
  MaxCand = 48
  Weights = {4}
  MaxCalls = 1
SPECIFICATION Spec
INVARIANT IntegratorsNeverSpike
CHECK_DEADLOCK FALSE
