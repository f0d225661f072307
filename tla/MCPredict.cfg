CONSTANTS
  Order = 2
  Vocab = 2
  Cap = 4
  ActiveCap = 2
  SigMax = 33
  One = 2
  Refractory = 3
  Leak = 4
  W0 = 1
  WMin <- MCWMin
  WMax = 10
  Delta = 2
  DeltaCap = 12
  EscRounds = 4
  MaxCand = 48
  Weights = {1, 10}
  MaxCalls = 2
SPECIFICATION Spec
INVARIANTS TypeOK VotesSuperpose TeachingHelps EscalationExhausts
CHECK_DEADLOCK FALSE
