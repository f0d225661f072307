SPECIFICATION Spec
CONSTANTS
  Vocab = 3
  Configs <- MCConfigs
  MaxJobs = 3
  ParallelFrom = 4
  WMax = 20
  NormFrom = 2
  PruneFrom = 3
  Top = 16
  MaxFaults = 1
INVARIANTS TypeOK NeverOvercounted CountedExactly
CHECK_DEADLOCK FALSE
