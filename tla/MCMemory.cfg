SPECIFICATION FairSpec
CONSTANTS
  Relations <- MCRelations
  NoRel = NoRel
  Builtin <- MCBuiltin
  Graphs <- MCGraphs
  Triples <- MCTriples
  Pairs <- MCPairs
  SchemaCap = 2
  DistinctCap = 2
  QueueCap = 2
  EdgeCap = 5
  Thresholds = {2, 3}
  MemoryCap = 2
  Store = 128
  Forget = 64
  Hold = 3
  IdleTicks = 2
  TopK = 1
  Charges <- MCCharges
  BusyTimes = {1}
  TickCounts = {2, 8}
  MaxTick = 12
  MaxCalls = 6
INVARIANTS TypeOK PromotionEarned Sound
PROPERTIES OutputStable HeldLongEnough ConsolidationComes ForgottenAtLast
CHECK_DEADLOCK FALSE
