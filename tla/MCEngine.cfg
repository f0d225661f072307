SPECIFICATION FairSpec
CONSTANTS
  Nodes <- MCNodes
  Graphs <- MCGraphs
  None = None
  Cap = 8
  ActiveCap = 3
  TraceCap = 6
  ScanLimit = 6
  ExpectCap = 2
  SigMax = 32767
  One = 256
  GateOne = 65535
  Leak = 64
  Refractory = 3
  Suppress = 32768
  W0 = 256
  WMin <- MCWMin
  WMax = 1024
  Ltp = 16
  Ltd <- MCLtd
  MinStability = 2
  StabMax = 3
  PreCharge = 128
  Window = 1
  Stabilities = {0, 2}
  Base = 640
  Fatigue = 256
  FatigueDecay = 256
  Novelty = 512
  Contradiction = 512
  Unresolved = 256
  Confidence = 256
  FluidMax = 2
  Compete = 128
  Inhibition = 8192
  IdleTicks = 2
  Queries <- MCQueries
  TickCounts = {2, 5}
  MaxTick = 7
  MaxCalls = 4
INVARIANTS TypeOK ExceptionHolds TraceTellsFate FatigueRemains
PROPERTIES SuppressionNoticed QueryDecided ExpectationsSettle
CHECK_DEADLOCK FALSE
