CONSTANTS
  n1 = n1
  n2 = n2
  Nodes <- MCNodes
  EdgeKeys <- MCEdgeKeys
  EdgeCap = 2
  RingCap = 2
  TraceCap = 2
  ScanLimit = 2
  SeenCap = 1
  Window = 0
  Ltp = 1
  Ltd <- MCLtd
  W0 = 1
  WMin = 0
  WMax = 1
  GateOne = 3
  GateStep = 2
  Threshold = 2
  WrongMax = 2
  MaxQueued = 5
SPECIFICATION Spec
INVARIANTS TypeOK GateJustified OncePerPass AdjacencyExact
PROPERTIES ImplementsFifo GatesOnlyClose
CHECK_DEADLOCK FALSE
