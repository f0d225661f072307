CONSTANTS
  Cap = 5
  Keys = {k1}
  Activations = {act}
  Signals <- MCSignals
  SigMax = 2
  Delays <- MCDelays
  StaleTicks = 0
  MergeWindow = 1
  MaxTick = 2
SPECIFICATION Spec
INVARIANTS
  TypeOK
  HeapOrder
  NothingOverdue
PROPERTY ImplementsBag
