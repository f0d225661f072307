SPECIFICATION Spec
CONSTANTS
  Savers = {s1, s2}
  Loaders = {c1}
  Inodes = {1, 2, 3, 4}
  None = None
  Placeholder = Placeholder
  TablesOf <- MCTablesOf
  MaxBoots = 2
  MaxFaults = 2
SYMMETRY MCSymmetry
INVARIANTS TypeOK EngineWhole ModelOfOneSave SavedIsLoaded
CHECK_DEADLOCK FALSE
