CONSTANTS
  Chunks = 4
  SaveEvery = 1
  Absent = Absent
  Torn = Torn
  Lexicon = Lexicon
  MaxStarts = 4
  MaxCrashes = 2
  MaxFaults = 0
SPECIFICATION Spec
INVARIANT SkipsOnlyTrained
CHECK_DEADLOCK FALSE
