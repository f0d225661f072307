CONSTANTS
  Chunks = 4
  SaveEvery = 1
  Absent = Absent
  Torn = Torn
  Lexicon = Lexicon
  MaxStarts = 4
  MaxCrashes = 1
  MaxFaults = 0
SPECIFICATION Spec
INVARIANT KeepsProgress
CHECK_DEADLOCK FALSE
