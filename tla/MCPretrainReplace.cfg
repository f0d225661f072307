CONSTANTS
  Chunks = 4
  SaveEvery = 1
  Absent = Absent
  Torn = Torn
  Lexicon = Lexicon
  MaxStarts = 4
  MaxCrashes = 0
  MaxFaults = 0
SPECIFICATION Spec
INVARIANT AtomicReplace
CHECK_DEADLOCK FALSE
