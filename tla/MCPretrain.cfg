CONSTANTS
  Chunks = 4
  SaveEvery = 1
  Absent = Absent
  Torn = Torn
  Lexicon = Lexicon
  MaxStarts = 4
  MaxCrashes = 3
  MaxFaults = 2
SPECIFICATION Spec
INVARIANTS TypeOK ResumeCovered CheckpointComplete RetrainsOneInterval
PROPERTY OrgansKeepModel
CHECK_DEADLOCK FALSE
