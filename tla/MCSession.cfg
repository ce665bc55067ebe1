SPECIFICATION Spec
CONSTANTS
  Size = 3
  Scratch <- MCScratch
  OptionSets <- MCOptionSets
  Dirs <- MCDirs
  DefaultDir = "w800_probe_out"
  MaxRuns = 3
  MaxFaults = 2
INVARIANTS UserDataKept PassedMeansRestored
PROPERTIES RestoreRecovers
CHECK_DEADLOCK FALSE
