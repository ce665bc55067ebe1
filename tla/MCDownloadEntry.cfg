SPECIFICATION Spec
CONSTANTS
  Modes <- AllModes
  MaxQueue = 2
  MaxFaults = 2
  Conditions <- MCConditions
INVARIANTS ImageGoesToRom
PROPERTIES EntryEnds
CHECK_DEADLOCK FALSE
