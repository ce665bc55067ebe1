SPECIFICATION Spec
CONSTANTS
  BufferSize = 2
  MaxFlash = 5
  MaxWord = 7
  MaxCommands = 2
  Conditions <- MCConditions
INVARIANTS CrcOfRange
PROPERTIES Answered
CHECK_DEADLOCK FALSE
