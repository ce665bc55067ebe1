SPECIFICATION Spec
CONSTANTS
  Crc <- MCCrc
  SohSize = 1
  StxSize = 2
  NumberMod = 4
  Image <- MCImage
  MaxStarts = 2
  MaxBlock = 3
  MaxEot = 2
  MaxFaults = 2
  Conditions <- MCConditions
INVARIANTS TypeOK TakesRangeInOrder DoneMeansRead
PROPERTIES BothReturn ReadLands
CHECK_DEADLOCK FALSE
