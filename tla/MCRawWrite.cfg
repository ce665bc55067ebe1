SPECIFICATION MCLinkSpec
CONSTANTS
  Byte <- MCByte
  And <- MCAnd
  Crc <- MCCrc
  PageSize = 2
  SectorSize = 4
  BlockSize = 8
  FlashSize = 16
  AddressReach = 16
  WriteMin = 4
  Flaky = {5}
  SohSize = 1
  StxSize = 4
  NumberMod = 4
  Word = 20
  MaxPrompts = 3
  Image <- StxImage
  Target = 4
  HostBlock = 4
  MaxRetries = 3
  FifoDepth = 2
  MaxFaults = 2
  Conditions <- MCConditions
INVARIANTS TakesImageInOrder AcceptedMeansWritten SentMeansWritten
PROPERTIES BothReturn WriteLands
CHECK_DEADLOCK FALSE
