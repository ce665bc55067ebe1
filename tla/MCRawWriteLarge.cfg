SPECIFICATION MCLinkSpec
CONSTANTS
  Byte <- MCByte
  And <- MCAnd
  Crc <- MCCrc
  PageSize = 2
  SectorSize = 4
  BlockSize = 8
  FlashSize = 16
  AddressReach = 8
  WriteMin = 4
  Flaky = {}
  SohSize = 1
  StxSize = 4
  NumberMod = 4
  Word = 20
  MaxPrompts = 3
  Image <- SohImage
  Target = 8
  HostBlock = 1
  MaxRetries = 3
  FifoDepth = 2
  MaxFaults = 0
  Conditions <- QuietLine
PROPERTIES ProtectedNeverWritten
CHECK_DEADLOCK FALSE
