SPECIFICATION MCLinkSpec
CONSTANTS
  Byte <- MCByte
  And <- MCAnd
  Crc <- MCCrc
  Expand <- MCExpand
  Ends <- MCEnds
  Invalid <- MCInvalid
  PageSize = 2
  SectorSize = 4
  BlockSize = 8
  FlashSize = 16
  AddressReach = 16
  WriteMin = 4
  Flaky = {}
  SohSize = 1
  StxSize = 2
  NumberMod = 4
  Word = 20
  MaxPrompts = 3
  DictSize = 4
  Image <- FullImage
  Target = 4
  HostBlock = 2
  MaxRetries = 3
  FifoDepth = 2
  MaxFaults = 0
  Conditions <- QuietLine
PROPERTIES StreamLands
CHECK_DEADLOCK FALSE
