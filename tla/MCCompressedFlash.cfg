SPECIFICATION MCSpec
CONSTANTS
  Byte <- MCByte
  And <- MCAnd
  Crc <- MCCrc
  Expand <- MCExpand
  Ends <- MCEnds
  Invalid <- MCInvalid
  PageSize = 2
  SectorSize = 4
  BlockSize = 8
  FlashSize = 16
  AddressReach = 16
  WriteMin = 4
  Flaky = {5}
  SohSize = 1
  StxSize = 2
  NumberMod = 3
  Word = 20
  MaxPrompts = 2
  DictSize = 4
  StxPayloads <- MCStxPayloads
  Ranges <- MCRanges
INVARIANTS TypeOK ThreadState FlushedPrefix DoneMeansComplete UnreachedUntouched
