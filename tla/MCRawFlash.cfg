SPECIFICATION MCSpec
CONSTANTS
  Byte <- MCByte
  And <- MCAnd
  Crc <- MCCrc
  PageSize = 2
  SectorSize = 4
  BlockSize = 8
  FlashSize = 16
  AddressReach = 16
  WriteMin = 4
  Flaky = {5}
  SohSize = 1
  StxSize = 4
  NumberMod = 3
  Word = 20
  MaxPrompts = 2
  StxPayloads <- MCStxPayloads
  Transfers <- MCTransfers
INVARIANTS TypeOK ThreadState VerifiedPrefix DoneMeansComplete OutsideUntouched
PROPERTIES ProtectedNeverWritten ImplementsUpdate
