----------------------------- MODULE W800Flash -----------------------------
(***************************************************************************)
(* The QFLASH chip behind the stub and the driver functions of             *)
(* src/src/w800_raw_stub.c that read, erase and program it.                *)
(*                                                                         *)
(* The flash is a function from addresses to bytes.  An address stands for *)
(* one unit of the chip; the sizes of a page, a sector and a block are     *)
(* parameters, so the same definitions serve the 256/4096/65536 bytes of   *)
(* the real part and the few units of a TLC instance.                      *)
(*                                                                         *)
(* The chip itself is not in the repository.  It is taken to be NOR flash: *)
(* an erase sets every unit of the addressed sector or block to 0xFF, a    *)
(* page program can only clear bits (And) and wraps around inside the      *)
(* addressed page, and the units in "stuck" do not react to a command,     *)
(* which is the failure the driver reads back for.                         *)
(***************************************************************************)
EXTENDS Multiples

CONSTANTS
  Byte,         \* the values of a unit, and of a byte on the UART
  And(_, _),    \* bitwise and of two bytes
  PageSize,     \* FLASH_PAGE_SIZE
  SectorSize,   \* FLASH_SECTOR_SIZE
  BlockSize,    \* FLASH_BLOCK_SIZE
  FlashSize,    \* the size the JEDEC id decodes to
  AddressReach, \* addresses the flash controller's address mask leaves, 2^25
  WriteMin,     \* FLASH_WRITE_MIN_OFFSET
  Flaky         \* the addresses that may fail to erase or to program

FF == 255

ASSUME ByteAssumption == Byte \subseteq Nat /\ FF \in Byte

(* FF has every bit set; nothing else about And matters. *)
ASSUME AndAssumption ==
  \A v, w \in Byte : And(v, w) \in Byte /\ And(v, FF) = v /\ And(FF, v) = v

ASSUME GeometryAssumption ==
  /\ PageSize \in Nat \ {0} /\ SectorSize \in Nat \ {0}
  /\ BlockSize \in Nat \ {0} /\ FlashSize \in Nat \ {0}
  /\ AddressReach \in Nat \ {0} /\ WriteMin \in Nat
  /\ SectorSize % PageSize = 0 /\ BlockSize % SectorSize = 0
  /\ WriteMin % PageSize = 0 /\ WriteMin % SectorSize = 0
  /\ FlashSize % SectorSize = 0 /\ WriteMin < FlashSize

ASSUME FlakyAssumption == Flaky \subseteq 0 .. FlashSize - 1

Addr == 0 .. FlashSize - 1
Flash == [Addr -> Byte]

Smaller(m, n) == IF m < n THEN m ELSE n

(* off & 0x01FFFFFF, the address that an erase or a page program is sent   *)
(* to.  Reads are not masked: they go through the memory map.              *)
OnChip(o) == o % AddressReach

(***************************************************************************)
(* Erasing and programming: what the driver asks for and the chip does.    *)
(***************************************************************************)
ChipErase(f, o, unit, stuck) ==
  LET base == Base(OnChip(o), unit) IN
  [a \in Addr |->
     IF base <= a /\ a < base + unit /\ a \notin stuck THEN FF ELSE f[a]]

(* data[i] goes to o + i, wrapping at the end of o's page. *)
ChipProgram(f, o, data, stuck) ==
  LET at == OnChip(o)
      base == Base(at, PageSize)
      From(a) == IF a >= at THEN data[a - at] ELSE data[a - at + PageSize]
  IN [a \in Addr |->
        IF base <= a /\ a < base + PageSize /\ a \notin stuck
        THEN And(f[a], From(a)) ELSE f[a]]

(***************************************************************************)
(* Driver functions.                                                       *)
(***************************************************************************)
RangeIsErased(f, o, n) == \A a \in o .. o + n - 1 : f[a] = FF

(* Mutant: the last unit is not compared. *)
RangeMatchesButLast(f, o, data, n) == \A i \in 0 .. n - 2 : f[o + i] = data[i]

RangeMatches(f, o, data, n) == \A i \in 0 .. n - 1 : f[o + i] = data[i]

(* Mutant: the last unit is not looked at. *)
BufferIsErasedButLast(data, n) == \A i \in 0 .. n - 2 : data[i] = FF

BufferIsErased(data, n) == \A i \in 0 .. n - 1 : data[i] = FF

(* Mutant: a block wherever one may start. *)
EraseSizeByAddress(o, end) ==
  IF o % BlockSize = 0 THEN BlockSize ELSE SectorSize

(* What one round of w800_flash_erase_range erases at o, up to end. *)
EraseSize(o, end) ==
  IF o % BlockSize = 0 /\ end - o >= BlockSize THEN BlockSize ELSE SectorSize

=============================================================================
