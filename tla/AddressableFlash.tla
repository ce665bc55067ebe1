------------------------- MODULE AddressableFlash --------------------------
(***************************************************************************)
(* A chip whose every address passes the mask of the flash controller's    *)
(* address register.  w800_flash_size_from_jedec accepts ids of up to      *)
(* 256 MiB and the mask leaves 32 MiB, so this is a condition on the chip  *)
(* and not something that the stub sees to; the parts the stub is written  *)
(* for have 1 or 2 MiB.                                                    *)
(***************************************************************************)
EXTENDS W800Flash

ASSUME ReachAssumption == FlashSize <= AddressReach

=============================================================================
