--------------------------- MODULE MCDispatcher ----------------------------
(***************************************************************************)
(* Dispatcher with a short session of the probe: changes of the rate, one  *)
(* of them to a rate that is refused, an erase, and a command that the     *)
(* stub does not know.                                                     *)
(***************************************************************************)
EXTENDS Dispatcher

Rate115200 == <<0, 194, 1, 0>>
Rate460800 == <<0, 8, 7, 0>>
Rate3000000 == <<192, 198, 45, 0>>

Rates == {Rate115200, Rate460800}

Item(type, data, want) == [type |-> type, data |-> data, want |-> want]

Session ==
  << SyncCommand,
     Item(FLASH_ERASE, <<0, 128, 1, 0, 0, 16, 0, 0>>, SUCCESS),
     Item(BAUD_CHANGE, Rate460800, SUCCESS),
     Item(FLASH_ID, <<>>, SUCCESS),
     Item(BAUD_CHANGE, Rate3000000, TYPE_ERROR),
     Item(153, <<>>, TYPE_ERROR),
     Item(FLASH_ERASE, <<0, 128>>, LEN_ERROR),
     Item(BAUD_CHANGE, Rate115200, SUCCESS) >>

(* Nothing, and the byte that starts a frame. *)
MCGarbled == {0, MAGIC}

AllKinds == {"lost byte", "damaged byte", "lost reply", "damaged reply",
             "slow work", "failed work"}

=============================================================================
