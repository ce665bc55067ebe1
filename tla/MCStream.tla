----------------------------- MODULE MCStream ------------------------------
(***************************************************************************)
(* The bytes of the small instances of the compressed write: an alphabet   *)
(* of streams, a checksum that tells its payloads apart, and the bytes     *)
(* that a packet over it consists of.                                      *)
(***************************************************************************)
EXTENDS W800Flash, Xmodem

Lit == 40       \* a programmed unit
Blank == 41     \* two units of 0xFF
Run == 42       \* more than the dictionary holds
Stop == 43      \* the end of the stream
Last == 44      \* two more units, and the end of the stream
Bad == 45       \* not part of any stream
Units == {Lit, Blank, Run, Stop, Last, Bad}

MCExpand(b) ==
  CASE b = Lit -> <<0>>
    [] b = Blank -> <<FF, FF>>
    [] b = Run -> <<0, FF, 0, 0, FF>>
    [] b = Last -> <<0, 0>>
    [] OTHER -> <<>>
MCEnds == {Stop, Last}
MCInvalid == {Bad}

(* A number with one digit to base 8 for each payload byte. *)
MCCrc(s) ==
  LET Digit(v) ==
        IF v \in Units THEN v - 39 ELSE IF v = FF THEN 7 ELSE 0
      sum[i \in 0 .. Len(s)] ==
        IF i = 0 THEN 0 ELSE 8 * sum[i - 1] + Digit(s[i])
  IN 300 + sum[Len(s)]

(* Two different programmed values leave the unit with no bit set. *)
MCAnd(v, w) == IF v = w \/ w = FF THEN v ELSE IF v = FF THEN w ELSE 0

MCByte == 0 .. 8 \cup {NAK, CAN, CRC_MODE} \cup Units \cup 250 .. 255
            \cup 300 .. 300 + 8 ^ StxSize

=============================================================================
