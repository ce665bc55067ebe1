--------------------------- MODULE MCXmodemRead ----------------------------
(***************************************************************************)
(* XmodemRead on a range of two and a half blocks whose bytes include      *)
(* control characters.                                                     *)
(***************************************************************************)
EXTENDS XmodemRead

(* Payloads over these values have different checksums. *)
Digit(v) ==
  CASE v = 255 -> 1 [] v = EOT -> 2 [] v = SOH -> 3 [] v = NAK -> 4
    [] v = 0 -> 0 [] OTHER -> 5
MCCrc(s) ==
  LET sum[i \in 0 .. Len(s)] ==
        IF i = 0 THEN 0 ELSE 6 * sum[i - 1] + Digit(s[i])
  IN 300 + sum[Len(s)]

MCImage == <<0, EOT, 255, SOH, 0>>

(* Anything may go wrong, or only what the retries are made for. *)
MCConditions ==
  { [kinds |-> Kinds, noise |-> {0, NAK, CAN}, late |-> 1, patient |-> FALSE],
    [kinds |-> {"damaged packet", "lost reply", "damaged reply"},
     noise |-> {0, NAK}, late |-> 0, patient |-> TRUE] }

=============================================================================
