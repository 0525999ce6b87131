------------------------------- MODULE SpiBus -------------------------------
(***************************************************************************)
(* The SPI driver (spi.c): what its functions do to the flags of SPI_USER, *)
(* which byte of a word goes over the wire, and what a transfer of a       *)
(* buffer leaves in it.  The peripheral is external: it shifts out the     *)
(* word in SPI_W0 in the order the flags say, and what comes back the same *)
(* way.  Waiting for it, the clock divider, and how much is clocked for a  *)
(* buffer are left out.                                                    *)
(***************************************************************************)
EXTENDS Integers, Sequences

CONSTANT NoByte          \* what the other bytes of a word hold

UserFlags == {"CK_OUT_EDGE", "WR_BYTE_ORDER", "RD_BYTE_ORDER", "CS_SETUP", "CS_HOLD",
              "FLASH_MODE", "USR_MOSI", "DOUTDIN", "CK_I_EDGE"}

(* Set or clear a flag. *)
With(user, flags, on) == IF on THEN user \cup flags ELSE user \ flags

spi_mode(user, cpha) == With(user, {"CK_OUT_EDGE"}, ~cpha)

spi_tx_byte_order(user, high) == With(user, {"WR_BYTE_ORDER"}, high)
spi_rx_byte_order(user, high) == With(user, {"RD_BYTE_ORDER"}, high)

(* Both orders high byte first, chip select as long as the transfer.       *)
spi_init(user) ==
  With(spi_rx_byte_order(spi_tx_byte_order(user, TRUE), TRUE),
       {"CS_SETUP", "CS_HOLD"}, TRUE) \ {"FLASH_MODE"}

(* Each transfer begins by writing the whole register anew, byte orders     *)
(* included, whatever is in it.                                            *)
TransferUser(user) == (user \ UserFlags) \cup {"USR_MOSI", "DOUTDIN", "CK_I_EDGE"}

(* Eight bits of data in a word, at its high or its low end. *)
Placed(byte, high) == [k \in 1..4 |-> IF k = (IF high THEN 4 ELSE 1) THEN byte ELSE NoByte]

(* External: of a transfer of eight bits the wire carries this byte.       *)
OnWire(word, user) == IF "WR_BYTE_ORDER" \in user THEN word[4] ELSE word[1]

(* spi_transfer32 of eight bits, as the byte the other side gets: the order *)
(* is looked up in the register as it is after the write.                  *)
spi_transfer32(byte, user) ==
  LET now == TransferUser(user)
  IN  OnWire(Placed(byte, "WR_BYTE_ORDER" \in now), now)

(* The byte that comes back, shifted down if its order is high byte first. *)
(* External: the peripheral puts it where the order wants it.              *)
Returned(byte, user) ==
  LET now == TransferUser(user)
      word == Placed(byte, "RD_BYTE_ORDER" \in now)
  IN  IF "RD_BYTE_ORDER" \in now THEN word[4] ELSE word[1]

(* spi_transfer declares the length of a block and never sets it.          *)
bufLenght == 0

(* It goes over the buffer in blocks of 64 bytes, each of which stays at   *)
(* the first bytes of the buffer and copies none.                          *)
spi_transfer(buffer, received) ==
  [k \in DOMAIN buffer |-> IF k <= bufLenght THEN received[k] ELSE buffer[k]]

=============================================================================
