---------------------------- MODULE RadioConfig ----------------------------
(***************************************************************************)
(* The configuration arrays of the radio, for receiving and for sending    *)
(* (radio_config_si4463_direct_rx_v0-1.h, ..._tx_v0-1.h): 64 commands that *)
(* patch the chip, a power-up, the pins, and properties set group by group.*)
(*                                                                         *)
(* A command of the array is its length byte, the number of bytes that     *)
(* really follow, and for SET_PROPERTY the properties it sets.  Values are *)
(* left out but for what decides which interrupts pull NIRQ low: "arms"    *)
(* holds the new set of those, or is empty for a command that leaves them. *)
(***************************************************************************)
EXTENDS Integers, Sequences

(* Interrupts of the chip group this program asks about: the chip is ready, *)
(* a command was refused.                                                   *)
ChipPend == {"ready", "cmdError"}

(* The defaults of INT_CTL_ENABLE and INT_CTL_CHIP_ENABLE: of the chip      *)
(* group, which is on, only the first interrupt.                            *)
ChipGroupDefault == TRUE
ChipEnableDefault == {"ready"}
ArmedAfterReset == IF ChipGroupDefault THEN ChipEnableDefault ELSE {}

Groups == [GLOBAL |-> 0, INT_CTL |-> 1, FRR_CTL |-> 2, PREAMBLE |-> 16, SYNC |-> 17,
           PKT |-> 18, MODEM |-> 32, MODEM_CHFLT |-> 33, PA |-> 34, SYNTH |-> 35,
           MATCH |-> 48, FREQ_CONTROL |-> 64, RX_HOP |-> 80]

GroupLength == [GLOBAL |-> 11, INT_CTL |-> 4, FRR_CTL |-> 4, PREAMBLE |-> 15,
                SYNC |-> 10, PKT |-> 58, MODEM |-> 96, MODEM_CHFLT |-> 36, PA |-> 7,
                SYNTH |-> 8, MATCH |-> 12, FREQ_CONTROL |-> 8, RX_HOP |-> 66]

-----------------------------------------------------------------------------
(* A command with its length byte; one that sets num properties of a group, *)
(* size bytes in all.                                                       *)
Plain(len, size) == [len |-> len, size |-> size, sets |-> {}, start |-> 0, num |-> 0,
                     arms |-> {}]

Set(len, size, group, num, start) ==
  [Plain(len, size) EXCEPT !.sets = {group}, !.start = start, !.num = num]

Patch == [n \in 1..64 |-> Plain(8, 8)]

(* Both arrays begin alike: power up, pins, clock, and no interrupts at all. *)
PowerUp == <<[Plain(7, 7) EXCEPT !.arms = {ArmedAfterReset}], Plain(8, 8)>>

Common == <<Set(6, 6, "GLOBAL", 2, 0), Set(5, 5, "GLOBAL", 1, 3),
            [Set(5, 5, "INT_CTL", 1, 0) EXCEPT !.arms = {{}}],
            Set(8, 8, "FRR_CTL", 4, 0)>>

RxPacket == <<Set(5, 5, "PREAMBLE", 1, 1), Set(5, 5, "PREAMBLE", 1, 4),
              Set(5, 5, "PKT", 1, 6)>>

RxModem == <<Set(16, 16, "MODEM", 12, 0), Set(5, 5, "MODEM", 1, 12),
             Set(16, 16, "MODEM", 12, 24), Set(16, 16, "MODEM", 12, 36),
             Set(7, 7, "MODEM", 3, 48), Set(5, 5, "MODEM", 1, 53),
             Set(16, 16, "MODEM", 12, 56)>>

RxRaw == <<Set(14, 14, "MODEM", 10, 69), Set(6, 6, "MODEM", 2, 80),
           Set(6, 6, "MODEM", 2, 84), Set(5, 5, "MODEM", 1, 87),
           Set(9, 9, "MODEM", 5, 91)>>

RxFilter == <<Set(16, 16, "MODEM_CHFLT", 12, 0), Set(16, 16, "MODEM_CHFLT", 12, 12),
              Set(16, 16, "MODEM_CHFLT", 12, 24)>>

RxSynth == <<Set(5, 5, "PA", 1, 3), Set(11, 11, "SYNTH", 7, 0),
             Set(12, 12, "FREQ_CONTROL", 8, 0)>>

RxArray == Patch \o PowerUp \o Common \o RxPacket \o RxModem \o RxRaw
             \o RxFilter \o RxSynth

TxPacket == <<Set(5, 5, "PREAMBLE", 1, 4)>>

TxModem == <<Set(16, 16, "MODEM", 12, 0), Set(5, 5, "MODEM", 1, 12),
             Set(16, 16, "MODEM", 12, 24), Set(16, 16, "MODEM", 12, 36),
             Set(7, 7, "MODEM", 3, 48), Set(5, 5, "MODEM", 1, 53),
             Set(16, 16, "MODEM", 12, 56)>>

TxRaw == <<Set(9, 9, "MODEM", 5, 69), Set(5, 5, "MODEM", 1, 75),
           Set(6, 6, "MODEM", 2, 77), Set(6, 6, "MODEM", 2, 80),
           Set(6, 6, "MODEM", 2, 84), Set(5, 5, "MODEM", 1, 87),
           Set(9, 9, "MODEM", 5, 91)>>

TxFilter == <<Set(16, 16, "MODEM_CHFLT", 12, 0), Set(16, 16, "MODEM_CHFLT", 12, 12),
              Set(16, 16, "MODEM_CHFLT", 12, 24)>>

TxSynth == <<Set(8, 8, "PA", 4, 0), Set(11, 11, "SYNTH", 7, 0),
             Set(12, 12, "FREQ_CONTROL", 8, 0)>>

TxArray == Patch \o PowerUp \o Common \o TxPacket \o TxModem \o TxRaw
             \o TxFilter \o TxSynth

-----------------------------------------------------------------------------
(* The length byte of every command is what follows it, so that the loop of *)
(* si446x_configuration_init never loses its place, the command fits the   *)
(* driver's buffer, and the properties it sets exist.                      *)
Whole(c) ==
  /\ c.len = c.size /\ c.len \in 1..16
  /\ \A g \in c.sets : /\ c.num \in 1..12 /\ c.size = 4 + c.num
                       /\ c.start + c.num <= GroupLength[g]

(* No two commands set the same property.                                  *)
Disjoint(array) ==
  \A m, n \in DOMAIN array :
    m < n /\ array[m].sets \cap array[n].sets # {}
      => \/ array[m].start + array[m].num <= array[n].start
         \/ array[n].start + array[n].num <= array[m].start

ASSUME ArraysAssumption ==
  \A array \in {RxArray, TxArray} :
    Disjoint(array) /\ \A n \in DOMAIN array : Whole(array[n])

=============================================================================
