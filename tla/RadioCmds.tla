----------------------------- MODULE RadioCmds -----------------------------
(***************************************************************************)
(* The commands of the Si446x as si446x_cmd.h defines them: the id, the    *)
(* number of bytes to send and the arguments in them, the number of bytes  *)
(* of the reply and the fields in those.  Values are left out; a byte is   *)
(* named for the field it belongs to, and numbered from the most           *)
(* significant byte or the first element of that field.                    *)
(***************************************************************************)
EXTENDS Integers, Sequences

U8s(names) == [k \in DOMAIN names |-> <<names[k], 1>>]
Bytes(name, n) == [k \in 1..n |-> <<name, k>>]
U16(name) == Bytes(name, 2)
U32(name) == Bytes(name, 4)

Command(id, argCount, args, replyCount, reply) ==
  [id |-> id, argCount |-> argCount, args |-> args, replyCount |-> replyCount,
   reply |-> reply]

-----------------------------------------------------------------------------
(* Start-up, information and properties.                                   *)

POWER_UP == Command(2, 7, U8s(<<"BOOT_OPTIONS", "XTAL_OPTIONS">>) \o U32("XO_FREQ"),
                    0, <<>>)

NOP == Command(0, 1, <<>>, 0, <<>>)

PART_INFO == Command(1, 1, <<>>, 8,
  U8s(<<"CHIPREV">>) \o U16("PART") \o U8s(<<"PBUILD">>) \o U16("ID")
    \o U8s(<<"CUSTOMER", "ROMID">>))

(* Two bytes of the reply have no name.                                    *)
FUNC_INFO == Command(16, 1, <<>>, 6,
  U8s(<<"REVEXT", "REVBRANCH", "REVINT", "", "", "FUNC">>))

SET_PROPERTY == Command(17, 16,
  U8s(<<"GROUP", "NUM_PROPS", "START_PROP">>) \o Bytes("DATA", 12), 0, <<>>)

GET_PROPERTY == Command(18, 4, U8s(<<"GROUP", "NUM_PROPS", "START_PROP">>),
                        16, Bytes("DATA", 16))

GPIO_PIN_CFG == Command(19, 8,
  Bytes("GPIO", 4) \o U8s(<<"NIRQ", "SDO", "GEN_CONFIG">>), 7,
  Bytes("GPIO", 4) \o U8s(<<"NIRQ", "SDO", "GEN_CONFIG">>))

FIFO_INFO == Command(21, 2, U8s(<<"FIFO">>), 2,
                     U8s(<<"RX_FIFO_COUNT", "TX_FIFO_SPACE">>))

-----------------------------------------------------------------------------
(* Status.                                                                 *)

GET_INT_STATUS == Command(32, 4,
  U8s(<<"PH_CLR_PEND", "MODEM_CLR_PEND", "CHIP_CLR_PEND">>), 8,
  U8s(<<"INT_PEND", "INT_STATUS", "PH_PEND", "PH_STATUS", "MODEM_PEND",
        "MODEM_STATUS", "CHIP_PEND", "CHIP_STATUS">>))

GET_PH_STATUS == Command(33, 2, U8s(<<"PH_CLR_PEND">>), 2,
                         U8s(<<"PH_PEND", "PH_STATUS">>))

GET_MODEM_STATUS == Command(34, 2, U8s(<<"MODEM_CLR_PEND">>), 8,
  U8s(<<"MODEM_PEND", "MODEM_STATUS", "CURR_RSSI", "LATCH_RSSI", "ANT1_RSSI",
        "ANT2_RSSI">>) \o U16("AFC_FREQ_OFFSET"))

GET_CHIP_STATUS == Command(35, 2, U8s(<<"CHIP_CLR_PEND">>), 4,
  U8s(<<"CHIP_PEND", "CHIP_STATUS", "CMD_ERR_STATUS", "CMD_ERR_CMD_ID">>))

REQUEST_DEVICE_STATE == Command(51, 1, <<>>, 2, U8s(<<"CURR_STATE", "CURRENT_CHANNEL">>))

GET_ADC_READING == Command(20, 3, U8s(<<"ADC_EN", "ADC_CFG">>), 6,
  U16("GPIO_ADC") \o U16("BATTERY_ADC") \o U16("TEMP_ADC"))

PACKET_INFO == Command(22, 6, U8s(<<"FIELD_NUMBER">>) \o U16("LEN") \o U16("LEN_DIFF"),
                       2, U16("LENGTH"))

(* Asks for the reply of the command before, behind a byte of CTS.         *)
READ_CMD_BUFF == Command(68, 1, <<>>, 16, Bytes("BYTE", 16))

-----------------------------------------------------------------------------
(* States, calibration, sending and receiving.                             *)

CHANGE_STATE == Command(52, 2, U8s(<<"NEXT_STATE1">>), 0, <<>>)

IRCAL == Command(23, 5, U8s(<<"SEARCHING_STEP_SIZE", "SEARCHING_RSSI_AVG",
                              "RX_CHAIN_SETTING1", "RX_CHAIN_SETTING2">>), 0, <<>>)

IRCAL_MANUAL == Command(26, 3, U8s(<<"IRCAL_AMP", "IRCAL_PH">>), 2,
                        U8s(<<"IRCAL_AMP_REPLY", "IRCAL_PH_REPLY">>))

START_TX == Command(49, 7,
  U8s(<<"CHANNEL", "CONDITION">>) \o U16("TX_LEN") \o U8s(<<"TX_DELAY", "NUM_REPEAT">>),
  0, <<>>)

TX_HOP == Command(55, 1, <<>>, 0, <<>>)

START_RX == Command(50, 8,
  U8s(<<"CHANNEL", "CONDITION">>) \o U16("RX_LEN")
    \o U8s(<<"NEXT_STATE1", "NEXT_STATE2", "NEXT_STATE3">>), 0, <<>>)

RX_HOP == Command(54, 7, U8s(<<"INTE">>) \o Bytes("FRAC", 3) \o U16("VCO_CNT"), 0, <<>>)

-----------------------------------------------------------------------------
(* Commands that need no CTS and are answered at once.                      *)

FRR_A_READ == Command(80, 1, <<>>, 4,
  U8s(<<"FRR_A_VALUE", "FRR_B_VALUE", "FRR_C_VALUE", "FRR_D_VALUE">>))

FRR_B_READ == Command(81, 1, <<>>, 4,
  U8s(<<"FRR_B_VALUE", "FRR_C_VALUE", "FRR_D_VALUE", "FRR_A_VALUE">>))

FRR_C_READ == Command(83, 1, <<>>, 4,
  U8s(<<"FRR_C_VALUE", "FRR_D_VALUE", "FRR_A_VALUE", "FRR_B_VALUE">>))

FRR_D_READ == Command(87, 1, <<>>, 4,
  U8s(<<"FRR_D_VALUE", "FRR_A_VALUE", "FRR_B_VALUE", "FRR_C_VALUE">>))

WRITE_TX_FIFO == Command(102, 3, Bytes("DATA", 2), 0, <<>>)

READ_RX_FIFO == Command(119, 1, <<>>, 2, Bytes("DATA", 2))

=============================================================================
