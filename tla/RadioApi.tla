------------------------------ MODULE RadioApi ------------------------------
(***************************************************************************)
(* The command library (si446x_api_lib.c, si446x_nirq.c) over radio_comm.c,*)
(* radio_hal.c and the SPI driver, with everything that is compiled under  *)
(* RADIO_DRIVER_EXTENDED_SUPPORT and RADIO_DRIVER_FULL_SUPPORT.            *)
(*                                                                         *)
(* A call fills Pro2Cmd, sends its first bytes, reads the answer into the  *)
(* same buffer, copies it to the struct of its command in the union        *)
(* Si446xCmd, and may print or use fields from there.  What matters of a   *)
(* byte is where it comes from: an argument of this call, the answer to    *)
(* it, the ones the buffer is preset to, or an earlier call.  Filler,      *)
(* copying and the tables of si446x_cmd.h are in one format, so a call     *)
(* that puts a field in the wrong place shows.  The chip is external: it   *)
(* is busy after a command for as long as it likes.                        *)
(***************************************************************************)
EXTENDS RadioCmds, SpiBus, FiniteSets

CONSTANT Calls           \* the calls the program may make

(* A call: how many bytes it sends of the id and the arguments it fills in,*)
(* how many it reads, where it copies them, what it then uses.             *)
Call(cmd, fill, send, read, copy) ==
  [cmd |-> cmd, fill |-> fill, send |-> send, read |-> read, copy |-> copy,
   via |-> "send", uses |-> <<>>]

Tell(cmd, fill) == Call(cmd, fill, cmd.argCount, 0, <<>>)

Ask(cmd, fill, copy) ==
  [Call(cmd, fill, cmd.argCount, cmd.replyCount, copy) EXCEPT !.via = "ask"]

(* The fast calls send fewer bytes than the command has.                   *)
TellFast(cmd, fill) == Call(cmd, fill, Len(fill) + 1, 0, <<>>)
AskFast(cmd, copy) == [Ask(cmd, <<>>, copy) EXCEPT !.send = 1]

(* A transfer at once, without CTS, of n bytes. *)
Direct(cmd, fill, n, copy) == [Call(cmd, fill, Len(fill) + 1, n, copy) EXCEPT !.via = "direct"]

(* A call whose answer is used by the function that makes it. *)
Using(call, fields) == [call EXCEPT !.uses = U8s(fields)]

-----------------------------------------------------------------------------
(* The functions of si446x_api_lib.c, core support.                        *)

si446x_power_up ==
  Tell(POWER_UP, U8s(<<"BOOT_OPTIONS", "XTAL_OPTIONS">>) \o U32("XO_FREQ"))

si446x_part_info ==
  Ask(PART_INFO, <<>>, U8s(<<"CHIPREV">>) \o U16("PART") \o U8s(<<"PBUILD">>)
                         \o U16("ID") \o U8s(<<"CUSTOMER", "ROMID">>))

si446x_start_tx ==
  Tell(START_TX, U8s(<<"CHANNEL", "CONDITION">>) \o U16("TX_LEN")
                   \o U8s(<<"TX_DELAY", "NUM_REPEAT">>))

si446x_start_rx ==
  Tell(START_RX, U8s(<<"CHANNEL", "CONDITION">>) \o U16("RX_LEN")
                   \o U8s(<<"NEXT_STATE1", "NEXT_STATE2", "NEXT_STATE3">>))

IntStatus == U8s(<<"INT_PEND", "INT_STATUS", "PH_PEND", "PH_STATUS", "MODEM_PEND",
                   "MODEM_STATUS", "CHIP_PEND", "CHIP_STATUS">>)

si446x_get_int_status ==
  Ask(GET_INT_STATUS, U8s(<<"PH_CLR_PEND", "MODEM_CLR_PEND", "CHIP_CLR_PEND">>), IntStatus)

Pins == Bytes("GPIO", 4) \o U8s(<<"NIRQ", "SDO", "GEN_CONFIG">>)

si446x_gpio_pin_cfg == Ask(GPIO_PIN_CFG, Pins, Pins)

(* Nothing keeps NUM_PROPS to the 12 that fit.                             *)
si446x_set_property(n) ==
  TellFast(SET_PROPERTY, U8s(<<"GROUP", "NUM_PROPS", "START_PROP">>) \o Bytes("DATA", n))

si446x_change_state == Tell(CHANGE_STATE, U8s(<<"NEXT_STATE1">>))

-----------------------------------------------------------------------------
(* Extended support.                                                       *)

si446x_nop == Tell(NOP, <<>>)

Fifo == U8s(<<"RX_FIFO_COUNT", "TX_FIFO_SPACE">>)

si446x_fifo_info == Ask(FIFO_INFO, U8s(<<"FIFO">>), Fifo)

(* These transfer a buffer of the caller.                                  *)
si446x_write_tx_fifo(n) == Direct(WRITE_TX_FIFO, Bytes("DATA", n), 0, <<>>)
si446x_read_rx_fifo(n) == Direct(READ_RX_FIFO, <<>>, n, <<>>)

(* It reads as many bytes as it asks for and copies all there could be.    *)
si446x_get_property(n) ==
  [Ask(GET_PROPERTY, U8s(<<"GROUP", "NUM_PROPS", "START_PROP">>), Bytes("DATA", 16))
     EXCEPT !.read = n]

-----------------------------------------------------------------------------
(* Full support.                                                           *)

si446x_func_info ==
  Ask(FUNC_INFO, <<>>, U8s(<<"REVEXT", "REVBRANCH", "REVINT", "", "", "FUNC">>))

(* Of the fast response registers n are read and four are copied.          *)
si446x_frr_a_read(n) == Direct(FRR_A_READ, <<>>, n,
  U8s(<<"FRR_A_VALUE", "FRR_B_VALUE", "FRR_C_VALUE", "FRR_D_VALUE">>))
si446x_frr_b_read(n) == Direct(FRR_B_READ, <<>>, n,
  U8s(<<"FRR_B_VALUE", "FRR_C_VALUE", "FRR_D_VALUE", "FRR_A_VALUE">>))
si446x_frr_c_read(n) == Direct(FRR_C_READ, <<>>, n,
  U8s(<<"FRR_C_VALUE", "FRR_D_VALUE", "FRR_A_VALUE", "FRR_B_VALUE">>))
si446x_frr_d_read(n) == Direct(FRR_D_READ, <<>>, n,
  U8s(<<"FRR_D_VALUE", "FRR_A_VALUE", "FRR_B_VALUE", "FRR_C_VALUE">>))

(* It fills in one argument of the two it sends.                           *)
si446x_get_adc_reading ==
  Ask(GET_ADC_READING, U8s(<<"ADC_EN">>),
      U16("GPIO_ADC") \o U16("BATTERY_ADC") \o U16("TEMP_ADC"))

si446x_get_packet_info ==
  Ask(PACKET_INFO, U8s(<<"FIELD_NUMBER">>) \o U16("LEN") \o U16("LEN_DIFF"), U16("LENGTH"))

PhStatus == U8s(<<"PH_PEND", "PH_STATUS">>)

si446x_get_ph_status == Ask(GET_PH_STATUS, U8s(<<"PH_CLR_PEND">>), PhStatus)

ModemStatus ==
  U8s(<<"MODEM_PEND", "MODEM_STATUS", "CURR_RSSI", "LATCH_RSSI", "ANT1_RSSI",
        "ANT2_RSSI">>) \o U16("AFC_FREQ_OFFSET")

si446x_get_modem_status == Ask(GET_MODEM_STATUS, U8s(<<"MODEM_CLR_PEND">>), ModemStatus)

(* The last byte of the answer is left where it is. *)
ChipStatus == U8s(<<"CHIP_PEND", "CHIP_STATUS", "CMD_ERR_STATUS">>)

si446x_get_chip_status == Ask(GET_CHIP_STATUS, U8s(<<"CHIP_CLR_PEND">>), ChipStatus)

si446x_ircal ==
  Tell(IRCAL, U8s(<<"SEARCHING_STEP_SIZE", "SEARCHING_RSSI_AVG", "RX_CHAIN_SETTING1",
                    "RX_CHAIN_SETTING2">>))

si446x_ircal_manual ==
  Ask(IRCAL_MANUAL, U8s(<<"IRCAL_AMP", "IRCAL_PH">>),
      U8s(<<"IRCAL_AMP_REPLY", "IRCAL_PH_REPLY">>))

si446x_request_device_state ==
  Ask(REQUEST_DEVICE_STATE, <<>>, U8s(<<"CURR_STATE", "CURRENT_CHANNEL">>))

(* It fills in eight arguments of a command that is sent with none.        *)
si446x_tx_hop ==
  Tell(TX_HOP, U8s(<<"INTE">>) \o Bytes("FRAC", 3) \o U16("VCO_CNT")
                 \o U16("PLL_SETTLE_TIME"))

si446x_rx_hop == Tell(RX_HOP, U8s(<<"INTE">>) \o Bytes("FRAC", 3) \o U16("VCO_CNT"))

-----------------------------------------------------------------------------
(* The fast forms: the id alone, or with the first argument.               *)

si446x_start_tx_fast == TellFast(START_TX, <<>>)
si446x_start_rx_fast == TellFast(START_RX, <<>>)
si446x_get_int_status_fast_clear == TellFast(GET_INT_STATUS, <<>>)
si446x_get_int_status_fast_clear_read == AskFast(GET_INT_STATUS, IntStatus)
si446x_gpio_pin_cfg_fast == AskFast(GPIO_PIN_CFG, Pins)
si446x_get_ph_status_fast_clear == TellFast(GET_PH_STATUS, U8s(<<"PH_CLR_PEND">>))
si446x_get_ph_status_fast_clear_read == AskFast(GET_PH_STATUS, PhStatus)
si446x_get_modem_status_fast_clear == TellFast(GET_MODEM_STATUS, U8s(<<"MODEM_CLR_PEND">>))
si446x_get_modem_status_fast_clear_read == AskFast(GET_MODEM_STATUS, ModemStatus)
si446x_get_chip_status_fast_clear == TellFast(GET_CHIP_STATUS, U8s(<<"CHIP_CLR_PEND">>))
si446x_get_chip_status_fast_clear_read == AskFast(GET_CHIP_STATUS, ChipStatus)
si446x_fifo_info_fast_reset == TellFast(FIFO_INFO, U8s(<<"FIFO">>))
si446x_fifo_info_fast_read == AskFast(FIFO_INFO, Fifo)

-----------------------------------------------------------------------------
(* Functions that use what they asked for.                                 *)

si446x_disp_part_info ==
  Using(si446x_part_info, <<"CHIPREV", "PART", "PBUILD", "ID", "CUSTOMER", "ROMID">>)

si446x_disp_func_info ==
  Using(si446x_func_info, <<"REVEXT", "REVBRANCH", "REVINT", "FUNC">>)

si446x_display_rssi_info ==
  Using(si446x_get_modem_status, <<"CURR_RSSI", "LATCH_RSSI", "ANT1_RSSI", "ANT2_RSSI">>)

si446x_disp_dev_state ==
  Using(si446x_request_device_state, <<"CURR_STATE", "CURRENT_CHANNEL">>)

(* It prints the pins and asks for nothing.                                *)
si446x_disp_gpio_pin_cfg ==
  Using([Call(GPIO_PIN_CFG, <<>>, 0, 0, <<>>) EXCEPT !.via = "none"],
        <<"GPIO", "NIRQ", "SDO", "GEN_CONFIG">>)

(* The interrupts go from the union to three arrays of bits.               *)
si446x_nirq_process ==
  Using(si446x_get_int_status, <<"PH_PEND", "MODEM_PEND", "CHIP_PEND">>)

-----------------------------------------------------------------------------
VARIABLES call,          \* the call under way
          phase,         \* where it is
          Pro2Cmd,
          Si446xCmd,     \* the struct written last, and the bytes in its fields
          ctsWentHigh,
          user,          \* the flags of SPI_USER
          frame,         \* external: the bytes the chip got as one command
          chip,          \* external: it executes a command, or is ready
          lost           \* history: a command was sent to a busy chip

buffers == <<Pro2Cmd, Si446xCmd>>
vars == <<call, phase, Pro2Cmd, Si446xCmd, ctsWentHigh, user, frame, chip, lost>>

(* Where a byte comes from, and the field it stands for.                   *)
From(is, of) == [is |-> is, of |-> of]
Old == From("old", <<"", 0>>)
Id(cmd) == From("id", <<"", cmd.id>>)
Origins == {"old", "id", "arg", "ones", "answer"}

Aged(bytes) == [k \in DOMAIN bytes |-> Old]

Init ==
  /\ call = si446x_nop /\ phase = "idle"
  /\ Pro2Cmd = [k \in 0..15 |-> Old]
  /\ Si446xCmd = [of |-> NOP.id, fields |-> <<>>, bytes |-> <<>>]
  /\ ctsWentHigh = FALSE /\ frame = <<>> /\ chip = "ready" /\ lost = FALSE
  /\ \E before \in {{}, UserFlags} : user = spi_mode(spi_init(before), FALSE)

-----------------------------------------------------------------------------
(* A function is called: it fills in the id and its arguments, in Pro2Cmd   *)
(* unless the bytes to send are the caller's.                              *)
Fill(c) ==
  [k \in 0..Len(c.fill) |-> IF k = 0 THEN Id(c.cmd) ELSE From("arg", c.fill[k])]

Over(new, old) ==
  [k \in DOMAIN old \cup DOMAIN new |-> IF k \in DOMAIN new THEN new[k] ELSE old[k]]

Begin(c) ==
  /\ phase = "idle"
  /\ call' = c
  /\ phase' = IF c.via = "none" THEN "use" ELSE "send"
  /\ Pro2Cmd' = Over(IF c.via \in {"send", "ask"} THEN Fill(c) ELSE <<>>, Aged(Pro2Cmd))
  /\ Si446xCmd' = [Si446xCmd EXCEPT !.bytes = Aged(@)]
  /\ UNCHANGED <<ctsWentHigh, user, frame, chip, lost>>

(* amrHalInit sets up the bus; the reset that follows lets the chip boot    *)
(* and forgets CTS.                                                        *)
amrHalInit ==
  /\ phase = "idle"
  /\ user' = spi_mode(spi_init(user), FALSE)
  /\ chip' = "busy" /\ ctsWentHigh' = FALSE
  /\ UNCHANGED <<call, phase, buffers, frame, lost>>

(* One round of asking for CTS, two bytes over the bus: the chip answers    *)
(* when it gets the command as it was meant, and what comes back says      *)
(* whether it is ready.                                                    *)
CtsReturned ==
  /\ spi_transfer32(Id(READ_CMD_BUFF), user) = Id(READ_CMD_BUFF)
  /\ Returned(chip, TransferUser(user)) = "ready"

(* radio_comm_PollCTS. *)
PollCTS ==
  /\ phase = "send" /\ call.via \in {"send", "ask"} /\ ~ctsWentHigh
  /\ ctsWentHigh' = CtsReturned
  /\ user' = TransferUser(user)
  /\ UNCHANGED <<call, phase, buffers, frame, chip, lost>>

(* The bytes of a command on their way to the chip. *)
Sent(bytes, n) ==
  [k \in 1..n |-> spi_transfer32(bytes[k - 1], IF k = 1 THEN user ELSE TransferUser(user))]

(* Slip: CTS is not forgotten.                                             *)
SendCmdKeepsCts ==
  /\ phase = "send" /\ call.via \in {"send", "ask"} /\ ctsWentHigh
  /\ frame' = Sent(Pro2Cmd, call.send) /\ user' = TransferUser(user)
  /\ lost' = (lost \/ chip = "busy") /\ chip' = "busy"
  /\ phase' = IF call.via = "ask" THEN "response" ELSE "use"
  /\ UNCHANGED <<call, buffers, ctsWentHigh>>

(* radio_comm_SendCmd. *)
SendCmd ==
  /\ phase = "send" /\ call.via \in {"send", "ask"} /\ ctsWentHigh
  /\ frame' = Sent(Pro2Cmd, call.send) /\ user' = TransferUser(user)
  /\ lost' = (lost \/ chip = "busy") /\ chip' = "busy"
  /\ ctsWentHigh' = FALSE
  /\ phase' = IF call.via = "ask" THEN "response" ELSE "use"
  /\ UNCHANGED <<call, buffers>>

(* Slip: the byte of CTS is read into the buffer with the answer.          *)
ReadIntoAfterCts(buffer, n) ==
  LET field(k) == IF k <= Len(call.cmd.reply) THEN call.cmd.reply[k] ELSE <<"", 0>>
      read == spi_transfer([k \in 1..n |-> From("ones", field(k))],
                           [k \in 1..n |-> From("answer", field(k))])
  IN  [k \in DOMAIN buffer |-> IF k \in 1..(n - 1) THEN read[k] ELSE buffer[k]]

(* Slip: it reads a byte too many.                                         *)
ReadIntoOneMore(buffer, n) ==
  LET field(k) == IF k <= Len(call.cmd.reply) THEN call.cmd.reply[k] ELSE <<"", 0>>
      read == spi_transfer([k \in 1..(n + 1) |-> From("ones", field(k))],
                           [k \in 1..(n + 1) |-> From("answer", field(k))])
  IN  [k \in DOMAIN buffer \cup 0..n |-> IF k <= n THEN read[k + 1] ELSE buffer[k]]

(* radio_hal_SpiReadData: the buffer is preset to ones.  The chip sends the *)
(* fields of the reply, after which there is nothing.                       *)
ReadInto(buffer, n) ==
  LET field(k) == IF k <= Len(call.cmd.reply) THEN call.cmd.reply[k] ELSE <<"", 0>>
      read == spi_transfer([k \in 1..n |-> From("ones", field(k))],
                           [k \in 1..n |-> From("answer", field(k))])
  IN  [k \in DOMAIN buffer \cup 0..(n - 1) |-> IF k < n THEN read[k + 1] ELSE buffer[k]]

(* radio_comm_GetResp: the answer is read into the buffer of the command,   *)
(* from which the function copies its fields.                              *)
GetResp ==
  /\ phase = "response" /\ CtsReturned
  /\ Pro2Cmd' = ReadInto(Pro2Cmd, call.read)
  /\ ctsWentHigh' = TRUE /\ user' = TransferUser(user)
  /\ phase' = "copy"
  /\ UNCHANGED <<call, Si446xCmd, frame, chip, lost>>

(* Slip: the bytes of Pro2Cmd are sent, not those of the caller.           *)
ExchangeOfPro2Cmd ==
  /\ phase = "send" /\ call.via = "direct"
  /\ frame' = Sent(Pro2Cmd, call.send) /\ user' = TransferUser(user)
  /\ Pro2Cmd' = IF call.copy = <<>> THEN Pro2Cmd ELSE ReadInto(Pro2Cmd, call.read)
  /\ ctsWentHigh' = FALSE
  /\ phase' = IF call.copy = <<>> THEN "use" ELSE "copy"
  /\ UNCHANGED <<call, Si446xCmd, chip, lost>>

(* radio_comm_ReadData and radio_comm_WriteData, which are never asked to   *)
(* poll CTS and forget it all the same.  Without fields to copy the buffer  *)
(* is the caller's.                                                        *)
Exchange ==
  /\ phase = "send" /\ call.via = "direct"
  /\ frame' = Sent(Fill(call), call.send) /\ user' = TransferUser(user)
  /\ Pro2Cmd' = IF call.copy = <<>> THEN Pro2Cmd ELSE ReadInto(Pro2Cmd, call.read)
  /\ ctsWentHigh' = FALSE
  /\ phase' = IF call.copy = <<>> THEN "use" ELSE "copy"
  /\ UNCHANGED <<call, Si446xCmd, chip, lost>>

Copy ==
  /\ phase = "copy"
  /\ Si446xCmd' = [of |-> call.cmd.id, fields |-> call.copy,
                   bytes |-> [k \in DOMAIN call.copy |-> Pro2Cmd[k - 1]]]
  /\ phase' = "use"
  /\ UNCHANGED <<call, Pro2Cmd, ctsWentHigh, user, frame, chip, lost>>

Return ==
  /\ phase = "use" /\ phase' = "idle"
  /\ UNCHANGED <<call, buffers, ctsWentHigh, user, frame, chip, lost>>

(* External: the chip has executed the command.                            *)
Finish ==
  /\ chip = "busy" /\ chip' = "ready"
  /\ UNCHANGED <<call, phase, buffers, ctsWentHigh, user, frame, lost>>

(* A chip that never finishes leaves the driver waiting (RadioBoot).       *)
Next ==
  \/ amrHalInit \/ \E c \in Calls : Begin(c)
  \/ PollCTS \/ SendCmd \/ GetResp \/ Exchange \/ Copy \/ Return \/ Finish

Spec == Init /\ [][Next]_vars

-----------------------------------------------------------------------------
(* The types of the variables; no call writes beyond Pro2Cmd.              *)
TypeOK ==
  /\ call \in Calls \cup {si446x_nop}
  /\ phase \in {"idle", "send", "response", "copy", "use"}
  /\ DOMAIN Pro2Cmd = 0..15 /\ \A k \in 0..15 : Pro2Cmd[k].is \in Origins
  /\ Len(Si446xCmd.fields) = Len(Si446xCmd.bytes)
  /\ ctsWentHigh \in BOOLEAN /\ user \subseteq UserFlags
  /\ chip \in {"ready", "busy"} /\ lost \in BOOLEAN

(* No command is ever sent to a chip that executes another one, whatever    *)
(* calls follow each other, those included that need no CTS (ctsWentHigh). *)
NothingLost == ~lost /\ (ctsWentHigh => chip = "ready")

(* A command reaches the chip as the id, then every argument the function   *)
(* was given, each at the position si446x_cmd.h has for it, and nothing     *)
(* left in the buffer by an earlier call.                                  *)
FramesWhole ==
  phase \in {"response", "copy", "use"} /\ call.via # "none" =>
    /\ Len(frame) = 1 + Len(call.fill) /\ frame[1] = Id(call.cmd)
    /\ \A k \in 2..Len(frame) :
         k - 1 \in DOMAIN call.cmd.args /\ frame[k] = From("arg", call.cmd.args[k - 1])

(* A call is laid out as the tables say: it sends all it fills in, and      *)
(* fills in the arguments from the first on.                               *)
LaidOut(c) ==
  /\ c.via \in {"send", "ask", "direct", "none"}
  /\ c.via # "none" =>
       /\ Len(c.fill) \in Nat /\ c.send = 1 + Len(c.fill)
       /\ \A k \in 1..Len(c.fill) :
            k \in DOMAIN c.cmd.args /\ c.fill[k] = c.cmd.args[k]

(* A call gets answered as the tables say: Pro2Cmd has room for what it     *)
(* fills in and what it reads, it copies the fields of the reply from the  *)
(* first on, and uses only fields it has read.                             *)
Answered(c) ==
  /\ c.via \in {"send", "ask", "direct", "none"}
  /\ c.copy # <<>> => c.via \in {"ask", "direct"} /\ c.read <= 16
  /\ c.via = "ask" => c.read <= 16
  /\ c.via \in {"send", "ask"} => Len(c.fill) <= 15
  /\ {Len(c.fill), c.read, Len(c.copy)} \subseteq Nat /\ DOMAIN c.copy = 1..Len(c.copy)
  /\ \A k \in DOMAIN c.copy : k <= c.read =>
       k <= Len(c.cmd.reply) /\ c.copy[k] = c.cmd.reply[k]
  /\ \A n \in DOMAIN c.uses :
       \E k \in DOMAIN c.copy : k <= c.read /\ c.copy[k] = c.uses[n]

(* Every field that was asked for is copied from where this call's own      *)
(* transfer put, or should have put, that byte of the reply: none is taken *)
(* from an earlier call or from the command, or from another field's       *)
(* position in si446x_cmd.h.  What the transfer leaves at that position,   *)
(* the answer or the ones it was preset to, is left open (AnswerArrives).  *)
FieldsFresh ==
  phase = "use" /\ call.copy # <<>> =>
    /\ Si446xCmd.of = call.cmd.id
    /\ \A k \in DOMAIN call.copy :
         k <= call.read => /\ Si446xCmd.bytes[k].is \in {"ones", "answer"}
                           /\ Si446xCmd.bytes[k].of = Si446xCmd.fields[k]

(* The received data is stored in the buffer passed to spi_transfer: the    *)
(* fields hold what the chip answered.                                     *)
AnswerArrives ==
  phase = "use" =>
    \A k \in DOMAIN Si446xCmd.bytes :
      call.copy # <<>> /\ k <= call.read => Si446xCmd.bytes[k].is = "answer"

=============================================================================
