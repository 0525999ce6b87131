----------------------------- MODULE MCRadioApi -----------------------------
(***************************************************************************)
(* The command library with calls of every kind.                           *)
(***************************************************************************)
EXTENDS RadioApi

(* Properties are set one or twelve at a time, twelve being what fits, and *)
(* read one or sixteen at a time; of the fast response registers one or    *)
(* all are read; the buffers are of two bytes.                             *)
CoreCalls ==
  {si446x_power_up, si446x_part_info, si446x_start_tx, si446x_start_rx,
   si446x_get_int_status, si446x_gpio_pin_cfg, si446x_set_property(1),
   si446x_set_property(12), si446x_change_state}

ExtendedCalls ==
  {si446x_nop, si446x_fifo_info, si446x_write_tx_fifo(2), si446x_read_rx_fifo(2),
   si446x_get_property(1), si446x_get_property(16)}

FullCalls ==
  {si446x_func_info, si446x_frr_a_read(1), si446x_frr_a_read(4), si446x_frr_b_read(4),
   si446x_frr_c_read(4), si446x_frr_d_read(4), si446x_get_packet_info,
   si446x_get_ph_status, si446x_get_modem_status, si446x_get_chip_status, si446x_ircal,
   si446x_ircal_manual, si446x_request_device_state, si446x_rx_hop}

FastCalls ==
  {si446x_start_tx_fast, si446x_start_rx_fast, si446x_get_int_status_fast_clear,
   si446x_get_int_status_fast_clear_read, si446x_gpio_pin_cfg_fast,
   si446x_get_ph_status_fast_clear, si446x_get_ph_status_fast_clear_read,
   si446x_get_modem_status_fast_clear, si446x_get_modem_status_fast_clear_read,
   si446x_get_chip_status_fast_clear, si446x_get_chip_status_fast_clear_read,
   si446x_fifo_info_fast_reset, si446x_fifo_info_fast_read}

UsingCalls ==
  {si446x_disp_part_info, si446x_disp_func_info, si446x_display_rssi_info,
   si446x_disp_dev_state, si446x_nirq_process}

(* All but the calls that send too little or too much and the one that     *)
(* prints without asking.                                                  *)
SoundCalls == CoreCalls \cup ExtendedCalls \cup FullCalls \cup FastCalls \cup UsingCalls

(* They are laid out and answered as the tables say, and so are those of   *)
(* every other length that fits.                                           *)
OtherLengths ==
  {si446x_set_property(n) : n \in 1..12} \cup {si446x_get_property(n) : n \in 1..16}
    \cup UNION {{si446x_frr_a_read(n), si446x_frr_b_read(n), si446x_frr_c_read(n),
                 si446x_frr_d_read(n)} : n \in 1..4}

ASSUME SoundAssumption ==
  \A c \in SoundCalls \cup OtherLengths : LaidOut(c) /\ Answered(c)

HopCalls == {si446x_tx_hop, si446x_rx_hop}
AnswerCalls == {si446x_part_info, si446x_get_int_status}

=============================================================================
