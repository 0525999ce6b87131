---------------------------- MODULE MCRadioBoot ----------------------------
(***************************************************************************)
(* The boot with the array the receiver is built with.                     *)
(***************************************************************************)
EXTENDS RadioBoot

(* Which array is built in: the one to receive, unless CONFIG_DIRECT_TX is *)
(* defined.                                                                *)
Deployed == RxArray

=============================================================================
