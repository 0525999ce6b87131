---------------------------- MODULE MCRxDecoder ----------------------------
(***************************************************************************)
(* A small decoder for TLC.  The preambles keep what matters of the real   *)
(* ones: an IDM preamble ends in an SCM+ preamble, both start with a zero, *)
(* an SCM preamble starts with ones.                                       *)
(*                                                                         *)
(* The half bits come from one transmitter, aligned with one of the two    *)
(* buffers, that may send any bits, a one as 10 and a zero as 00 (which    *)
(* the code takes for 01): the other buffer decodes zeros only.            *)
(***************************************************************************)
EXTENDS RxDecoder

ScmPreSmall == <<1, 1, 0>>
ScmPlusPreSmall == <<0, 0, 1, 1>>
IdmPreSmall == <<0, 1, 0, 0, 1, 1>>

VARIABLE sender     \* the buffer the transmitter is aligned with

MCInit == Init /\ sender \in Buffers

MCNext ==
  \E rxBit \in Bit :
    /\ active # sender => rxBit = 0
    /\ amrProcessRxBit(rxBit)
    /\ UNCHANGED sender

MCSpec == MCInit /\ [][MCNext]_<<vars, sender>>

=============================================================================
