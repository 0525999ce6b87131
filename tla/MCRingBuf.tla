----------------------------- MODULE MCRingBuf -----------------------------
(***************************************************************************)
(* Instances of RingBuf for TLC: the constants are given by the .cfg files *)
(* and this module adds what only a run of a particular size needs.        *)
(***************************************************************************)
EXTENDS RingBuf

(* The elements fill multiples of four bytes, as amr.c's do.               *)
ASSUME AlignedAssumption == Aligned

=============================================================================
