----------------------------- MODULE MCAmrLoop -----------------------------
(***************************************************************************)
(* Instances of AmrLoop for TLC.                                           *)
(***************************************************************************)
EXTENDS AmrLoop

(* The elements fill multiples of four bytes, as amr.c's do.               *)
ASSUME AlignedAssumption == Aligned

=============================================================================
