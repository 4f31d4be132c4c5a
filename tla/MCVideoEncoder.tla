--------------------------- MODULE MCVideoEncoder ---------------------------
(***************************************************************************)
(* VideoEncoder for TLC: the writeback slots are model values, and no step *)
(* tells one from another.                                                 *)
(***************************************************************************)
EXTENDS VideoEncoder, TLC

SlotSymmetry == Permutations(Slots)

=============================================================================
