------------------------------- MODULE MCMcu -------------------------------
(* Instances of Mcu for TLC. *)
EXTENDS Mcu
=============================================================================
