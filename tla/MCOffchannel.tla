--------------------------- MODULE MCOffchannel ---------------------------
(* Two ROCs, two scans and a chip reset. *)
EXTENDS Offchannel
=============================================================================
