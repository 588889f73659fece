----------------------------- MODULE MCFwTables -----------------------------
(* One AP with a station, one STATION interface with its AP and a TDLS peer. *)
EXTENDS FwTables, TLC

CONSTANTS ap, sta1, s1, s2, td
MCHome == (s1 :> ap) @@ (s2 :> sta1) @@ (td :> sta1)
=============================================================================
