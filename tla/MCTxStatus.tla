----------------------------- MODULE MCTxStatus -----------------------------
(* Instances of TxStatus for TLC. *)
EXTENDS TxStatus
=============================================================================
