------------------------------ MODULE MCUsbTx ------------------------------
(***************************************************************************)
(* Instances of UsbTx for TLC.                                             *)
(***************************************************************************)
EXTENDS UsbTx

\* After stop_tx freed a refused frame without taking first along, the ring may be in
\* any disorder: the run goes no further.
NotStale == kicks # "stale"
=============================================================================
