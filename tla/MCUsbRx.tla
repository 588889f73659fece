------------------------------ MODULE MCUsbRx ------------------------------
(* Instances of UsbRx for TLC. *)
EXTENDS UsbRx
=============================================================================
