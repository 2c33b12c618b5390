----------------------------- MODULE MCDevices -----------------------------
(* The interrupts on two or three terminals, all of them reading the clock. *)
EXTENDS Devices
=============================================================================
