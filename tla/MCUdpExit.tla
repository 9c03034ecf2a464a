----------------------------- MODULE MCUdpExit -----------------------------
(* Instances of UdpExit for TLC. *)
EXTENDS UdpExit
=============================================================================
