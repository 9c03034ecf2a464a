----------------------------- MODULE MCUdpEntry -----------------------------
(* Instances of UdpEntry for TLC. *)
EXTENDS UdpEntry
=============================================================================
