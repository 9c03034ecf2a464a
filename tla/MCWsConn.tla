------------------------------ MODULE MCWsConn ------------------------------
(* Instances of WsConn for TLC. *)
EXTENDS WsConn

SizesMC == 0..4
=============================================================================
