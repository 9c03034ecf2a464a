----------------------------- MODULE MCKeepAlive -----------------------------
(* Instances of KeepAlive for TLC. *)
EXTENDS KeepAlive

PeriodsMC == 1..5
=============================================================================
