---------------------------- MODULE MCClientLoop ----------------------------
(* Instances of ClientLoop for TLC. *)
EXTENDS ClientLoop

\* No limit, no retry, and three; with and without proxies of either kind.
ConfigsMC == [MaxRetryCount : {-1, 0, 3}, inbound : SUBSET {"listener", "stdio"}]
=============================================================================
