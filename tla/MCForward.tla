------------------------------ MODULE MCForward ------------------------------
(* Instances of Forward for TLC. *)
EXTENDS Forward

Config(stdio, denied, library, user, target) ==
    [stdio |-> stdio, denied |-> denied, library |-> library,
     chunks |-> [entry |-> user, exit |-> target]]

\* A TCP entry to a target, to another handler, and denied; stdio.
ConfigsMC == {
    Config(FALSE, FALSE, FALSE, 2, 1),
    Config(FALSE, FALSE, FALSE, 0, 2),
    Config(FALSE, FALSE, TRUE, 1, 1),
    Config(FALSE, TRUE, FALSE, 1, 1),
    Config(TRUE, FALSE, FALSE, 1, 0),
    Config(TRUE, FALSE, FALSE, 0, 1)}
=============================================================================
