---------------------------- MODULE MCServerAuth ----------------------------
(* Instances of ServerAuth for TLC: ann's entry may change between two     *)
(* versions of the auth file, bob's is fixed.                              *)
EXTENDS ServerAuth, TLC

CONSTANTS r1, r2

Ann1 == [name |-> "ann", pass |-> "p", addrs |-> {r1}]
Ann2 == [name |-> "ann", pass |-> "p", addrs |-> {r2}]
Bob  == [name |-> "bob", pass |-> "q", addrs |-> {r1, r2}]

UsersMC == {Ann1, Ann2, Bob}

Symmetry == Permutations(Sessions)
=============================================================================
