--------------------------- MODULE MCServerSession ---------------------------
(* Instances of ServerSession for TLC. *)
EXTENDS ServerSession

CONSTANTS p1, p2

\* No reverse remote, one, two in either order, and one that names the same
\* port twice.
RequestsMC == {<<>>, <<p1>>, <<p1, p2>>, <<p2, p1>>, <<p1, p1>>}
=============================================================================
