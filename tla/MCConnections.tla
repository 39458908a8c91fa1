--------------------------- MODULE MCConnections ---------------------------
(* Connections with the values TLC needs.                                  *)
EXTENDS Connections, TLC

(* A handshake with a message behind it, and one that never gets further.  *)
AnyScript == {<<"request", "data">>, <<"zero">>}

Symmetry == Permutations(Client)
=============================================================================
