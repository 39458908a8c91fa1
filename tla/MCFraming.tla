----------------------------- MODULE MCFraming -----------------------------
(* Framing with the values TLC needs: four values of a byte, so that the   *)
(* boundaries are at lengths 2 and 15 and the server's buffer has 16.      *)
EXTENDS Framing

Packet(t, n) == [via |-> "packet", type |-> t, size |-> n]
Relayed(v, n) == [via |-> v, type |-> 3, size |-> n]

(* On both sides of each boundary; 12 fits in the server's buffer, 13 does *)
(* not.                                                                    *)
Requests == {Packet(1, 0), Packet(2, 2), Packet(0, 12), Packet(3, 13)}
Replies ==
  {Packet(1, 0), Packet(0, 14), Packet(2, 15), Relayed("channel", 12), Relayed("peer", 6)}
=============================================================================
