--------------------------- MODULE MCRelayServer ---------------------------
(* RelayServer with the values TLC needs.                                  *)
EXTENDS RelayServer, TLC

Symmetry == Permutations(Name) \cup Permutations(ChannelName)

(* What the last handler sent decides nothing that comes after: states     *)
(* that differ only in it are explored once.  TLC still judges the sent'   *)
(* of every step it generates.                                             *)
Registry == <<PeersPool, ChannelsPool, ChannelNames>>

AllCallbacks == CallbackKind
=============================================================================
