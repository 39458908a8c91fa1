------------------------------- MODULE Names -------------------------------
(***************************************************************************)
(* The names of peers and channels, for the server and the client alike.   *)
(* What a name is made of decides nothing: only whether it is empty or too *)
(* long (server/RedRelayServer.cpp, client/RedRelayClient.cpp).            *)
(***************************************************************************)
CONSTANTS
  Name,         \* acceptable names (1 to 255 bytes)
  BlankName,    \* the empty string
  LongName,     \* any name of more than 255 bytes
  ChannelName   \* names of channels

ASSUME NamesAssumption ==
  /\ BlankName \notin Name
  /\ LongName \notin Name
  /\ BlankName # LongName
  /\ BlankName \notin ChannelName
=============================================================================
