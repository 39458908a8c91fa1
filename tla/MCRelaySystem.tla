--------------------------- MODULE MCRelaySystem ---------------------------
(* RelaySystem with the values TLC needs.                                  *)
EXTENDS RelaySystem

Symmetry == Permutations(Name) \cup Permutations(ChannelName) \cup Permutations(Session)

(* sent is copied into the streams in the step that sets it, and nothing   *)
(* that is sent or received depends on a client's SelectedChannel, on its  *)
(* id before it is welcomed, or on a name of its own that the server does  *)
(* not have or that a reply on its way replaces.  Once the client has      *)
(* disconnected, what it remembers is of no consequence; once the server   *)
(* has closed the socket, nor is what the client writes; and unless it has *)
(* channel messages yet to read, nor is the rest of it.                    *)
Over(s) ==
  \/ ~Open(s)
  \/ s \in shut /\ \A m \in Range(toClient[s]) : m.type # "ChannelMessage"

OwnName(s) ==
  IF /\ \E p \in DOMAIN link : link[p] = s /\ PeersPool[p].Name # BlankName
     /\ \A m \in Range(toClient[s]) : m.type = "NameReply" => ~m.ok
  THEN client[s].Name
  ELSE BlankName

Forgotten == [PeerID |-> 0, Name |-> BlankName, SelectedChannel |-> NoChannel]

Remembered ==
  [s \in Session |->
     IF Over(s) THEN Disconnected(NewSession(Forgotten))
     ELSE [client[s] EXCEPT !.PeerID = IF TcpUsable(client[s]) THEN @ ELSE 0,
                            !.Name = OwnName(s),
                            !.SelectedChannel = NoChannel]]

Written == [s \in Session |-> IF s \in shut THEN <<>> ELSE toServer[s]]
Unread == [s \in Session |-> IF Over(s) THEN <<>> ELSE toClient[s]]

System == <<PeersPool, ChannelsPool, ChannelNames, Remembered, link, Written, Unread, shut, requests>>

Everything == {"SetName", "Join", "Leave", "ChannelSend"}
Sending == {"SetName", "Join", "ChannelSend"}

Closing == {{"CloseOnLeave"}}
=============================================================================
