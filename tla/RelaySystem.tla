---------------------------- MODULE RelaySystem ----------------------------
(***************************************************************************)
(* The server and its clients joined by TCP streams: RelayServer's         *)
(* handlers consume what the clients wrote, RelayClient's what the server  *)
(* wrote, and either end may go away while both streams still hold         *)
(* messages.  A client that reconnects is a new session here, with what    *)
(* its earlier sessions left in it.                                        *)
(***************************************************************************)
EXTENDS RelayServer, RelayClient

CONSTANTS
  Session,      \* the TCP connections clients ever make
  Asks,         \* what the applications ask for
  Flags,        \* the flags they pass to JoinChannel
  MaxPending,   \* bound: requests on their way from one session
  MaxRequests   \* bound: requests all the sessions send

ASSUME BoundsAssumption ==
  /\ Asks \subseteq {"SetName", "Join", "Leave", "ChannelSend"}
  /\ Flags \subseteq SUBSET {"HideFromList", "CloseOnLeave"}
  /\ MaxPending \in Nat \ {0}
  /\ MaxRequests \in Nat

VARIABLES
  client,     \* each session's client, as in RelayClient
  link,       \* the server's end: which session is behind an allocated peer
  toServer,   \* requests written by the client, not yet read by the server
  toClient,   \* messages written by the server, not yet read by the client
  shut,       \* sessions whose socket the server has deleted
  requests    \* how many requests have been sent (bounded)

wires == <<client, link, toServer, toClient, shut, requests>>

Hello == [type |-> "Hello"]
ConnectDenied == [type |-> "ConnectDenied"]

(* What the sessions a client has had before, with this server or another, *)
(* may have left in it; a client that never had one has no name.           *)
Leftovers ==
  [PeerID : PeerID, Name : Name \cup {BlankName}, SelectedChannel : ChannelID \cup {NoChannel}]

SystemInit ==
  /\ Init
  /\ client \in [Session -> {NewSession(left) : left \in Leftovers}]
  /\ link = [p \in {} |-> {}]
  /\ toServer = [s \in Session |-> <<Hello>>]
  /\ toClient = [s \in Session |-> <<>>]
  /\ shut = {}
  /\ requests = 0

-----------------------------------------------------------------------------
(* The client's end.                                                       *)

Open(s) == client[s].ConnectState # "Disconnected"

(* What the application may ask for depends on what its client believes:   *)
(* LeaveChannel and ChannelSend look the channel up first, and name it by  *)
(* its id; meant is not sent, it records which channel that was.           *)
Requests(s) ==
  [type : {"SetName"}, name : Name]
    \cup [type : {"Join"}, name : ChannelName, flags : Flags]
    \cup {[type |-> t, channel |-> ch.ID, meant |-> ch.Name] :
            t \in {"Leave", "ChannelSend"}, ch \in Range(client[s].Channels)}

Ask(s) ==
  /\ TcpUsable(client[s])
  /\ Len(toServer[s]) < MaxPending
  /\ requests < MaxRequests
  /\ requests' = requests + 1
  /\ \E r \in {q \in Requests(s) : q.type \in Asks} :
       toServer' = [toServer EXCEPT ![s] = Append(@, r)]
  /\ UNCHANGED <<vars, client, link, toClient, shut>>

Select(s) ==
  /\ \E ch \in Range(client[s].Channels) :
       client' = [client EXCEPT ![s].SelectedChannel = ch.ID]
  /\ UNCHANGED <<vars, link, toServer, toClient, shut, requests>>

Receive(s) ==
  /\ Open(s)
  /\ toClient[s] # <<>>
  /\ client' = [client EXCEPT ![s] = HandleTCP(@, Head(toClient[s]))]
  /\ toClient' = [toClient EXCEPT ![s] = Tail(@)]
  /\ UNCHANGED <<vars, link, toServer, shut, requests>>

(* Disconnect(), called by the application, or by Update() when the server *)
(* has closed the socket; a reset may then take what was not yet read.     *)
Disconnect(s) ==
  /\ Open(s)
  /\ client' = [client EXCEPT ![s] = Disconnected(@)]
  /\ toClient' = [toClient EXCEPT ![s] = <<>>]
  /\ UNCHANGED <<vars, link, toServer, shut, requests>>

-----------------------------------------------------------------------------
(* The server's end.                                                       *)

(* What a handler wrote travels to those who still have a socket.          *)
WrittenTo(s) ==
  IF \E p \in DOMAIN link' : link'[p] = s /\ Open(s)
  THEN sent'[CHOOSE p \in DOMAIN link' : link'[p] = s]
  ELSE {}

(* Where it wrote several messages to one peer, each is about another      *)
(* channel, and they go out in the order of the peer's vector: any.        *)
Deliver ==
  LET told == {s \in Session : WrittenTo(s) # {}}
  IN  \E news \in [told -> UNION {SetToSeqs(WrittenTo(s)) : s \in told}] :
        /\ \A s \in told : news[s] \in SetToSeqs(WrittenTo(s))
        /\ toClient' = [s \in Session |->
                          IF s \in told THEN toClient[s] \o news[s] ELSE toClient[s]]

(* HandleConnection turns the handshake of a session into a peer, or says  *)
(* that the server is full and closes the socket.                          *)
Accept(s) ==
  /\ Hello \in Range(toServer[s])
  /\ s \notin shut
  /\ toServer' = [toServer EXCEPT ![s] = Tail(@)]
  /\ \/ /\ \E p \in PeerID :
             /\ Connect(p)
             /\ link' = [q \in DOMAIN link \cup {p} |-> IF q = p THEN s ELSE link[q]]
        /\ Deliver
        /\ UNCHANGED shut
     \/ /\ DOMAIN PeersPool = PeerID
        /\ toClient' = [toClient EXCEPT ![s] = Append(@, ConnectDenied)]
        /\ shut' = shut \cup {s}
        /\ UNCHANGED <<vars, link>>
  /\ UNCHANGED <<client, requests>>

(* HandleTCP ignores ids of channels the peer is not (or no longer) in.    *)
Ignore(p, r) ==
  /\ r.type \in {"Leave", "ChannelSend"}
  /\ ~IsInChannel(p, r.channel)
  /\ sent' = Nothing
  /\ UNCHANGED <<PeersPool, ChannelsPool, ChannelNames>>

Serve(p, r) ==
  \/ r.type = "SetName" /\ (SetName(p, r.name) \/ DenyNameChange(p, r.name))
  \/ r.type = "Join" /\ \/ CreateChannel(p, r.name, "HideFromList" \in r.flags, "CloseOnLeave" \in r.flags)
                        \/ EnterChannel(p, r.name)
                        \/ DenyChannelJoin(p, r.name)
  \/ r.type = "Leave" /\ LeaveChannel(p, r.channel)
  \/ r.type = "ChannelSend" /\ SendToChannel(p, r.channel)
  \/ Ignore(p, r)

(* ReceiveTcp hands the next complete message to HandleTCP.                *)
Handle(p) ==
  LET s == link[p]
  IN  /\ toServer[s] # <<>>
      /\ Serve(p, Head(toServer[s]))
      /\ toServer' = [toServer EXCEPT ![s] = Tail(@)]
      /\ UNCHANGED <<client, link, shut, requests>>
      /\ Deliver

(* The socket closed, the pings went unanswered or the host calls DropPeer:*)
(* what the client wrote and the server has not read is lost.              *)
Lose(p) ==
  /\ DropPeer(p)
  /\ link' = Restrict(link, DOMAIN link \ {p})
  /\ shut' = shut \cup {link[p]}
  /\ toServer' = [toServer EXCEPT ![link[p]] = <<>>]
  /\ Deliver
  /\ UNCHANGED <<client, requests>>

-----------------------------------------------------------------------------
SystemNext ==
  \/ \E s \in Session : Ask(s) \/ Select(s) \/ Receive(s) \/ Disconnect(s) \/ Accept(s)
  \/ \E p \in DOMAIN PeersPool : Handle(p) \/ Lose(p)

SystemSpec == SystemInit /\ [][SystemNext]_<<vars, wires>>

-----------------------------------------------------------------------------
(* Properties.                                                             *)

(* A client's channels, and the server's account of the same peer.         *)
ClientView(cl) ==
  [c \in {ch.ID : ch \in Range(cl.Channels)} |->
     [Name |-> ChannelOf(cl, c).Name, Peers |-> ChannelOf(cl, c).Peers]]

ServerView(p) ==
  [c \in PeersPool[p].Channels |->
     [Name |-> ChannelsPool[c].Name,
      Peers |-> [q \in Members(c) \ {p} |-> <<PeersPool[q].Name>>]]]

(* The client of p once it has read what is in flight.                     *)
Caught(p) == HandleAll(client[link[p]], toClient[link[p]])

Live == {p \in DOMAIN link : Open(link[p])}

(* However requests, notices and departures interleave, a client that has  *)
(* read its stream knows its id, its channels and who is in them under     *)
(* which name, each once, exactly as the server does.  It knows its own    *)
(* name too once the server has one for it; until then SelfName() is what  *)
(* an earlier session left, which nothing resets.                          *)
ClientsConverge ==
  \A p \in Live :
    LET cl == Caught(p)
    IN  /\ cl.PeerID = p
        /\ PeersPool[p].Name # BlankName => cl.Name = PeersPool[p].Name
        /\ ClientView(cl) = ServerView(p)

(* A client that reads a channel message knows the channel and the sender, *)
(* even one that was renamed, entered or left meanwhile.                   *)
SendersKnown ==
  \A s \in Session : Open(s) /\ toClient[s] # <<>> =>
    LET m == Head(toClient[s])
    IN  m.type = "ChannelMessage" =>
          /\ HasChannel(client[s], m.channel)
          /\ m.peer \in DOMAIN ChannelOf(client[s], m.channel).Peers

(* ChannelSend sends "to specified channel or currently selected channel"  *)
(* (doc/client.html:153): a message that the server relays is relayed in   *)
(* the channel its sender meant, not in another one that has the id now.   *)
SendsReachTheirChannel ==
  \A p \in DOMAIN link : toServer[link[p]] # <<>> =>
    LET r == Head(toServer[link[p]])
    IN  r.type = "ChannelSend" /\ IsInChannel(p, r.channel) =>
          ChannelsPool[r.channel].Name = r.meant
=============================================================================
