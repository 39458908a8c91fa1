----------------------------- MODULE UdpSession -----------------------------
(***************************************************************************)
(* How a client gets from Connect() to Established, over and over, and how *)
(* the server learns the UDP port of a peer and relays its blasts          *)
(* (client/RedRelayClient.cpp: Connect, Disconnect, Update, HandleUDP, the *)
(* connect response, the blasts; server/RedRelayServer.cpp: ReceiveUdp,    *)
(* with as much of HandleConnection, ReceiveTcp and DropPeer as it takes). *)
(*                                                                         *)
(* Datagrams get lost, are doubled, overtake each other, and outlive the   *)
(* session they belong to.  A TCP stream keeps its order and dies with its *)
(* session; what the server does to a connection whose client has gone     *)
(* away happens all the same.  A client has one UDP socket for all of its  *)
(* sessions, so the client stands for its port.                            *)
(***************************************************************************)
EXTENDS Naturals, Sequences, FiniteSets, Functions

CONSTANTS
  Client,       \* the clients, and the ports of their UDP sockets
  NoPort,       \* UdpPort 0: the server has had no hello from the peer
  Address,      \* the IP address each client is seen under
  PeersLimit,   \* RedRelayServer::PeersLimit
  MaxSessions,  \* bound: calls of Connect, by each client
  MaxBlasts     \* bound: blasts on their way

ASSUME ClientsAssumption == NoPort \notin Client

ASSUME AddressAssumption == DOMAIN Address = Client

ASSUME BoundsAssumption ==
  /\ PeersLimit \in Nat \ {0}
  /\ MaxSessions \in [Client -> Nat]
  /\ MaxBlasts \in Nat

(* Clients with addresses of their own, not behind one router.             *)
OwnAddresses == IsInjective(Address)

PeerIDs == 0 .. PeersLimit - 1
NoPeer == PeersLimit       \* no peer's id; as a blast's target: the channel
NoSession == 0             \* before the first Connect

VARIABLES
  ConnectState,  \* of each client
  PeerID,        \* the id each client was given (not set at first, nor read)
  socket,        \* each client's TCP socket
  session,       \* each client's present session, or its last: a place in ...
  connection,    \* the TCP connections ever made, in order, and the ids they got
  toClient,      \* what the server wrote on the present one of each client
  PeersPool,     \* a function from ids to peers
  members,       \* the peers in the one channel
  datagrams      \* on their way, or lost

clientSide == <<ConnectState, PeerID, socket, session>>
serverSide == <<connection, PeersPool, members>>
vars == <<clientSide, toClient, serverSide, datagrams>>

(* UDPHello, UDPWelcome; a blast to the server, and as the server sends it *)
(* on.  Two fields are history: origin, whose socket the blast came from,  *)
(* and meant, which session the sender took for the owner of the id.       *)
Hello(c, p) == [type |-> "hello", port |-> c, peer |-> p]
Welcome(c) == [type |-> "welcome", port |-> c]
Blasting(c, p, to, meant) ==
  [type |-> "blast", port |-> c, peer |-> p, to |-> to, meant |-> meant]
Relayed(d, port) ==
  [type |-> "relayed", port |-> port, peer |-> d.peer, to |-> d.to, meant |-> d.meant,
   origin |-> d.port]

(* Messages on the TCP stream, and its end.                                *)
Accepted(p) == [answer |-> "accepted", peer |-> p]
Denied == [answer |-> "denied", peer |-> NoPeer]
Closed == [answer |-> "closed", peer |-> NoPeer]

Init ==
  /\ ConnectState = [c \in Client |-> "Disconnected"]
  /\ PeerID = [c \in Client |-> NoPeer]
  /\ socket = [c \in Client |-> "none"]
  /\ session = [c \in Client |-> NoSession]
  /\ toClient = [c \in Client |-> <<>>]
  /\ connection = <<>>
  /\ PeersPool = [p \in {} |-> {}]
  /\ members = {}
  /\ datagrams = {}

-----------------------------------------------------------------------------
(* The network: what has been received may come again.                     *)

Lose(d) ==
  /\ d \in datagrams
  /\ datagrams' = datagrams \ {d}
  /\ UNCHANGED <<clientSide, toClient, serverSide>>

Receiving(d, sent) ==
  /\ d \in datagrams
  /\ \E rest \in {datagrams, datagrams \ {d}} : datagrams' = rest \cup sent

-----------------------------------------------------------------------------
(* The client: Connect, Disconnect, and the parts of Update.               *)

Connect(c) ==
  /\ ConnectState[c] = "Disconnected"
  /\ Cardinality({s \in DOMAIN connection : connection[s].client = c}) < MaxSessions[c]
  /\ connection' = Append(connection, [client |-> c, stage |-> "dialling", peer |-> NoPeer])
  /\ session' = [session EXCEPT ![c] = Len(connection')]
  /\ socket' = [socket EXCEPT ![c] = "dialling"]
  /\ ConnectState' = [ConnectState EXCEPT ![c] = "Connecting"]
  /\ toClient' = [toClient EXCEPT ![c] = <<>>]
  /\ UNCHANGED <<PeerID, PeersPool, members, datagrams>>

(* By the application, when dialling takes over three seconds, or because  *)
(* the stream has ended.                                                   *)
Disconnect(c) ==
  /\ ConnectState[c] # "Disconnected"
  /\ ConnectState' = [ConnectState EXCEPT ![c] = "Disconnected"]
  /\ socket' = [socket EXCEPT ![c] = "none"]
  /\ toClient' = [toClient EXCEPT ![c] = <<>>]
  /\ UNCHANGED <<PeerID, session, serverSide, datagrams>>

(* A connection comes to a stage.                                          *)
At(s, stage) == [connection EXCEPT ![s].stage = stage]

(* The network completes the connection.                                   *)
Open(c) ==
  /\ socket[c] = "dialling"
  /\ socket' = [socket EXCEPT ![c] = "open"]
  /\ connection' = At(session[c], "open")
  /\ UNCHANGED <<ConnectState, PeerID, session, toClient, PeersPool, members, datagrams>>

(* Update in the state Connecting: the handshake.  A stream that has ended *)
(* already reads as not connected yet.                                     *)
RequestTcp(c) ==
  /\ ConnectState[c] = "Connecting"
  /\ socket[c] = "open"
  /\ toClient[c] = <<>>
  /\ connection' = At(session[c], "asked")
  /\ ConnectState' = [ConnectState EXCEPT ![c] = "RequestingTcp"]
  /\ UNCHANGED <<PeerID, socket, session, toClient, PeersPool, members, datagrams>>

SayHello(c, p) ==
  IF socket[c] = "open" THEN datagrams \cup {Hello(c, p)} ELSE datagrams

(* HandleTCP, the connect response: granted ...                            *)
OnAccepted(c) ==
  /\ socket[c] = "open"
  /\ toClient[c] # <<>>
  /\ Head(toClient[c]).answer = "accepted"
  /\ PeerID' = [PeerID EXCEPT ![c] = Head(toClient[c]).peer]
  /\ ConnectState' = [ConnectState EXCEPT ![c] = "RequestingUdp"]
  /\ datagrams' = SayHello(c, Head(toClient[c]).peer)
  /\ toClient' = [toClient EXCEPT ![c] = Tail(@)]
  /\ UNCHANGED <<socket, session, serverSide>>

(* ... or refused: the client closes the socket and keeps its state.       *)
OnDenied(c) ==
  /\ socket[c] = "open"
  /\ toClient[c] # <<>>
  /\ Head(toClient[c]).answer = "denied"
  /\ socket' = [socket EXCEPT ![c] = "none"]
  /\ toClient' = [toClient EXCEPT ![c] = <<>>]
  /\ UNCHANGED <<ConnectState, PeerID, session, serverSide, datagrams>>

(* The stream ends.                                                        *)
OnClosed(c) ==
  /\ socket[c] = "open"
  /\ toClient[c] # <<>>
  /\ Head(toClient[c]).answer = "closed"
  /\ ConnectState[c] # "Connecting"
  /\ Disconnect(c)

Read(c) == OnAccepted(c) \/ OnDenied(c) \/ OnClosed(c)

(* Update in the state RequestingUdp, once a second.                       *)
RequestUdp(c) ==
  /\ ConnectState[c] = "RequestingUdp"
  /\ datagrams' = SayHello(c, PeerID[c])
  /\ UNCHANGED <<clientSide, toClient, serverSide>>

(* HandleUDP.  Update lets through what comes from the server, if there is *)
(* a connection to compare with.  A PeerBlast falls through to the welcome.*)
Establishes(d) == d.type = "welcome" \/ (d.type = "relayed" /\ d.to # NoPeer)

HandleUDP(c, d) ==
  /\ d.type \in {"welcome", "relayed"}
  /\ d.port = c
  /\ socket[c] = "open"
  /\ Receiving(d, {})
  /\ ConnectState' = [ConnectState EXCEPT ![c] = IF Establishes(d) THEN "Established" ELSE @]
  /\ UNCHANGED <<PeerID, socket, session, toClient, serverSide>>

(* ChannelBlast and PeerBlast.  RelaySystem says what a client believes of *)
(* channels and of others; here it may take anyone who has or has had the  *)
(* id for its owner.                                                       *)
Meanings(to) ==
  IF to = NoPeer THEN {NoSession} ELSE {s \in DOMAIN connection : connection[s].peer = to}

SendBlast(c, to) ==
  /\ ConnectState[c] \in {"RequestingUdp", "Established"}
  /\ PeerID[c] \notin {NoPeer, to}
  /\ socket[c] = "open"
  /\ Cardinality({d \in datagrams : d.type \in {"blast", "relayed"}}) < MaxBlasts
  /\ \E meant \in Meanings(to) :
       datagrams' = datagrams \cup {Blasting(c, PeerID[c], to, meant)}
  /\ UNCHANGED <<clientSide, toClient, serverSide>>

-----------------------------------------------------------------------------
(* The server's handling of the TCP streams.                               *)

(* What it writes reaches the client while the session lasts.              *)
Written(s, answers) ==
  LET c == connection[s].client
  IN  IF session[c] = s /\ socket[c] = "open"
      THEN [toClient EXCEPT ![c] = @ \o answers]
      ELSE toClient

(* Mutant: an id is taken that may be in use.                              *)
LowestPeer(p) == p = 0

(* IDPool gives out the lowest id that is free.                            *)
FreePeer(p) ==
  /\ p \in PeerIDs \ DOMAIN PeersPool
  /\ \A q \in PeerIDs : q < p => q \in DOMAIN PeersPool

AcceptPeer(s) ==
  /\ connection[s].stage = "asked"
  /\ \E p \in PeerIDs :
       /\ FreePeer(p)
       /\ connection' = [connection EXCEPT ![s] = [@ EXCEPT !.stage = "peer", !.peer = p]]
       /\ PeersPool' = [q \in DOMAIN PeersPool \cup {p} |->
            IF q = p THEN [client |-> connection[s].client, session |-> s, UdpPort |-> NoPort]
                     ELSE PeersPool[q]]
       /\ toClient' = Written(s, <<Accepted(p)>>)
  /\ UNCHANGED <<clientSide, members, datagrams>>

(* The PeerConnect callback may refuse, and a full server does.            *)
DenyConnection(s) ==
  /\ connection[s].stage = "asked"
  /\ connection' = At(s, "closed")
  /\ toClient' = Written(s, <<Denied, Closed>>)
  /\ UNCHANGED <<clientSide, PeersPool, members, datagrams>>

(* Before the handshake is complete: the client has closed, or a newcomer  *)
(* takes the connection's place.                                           *)
DropConnection(s) ==
  /\ connection[s].stage \in {"open", "asked"}
  /\ connection' = At(s, "closed")
  /\ toClient' = Written(s, <<Closed>>)
  /\ UNCHANGED <<clientSide, PeersPool, members, datagrams>>

(* Mutant: the peer's id stays in the channel.                             *)
DropPeerAlone(p) ==
  /\ p \in DOMAIN PeersPool
  /\ connection' = At(PeersPool[p].session, "closed")
  /\ toClient' = Written(PeersPool[p].session, <<Closed>>)
  /\ PeersPool' = Restrict(PeersPool, DOMAIN PeersPool \ {p})
  /\ UNCHANGED <<clientSide, members, datagrams>>

(* The client has closed, is silent, or the host wants it.                 *)
DropPeer(p) ==
  /\ p \in DOMAIN PeersPool
  /\ connection' = At(PeersPool[p].session, "closed")
  /\ toClient' = Written(PeersPool[p].session, <<Closed>>)
  /\ PeersPool' = Restrict(PeersPool, DOMAIN PeersPool \ {p})
  /\ members' = members \ {p}
  /\ UNCHANGED <<clientSide, datagrams>>

EnterChannel(p) ==
  /\ p \in DOMAIN PeersPool \ members
  /\ members' = members \cup {p}
  /\ UNCHANGED <<clientSide, toClient, connection, PeersPool, datagrams>>

LeaveChannel(p) ==
  /\ p \in members
  /\ members' = members \ {p}
  /\ UNCHANGED <<clientSide, toClient, connection, PeersPool, datagrams>>

-----------------------------------------------------------------------------
(* ReceiveUdp.                                                             *)

(* Mutant: whoever knows the id is the peer.                               *)
AllocatedPeer(d) == d.peer \in DOMAIN PeersPool

(* The id is allocated, to a peer at the sender's address.                 *)
KnownPeer(d) ==
  /\ d.peer \in DOMAIN PeersPool
  /\ Address[PeersPool[d.peer].client] = Address[d.port]

(* Mutant: the first hello is the only one.                                *)
MayBindOnce(d) == PeersPool[d.peer].UdpPort = NoPort

MayBind(d) == PeersPool[d.peer].UdpPort \in {NoPort, d.port}

(* UDPHello: the first one's port is the peer's for good.                  *)
ReceiveHello(d) ==
  /\ d.type = "hello"
  /\ IF KnownPeer(d) /\ MayBind(d)
     THEN /\ PeersPool' = [PeersPool EXCEPT ![d.peer].UdpPort = d.port]
          /\ Receiving(d, {Welcome(d.port)})
     ELSE Receiving(d, {}) /\ UNCHANGED PeersPool
  /\ UNCHANGED <<clientSide, toClient, connection, members>>

(* Mutant: the sender gets its own blast as well.                          *)
ReceiversWithSender(d) ==
  {p \in members : d.peer \in members /\ (d.to = NoPeer \/ p = d.to)}

(* Those who get the blast: the channel without the sender, or the one it  *)
(* is for.                                                                 *)
Receivers(d) ==
  {p \in members : d.peer \in members /\ (p = d.to \/ (d.to = NoPeer /\ p # d.peer))}

(* What is sent to port 0 goes nowhere.                                    *)
Copies(d) ==
  {Relayed(d, PeersPool[p].UdpPort) :
     p \in {q \in Receivers(d) : PeersPool[q].UdpPort # NoPort}}

ReceiveBlast(d) ==
  /\ d.type = "blast"
  /\ IF KnownPeer(d) /\ PeersPool[d.peer].UdpPort = d.port
     THEN Receiving(d, Copies(d))
     ELSE Receiving(d, {})
  /\ UNCHANGED <<clientSide, toClient, serverSide>>

-----------------------------------------------------------------------------
Next ==
  \/ \E c \in Client :
       \/ Connect(c) \/ Disconnect(c) \/ Open(c) \/ RequestTcp(c) \/ Read(c) \/ RequestUdp(c)
       \/ \E to \in PeerIDs \cup {NoPeer} : SendBlast(c, to)
  \/ \E s \in DOMAIN connection : AcceptPeer(s) \/ DenyConnection(s) \/ DropConnection(s)
  \/ \E p \in PeerIDs : DropPeer(p) \/ EnterChannel(p) \/ LeaveChannel(p)
  \/ \E d \in datagrams :
       \/ Lose(d) \/ ReceiveHello(d) \/ ReceiveBlast(d)
       \/ \E c \in Client : HandleUDP(c, d)

(* An application that calls Update again and again; and a network that    *)
(* lets through, in the end, what is sent again and again.                 *)
Fairness ==
  \A c \in Client :
    /\ WF_vars(Read(c))
    /\ WF_vars(RequestUdp(c))
    /\ SF_vars(\E d \in datagrams : d.port = c /\ ReceiveHello(d))
    /\ SF_vars(\E d \in datagrams : d.type = "welcome" /\ HandleUDP(c, d))

Spec == Init /\ [][Next]_vars /\ Fairness

-----------------------------------------------------------------------------
(* Properties.                                                             *)

State == {"Disconnected", "Connecting", "RequestingTcp", "RequestingUdp", "Established"}

Stage == {"dialling", "open", "asked", "peer", "closed"}

Connection == [client : Client, stage : Stage, peer : PeerIDs \cup {NoPeer}]

Datagram ==
  [type : {"hello"}, port : Client, peer : PeerIDs]
    \cup [type : {"welcome"}, port : Client]
    \cup [type : {"blast"}, port : Client, peer : PeerIDs, to : PeerIDs \cup {NoPeer}, meant : Nat]
    \cup [type : {"relayed"}, port : Client, peer : PeerIDs, to : PeerIDs \cup {NoPeer}, meant : Nat,
           origin : Client]

(* Ids stay below the limit, in the pool, in messages and in datagrams.    *)
TypeOK ==
  /\ ConnectState \in [Client -> State]
  /\ PeerID \in [Client -> PeerIDs \cup {NoPeer}]
  /\ socket \in [Client -> {"none", "dialling", "open"}]
  /\ session \in [Client -> DOMAIN connection \cup {NoSession}]
  /\ toClient \in [Client -> Seq({Accepted(p) : p \in PeerIDs} \cup {Denied, Closed})]
  /\ connection \in Seq(Connection)
  /\ DOMAIN PeersPool \subseteq PeerIDs
  /\ PeersPool \in [DOMAIN PeersPool ->
       [client : Client, session : DOMAIN connection, UdpPort : Client \cup {NoPort}]]
  /\ members \subseteq DOMAIN PeersPool
  /\ datagrams \subseteq Datagram

(* However late a hello of the former owner of an id comes, the port the   *)
(* server keeps for a peer is the peer's own (if no two clients share an   *)
(* address): nobody else's datagrams pass for its own, and what the server *)
(* sends to the peer goes to nobody else.                                  *)
PortIsOwners ==
  OwnAddresses =>
    \A p \in DOMAIN PeersPool : PeersPool[p].UdpPort \in {NoPort, PeersPool[p].client}

(* Whoever says hello says it with the id of the peer that its present     *)
(* session is, unless the server has ended the session: ids of earlier     *)
(* sessions, and of sessions of others, do not linger.                     *)
IDIsCurrent ==
  \A c \in Client : ConnectState[c] = "RequestingUdp" =>
    \/ connection[session[c]].stage = "closed"
    \/ /\ PeerID[c] \in DOMAIN PeersPool
       /\ PeersPool[PeerID[c]].client = c
       /\ PeersPool[PeerID[c]].session = session[c]

(* If no two clients share an address, a blast is relayed only in the name *)
(* of the client it came from, and only to fellow members of the channel.  *)
(* A blast for the channel goes to its members; one for a peer goes to the *)
(* peer the sender meant, unless the server has ended that peer's session: *)
(* then whoever has its id now gets it in its place.                       *)
ReachesMeant(d, p) ==
  d.to = p /\ (PeersPool[p].session = d.meant \/ connection[d.meant].stage = "closed")

RelayedRightly(d) ==
  /\ d.peer \in members
  /\ PeersPool[d.peer].client = d.origin
  /\ \E p \in members :
       /\ PeersPool[p].client = d.port
       /\ p # d.peer
       /\ d.to = NoPeer \/ ReachesMeant(d, p)

BlastsGenuine ==
  [][OwnAddresses => \A d \in datagrams' \ datagrams : d.type = "relayed" => RelayedRightly(d)]_vars

(* Hellos and welcomes may be lost any number of times: the UDP handshake  *)
(* completes all the same, or the session ends.                            *)
HandshakeCompletes ==
  \A c \in Client :
    ConnectState[c] = "RequestingUdp" ~> ConnectState[c] \in {"Established", "Disconnected"}

(* "Established     //Connection sequence completed"                       *)
(* (client/RedRelayClient.hpp:231): the server has made a peer of this     *)
(* session and knows its port, or has ended the session since.             *)
EstablishedMeansBound ==
  \A c \in Client : ConnectState[c] = "Established" =>
    \/ connection[session[c]].stage = "closed"
    \/ \E p \in DOMAIN PeersPool :
         PeersPool[p] = [client |-> c, session |-> session[c], UdpPort |-> c]
=============================================================================
