------------------------- MODULE UdpSession_proofs -------------------------
(***************************************************************************)
(* Proofs about UdpSession: for any number of clients and sessions, ids    *)
(* are current, and (without shared addresses) ports are their owners' and *)
(* blasts genuine.                                                         *)
(*                                                                         *)
(* The invariant IInv adds to the properties which of the client's         *)
(* variables go together, that a session belongs to one client, that an    *)
(* accepted answer on its way names the right peer or comes before an end, *)
(* and that no blast is meant for its sender.  HInv, proved on top of it,  *)
(* says which connection holds, or has held, an id.                        *)
(***************************************************************************)
EXTENDS UdpSession, TLAPS, SequenceTheorems

(* A client that dials has nothing to read and has come no further.        *)
Dialling ==
  \A c \in Client : socket[c] = "dialling" => ConnectState[c] = "Connecting" /\ toClient[c] = <<>>

(* A session under way is a connection of the client's own.                *)
SessionsOwned ==
  \A c \in Client :
    /\ ConnectState[c] # "Disconnected" => session[c] # NoSession
    /\ ConnectState[c] = "Disconnected" => toClient[c] = <<>> /\ socket[c] = "none"
    /\ session[c] # NoSession => connection[session[c]].client = c

(* The peer p is the client's present session.                             *)
Current(c, p) ==
  /\ p \in DOMAIN PeersPool
  /\ PeersPool[p].client = c
  /\ PeersPool[p].session = session[c]

Over(c) == connection[session[c]].stage = "closed"

AnswersCurrent ==
  \A c \in Client : \A i \in 1 .. Len(toClient[c]) :
    toClient[c][i].answer = "accepted" => Over(c) \/ Current(c, toClient[c][i].peer)

Identified == \A c \in Client : ConnectState[c] = "RequestingUdp" => PeerID[c] # NoPeer

BlastsToOthers == \A d \in datagrams : d.type \in {"blast", "relayed"} => d.to # d.peer

IInv ==
  /\ TypeOK
  /\ Dialling
  /\ SessionsOwned
  /\ AnswersCurrent
  /\ Identified
  /\ IDIsCurrent
  /\ PortIsOwners
  /\ BlastsToOthers

-----------------------------------------------------------------------------
(* Types of what is sent.                                                  *)

Answer == {Accepted(p) : p \in PeerIDs} \cup {Denied, Closed}

LEMMA LimitFacts == PeerIDs \subseteq Nat /\ NoPeer \notin PeerIDs /\ 0 \in PeerIDs /\ NoPeer \in Nat
  BY BoundsAssumption DEF PeerIDs, NoPeer

(* The connections are a sequence of records.                              *)
LEMMA ConnectionFacts ==
  ASSUME TypeOK
  PROVE  /\ Len(connection) \in Nat
         /\ DOMAIN connection = 1 .. Len(connection)
         /\ \A s \in DOMAIN connection :
              /\ connection[s] \in Connection
              /\ connection[s].client \in Client
              /\ connection[s].stage \in Stage
              /\ connection[s].peer \in PeerIDs \cup {NoPeer}
<1>1. connection \in Seq(Connection)
  BY DEF TypeOK
<1>2. \A s \in 1 .. Len(connection) : connection[s] \in Connection
  BY <1>1, ElementOfSeq
<1>. QED  BY <1>1, <1>2, LenProperties DEF Connection

(* Moving a connection to another stage changes nothing else.              *)
LEMMA AtStage ==
  ASSUME TypeOK, NEW s \in DOMAIN connection, NEW stage \in Stage, connection' = At(s, stage)
  PROVE  /\ connection' \in Seq(Connection)
         /\ DOMAIN connection' = DOMAIN connection
         /\ \A t \in DOMAIN connection :
              /\ connection'[t].client = connection[t].client
              /\ connection'[t].stage = IF t = s THEN stage ELSE connection[t].stage
              /\ connection'[t].peer = connection[t].peer
<1>. DEFINE C == Connection
            e == [connection[s] EXCEPT !.stage = stage]
<1>1. connection \in Seq(C)
  BY DEF TypeOK
<1>2. DOMAIN connection = 1 .. Len(connection) /\ Len(connection) \in Nat
  BY ConnectionFacts
<1>3. \A t \in DOMAIN connection : connection[t] \in C
  BY ConnectionFacts
<1>4. e \in C /\ e.client = connection[s].client /\ e.stage = stage /\ e.peer = connection[s].peer
  BY <1>3 DEF Connection
<1>5. connection' = [connection EXCEPT ![s] = e]
  BY DEF At
<1>6. connection' \in Seq(C)
  <2>. HIDE DEF C, e
  <2>. QED  BY <1>1, <1>2, <1>4, <1>5, ExceptSeq
<1>7. DOMAIN connection' = DOMAIN connection
  BY <1>5
<1>8. \A t \in DOMAIN connection : connection'[t] = IF t = s THEN e ELSE connection[t]
  BY <1>5
<1>. QED  BY <1>4, <1>6, <1>7, <1>8

(* A connection that becomes a peer gets its id.                           *)
LEMMA AcceptedStage ==
  ASSUME TypeOK, NEW s \in DOMAIN connection, NEW p \in PeerIDs,
         connection' = [connection EXCEPT ![s] = [@ EXCEPT !.stage = "peer", !.peer = p]]
  PROVE  /\ connection' \in Seq(Connection)
         /\ DOMAIN connection' = DOMAIN connection
         /\ \A t \in DOMAIN connection :
              /\ connection'[t].client = connection[t].client
              /\ connection'[t].stage = IF t = s THEN "peer" ELSE connection[t].stage
              /\ connection'[t].peer = IF t = s THEN p ELSE connection[t].peer
<1>. DEFINE e == [connection[s] EXCEPT !.stage = "peer", !.peer = p]
<1>1. connection \in Seq(Connection)
  BY DEF TypeOK
<1>2. DOMAIN connection = 1 .. Len(connection) /\ Len(connection) \in Nat
  BY ConnectionFacts
<1>3. e \in Connection /\ e.client = connection[s].client /\ e.stage = "peer" /\ e.peer = p
  BY ConnectionFacts DEF Connection, Stage
<1>4. connection' = [connection EXCEPT ![s] = e]
  OBVIOUS
<1>5. connection' \in Seq(Connection)
  <2>. HIDE DEF e
  <2>. QED  BY <1>1, <1>2, <1>3, <1>4, ExceptSeq
<1>6. \A t \in DOMAIN connection : connection'[t] = IF t = s THEN e ELSE connection[t]
  BY <1>4
<1>. QED  BY <1>3, <1>4, <1>5, <1>6

(* Only the client of a session that is not over gets what is written.     *)
LEMMA WrittenProperties ==
  ASSUME TypeOK, NEW s \in DOMAIN connection, NEW answers \in Seq(Answer)
  PROVE  /\ Written(s, answers) \in [Client -> Seq(Answer)]
         /\ \A c \in Client :
              \/ Written(s, answers)[c] = toClient[c]
              \/ /\ session[c] = s /\ socket[c] = "open"
                 /\ Written(s, answers)[c] = toClient[c] \o answers
<1>. DEFINE c == connection[s].client
<1>1. c \in Client
  BY ConnectionFacts
<1>2. toClient \in [Client -> Seq(Answer)]
  BY DEF TypeOK, Answer
<1>3. toClient[c] \o answers \in Seq(Answer)
  BY <1>1, <1>2, ConcatProperties
<1>. QED  BY <1>1, <1>2, <1>3 DEF Written

-----------------------------------------------------------------------------
(* The steps.                                                              *)

LEMMA InitInvariant == Init => IInv
<1>. SUFFICES ASSUME Init PROVE IInv
  OBVIOUS
<1>1. TypeOK
  BY LimitFacts DEF Init, TypeOK, State
<1>2. Dialling /\ SessionsOwned /\ AnswersCurrent /\ Identified /\ IDIsCurrent /\ PortIsOwners /\ BlastsToOthers
  BY DEF Init, Dialling, SessionsOwned, AnswersCurrent, Identified, IDIsCurrent, PortIsOwners, BlastsToOthers
<1>. QED  BY <1>1, <1>2 DEF IInv

(* Steps of datagrams alone.                                               *)
LEMMA DatagramStep ==
  ASSUME IInv, UNCHANGED <<clientSide, toClient, serverSide>>,
         datagrams' \subseteq Datagram, BlastsToOthers'
  PROVE  IInv'
<1>1. TypeOK'
  BY DEF IInv, TypeOK, clientSide, serverSide
<1>2. Dialling' /\ SessionsOwned' /\ AnswersCurrent' /\ Identified' /\ IDIsCurrent' /\ PortIsOwners'
  BY DEF IInv, Dialling, SessionsOwned, AnswersCurrent, Identified, IDIsCurrent, PortIsOwners, Over, Current,
     clientSide, serverSide
<1>. QED  BY <1>1, <1>2 DEF IInv

(* What is received comes again or not, with what it makes the server send.*)
LEMMA ReceivingProperties ==
  ASSUME IInv, NEW d, NEW sent, Receiving(d, sent), sent \subseteq Datagram,
         \A e \in sent : e.type \in {"blast", "relayed"} => e.to # e.peer
  PROVE  datagrams' \subseteq Datagram /\ BlastsToOthers' /\ d \in Datagram
<1>1. datagrams' \subseteq datagrams \cup sent /\ d \in datagrams
  BY DEF Receiving
<1>. QED  BY <1>1 DEF IInv, TypeOK, BlastsToOthers

LEMMA LoseStep ==
  ASSUME IInv, NEW d, Lose(d)
  PROVE  IInv'
<1>1. datagrams' \subseteq Datagram /\ BlastsToOthers'
  BY DEF Lose, IInv, TypeOK, BlastsToOthers
<1>. QED  BY <1>1, DatagramStep DEF Lose

LEMMA RequestUdpStep ==
  ASSUME IInv, NEW c \in Client, RequestUdp(c)
  PROVE  IInv'
<1>1. CASE socket[c] # "open"
  <2>1. datagrams' = datagrams /\ UNCHANGED <<clientSide, toClient, serverSide>>
    BY <1>1 DEF RequestUdp, SayHello
  <2>2. datagrams' \subseteq Datagram /\ BlastsToOthers'
    BY <2>1 DEF IInv, TypeOK, BlastsToOthers
  <2>. QED  BY <2>1, <2>2, DatagramStep
<1>2. CASE socket[c] = "open"
  <2>1. datagrams' = datagrams \cup {Hello(c, PeerID[c])}
    BY <1>2 DEF RequestUdp, SayHello
  <2>2. PeerID[c] \in PeerIDs
    BY DEF RequestUdp, IInv, TypeOK, Identified
  <2>3. Hello(c, PeerID[c]) \in Datagram /\ Hello(c, PeerID[c]).type = "hello"
    BY <2>2 DEF Hello, Datagram
  <2>4. datagrams' \subseteq Datagram /\ BlastsToOthers'
    BY <2>1, <2>3 DEF IInv, TypeOK, BlastsToOthers
  <2>. QED  BY <2>4, DatagramStep DEF RequestUdp
<1>. QED  BY <1>1, <1>2

LEMMA SendBlastStep ==
  ASSUME IInv, NEW c \in Client, NEW to \in PeerIDs \cup {NoPeer}, SendBlast(c, to)
  PROVE  IInv'
<1>1. PeerID[c] \in PeerIDs /\ PeerID[c] # to
  BY DEF SendBlast, IInv, TypeOK
<1>2. PICK meant \in Meanings(to) : datagrams' = datagrams \cup {Blasting(c, PeerID[c], to, meant)}
  BY DEF SendBlast
<1>3. meant \in Nat
  BY ConnectionFacts DEF Meanings, NoSession, IInv
<1>4. Blasting(c, PeerID[c], to, meant) \in Datagram
  BY <1>1, <1>3 DEF Blasting, Datagram
<1>5. Blasting(c, PeerID[c], to, meant).to # Blasting(c, PeerID[c], to, meant).peer
  BY <1>1 DEF Blasting
<1>6. datagrams' \subseteq Datagram /\ BlastsToOthers'
  BY <1>2, <1>4, <1>5 DEF IInv, TypeOK, BlastsToOthers
<1>. QED  BY <1>6, DatagramStep DEF SendBlast

(* A blast is copied with its sender and its target.                       *)
LEMMA CopiesProperties ==
  ASSUME IInv, NEW d \in datagrams, d.type = "blast"
  PROVE  /\ Copies(d) \subseteq Datagram
         /\ \A e \in Copies(d) : /\ e.type = "relayed" /\ e.to # e.peer
                                 /\ e.to = d.to /\ e.peer = d.peer
                                 /\ e.meant = d.meant /\ e.origin = d.port
<1>1. /\ d.port \in Client /\ d.peer \in PeerIDs /\ d.to \in PeerIDs \cup {NoPeer}
      /\ d.to # d.peer /\ d.meant \in Nat
  BY DEF IInv, TypeOK, Datagram, BlastsToOthers
<1>2. ASSUME NEW e \in Copies(d)
      PROVE  /\ e \in Datagram /\ e.type = "relayed" /\ e.to # e.peer
             /\ e.to = d.to /\ e.peer = d.peer /\ e.meant = d.meant /\ e.origin = d.port
  <2>1. PICK p \in Receivers(d) : PeersPool[p].UdpPort # NoPort /\ e = Relayed(d, PeersPool[p].UdpPort)
    BY DEF Copies
  <2>2. PeersPool[p].UdpPort \in Client
    BY <2>1 DEF IInv, TypeOK, Receivers
  <2>. QED  BY <1>1, <2>1, <2>2 DEF Relayed, Datagram
<1>. QED  BY <1>2

LEMMA ReceiveBlastStep ==
  ASSUME IInv, NEW d \in datagrams, ReceiveBlast(d)
  PROVE  IInv'
<1>1. PICK sent \in {Copies(d), {}} : Receiving(d, sent)
  BY DEF ReceiveBlast
<1>2. sent \subseteq Datagram /\ \A e \in sent : e.to # e.peer
  BY CopiesProperties DEF ReceiveBlast
<1>3. datagrams' \subseteq Datagram /\ BlastsToOthers'
  BY <1>1, <1>2, ReceivingProperties
<1>. QED  BY <1>3, DatagramStep DEF ReceiveBlast

LEMMA HandleUDPStep ==
  ASSUME IInv, NEW c \in Client, NEW d \in datagrams, HandleUDP(c, d)
  PROVE  IInv'
<1>1. /\ socket[c] = "open"
      /\ ConnectState' = [ConnectState EXCEPT ![c] = IF Establishes(d) THEN "Established" ELSE @]
      /\ UNCHANGED <<PeerID, socket, session, toClient, serverSide>>
      /\ Receiving(d, {})
  BY DEF HandleUDP
<1>2. datagrams' \subseteq Datagram /\ BlastsToOthers'
  BY <1>1, ReceivingProperties
<1>3. /\ ConnectState' \in [Client -> State]
      /\ \A b \in Client : \/ ConnectState'[b] = ConnectState[b]
                           \/ b = c /\ ConnectState'[b] = "Established"
  BY <1>1 DEF IInv, TypeOK, State
<1>4. TypeOK'
  BY <1>1, <1>2, <1>3 DEF IInv, TypeOK, serverSide
<1>5. ConnectState[c] # "Disconnected"
  BY <1>1 DEF IInv, SessionsOwned
<1>6. Dialling' /\ SessionsOwned'
  BY <1>1, <1>3, <1>5 DEF IInv, Dialling, SessionsOwned, serverSide
<1>7. AnswersCurrent' /\ Identified' /\ IDIsCurrent' /\ PortIsOwners'
  BY <1>1, <1>3 DEF IInv, AnswersCurrent, Identified, IDIsCurrent, PortIsOwners, Over, Current, serverSide
<1>. QED  BY <1>2, <1>4, <1>6, <1>7 DEF IInv

(* The port is the one of the client at the peer's address, which is the   *)
(* peer's client.                                                          *)
LEMMA ReceiveHelloStep ==
  ASSUME IInv, NEW d \in datagrams, ReceiveHello(d)
  PROVE  IInv'
<1>1. d.type = "hello" /\ d.port \in Client /\ d.peer \in PeerIDs
  BY DEF ReceiveHello, IInv, TypeOK, Datagram
<1>2. CASE ~(KnownPeer(d) /\ MayBind(d))
  <2>1. Receiving(d, {}) /\ UNCHANGED <<clientSide, toClient, serverSide>>
    BY <1>2 DEF ReceiveHello, serverSide
  <2>. QED  BY <2>1, ReceivingProperties, DatagramStep
<1>3. CASE KnownPeer(d) /\ MayBind(d)
  <2>1. /\ PeersPool' = [PeersPool EXCEPT ![d.peer].UdpPort = d.port]
        /\ Receiving(d, {Welcome(d.port)})
        /\ UNCHANGED <<clientSide, toClient, connection, members>>
    BY <1>3 DEF ReceiveHello
  <2>2. Welcome(d.port) \in Datagram /\ Welcome(d.port).type = "welcome"
    BY <1>1 DEF Welcome, Datagram
  <2>3. datagrams' \subseteq Datagram /\ BlastsToOthers'
    BY <2>1, <2>2, ReceivingProperties
  <2>4. d.peer \in DOMAIN PeersPool /\ Address[PeersPool[d.peer].client] = Address[d.port]
    BY <1>3 DEF KnownPeer
  <2>5. /\ DOMAIN PeersPool' = DOMAIN PeersPool
        /\ \A p \in DOMAIN PeersPool :
             /\ PeersPool'[p] \in [client : Client, session : DOMAIN connection, UdpPort : Client \cup {NoPort}]
             /\ PeersPool'[p].client = PeersPool[p].client
             /\ PeersPool'[p].session = PeersPool[p].session
             /\ PeersPool'[p].UdpPort = IF p = d.peer THEN d.port ELSE PeersPool[p].UdpPort
    BY <1>1, <2>1, <2>4 DEF IInv, TypeOK
  <2>6. PeersPool' \in [DOMAIN PeersPool -> [client : Client, session : DOMAIN connection, UdpPort : Client \cup {NoPort}]]
    BY <2>1, <2>5
  <2>7. TypeOK'
    BY <2>1, <2>3, <2>5, <2>6 DEF IInv, TypeOK, clientSide
  <2>8. Dialling' /\ SessionsOwned' /\ AnswersCurrent' /\ Identified' /\ IDIsCurrent'
    BY <2>1, <2>5 DEF IInv, Dialling, SessionsOwned, AnswersCurrent, Identified, IDIsCurrent, Over, Current, clientSide
  <2>9. PortIsOwners'
    <3>. SUFFICES ASSUME OwnAddresses
                  PROVE  \A p \in DOMAIN PeersPool' : PeersPool'[p].UdpPort \in {NoPort, PeersPool'[p].client}
      BY DEF PortIsOwners, OwnAddresses
    <3>1. PeersPool[d.peer].client = d.port
      BY <1>1, <2>4, AddressAssumption DEF OwnAddresses, IsInjective, IInv, TypeOK
    <3>. QED  BY <2>5, <3>1 DEF IInv, PortIsOwners
  <2>. QED  BY <2>3, <2>7, <2>8, <2>9 DEF IInv
<1>. QED  BY <1>2, <1>3

(* A new session is a new connection; all others stay what they are.       *)
LEMMA ConnectStep ==
  ASSUME IInv, NEW c \in Client, Connect(c)
  PROVE  IInv'
<1>. DEFINE C == Connection
            s == Len(connection) + 1
            new == [client |-> c, stage |-> "dialling", peer |-> NoPeer]
<1>1. /\ ConnectState[c] = "Disconnected"
      /\ connection' = Append(connection, new)
      /\ session' = [session EXCEPT ![c] = Len(connection')]
      /\ socket' = [socket EXCEPT ![c] = "dialling"]
      /\ ConnectState' = [ConnectState EXCEPT ![c] = "Connecting"]
      /\ toClient' = [toClient EXCEPT ![c] = <<>>]
      /\ UNCHANGED <<PeerID, PeersPool, members, datagrams>>
  BY DEF Connect
<1>2. connection \in Seq(C) /\ new \in C
  BY DEF IInv, TypeOK, Stage, Connection
<1>3. /\ connection' \in Seq(C)
      /\ Len(connection') = s
      /\ \A t \in 1 .. Len(connection) : connection'[t] = connection[t]
      /\ connection'[s] = new
  <2>. HIDE DEF C, new
  <2>. QED  BY <1>1, <1>2, AppendProperties
<1>4. /\ DOMAIN connection = 1 .. Len(connection) /\ Len(connection) \in Nat
      /\ DOMAIN connection' = 1 .. s
  BY <1>2, <1>3, LenProperties
<1>5. /\ DOMAIN connection \subseteq DOMAIN connection'
      /\ s \in DOMAIN connection' /\ s \notin DOMAIN connection /\ s # NoSession
      /\ NoSession \notin DOMAIN connection
  BY <1>4 DEF NoSession
<1>6. /\ session' \in [Client -> DOMAIN connection' \cup {NoSession}]
      /\ session'[c] = s
      /\ \A b \in Client \ {c} : session'[b] = session[b]
  BY <1>1, <1>3, <1>5 DEF IInv, TypeOK
<1>7. /\ toClient' \in [Client -> Seq(Answer)]
      /\ toClient'[c] = <<>>
      /\ \A b \in Client \ {c} : toClient'[b] = toClient[b]
  BY <1>1 DEF IInv, TypeOK, Answer
<1>8. TypeOK'
  <2>1. PeersPool' \in [DOMAIN PeersPool' ->
          [client : Client, session : DOMAIN connection', UdpPort : Client \cup {NoPort}]]
    BY <1>1, <1>5 DEF IInv, TypeOK
  <2>. QED  BY <1>1, <1>3, <1>6, <1>7, <2>1 DEF IInv, TypeOK, Answer, Stage, State
<1>9. /\ \A b \in Client \ {c} : ConnectState'[b] = ConnectState[b] /\ socket'[b] = socket[b]
      /\ ConnectState'[c] = "Connecting" /\ socket'[c] = "dialling"
  BY <1>1 DEF IInv, TypeOK
<1>10. Dialling'
  BY <1>7, <1>9 DEF IInv, Dialling
<1>11. SessionsOwned'
  <2>1. ASSUME NEW b \in Client, session'[b] # NoSession
        PROVE  connection'[session'[b]].client = b
    <3>1. CASE b = c
      BY <1>3, <1>6, <3>1
    <3>2. CASE b # c
      <4>1. session[b] \in DOMAIN connection /\ session'[b] = session[b]
        BY <1>6, <2>1, <3>2 DEF IInv, TypeOK
      <4>. QED  BY <1>3, <1>4, <1>6, <2>1, <3>2, <4>1 DEF IInv, SessionsOwned
    <3>. QED  BY <3>1, <3>2
  <2>. QED  BY <1>5, <1>6, <1>7, <1>9, <2>1 DEF IInv, SessionsOwned
<1>12. ASSUME NEW b \in Client \ {c}, ConnectState[b] # "Disconnected"
       PROVE  /\ Over(b) => Over(b)'
              /\ \A p : Current(b, p) => Current(b, p)'
  <2>1. session[b] \in DOMAIN connection
    BY <1>12 DEF IInv, TypeOK, SessionsOwned
  <2>. QED  BY <1>1, <1>3, <1>4, <1>6, <2>1 DEF Over, Current
<1>13. AnswersCurrent'
  <2>. SUFFICES ASSUME NEW b \in Client, NEW i \in 1 .. Len(toClient'[b]), NEW p,
                       toClient'[b][i].answer = "accepted", p = toClient'[b][i].peer
                PROVE  Over(b)' \/ Current(b, p)'
    BY DEF AnswersCurrent, Over, Current
  <2>1. b # c
    BY <1>7, EmptySeq
  <2>2. toClient'[b] = toClient[b] /\ toClient[b] # <<>>
    BY <1>7, <2>1, EmptySeq
  <2>3. ConnectState[b] # "Disconnected"
    BY <2>2 DEF IInv, SessionsOwned
  <2>4. Over(b) \/ Current(b, p)
    BY <2>2 DEF IInv, AnswersCurrent
  <2>. QED  BY <1>12, <2>1, <2>2, <2>3, <2>4
<1>14. IDIsCurrent' /\ Identified'
  <2>. SUFFICES ASSUME NEW b \in Client, NEW p, ConnectState'[b] = "RequestingUdp", p = PeerID'[b]
                PROVE  p # NoPeer /\ (Over(b)' \/ Current(b, p)')
    BY DEF IDIsCurrent, Identified, Over, Current
  <2>1. b # c /\ ConnectState[b] = "RequestingUdp" /\ p = PeerID[b]
    BY <1>1, <1>9
  <2>2. p # NoPeer /\ (Over(b) \/ Current(b, p))
    BY <2>1 DEF IInv, IDIsCurrent, Identified, Over, Current
  <2>. QED  BY <1>12, <2>1, <2>2
<1>15. PortIsOwners' /\ BlastsToOthers'
  BY <1>1 DEF IInv, PortIsOwners, BlastsToOthers
<1>. QED  BY <1>8, <1>10, <1>11, <1>13, <1>14, <1>15 DEF IInv

LEMMA DisconnectStep ==
  ASSUME IInv, NEW c \in Client, Disconnect(c)
  PROVE  IInv'
<1>1. /\ ConnectState' = [ConnectState EXCEPT ![c] = "Disconnected"]
      /\ socket' = [socket EXCEPT ![c] = "none"]
      /\ toClient' = [toClient EXCEPT ![c] = <<>>]
      /\ UNCHANGED <<PeerID, session, serverSide, datagrams>>
  BY DEF Disconnect
<1>2. /\ \A b \in Client \ {c} : /\ ConnectState'[b] = ConnectState[b]
                               /\ socket'[b] = socket[b]
                               /\ toClient'[b] = toClient[b]
      /\ ConnectState'[c] = "Disconnected" /\ socket'[c] = "none" /\ toClient'[c] = <<>>
  BY <1>1 DEF IInv, TypeOK
<1>3. TypeOK'
  <2>1. ConnectState' \in [Client -> State]
    BY <1>1 DEF IInv, TypeOK, State
  <2>. QED  BY <1>1, <2>1 DEF IInv, TypeOK, serverSide
<1>4. Len(toClient'[c]) = 0
  BY <1>2, EmptySeq
<1>5. Dialling' /\ SessionsOwned' /\ Identified' /\ IDIsCurrent' /\ PortIsOwners' /\ BlastsToOthers'
  BY <1>1, <1>2 DEF IInv, Dialling, SessionsOwned, Identified, IDIsCurrent, PortIsOwners,
     BlastsToOthers, serverSide
<1>6. AnswersCurrent'
  BY <1>1, <1>2, <1>4 DEF IInv, AnswersCurrent, Over, Current, serverSide
<1>. QED  BY <1>3, <1>5, <1>6 DEF IInv

LEMMA OnDeniedStep ==
  ASSUME IInv, NEW c \in Client, OnDenied(c)
  PROVE  IInv'
<1>1. /\ socket[c] = "open"
      /\ socket' = [socket EXCEPT ![c] = "none"]
      /\ toClient' = [toClient EXCEPT ![c] = <<>>]
      /\ UNCHANGED <<ConnectState, PeerID, session, serverSide, datagrams>>
  BY DEF OnDenied
<1>2. /\ \A b \in Client \ {c} : socket'[b] = socket[b] /\ toClient'[b] = toClient[b]
      /\ socket'[c] = "none" /\ toClient'[c] = <<>>
  BY <1>1 DEF IInv, TypeOK
<1>3. TypeOK'
  BY <1>1 DEF IInv, TypeOK, serverSide
<1>4. Len(toClient'[c]) = 0
  BY <1>2, EmptySeq
<1>5. Dialling' /\ SessionsOwned' /\ Identified' /\ IDIsCurrent' /\ PortIsOwners' /\ BlastsToOthers'
  BY <1>1, <1>2 DEF IInv, Dialling, SessionsOwned, Identified, IDIsCurrent, PortIsOwners,
     BlastsToOthers, serverSide
<1>6. AnswersCurrent'
  BY <1>1, <1>2, <1>4 DEF IInv, AnswersCurrent, Over, Current, serverSide
<1>. QED  BY <1>3, <1>5, <1>6 DEF IInv

(* The answer that is read first was current, and so is the client's id.   *)
LEMMA OnAcceptedStep ==
  ASSUME IInv, NEW c \in Client, OnAccepted(c)
  PROVE  IInv'
<1>. DEFINE a == Head(toClient[c])
            rest == Tail(toClient[c])
<1>1. /\ socket[c] = "open" /\ toClient[c] # <<>> /\ a.answer = "accepted"
      /\ PeerID' = [PeerID EXCEPT ![c] = a.peer]
      /\ ConnectState' = [ConnectState EXCEPT ![c] = "RequestingUdp"]
      /\ datagrams' = datagrams \cup {Hello(c, a.peer)}
      /\ toClient' = [toClient EXCEPT ![c] = rest]
      /\ UNCHANGED <<socket, session, serverSide>>
  BY DEF OnAccepted, SayHello
<1>2. toClient \in [Client -> Seq(Answer)] /\ toClient[c] \in Seq(Answer)
  BY DEF IInv, TypeOK, Answer
<1>3. /\ a \in Answer /\ rest \in Seq(Answer)
      /\ Len(toClient[c]) \in Nat \ {0}
      /\ Len(rest) = Len(toClient[c]) - 1
      /\ \A i \in 1 .. Len(rest) : rest[i] = toClient[c][i + 1]
  <2>. HIDE DEF a, rest
  <2>. QED  BY <1>1, <1>2, HeadTailProperties, EmptySeq DEF a, rest
<1>4. a.peer \in PeerIDs
  BY <1>1, <1>3 DEF Answer, Accepted, Denied, Closed
<1>5. a = toClient[c][1]
  BY <1>1, <1>2
<1>6. Over(c) \/ Current(c, a.peer)
  <2>1. 1 \in 1 .. Len(toClient[c])
    BY <1>3
  <2>. QED  BY <1>1, <1>5, <2>1 DEF IInv, AnswersCurrent
<1>7. /\ \A b \in Client \ {c} : /\ ConnectState'[b] = ConnectState[b]
                               /\ PeerID'[b] = PeerID[b]
                               /\ toClient'[b] = toClient[b]
      /\ ConnectState'[c] = "RequestingUdp" /\ PeerID'[c] = a.peer /\ toClient'[c] = rest
  BY <1>1 DEF IInv, TypeOK
<1>8. datagrams' \subseteq Datagram /\ BlastsToOthers'
  <2>1. Hello(c, a.peer) \in Datagram /\ Hello(c, a.peer).type = "hello"
    BY <1>4 DEF Hello, Datagram
  <2>. QED  BY <1>1, <2>1 DEF IInv, TypeOK, BlastsToOthers
<1>9. TypeOK'
  <2>1. toClient' \in [Client -> Seq(Answer)]
    BY <1>1, <1>2, <1>3
  <2>2. PeerID' \in [Client -> PeerIDs \cup {NoPeer}]
    BY <1>1, <1>4 DEF IInv, TypeOK
  <2>3. ConnectState' \in [Client -> State]
    BY <1>1 DEF IInv, TypeOK, State
  <2>. QED  BY <1>1, <1>8, <2>1, <2>2, <2>3 DEF IInv, TypeOK, Answer, serverSide
<1>10. ConnectState[c] # "Disconnected"
  BY <1>1 DEF IInv, SessionsOwned
<1>11. Dialling' /\ SessionsOwned' /\ PortIsOwners'
  BY <1>1, <1>7, <1>10 DEF IInv, Dialling, SessionsOwned, PortIsOwners, serverSide
<1>12. /\ \A b \in Client : Over(b) => Over(b)'
       /\ \A b \in Client, p \in PeerIDs : Current(b, p) => Current(b, p)'
  BY <1>1 DEF Over, Current, serverSide
<1>13. AnswersCurrent'
  <2>. SUFFICES ASSUME NEW b \in Client, NEW i \in 1 .. Len(toClient'[b]), NEW p,
                       toClient'[b][i].answer = "accepted", p = toClient'[b][i].peer
                PROVE  Over(b)' \/ Current(b, p)'
    BY DEF AnswersCurrent, Over, Current
  <2>1. CASE b = c
    <3>1. i \in 1 .. Len(rest) /\ toClient'[b][i] = rest[i]
      BY <1>7, <2>1
    <3>2. Len(rest) \in Nat
      BY <1>3
    <3>3. i + 1 \in 1 .. Len(toClient[c]) /\ toClient'[b][i] = toClient[c][i + 1]
      <4>. HIDE DEF rest
      <4>. QED  BY <1>3, <3>1, <3>2
    <3>. QED  BY <1>1, <2>1, <3>3 DEF IInv, AnswersCurrent, Over, Current, serverSide
  <2>2. CASE b # c
    BY <1>1, <1>7, <2>2 DEF IInv, AnswersCurrent, Over, Current, serverSide
  <2>. QED  BY <2>1, <2>2
<1>14. IDIsCurrent' /\ Identified'
  BY <1>1, <1>4, <1>6, <1>7, LimitFacts DEF IInv, IDIsCurrent, Identified, Over, Current, serverSide
<1>. QED  BY <1>8, <1>9, <1>11, <1>13, <1>14 DEF IInv

(* The client's own connection moves on while it has nothing to read.      *)
LEMMA ProgressStep ==
  ASSUME IInv, NEW c \in Client, NEW stage \in Stage,
         connection' = At(session[c], stage),
         ConnectState[c] = "Connecting", toClient[c] = <<>>,
         ConnectState' \in [Client -> State], socket' \in [Client -> {"none", "dialling", "open"}],
         \A b \in Client \ {c} : ConnectState'[b] = ConnectState[b] /\ socket'[b] = socket[b],
         ConnectState'[c] \in {"Connecting", "RequestingTcp"}, socket'[c] = "open",
         UNCHANGED <<PeerID, session, toClient, PeersPool, members, datagrams>>
  PROVE  IInv'
<1>1. session[c] \in DOMAIN connection /\ connection[session[c]].client = c
  BY DEF IInv, SessionsOwned, TypeOK
<1>2. /\ connection' \in Seq(Connection)
      /\ DOMAIN connection' = DOMAIN connection
      /\ \A t \in DOMAIN connection :
           /\ connection'[t].client = connection[t].client
           /\ connection'[t].stage = IF t = session[c] THEN stage ELSE connection[t].stage
  <2>1. TypeOK
    BY DEF IInv
  <2>. QED  BY <1>1, <2>1, AtStage, Zenon
<1>3. TypeOK'
  BY <1>2 DEF IInv, TypeOK, Stage
<1>4. \A b \in Client \ {c} : ConnectState[b] # "Disconnected" =>
        /\ Over(b) => Over(b)'
        /\ \A p : Current(b, p) => Current(b, p)'
  <2>. SUFFICES ASSUME NEW b \in Client \ {c}, ConnectState[b] # "Disconnected"
                PROVE  /\ Over(b) => Over(b)'
                       /\ \A p : Current(b, p) => Current(b, p)'
    OBVIOUS
  <2>1. session[b] \in DOMAIN connection /\ connection[session[b]].client = b
    BY DEF IInv, SessionsOwned, TypeOK
  <2>. QED  BY <1>1, <1>2, <2>1 DEF Over, Current
<1>5. Dialling' /\ Identified' /\ PortIsOwners' /\ BlastsToOthers'
  BY DEF IInv, Dialling, Identified, PortIsOwners, BlastsToOthers
<1>6. SessionsOwned'
  BY <1>1, <1>2 DEF IInv, SessionsOwned, TypeOK
<1>7. AnswersCurrent'
  <2>. SUFFICES ASSUME NEW b \in Client, NEW i \in 1 .. Len(toClient[b]), NEW p,
                       toClient[b][i].answer = "accepted", p = toClient[b][i].peer
                PROVE  Over(b)' \/ Current(b, p)'
    BY DEF AnswersCurrent, Over, Current
  <2>1. toClient[b] # <<>>
    BY EmptySeq
  <2>2. b # c /\ ConnectState[b] # "Disconnected"
    BY <2>1 DEF IInv, SessionsOwned
  <2>. QED  BY <1>4, <2>2 DEF IInv, AnswersCurrent
<1>8. IDIsCurrent'
  <2>. SUFFICES ASSUME NEW b \in Client, ConnectState'[b] = "RequestingUdp"
                PROVE  Over(b)' \/ Current(b, PeerID[b])'
    BY DEF IDIsCurrent, Over, Current
  <2>1. b # c /\ ConnectState[b] = "RequestingUdp"
    OBVIOUS
  <2>. QED  BY <1>4, <2>1 DEF IInv, IDIsCurrent, Over, Current
<1>. QED  BY <1>3, <1>5, <1>6, <1>7, <1>8 DEF IInv

LEMMA OpenStep ==
  ASSUME IInv, NEW c \in Client, Open(c)
  PROVE  IInv'
<1>1. ConnectState[c] = "Connecting" /\ toClient[c] = <<>>
  BY DEF Open, IInv, Dialling
<1>2. /\ socket' \in [Client -> {"none", "dialling", "open"}] /\ socket'[c] = "open"
      /\ \A b \in Client \ {c} : socket'[b] = socket[b]
  BY DEF Open, IInv, TypeOK
<1>3. ConnectState' = ConnectState /\ ConnectState \in [Client -> State]
  BY DEF Open, IInv, TypeOK
<1>4. "open" \in Stage
  BY DEF Stage
<1>. QED  BY <1>1, <1>2, <1>3, <1>4, ProgressStep DEF Open

LEMMA RequestTcpStep ==
  ASSUME IInv, NEW c \in Client, RequestTcp(c)
  PROVE  IInv'
<1>1. /\ ConnectState' \in [Client -> State] /\ ConnectState'[c] = "RequestingTcp"
      /\ \A b \in Client \ {c} : ConnectState'[b] = ConnectState[b]
  BY DEF RequestTcp, IInv, TypeOK, State
<1>2. socket' = socket /\ socket \in [Client -> {"none", "dialling", "open"}]
  BY DEF RequestTcp, IInv, TypeOK
<1>3. "asked" \in Stage
  BY DEF Stage
<1>. QED  BY <1>1, <1>2, <1>3, ProgressStep DEF RequestTcp

(* The server ends a session; what it forgets is of that session alone.    *)
LEMMA SessionEnds ==
  ASSUME IInv, NEW s \in DOMAIN connection, NEW answers \in {<<Denied, Closed>>, <<Closed>>},
         connection' = At(s, "closed"), toClient' = Written(s, answers),
         UNCHANGED <<clientSide, datagrams>>,
         DOMAIN PeersPool' \subseteq DOMAIN PeersPool,
         PeersPool' = Restrict(PeersPool, DOMAIN PeersPool'),
         \A p \in DOMAIN PeersPool : PeersPool[p].session # s => p \in DOMAIN PeersPool',
         members' \subseteq DOMAIN PeersPool'
  PROVE  IInv'
<1>1. "closed" \in Stage
  BY DEF Stage
<1>2. /\ connection' \in Seq(Connection)
      /\ DOMAIN connection' = DOMAIN connection
      /\ \A t \in DOMAIN connection :
           /\ connection'[t].client = connection[t].client
           /\ connection'[t].stage = IF t = s THEN "closed" ELSE connection[t].stage
  <2>1. TypeOK
    BY DEF IInv
  <2>. QED  BY <1>1, <2>1, AtStage, Zenon
<1>3. /\ answers \in Seq(Answer)
      /\ Len(answers) \in Nat
      /\ \A i \in 1 .. Len(answers) : answers[i].answer # "accepted"
  <2>1. Denied \in Answer /\ Closed \in Answer /\ Denied.answer # "accepted" /\ Closed.answer # "accepted"
    BY DEF Answer, Denied, Closed
  <2>. HIDE DEF Answer, Denied, Closed
  <2>2. CASE answers = <<Closed>>
    BY <2>1, <2>2
  <2>3. CASE answers = <<Denied, Closed>>
    BY <2>1, <2>3
  <2>. QED  BY <2>2, <2>3
<1>4. /\ toClient' \in [Client -> Seq(Answer)]
      /\ \A b \in Client :
           \/ toClient'[b] = toClient[b]
           \/ /\ session[b] = s /\ socket[b] = "open"
              /\ toClient'[b] = toClient[b] \o answers
  BY <1>3, WrittenProperties DEF IInv
<1>5. \A p \in DOMAIN PeersPool' : PeersPool'[p] = PeersPool[p]
  BY DEF Restrict
<1>6. TypeOK'
  <2>1. PeersPool' \in [DOMAIN PeersPool' ->
          [client : Client, session : DOMAIN connection, UdpPort : Client \cup {NoPort}]]
    BY <1>5 DEF IInv, TypeOK, Restrict
  <2>2. DOMAIN PeersPool' \subseteq PeerIDs
    BY DEF IInv, TypeOK
  <2>. QED  BY <1>2, <1>4, <2>1, <2>2 DEF IInv, TypeOK, Answer, Stage, clientSide
<1>7. ASSUME NEW b \in Client, ConnectState[b] # "Disconnected"
      PROVE  /\ session[b] = s => Over(b)'
             /\ Over(b) => Over(b)'
             /\ \A p : Current(b, p) => Over(b)' \/ Current(b, p)'
  <2>1. session[b] \in DOMAIN connection
    BY <1>7 DEF IInv, SessionsOwned, TypeOK
  <2>. QED  BY <1>2, <1>5, <2>1 DEF Over, Current, clientSide
<1>8. Dialling' /\ Identified' /\ BlastsToOthers'
  BY <1>4 DEF IInv, Dialling, Identified, BlastsToOthers, clientSide, TypeOK
<1>9. PortIsOwners'
  BY <1>5 DEF IInv, PortIsOwners
<1>10. SessionsOwned'
  <2>1. ASSUME NEW b \in Client, session[b] # NoSession
        PROVE  connection'[session[b]].client = b
    <3>1. session[b] \in DOMAIN connection
      BY <2>1 DEF IInv, TypeOK
    <3>2. connection[session[b]].client = b
      BY <2>1 DEF IInv, SessionsOwned
    <3>. QED  BY <1>2, <3>1, <3>2
  <2>2. \A b \in Client : ConnectState[b] = "Disconnected" => toClient'[b] = <<>>
    BY <1>4 DEF IInv, SessionsOwned
  <2>. QED  BY <2>1, <2>2 DEF IInv, SessionsOwned, clientSide
<1>11. AnswersCurrent'
  <2>. SUFFICES ASSUME NEW b \in Client, NEW i \in 1 .. Len(toClient'[b]), NEW p,
                       toClient'[b][i].answer = "accepted", p = toClient'[b][i].peer
                PROVE  Over(b)' \/ Current(b, p)'
    BY DEF AnswersCurrent, Over, Current
  <2>1. CASE toClient'[b] = toClient[b]
    <3>1. toClient[b] # <<>>
      BY <2>1, EmptySeq
    <3>2. ConnectState[b] # "Disconnected"
      BY <3>1 DEF IInv, SessionsOwned
    <3>. QED  BY <1>7, <2>1, <3>2 DEF IInv, AnswersCurrent
  <2>2. CASE session[b] = s /\ socket[b] = "open"
    <3>1. ConnectState[b] # "Disconnected"
      BY <2>2 DEF IInv, SessionsOwned
    <3>. QED  BY <1>7, <2>2, <3>1
  <2>. QED  BY <1>4, <2>1, <2>2
<1>12. IDIsCurrent'
  <2>. SUFFICES ASSUME NEW b \in Client, NEW p, ConnectState[b] = "RequestingUdp", p = PeerID[b]
                PROVE  Over(b)' \/ Current(b, p)'
    BY DEF IDIsCurrent, Over, Current, clientSide
  <2>. QED  BY <1>7 DEF IInv, IDIsCurrent, Over, Current
<1>. QED  BY <1>6, <1>8, <1>9, <1>10, <1>11, <1>12 DEF IInv

LEMMA DenyStep ==
  ASSUME IInv, NEW s \in DOMAIN connection, DenyConnection(s) \/ DropConnection(s)
  PROVE  IInv'
<1>1. /\ connection' = At(s, "closed")
      /\ UNCHANGED <<clientSide, PeersPool, members, datagrams>>
  BY DEF DenyConnection, DropConnection
<1>2. PICK answers \in {<<Denied, Closed>>, <<Closed>>} : toClient' = Written(s, answers)
  BY DEF DenyConnection, DropConnection
<1>3. PeersPool' = Restrict(PeersPool, DOMAIN PeersPool') /\ members' \subseteq DOMAIN PeersPool'
  BY <1>1 DEF Restrict, IInv, TypeOK
<1>. QED  BY <1>1, <1>2, <1>3, SessionEnds

LEMMA DropPeerStep ==
  ASSUME IInv, NEW p \in PeerIDs, DropPeer(p)
  PROVE  IInv'
<1>. DEFINE s == PeersPool[p].session
<1>1. /\ p \in DOMAIN PeersPool
      /\ connection' = At(s, "closed") /\ toClient' = Written(s, <<Closed>>)
      /\ PeersPool' = Restrict(PeersPool, DOMAIN PeersPool \ {p})
      /\ members' = members \ {p}
      /\ UNCHANGED <<clientSide, datagrams>>
  BY DEF DropPeer
<1>2. s \in DOMAIN connection
  BY <1>1 DEF IInv, TypeOK
<1>3. DOMAIN PeersPool' = DOMAIN PeersPool \ {p}
  BY <1>1 DEF Restrict
<1>4. members' \subseteq DOMAIN PeersPool'
  BY <1>1, <1>3 DEF IInv, TypeOK
<1>5. \A q \in DOMAIN PeersPool : PeersPool[q].session # s => q \in DOMAIN PeersPool'
  BY <1>3
<1>6. PeersPool' = Restrict(PeersPool, DOMAIN PeersPool')
  BY <1>1, <1>3
<1>. HIDE DEF s
<1>. QED  BY <1>1, <1>2, <1>3, <1>4, <1>5, <1>6, SessionEnds

(* A new peer takes an id nobody has, and only its own client hears of it. *)
LEMMA AcceptPeerStep ==
  ASSUME IInv, NEW s \in DOMAIN connection, AcceptPeer(s)
  PROVE  IInv'
<1>1. PICK p \in PeerIDs :
        /\ FreePeer(p)
        /\ connection' = [connection EXCEPT ![s] = [@ EXCEPT !.stage = "peer", !.peer = p]]
        /\ PeersPool' = [q \in DOMAIN PeersPool \cup {p} |->
             IF q = p THEN [client |-> connection[s].client, session |-> s, UdpPort |-> NoPort]
                      ELSE PeersPool[q]]
        /\ toClient' = Written(s, <<Accepted(p)>>)
  BY DEF AcceptPeer
<1>2. connection[s].stage = "asked" /\ UNCHANGED <<clientSide, members, datagrams>>
  BY DEF AcceptPeer
<1>3. "peer" \in Stage
  BY DEF Stage
<1>4. /\ connection' \in Seq(Connection)
      /\ DOMAIN connection' = DOMAIN connection
      /\ \A t \in DOMAIN connection :
           /\ connection'[t].client = connection[t].client
           /\ connection'[t].stage = IF t = s THEN "peer" ELSE connection[t].stage
           /\ connection'[t].peer = IF t = s THEN p ELSE connection[t].peer
  BY <1>1, AcceptedStage DEF IInv
<1>5. p \in PeerIDs /\ p \notin DOMAIN PeersPool
  BY <1>1 DEF FreePeer
<1>6. connection[s].client \in Client
  BY ConnectionFacts DEF IInv
<1>7. /\ DOMAIN PeersPool' = DOMAIN PeersPool \cup {p}
      /\ PeersPool'[p] = [client |-> connection[s].client, session |-> s, UdpPort |-> NoPort]
      /\ \A q \in DOMAIN PeersPool : PeersPool'[q] = PeersPool[q]
  BY <1>1, <1>5
<1>8. /\ <<Accepted(p)>> \in Seq(Answer) /\ Len(<<Accepted(p)>>) = 1
      /\ <<Accepted(p)>>[1].peer = p
  <2>1. Accepted(p) \in Answer /\ Accepted(p).peer = p
    BY <1>5 DEF Answer, Accepted
  <2>. HIDE DEF Answer, Accepted
  <2>. QED  BY <2>1
<1>9. /\ toClient' \in [Client -> Seq(Answer)]
      /\ \A b \in Client :
           \/ toClient'[b] = toClient[b]
           \/ /\ session[b] = s /\ socket[b] = "open"
              /\ toClient'[b] = toClient[b] \o <<Accepted(p)>>
  <2>. HIDE DEF Answer, Accepted
  <2>. QED  BY <1>1, <1>8, WrittenProperties DEF IInv
<1>10. TypeOK'
  <2>1. PeersPool' \in [DOMAIN PeersPool' ->
          [client : Client, session : DOMAIN connection, UdpPort : Client \cup {NoPort}]]
    BY <1>1, <1>6, <1>7 DEF IInv, TypeOK
  <2>2. DOMAIN PeersPool' \subseteq PeerIDs /\ members' \subseteq DOMAIN PeersPool'
    BY <1>2, <1>5, <1>7 DEF IInv, TypeOK
  <2>. QED  BY <1>2, <1>4, <1>9, <2>1, <2>2 DEF IInv, TypeOK, Answer, Stage, clientSide
<1>11. ASSUME NEW b \in Client, ConnectState[b] # "Disconnected"
       PROVE  /\ session[b] = s => Current(b, p)'
              /\ Over(b) => Over(b)'
              /\ \A q : Current(b, q) => Current(b, q)'
  <2>1. session[b] \in DOMAIN connection /\ connection[session[b]].client = b
    BY <1>11 DEF IInv, SessionsOwned, TypeOK
  <2>2. session[b] = s => Current(b, p)'
    BY <1>2, <1>7, <2>1 DEF Current, clientSide
  <2>3. Over(b) => Over(b)'
    BY <1>2, <1>4, <2>1 DEF Over, clientSide
  <2>4. \A q : Current(b, q) => Current(b, q)'
    BY <1>2, <1>7 DEF Current, clientSide
  <2>. QED  BY <2>2, <2>3, <2>4
<1>12. Dialling' /\ Identified' /\ BlastsToOthers'
  BY <1>2, <1>9 DEF IInv, Dialling, Identified, BlastsToOthers, clientSide, TypeOK
<1>13. PortIsOwners'
  BY <1>7 DEF IInv, PortIsOwners
<1>14. SessionsOwned'
  <2>1. ASSUME NEW b \in Client, session[b] # NoSession
        PROVE  connection'[session[b]].client = b
    <3>1. session[b] \in DOMAIN connection
      BY <2>1 DEF IInv, TypeOK
    <3>2. connection[session[b]].client = b
      BY <2>1 DEF IInv, SessionsOwned
    <3>. QED  BY <1>4, <3>1, <3>2
  <2>2. \A b \in Client : ConnectState[b] = "Disconnected" => toClient'[b] = <<>>
    BY <1>9 DEF IInv, SessionsOwned
  <2>. QED  BY <1>2, <2>1, <2>2 DEF IInv, SessionsOwned, clientSide
<1>15. AnswersCurrent'
  <2>. SUFFICES ASSUME NEW b \in Client, NEW i \in 1 .. Len(toClient'[b]), NEW q,
                       toClient'[b][i].answer = "accepted", q = toClient'[b][i].peer
                PROVE  Over(b)' \/ Current(b, q)'
    BY DEF AnswersCurrent, Over, Current
  <2>1. ASSUME NEW j \in 1 .. Len(toClient[b]), toClient'[b][i] = toClient[b][j]
        PROVE  Over(b)' \/ Current(b, q)'
    <3>1. toClient[b] # <<>>
      BY <2>1, EmptySeq
    <3>2. ConnectState[b] # "Disconnected"
      BY <3>1 DEF IInv, SessionsOwned
    <3>. QED  BY <1>11, <2>1, <3>2 DEF IInv, AnswersCurrent
  <2>2. CASE toClient'[b] = toClient[b]
    BY <2>1, <2>2
  <2>3. CASE session[b] = s /\ socket[b] = "open" /\ toClient'[b] = toClient[b] \o <<Accepted(p)>>
    <3>1. ConnectState[b] # "Disconnected"
      BY <2>3 DEF IInv, SessionsOwned
    <3>2. toClient[b] \in Seq(Answer) /\ Len(toClient[b]) \in Nat
      BY LenProperties DEF IInv, TypeOK, Answer
    <3>3. \/ i \in 1 .. Len(toClient[b]) /\ toClient'[b][i] = toClient[b][i]
          \/ toClient'[b][i] = <<Accepted(p)>>[1]
      <4>. HIDE DEF Answer, Accepted
      <4>1. /\ Len(toClient'[b]) = Len(toClient[b]) + 1
            /\ toClient'[b][i] = IF i <= Len(toClient[b]) THEN toClient[b][i]
                                 ELSE <<Accepted(p)>>[i - Len(toClient[b])]
        BY <1>8, <2>3, <3>2, ConcatProperties
      <4>2. i <= Len(toClient[b]) => i \in 1 .. Len(toClient[b])
        BY <3>2, <4>1
      <4>3. ~(i <= Len(toClient[b])) => i - Len(toClient[b]) = 1
        BY <3>2, <4>1
      <4>. QED  BY <4>1, <4>2, <4>3
    <3>4. CASE toClient'[b][i] = <<Accepted(p)>>[1]
      BY <1>8, <1>11, <2>3, <3>1, <3>4
    <3>. QED  BY <2>1, <3>3, <3>4
  <2>. QED  BY <1>9, <2>2, <2>3
<1>16. IDIsCurrent'
  <2>. SUFFICES ASSUME NEW b \in Client, NEW q, ConnectState[b] = "RequestingUdp", q = PeerID[b]
                PROVE  Over(b)' \/ Current(b, q)'
    BY <1>2 DEF IDIsCurrent, Over, Current, clientSide
  <2>. QED  BY <1>11 DEF IInv, IDIsCurrent, Over, Current
<1>. QED  BY <1>10, <1>12, <1>13, <1>14, <1>15, <1>16 DEF IInv

LEMMA MembershipStep ==
  ASSUME IInv, NEW p \in PeerIDs, EnterChannel(p) \/ LeaveChannel(p)
  PROVE  IInv'
<1>1. /\ members' \subseteq DOMAIN PeersPool
      /\ UNCHANGED <<clientSide, toClient, connection, PeersPool, datagrams>>
  BY DEF EnterChannel, LeaveChannel, IInv, TypeOK
<1>2. TypeOK'
  BY <1>1 DEF IInv, TypeOK, clientSide
<1>3. /\ Dialling' /\ SessionsOwned' /\ AnswersCurrent' /\ Identified' /\ IDIsCurrent' /\ PortIsOwners'
      /\ BlastsToOthers'
  BY <1>1 DEF IInv, Dialling, SessionsOwned, AnswersCurrent, Identified, IDIsCurrent, PortIsOwners,
     BlastsToOthers, Over, Current, clientSide
<1>. QED  BY <1>2, <1>3 DEF IInv

LEMMA NextInvariant == IInv /\ [Next]_vars => IInv'
<1>. SUFFICES ASSUME IInv, [Next]_vars PROVE IInv'
  OBVIOUS
<1>1. ASSUME NEW c \in Client,
             Connect(c) \/ Disconnect(c) \/ Open(c) \/ RequestTcp(c) \/ Read(c) \/ RequestUdp(c)
      PROVE  IInv'
  BY <1>1, ConnectStep, DisconnectStep, OpenStep, RequestTcpStep, OnAcceptedStep, OnDeniedStep,
     RequestUdpStep DEF Read, OnClosed
<1>2. ASSUME NEW c \in Client, NEW to \in PeerIDs \cup {NoPeer}, SendBlast(c, to)
      PROVE  IInv'
  BY <1>2, SendBlastStep
<1>3. ASSUME NEW s \in DOMAIN connection, AcceptPeer(s) \/ DenyConnection(s) \/ DropConnection(s)
      PROVE  IInv'
  BY <1>3, AcceptPeerStep, DenyStep
<1>4. ASSUME NEW p \in PeerIDs, DropPeer(p) \/ EnterChannel(p) \/ LeaveChannel(p)
      PROVE  IInv'
  BY <1>4, DropPeerStep, MembershipStep
<1>5. ASSUME NEW d \in datagrams, Lose(d) \/ ReceiveHello(d) \/ ReceiveBlast(d)
      PROVE  IInv'
  BY <1>5, LoseStep, ReceiveHelloStep, ReceiveBlastStep
<1>6. ASSUME NEW d \in datagrams, NEW c \in Client, HandleUDP(c, d)
      PROVE  IInv'
  BY <1>6, HandleUDPStep
<1>7. CASE UNCHANGED vars
  <2>1. datagrams' \subseteq Datagram /\ BlastsToOthers'
    BY <1>7 DEF vars, IInv, TypeOK, BlastsToOthers
  <2>. QED  BY <1>7, <2>1, DatagramStep DEF vars
<1>. QED  BY <1>1, <1>2, <1>3, <1>4, <1>5, <1>6, <1>7 DEF Next

(* The invariant holds in every reachable state.                           *)
LEMMA Invariance == Spec => []IInv
  BY InitInvariant, NextInvariant, PTL DEF Spec

-----------------------------------------------------------------------------
(* Who has, or has had, an id.                                             *)

(* A client that has dialled, or is connected and has nothing to read, is  *)
(* on a connection that has come as far.                                   *)
Opening ==
  \A c \in Client :
    /\ socket[c] = "dialling" => connection[session[c]].stage = "dialling"
    /\ ConnectState[c] = "Connecting" /\ socket[c] = "open" /\ toClient[c] = <<>> =>
         connection[session[c]].stage = "open"

(* A connection has no id before it is a peer's; the one that is, is found *)
(* under its id, and no other is.                                          *)
Holders ==
  \A s \in DOMAIN connection :
    /\ connection[s].stage \in {"dialling", "open", "asked"} => connection[s].peer = NoPeer
    /\ connection[s].stage = "peer" =>
         connection[s].peer \in DOMAIN PeersPool /\ PeersPool[connection[s].peer].session = s

Seated ==
  \A p \in DOMAIN PeersPool :
    /\ connection[PeersPool[p].session].stage = "peer"
    /\ connection[PeersPool[p].session].peer = p

(* A blast for a peer means a session that has had the id.                 *)
Addressed(d) ==
  d.type \in {"blast", "relayed"} /\ d.to # NoPeer =>
    d.meant \in DOMAIN connection /\ connection[d.meant].peer = d.to

BlastsAddressed == \A d \in datagrams : Addressed(d)

HInv == Opening /\ Holders /\ Seated /\ BlastsAddressed

LEMMA InitHolders == Init => HInv
  BY DEF Init, HInv, Opening, Holders, Seated, BlastsAddressed

(* Connections keep the ids they have.                                     *)
LEMMA AddressedStays ==
  ASSUME HInv, datagrams' \subseteq datagrams \cup {e \in datagrams' : Addressed(e)'},
         \A t \in DOMAIN connection :
           /\ t \in DOMAIN connection'
           /\ connection[t].peer # NoPeer => connection'[t].peer = connection[t].peer
  PROVE  BlastsAddressed'
  BY DEF HInv, BlastsAddressed, Addressed

(* Steps in which no connection takes part.                                *)
LEMMA AsideStep ==
  ASSUME IInv, HInv, UNCHANGED <<session, connection>>,
         \A c \in Client :
           /\ socket'[c] = "dialling" => socket[c] = "dialling"
           /\ ConnectState'[c] = "Connecting" /\ socket'[c] = "open" /\ toClient'[c] = <<>> =>
                ConnectState[c] = "Connecting" /\ socket[c] = "open" /\ toClient[c] = <<>>,
         DOMAIN PeersPool' = DOMAIN PeersPool,
         \A p \in DOMAIN PeersPool : PeersPool'[p].session = PeersPool[p].session,
         datagrams' \subseteq datagrams \cup {e \in datagrams' : Addressed(e)'}
  PROVE  HInv'
<1>1. Opening'
  BY DEF HInv, Opening
<1>2. Holders' /\ Seated'
  BY DEF HInv, Holders, Seated
<1>3. BlastsAddressed'
  BY AddressedStays
<1>. QED  BY <1>1, <1>2, <1>3 DEF HInv

LEMMA DatagramHolders ==
  ASSUME IInv, HInv, UNCHANGED <<clientSide, toClient, connection>>,
         DOMAIN PeersPool' = DOMAIN PeersPool,
         \A p \in DOMAIN PeersPool : PeersPool'[p].session = PeersPool[p].session,
         datagrams' \subseteq datagrams \cup {e \in datagrams' : Addressed(e)'}
  PROVE  HInv'
  BY AsideStep DEF clientSide

LEMMA PlainAddressed ==
  ASSUME NEW c, NEW p
  PROVE  Addressed(Hello(c, p))' /\ Addressed(Welcome(c))'
  BY DEF Addressed, Hello, Welcome

(* The network and the client's reading of it.                             *)
LEMMA DatagramActionsHolders ==
  ASSUME IInv, HInv, NEW d \in datagrams,
         Lose(d) \/ ReceiveHello(d) \/ ReceiveBlast(d) \/ \E c \in Client : HandleUDP(c, d)
  PROVE  HInv'
<1>1. CASE Lose(d)
  BY <1>1, DatagramHolders DEF Lose, serverSide
<1>2. CASE ReceiveHello(d)
  <2>1. datagrams' \subseteq datagrams \cup {e \in datagrams' : Addressed(e)'}
    BY <1>2, PlainAddressed DEF ReceiveHello, Receiving
  <2>2. \A p \in DOMAIN PeersPool :
          PeersPool'[p].session = PeersPool[p].session
    <3>1. \/ PeersPool' = [PeersPool EXCEPT ![d.peer].UdpPort = d.port]
          \/ UNCHANGED PeersPool
      BY <1>2 DEF ReceiveHello
    <3>2. \A p \in DOMAIN PeersPool :
            PeersPool[p] \in [client : Client, session : DOMAIN connection, UdpPort : Client \cup {NoPort}]
      BY DEF IInv, TypeOK
    <3>. QED  BY <3>1, <3>2
  <2>3. DOMAIN PeersPool' = DOMAIN PeersPool
    BY <1>2 DEF ReceiveHello
  <2>. QED  BY <1>2, <2>1, <2>2, <2>3, DatagramHolders DEF ReceiveHello
<1>3. CASE ReceiveBlast(d)
  <2>1. d.type = "blast" /\ UNCHANGED <<clientSide, toClient, serverSide>>
    BY <1>3 DEF ReceiveBlast
  <2>2. ASSUME NEW e \in Copies(d)
        PROVE  Addressed(e)'
    <3>1. e.to = d.to /\ e.meant = d.meant
      BY <2>1, CopiesProperties
    <3>2. d.to # NoPeer => d.meant \in DOMAIN connection /\ connection[d.meant].peer = d.to
      BY <2>1 DEF HInv, BlastsAddressed, Addressed
    <3>. QED  BY <2>1, <3>1, <3>2 DEF Addressed, serverSide
  <2>3. datagrams' \subseteq datagrams \cup {e \in datagrams' : Addressed(e)'}
    BY <1>3, <2>2 DEF ReceiveBlast, Receiving
  <2>. QED  BY <2>1, <2>3, DatagramHolders DEF serverSide
<1>4. ASSUME NEW c \in Client, HandleUDP(c, d)
      PROVE  HInv'
  <2>1. \A b \in Client : ConnectState'[b] = "Connecting" => ConnectState[b] = "Connecting"
    BY <1>4 DEF HandleUDP, IInv, TypeOK
  <2>2. UNCHANGED <<socket, session, toClient, serverSide>> /\ datagrams' \subseteq datagrams
    BY <1>4 DEF HandleUDP, Receiving
  <2>. QED  BY <2>1, <2>2, AsideStep DEF serverSide
<1>. QED  BY <1>1, <1>2, <1>3, <1>4

LEMMA ClientActionsHolders ==
  ASSUME IInv, HInv, NEW c \in Client,
         Disconnect(c) \/ Read(c) \/ RequestUdp(c) \/ \E to \in PeerIDs \cup {NoPeer} : SendBlast(c, to)
  PROVE  HInv'
<1>1. CASE Disconnect(c)
  <2>1. \A b \in Client :
          /\ socket'[b] = IF b = c THEN "none" ELSE socket[b]
          /\ b # c => ConnectState'[b] = ConnectState[b] /\ toClient'[b] = toClient[b]
    BY <1>1 DEF Disconnect, IInv, TypeOK
  <2>. QED  BY <1>1, <2>1, AsideStep DEF Disconnect, serverSide
<1>2. CASE OnAccepted(c)
  <2>1. \A b \in Client :
          /\ ConnectState'[b] = IF b = c THEN "RequestingUdp" ELSE ConnectState[b]
          /\ b # c => toClient'[b] = toClient[b]
    BY <1>2 DEF OnAccepted, IInv, TypeOK
  <2>2. datagrams' \subseteq datagrams \cup {e \in datagrams' : Addressed(e)'}
    BY <1>2, PlainAddressed DEF OnAccepted, SayHello
  <2>. QED  BY <1>2, <2>1, <2>2, AsideStep DEF OnAccepted, serverSide
<1>3. CASE OnDenied(c)
  <2>1. \A b \in Client :
          /\ socket'[b] = IF b = c THEN "none" ELSE socket[b]
          /\ b # c => toClient'[b] = toClient[b]
    BY <1>3 DEF OnDenied, IInv, TypeOK
  <2>. QED  BY <1>3, <2>1, AsideStep DEF OnDenied, serverSide
<1>4. CASE RequestUdp(c)
  <2>1. datagrams' \subseteq datagrams \cup {e \in datagrams' : Addressed(e)'}
    BY <1>4, PlainAddressed DEF RequestUdp, SayHello
  <2>. QED  BY <1>4, <2>1, DatagramHolders DEF RequestUdp, serverSide
<1>5. ASSUME NEW to \in PeerIDs \cup {NoPeer}, SendBlast(c, to)
      PROVE  HInv'
  <2>1. PICK meant \in Meanings(to) : datagrams' = datagrams \cup {Blasting(c, PeerID[c], to, meant)}
    BY <1>5 DEF SendBlast
  <2>2. UNCHANGED <<clientSide, toClient, serverSide>>
    BY <1>5 DEF SendBlast
  <2>3. ASSUME NEW e \in datagrams', e \notin datagrams
        PROVE  Addressed(e)'
    <3>1. e.to = to /\ e.meant = meant
      BY <2>1, <2>3 DEF Blasting
    <3>. QED  BY <2>1, <2>2, <3>1 DEF Addressed, Meanings, serverSide
  <2>4. datagrams' \subseteq datagrams \cup {e \in datagrams' : Addressed(e)'}
    BY <2>3
  <2>. QED  BY <2>2, <2>4, DatagramHolders DEF serverSide
<1>. QED  BY <1>1, <1>2, <1>3, <1>4, <1>5 DEF Read, OnClosed

LEMMA ConnectHolders ==
  ASSUME IInv, HInv, NEW c \in Client, Connect(c)
  PROVE  HInv'
<1>. DEFINE s == Len(connection) + 1
            new == [client |-> c, stage |-> "dialling", peer |-> NoPeer]
<1>1. /\ connection' = Append(connection, new)
      /\ session' = [session EXCEPT ![c] = Len(connection')]
      /\ socket' = [socket EXCEPT ![c] = "dialling"]
      /\ ConnectState' = [ConnectState EXCEPT ![c] = "Connecting"]
      /\ toClient' = [toClient EXCEPT ![c] = <<>>]
      /\ UNCHANGED <<PeersPool, datagrams>>
  BY DEF Connect
<1>2. /\ connection \in Seq(Connection) /\ new \in Connection
      /\ Len(connection) \in Nat /\ DOMAIN connection = 1 .. Len(connection)
  BY ConnectionFacts DEF IInv, TypeOK, Stage, Connection
<1>3. /\ Len(connection') = s
      /\ \A t \in 1 .. Len(connection) : connection'[t] = connection[t]
      /\ connection'[s] = new /\ connection' \in Seq(Connection)
  <2>. HIDE DEF new
  <2>. QED  BY <1>1, <1>2, AppendProperties
<1>4. DOMAIN connection' = DOMAIN connection \cup {s}
  <2>1. DOMAIN connection' = 1 .. s
    BY <1>3, LenProperties
  <2>. QED  BY <1>2, <2>1
<1>5. \A b \in Client :
        /\ session'[b] = IF b = c THEN s ELSE session[b]
        /\ socket'[b] = IF b = c THEN "dialling" ELSE socket[b]
        /\ b # c => ConnectState'[b] = ConnectState[b] /\ toClient'[b] = toClient[b]
  BY <1>1, <1>3 DEF IInv, TypeOK
<1>6. Opening'
  <2>. SUFFICES ASSUME NEW b \in Client
                PROVE  /\ socket'[b] = "dialling" => connection'[session'[b]].stage = "dialling"
                       /\ ConnectState'[b] = "Connecting" /\ socket'[b] = "open" /\ toClient'[b] = <<>> =>
                            connection'[session'[b]].stage = "open"
    BY DEF Opening
  <2>1. CASE b = c
    BY <1>3, <1>5, <2>1
  <2>2. CASE b # c /\ ConnectState[b] = "Disconnected"
    BY <1>5, <2>2 DEF IInv, SessionsOwned
  <2>3. CASE b # c /\ ConnectState[b] # "Disconnected"
    <3>1. session[b] \in DOMAIN connection
      BY <2>3 DEF IInv, TypeOK, SessionsOwned
    <3>2. connection'[session'[b]] = connection[session[b]]
      BY <1>2, <1>3, <1>5, <2>3, <3>1
    <3>. QED  BY <1>5, <2>3, <3>2 DEF HInv, Opening
  <2>. QED  BY <2>1, <2>2, <2>3
<1>7. Holders' /\ Seated'
  <2>1. connection'[s].stage = "dialling" /\ connection'[s].peer = NoPeer
    BY <1>3
  <2>2. \A t \in DOMAIN connection : connection'[t] = connection[t]
    BY <1>2, <1>3
  <2>3. \A p \in DOMAIN PeersPool : PeersPool[p].session \in DOMAIN connection
    BY DEF IInv, TypeOK
  <2>. QED  BY <1>1, <1>4, <2>1, <2>2, <2>3 DEF HInv, Holders, Seated
<1>8. BlastsAddressed'
  <2>1. datagrams' \subseteq datagrams \cup {e \in datagrams' : Addressed(e)'}
    BY <1>1
  <2>. QED  BY <1>2, <1>3, <1>4, <2>1, AddressedStays
<1>. QED  BY <1>6, <1>7, <1>8 DEF HInv

(* The client's connection comes one stage further.                        *)
LEMMA ProgressHolders ==
  ASSUME IInv, HInv, NEW c \in Client, Open(c) \/ RequestTcp(c)
  PROVE  HInv'
<1>. DEFINE s == session[c]
<1>1. ConnectState[c] = "Connecting" /\ toClient[c] = <<>> /\ socket[c] \in {"dialling", "open"}
  BY DEF Open, RequestTcp, IInv, Dialling
<1>2. s \in DOMAIN connection /\ connection[s].client = c
  BY <1>1 DEF IInv, SessionsOwned, TypeOK
<1>3. connection[s].stage \in {"dialling", "open"} /\ connection[s].peer = NoPeer
  BY <1>1, <1>2 DEF HInv, Opening, Holders
<1>4. PICK stage \in {"open", "asked"} :
        /\ connection' = At(s, stage)
        /\ stage = "open" => ConnectState' = ConnectState /\ socket' = [socket EXCEPT ![c] = "open"]
        /\ stage = "asked" => /\ ConnectState' = [ConnectState EXCEPT ![c] = "RequestingTcp"]
                              /\ socket' = socket /\ socket[c] = "open"
  BY DEF Open, RequestTcp
<1>5. stage \in Stage
  BY DEF Stage
<1>6. /\ DOMAIN connection' = DOMAIN connection
      /\ \A t \in DOMAIN connection :
           /\ connection'[t].stage = IF t = s THEN stage ELSE connection[t].stage
           /\ connection'[t].peer = connection[t].peer
  <2>1. TypeOK
    BY DEF IInv
  <2>. QED  BY <1>2, <1>4, <1>5, <2>1, AtStage, Zenon
<1>7. UNCHANGED <<session, toClient, PeersPool, datagrams>>
  BY DEF Open, RequestTcp
<1>8. \A b \in Client \ {c} : ConnectState'[b] = ConnectState[b] /\ socket'[b] = socket[b]
  BY <1>4 DEF IInv, TypeOK
<1>9. socket'[c] = "open" /\ (stage = "asked" => ConnectState'[c] = "RequestingTcp")
  BY <1>4 DEF IInv, TypeOK
<1>10. Opening'
  <2>. SUFFICES ASSUME NEW b \in Client
                PROVE  /\ socket'[b] = "dialling" => connection'[session[b]].stage = "dialling"
                       /\ ConnectState'[b] = "Connecting" /\ socket'[b] = "open" /\ toClient[b] = <<>> =>
                            connection'[session[b]].stage = "open"
    BY <1>7 DEF Opening
  <2>1. CASE b = c
    BY <1>2, <1>4, <1>6, <1>9, <2>1
  <2>2. CASE b # c /\ ConnectState[b] = "Disconnected"
    BY <1>8, <2>2 DEF IInv, SessionsOwned
  <2>3. CASE b # c /\ ConnectState[b] # "Disconnected"
    <3>1. session[b] \in DOMAIN connection /\ connection[session[b]].client = b
      BY <2>3 DEF IInv, TypeOK, SessionsOwned
    <3>2. session[b] # s
      BY <1>2, <2>3, <3>1
    <3>. QED  BY <1>6, <1>8, <2>3, <3>1, <3>2 DEF HInv, Opening
  <2>. QED  BY <2>1, <2>2, <2>3
<1>11. Holders' /\ Seated'
  <2>1. \A p \in DOMAIN PeersPool : PeersPool[p].session \in DOMAIN connection
    BY DEF IInv, TypeOK
  <2>. QED  BY <1>2, <1>3, <1>4, <1>6, <1>7, <2>1 DEF HInv, Holders, Seated
<1>12. BlastsAddressed'
  BY <1>6, <1>7, AddressedStays
<1>. QED  BY <1>10, <1>11, <1>12 DEF HInv

(* The server's end of a session, and its peer's.                          *)
LEMMA EndHolders ==
  ASSUME IInv, HInv, NEW s \in DOMAIN connection, NEW answers \in Seq(Answer), answers # <<>>,
         connection' = At(s, "closed"), toClient' = Written(s, answers),
         UNCHANGED <<clientSide, datagrams>>,
         DOMAIN PeersPool' = {p \in DOMAIN PeersPool : PeersPool[p].session # s},
         \A p \in DOMAIN PeersPool' : PeersPool'[p].session = PeersPool[p].session,
         connection[s].stage # "dialling"
  PROVE  HInv'
<1>1. /\ DOMAIN connection' = DOMAIN connection
      /\ \A t \in DOMAIN connection :
           /\ connection'[t].stage = IF t = s THEN "closed" ELSE connection[t].stage
           /\ connection'[t].peer = connection[t].peer
  <2>1. TypeOK /\ "closed" \in Stage
    BY DEF IInv, Stage
  <2>. QED  BY <2>1, AtStage, Zenon
<1>2. \A b \in Client :
        \/ toClient'[b] = toClient[b] /\ (session[b] = s => socket[b] # "open")
        \/ session[b] = s /\ toClient'[b] # <<>>
  <2>. SUFFICES ASSUME NEW b \in Client
                PROVE  \/ toClient'[b] = toClient[b] /\ (session[b] = s => socket[b] # "open")
                       \/ session[b] = s /\ toClient'[b] # <<>>
    OBVIOUS
  <2>1. CASE session[b] = s /\ socket[b] = "open"
    <3>1. connection[s].client = b
      BY <2>1, ConnectionFacts DEF IInv, SessionsOwned, TypeOK
    <3>2. toClient[b] \in Seq(Answer)
      BY DEF IInv, TypeOK, Answer
    <3>3. toClient'[b] = toClient[b] \o answers
      BY <2>1, <3>1 DEF Written, IInv, TypeOK
    <3>4. toClient[b] \o answers # <<>>
      BY <3>2, ConcatProperties, EmptySeq, LenProperties
    <3>. QED  BY <2>1, <3>3, <3>4
  <2>2. CASE ~(session[b] = s /\ socket[b] = "open")
    <3>1. toClient'[b] = toClient[b]
      BY <2>2, WrittenProperties DEF IInv
    <3>. QED  BY <2>2, <3>1
  <2>. QED  BY <2>1, <2>2
<1>3. Opening'
  <2>. SUFFICES ASSUME NEW b \in Client
                PROVE  /\ socket[b] = "dialling" => connection'[session[b]].stage = "dialling"
                       /\ ConnectState[b] = "Connecting" /\ socket[b] = "open" /\ toClient'[b] = <<>> =>
                            connection'[session[b]].stage = "open"
    BY DEF Opening, clientSide
  <2>1. CASE ConnectState[b] = "Disconnected"
    BY <2>1 DEF IInv, SessionsOwned
  <2>2. CASE ConnectState[b] # "Disconnected"
    <3>1. session[b] \in DOMAIN connection
      BY <2>2 DEF IInv, TypeOK, SessionsOwned
    <3>. QED  BY <1>1, <1>2, <3>1 DEF HInv, Opening
  <2>. QED  BY <2>1, <2>2
<1>4. Holders' /\ Seated'
  <2>1. \A p \in DOMAIN PeersPool : PeersPool[p].session \in DOMAIN connection
    BY DEF IInv, TypeOK
  <2>. QED  BY <1>1, <2>1 DEF HInv, Holders, Seated
<1>5. BlastsAddressed'
  BY <1>1, AddressedStays
<1>. QED  BY <1>3, <1>4, <1>5 DEF HInv

LEMMA ServerActionsHolders ==
  ASSUME IInv, HInv,
         \/ \E s \in DOMAIN connection : DenyConnection(s) \/ DropConnection(s)
         \/ \E p \in PeerIDs : DropPeer(p)
  PROVE  HInv'
<1>1. /\ <<Closed>> \in Seq(Answer) /\ <<Closed>> # <<>>
      /\ <<Denied, Closed>> \in Seq(Answer) /\ <<Denied, Closed>> # <<>>
  <2>1. Denied \in Answer /\ Closed \in Answer
    BY DEF Answer
  <2>. HIDE DEF Answer, Denied, Closed
  <2>. QED  BY <2>1
<1>2. ASSUME NEW s \in DOMAIN connection, DenyConnection(s) \/ DropConnection(s)
      PROVE  HInv'
  <2>1. /\ connection' = At(s, "closed") /\ connection[s].stage \in {"open", "asked"}
        /\ UNCHANGED <<clientSide, PeersPool, datagrams>>
    BY <1>2 DEF DenyConnection, DropConnection
  <2>2. PICK answers \in {<<Denied, Closed>>, <<Closed>>} : toClient' = Written(s, answers)
    BY <1>2 DEF DenyConnection, DropConnection
  <2>3. answers \in Seq(Answer) /\ answers # <<>>
    BY <1>1
  <2>4. DOMAIN PeersPool' = {p \in DOMAIN PeersPool : PeersPool[p].session # s}
    BY <2>1 DEF HInv, Seated
  <2>. QED  BY <2>1, <2>2, <2>3, <2>4, EndHolders
<1>3. ASSUME NEW p \in PeerIDs, DropPeer(p)
      PROVE  HInv'
  <2>. DEFINE s == PeersPool[p].session
  <2>1. /\ p \in DOMAIN PeersPool /\ connection' = At(s, "closed")
        /\ toClient' = Written(s, <<Closed>>)
        /\ PeersPool' = Restrict(PeersPool, DOMAIN PeersPool \ {p})
        /\ UNCHANGED <<clientSide, datagrams>>
    BY <1>3 DEF DropPeer
  <2>2. s \in DOMAIN connection
    BY <2>1 DEF IInv, TypeOK
  <2>3. /\ DOMAIN PeersPool' = {q \in DOMAIN PeersPool : PeersPool[q].session # s}
        /\ \A q \in DOMAIN PeersPool' : PeersPool'[q].session = PeersPool[q].session
    BY <2>1 DEF Restrict, HInv, Seated
  <2>4. connection[s].stage # "dialling"
    BY <2>1 DEF HInv, Seated
  <2>. HIDE DEF s
  <2>. QED  BY <1>1, <2>1, <2>2, <2>3, <2>4, EndHolders
<1>. QED  BY <1>2, <1>3

(* A new peer holds an id that nobody holds.                               *)
LEMMA AcceptHolders ==
  ASSUME IInv, HInv, NEW s \in DOMAIN connection, AcceptPeer(s)
  PROVE  HInv'
<1>1. PICK p \in PeerIDs :
        /\ FreePeer(p)
        /\ connection' = [connection EXCEPT ![s] = [@ EXCEPT !.stage = "peer", !.peer = p]]
        /\ PeersPool' = [q \in DOMAIN PeersPool \cup {p} |->
             IF q = p THEN [client |-> connection[s].client, session |-> s, UdpPort |-> NoPort]
                      ELSE PeersPool[q]]
        /\ toClient' = Written(s, <<Accepted(p)>>)
  BY DEF AcceptPeer
<1>2. connection[s].stage = "asked" /\ UNCHANGED <<clientSide, datagrams>>
  BY DEF AcceptPeer
<1>3. /\ DOMAIN connection' = DOMAIN connection
      /\ \A t \in DOMAIN connection :
           /\ connection'[t].stage = IF t = s THEN "peer" ELSE connection[t].stage
           /\ connection'[t].peer = IF t = s THEN p ELSE connection[t].peer
  BY <1>1, AcceptedStage DEF IInv
<1>4. p \in PeerIDs \ DOMAIN PeersPool /\ p # NoPeer /\ connection[s].peer = NoPeer
  BY <1>1, <1>2, LimitFacts DEF FreePeer, HInv, Holders
<1>5. /\ DOMAIN PeersPool' = DOMAIN PeersPool \cup {p}
      /\ PeersPool'[p].session = s
      /\ \A q \in DOMAIN PeersPool : PeersPool'[q] = PeersPool[q]
  BY <1>1, <1>4
<1>6. Opening'
  <2>. SUFFICES ASSUME NEW b \in Client
                PROVE  /\ socket[b] = "dialling" => connection'[session[b]].stage = "dialling"
                       /\ ConnectState[b] = "Connecting" /\ socket[b] = "open" /\ toClient'[b] = <<>> =>
                            connection'[session[b]].stage = "open"
    BY <1>2 DEF Opening, clientSide
  <2>1. CASE ConnectState[b] = "Disconnected"
    BY <2>1 DEF IInv, SessionsOwned
  <2>2. CASE ConnectState[b] # "Disconnected"
    <3>1. session[b] \in DOMAIN connection
      BY <2>2 DEF IInv, TypeOK, SessionsOwned
    <3>2. toClient'[b] = <<>> => toClient[b] = <<>>
      <4>1. <<Accepted(p)>> \in Seq(Answer) /\ <<Accepted(p)>> # <<>>
        BY <1>4 DEF Answer
      <4>2. toClient[b] \in Seq(Answer)
        BY DEF IInv, TypeOK, Answer
      <4>3. Written(s, <<Accepted(p)>>)[b] \in {toClient[b], toClient[b] \o <<Accepted(p)>>}
        BY <4>1, WrittenProperties DEF IInv
      <4>4. toClient' = Written(s, <<Accepted(p)>>)
        BY <1>1
      <4>5. toClient'[b] \in {toClient[b], toClient[b] \o <<Accepted(p)>>}
        BY <4>3, <4>4
      <4>. HIDE DEF Answer, Accepted
      <4>. QED  BY <4>1, <4>2, <4>5, ConcatProperties, EmptySeq, LenProperties
    <3>. QED  BY <1>2, <1>3, <3>1, <3>2 DEF HInv, Opening
  <2>. QED  BY <2>1, <2>2
<1>7. Holders' /\ Seated'
  <2>1. \A q \in DOMAIN PeersPool : PeersPool[q].session \in DOMAIN connection
    BY DEF IInv, TypeOK
  <2>. QED  BY <1>2, <1>3, <1>4, <1>5, <2>1 DEF HInv, Holders, Seated
<1>8. BlastsAddressed'
  BY <1>2, <1>3, <1>4, AddressedStays
<1>. QED  BY <1>6, <1>7, <1>8 DEF HInv

LEMMA NextHolders == IInv /\ HInv /\ [Next]_vars => HInv'
<1>. SUFFICES ASSUME IInv, HInv, [Next]_vars PROVE HInv'
  OBVIOUS
<1>1. ASSUME NEW p \in PeerIDs, EnterChannel(p) \/ LeaveChannel(p)
      PROVE  HInv'
  <2>. UNCHANGED <<clientSide, toClient, connection, PeersPool, datagrams>>
    BY <1>1 DEF EnterChannel, LeaveChannel
  <2>. QED  BY DatagramHolders
<1>2. CASE UNCHANGED vars
  BY <1>2, DatagramHolders DEF vars, serverSide
<1>. QED  BY <1>1, <1>2, DatagramActionsHolders, ClientActionsHolders, ConnectHolders, ProgressHolders,
       ServerActionsHolders, AcceptHolders DEF Next

LEMMA HoldersInvariance == Spec => []HInv
  BY InitHolders, NextHolders, Invariance, PTL DEF Spec

-----------------------------------------------------------------------------
(* Ids, messages and datagrams stay what they are.                         *)
THEOREM SessionTypes == Spec => []TypeOK
<1>1. IInv => TypeOK
  BY DEF IInv
<1>. QED  BY <1>1, Invariance, PTL

(* No late hello, of whatever client and session, can give a peer a port   *)
(* that is not its own.                                                    *)
THEOREM PortsAreOwners == Spec => []PortIsOwners
<1>1. IInv => PortIsOwners
  BY DEF IInv
<1>. QED  BY <1>1, Invariance, PTL

(* A client that says hello is the peer it says it is.                     *)
THEOREM IDsAreCurrent == Spec => []IDIsCurrent
<1>1. IInv => IDIsCurrent
  BY DEF IInv
<1>. QED  BY <1>1, Invariance, PTL

(* Only ReceiveBlast relays, and it relays in the sender's name to members.*)
LEMMA RelayStep ==
  ASSUME IInv, HInv, [Next]_vars, OwnAddresses, NEW e \in datagrams' \ datagrams, e.type = "relayed"
  PROVE  RelayedRightly(e)
<1>1. ASSUME NEW c \in Client, NEW q, e \in {Hello(c, q), Welcome(c)}
             \/ \E to, meant : e = Blasting(c, q, to, meant)
      PROVE  FALSE
  BY <1>1 DEF Hello, Welcome, Blasting
<1>2. PICK d \in datagrams : ReceiveBlast(d) /\ e \in Copies(d)
  <2>1. ASSUME NEW c \in Client, Read(c) \/ RequestUdp(c)
        PROVE  FALSE
    <3>1. datagrams' \subseteq datagrams \cup {Hello(c, PeerID[c]), Hello(c, Head(toClient[c]).peer)}
      BY <2>1 DEF Read, OnAccepted, OnDenied, OnClosed, Disconnect, RequestUdp, SayHello
    <3>. QED  BY <1>1, <3>1
  <2>2. ASSUME NEW c \in Client, NEW to, SendBlast(c, to)
        PROVE  FALSE
    BY <1>1, <2>2 DEF SendBlast
  <2>3. ASSUME NEW d \in datagrams, Lose(d) \/ ReceiveHello(d) \/ \E c \in Client : HandleUDP(c, d)
        PROVE  FALSE
    <3>1. datagrams' \subseteq datagrams \cup {Welcome(d.port)}
      BY <2>3 DEF Lose, ReceiveHello, HandleUDP, Receiving
    <3>2. CASE ReceiveHello(d)
      <4>1. d.port \in Client
        BY <3>2 DEF ReceiveHello, IInv, TypeOK, Datagram
      <4>. QED  BY <1>1, <3>1, <4>1
    <3>3. CASE Lose(d) \/ \E c \in Client : HandleUDP(c, d)
      BY <3>3 DEF Lose, HandleUDP, Receiving
    <3>. QED  BY <2>3, <3>2, <3>3
  <2>4. ASSUME NEW d \in datagrams, ReceiveBlast(d)
        PROVE  e \in Copies(d)
    BY <2>4 DEF ReceiveBlast, Receiving
  <2>5. ASSUME datagrams' = datagrams
        PROVE  FALSE
    BY <2>5
  <2>. QED  BY <2>1, <2>2, <2>3, <2>4, <2>5 DEF Next, Connect, Disconnect, Open, RequestTcp, AcceptPeer,
         DenyConnection, DropConnection, DropPeer, EnterChannel, LeaveChannel, vars
<1>3. d.type = "blast" /\ d.port \in Client
  BY <1>2 DEF ReceiveBlast, IInv, TypeOK, Datagram
<1>4. KnownPeer(d) /\ PeersPool[d.peer].UdpPort = d.port
  BY <1>2 DEF ReceiveBlast, Receiving
<1>5. e.to = d.to /\ e.peer = d.peer /\ e.meant = d.meant /\ e.origin = d.port /\ d.to # d.peer
  BY <1>2, <1>3, CopiesProperties DEF IInv, BlastsToOthers
<1>6. PeersPool[d.peer].client = d.port
  BY <1>3, <1>4, AddressAssumption DEF KnownPeer, OwnAddresses, IsInjective, IInv, TypeOK
<1>7. PICK p \in members :
        /\ d.peer \in members
        /\ p = d.to \/ (d.to = NoPeer /\ p # d.peer)
        /\ PeersPool[p].UdpPort # NoPort
        /\ e.port = PeersPool[p].UdpPort
  BY <1>2 DEF Copies, Receivers, Relayed
<1>8. PeersPool[p].client = e.port
  BY <1>7 DEF IInv, TypeOK, PortIsOwners
<1>9. p # e.peer /\ (e.to = NoPeer \/ ReachesMeant(e, p))
  <2>1. CASE d.to = NoPeer
    BY <1>5, <1>7, <2>1
  <2>2. CASE d.to # NoPeer
    <3>1. d.meant \in DOMAIN connection /\ connection[d.meant].peer = d.to /\ p = d.to
      BY <1>3, <1>7, <2>2 DEF HInv, BlastsAddressed, Addressed
    <3>2. connection[d.meant].stage \in {"peer", "closed"}
      BY <2>2, <3>1, ConnectionFacts DEF HInv, Holders, IInv, Stage
    <3>3. connection[d.meant].stage = "peer" => PeersPool[p].session = d.meant
      BY <3>1 DEF HInv, Holders
    <3>. QED  BY <1>5, <3>1, <3>2, <3>3 DEF ReachesMeant
  <2>. QED  BY <2>1, <2>2
<1>10. e.peer \in members /\ PeersPool[e.peer].client = e.origin
  BY <1>5, <1>6, <1>7
<1>11. \E r \in members : PeersPool[r].client = e.port /\ r # e.peer /\ (e.to = NoPeer \/ ReachesMeant(e, r))
  BY <1>7, <1>8, <1>9, Zenon
<1>. QED  BY <1>10, <1>11 DEF RelayedRightly

(* If no two clients share an address, then whatever ids are reused and    *)
(* however late a blast comes, it is relayed in the name of the client     *)
(* that sent it, to fellow members, and a blast for a peer to the one that *)
(* was meant, unless the server has ended that one's session.              *)
THEOREM BlastsAreGenuine == Spec => BlastsGenuine
<1>1. IInv /\ HInv /\ [Next]_vars =>
        [OwnAddresses => \A d \in datagrams' \ datagrams : d.type = "relayed" => RelayedRightly(d)]_vars
  BY RelayStep
<1>. QED  BY <1>1, Invariance, HoldersInvariance, PTL DEF Spec, BlastsGenuine
=============================================================================
