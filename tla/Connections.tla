---------------------------- MODULE Connections ----------------------------
(***************************************************************************)
(* How sockets become peers: the main loop's batches of epoll events, the  *)
(* pool of connections that have not shaken hands yet, and the selector's  *)
(* tags that say which pool and which id a socket belongs to               *)
(* (server/RedRelayServer.cpp: NewConnection, HandleConnection,            *)
(* DropConnection, ReceiveTcp, DropPeer and the epoll loop of Start).      *)
(*                                                                         *)
(* Sockets block: a handler that reads a socket with nothing to read keeps *)
(* the whole loop waiting.  A client is one TCP connection.  The order of  *)
(* the events of a batch is the kernel's, so a batch is a set.             *)
(***************************************************************************)
EXTENDS Naturals, FiniteSets, Sequences, Functions

CONSTANTS
  Client,            \* the TCP connections that are ever made
  ConnectionsLimit,  \* RedRelayServer::ConnectionsLimit
  PeersLimit,        \* RedRelayServer::PeersLimit
  AcceptFails,       \* may TcpListener.accept fail (no descriptors left)?
  Script             \* what a client may write, cut where the network cuts it

(* 16 bits wide in the code; the setters ignore 0.                         *)
ASSUME LimitsAssumption ==
  /\ ConnectionsLimit \in Nat \ {0}
  /\ PeersLimit \in Nat \ {0}
  /\ AcceptFails \in BOOLEAN

(* The first byte, the (rest of the) handshake, a handshake of another     *)
(* revision, something that does not begin with 0, anything after that.    *)
Chunk == {"zero", "request", "old", "foreign", "data"}

ASSUME ScriptAssumption == Script \subseteq Seq(Chunk)

ConnectionID == 0 .. ConnectionsLimit - 1
PeerID == 0 .. PeersLimit - 1

VARIABLES
  ConnectionsPool,  \* sockets before the handshake: a function from ids
  PeersPool,        \* sockets of peers: a function from ids
  Selector,         \* the tag each watched socket was registered with
  events,           \* events of this batch that have not been handled
  current,          \* the event being handled, in a set of its own
  evicted,          \* connection ids NewConnection took away in this batch
  backlog,          \* clients the listener has not accepted
  written,          \* what each client has written
  read,             \* how much of it the server has read
  closed,           \* clients that have closed their end
  gone              \* clients whose socket the server has deleted

server == <<ConnectionsPool, PeersPool, Selector, events, current, evicted>>
net == <<backlog, written, read, closed, gone>>
vars == <<server, net>>

Tag == [kind : {"connection"}, id : ConnectionID] \cup [kind : {"peer"}, id : PeerID]
Listening == [kind |-> "listener"]
Handshaking(k) == [kind |-> "connection", id |-> k]
Peering(p) == [kind |-> "peer", id |-> p]

Readable(c) == read[c] < Len(written[c]) \/ c \in closed

Init ==
  /\ ConnectionsPool = [k \in {} |-> {}]
  /\ PeersPool = [p \in {} |-> {}]
  /\ Selector = [c \in {} |-> {}]
  /\ events = {}
  /\ current = {}
  /\ evicted = {}
  /\ backlog = {}
  /\ written = [c \in Client |-> <<>>]
  /\ read = [c \in Client |-> 0]
  /\ closed = {}
  /\ gone = {}

-----------------------------------------------------------------------------
(* The clients.                                                            *)

Arrived(c) == c \in backlog \cup gone \cup DOMAIN Selector

Dial(c) ==
  /\ ~Arrived(c)
  /\ backlog' = backlog \cup {c}
  /\ UNCHANGED <<server, written, read, closed, gone>>

Write(c) ==
  /\ Arrived(c)
  /\ c \notin closed \cup gone
  /\ \E s \in Script :
       /\ Len(written[c]) < Len(s)
       /\ written[c] = SubSeq(s, 1, Len(written[c]))
       /\ written' = [written EXCEPT ![c] = SubSeq(s, 1, Len(@) + 1)]
  /\ UNCHANGED <<server, backlog, read, closed, gone>>

Close(c) ==
  /\ Arrived(c)
  /\ c \notin closed \cup gone
  /\ closed' = closed \cup {c}
  /\ UNCHANGED <<server, backlog, written, read, gone>>

-----------------------------------------------------------------------------
(* The loop: Selector.wait returns what is ready, then one event after the *)
(* other is handled, whatever the earlier ones have changed.               *)

Ready ==
  {Selector[c] : c \in {d \in DOMAIN Selector : Readable(d)}}
    \cup (IF backlog # {} THEN {Listening} ELSE {})

Wait ==
  /\ current = {}
  /\ events = {}
  /\ Ready # {}
  /\ events' = Ready
  /\ evicted' = {}
  /\ UNCHANGED <<ConnectionsPool, PeersPool, Selector, current, net>>

Take(e) ==
  /\ current = {}
  /\ e \in events
  /\ current' = {e}
  /\ events' = events \ {e}
  /\ UNCHANGED <<ConnectionsPool, PeersPool, Selector, evicted, net>>

Handled == current' = {} /\ UNCHANGED events

-----------------------------------------------------------------------------
(* NewConnection.                                                          *)

(* Mutant: the limit is tested one connection too late.                    *)
NextConnectionOver ==
  LET n == Cardinality(DOMAIN ConnectionsPool)
  IN  IF n > ConnectionsLimit THEN 0 ELSE n

(* The id is the number of connections, whether that is free or not.       *)
NextConnection ==
  LET n == Cardinality(DOMAIN ConnectionsPool)
  IN  IF n >= ConnectionsLimit THEN 0 ELSE n

(* The socket that DropConnection deletes to make room.                    *)
Displaced(k) == IF k \in DOMAIN ConnectionsPool THEN {ConnectionsPool[k]} ELSE {}

Unwatched(cs) == Restrict(Selector, DOMAIN Selector \ cs)

NewConnection ==
  LET k == NextConnection
      kept == DOMAIN ConnectionsPool \ {k}
  IN  /\ current = {Listening}
      /\ Handled
      /\ gone' = gone \cup Displaced(k)
      /\ evicted' = IF k \in DOMAIN ConnectionsPool THEN evicted \cup {k} ELSE evicted
      /\ \/ \E c \in backlog :
              /\ backlog' = backlog \ {c}
              /\ ConnectionsPool' = [j \in kept \cup {k} |-> IF j = k THEN c ELSE ConnectionsPool[j]]
              /\ Selector' = [d \in DOMAIN Unwatched(Displaced(k)) \cup {c} |->
                                IF d = c THEN Handshaking(k) ELSE Selector[d]]
         \/ /\ AcceptFails
            /\ ConnectionsPool' = Restrict(ConnectionsPool, kept)
            /\ Selector' = Unwatched(Displaced(k))
            /\ UNCHANGED backlog
      /\ UNCHANGED <<PeersPool, written, read, closed>>

-----------------------------------------------------------------------------
(* HandleConnection, on a socket that has something to read.               *)

Reading(k, c) ==
  /\ current = {Handshaking(k)}
  /\ k \in DOMAIN ConnectionsPool
  /\ c = ConnectionsPool[k]
  /\ Readable(c)
  /\ Handled
  /\ UNCHANGED <<evicted, backlog, written, closed>>

Reads(c, what) == read[c] < Len(written[c]) /\ written[c][read[c] + 1] \in what

Advance(c) == read' = [read EXCEPT ![c] = @ + 1]

DropConnection(k) ==
  /\ ConnectionsPool' = Restrict(ConnectionsPool, DOMAIN ConnectionsPool \ {k})
  /\ Selector' = Unwatched({ConnectionsPool[k]})
  /\ gone' = gone \cup {ConnectionsPool[k]}
  /\ UNCHANGED <<PeersPool, read>>

(* Not all of it has come, or it is another revision's: nothing happens.   *)
KeepConnection(k, c) ==
  /\ Reading(k, c)
  /\ Reads(c, {"zero", "old"})
  /\ Advance(c)
  /\ UNCHANGED <<ConnectionsPool, PeersPool, Selector, gone>>

(* The end of the stream, a first byte other than 0, or anything behind    *)
(* a full buffer that holds no handshake (a read of no bytes).             *)
EndConnection(k, c) ==
  /\ Reading(k, c)
  /\ read[c] = Len(written[c]) \/ Reads(c, {"foreign", "data"})
  /\ DropConnection(k)

(* Mutant: any id will do for a newcomer.                                  *)
SomePeer(p) == p \in PeerID

FreePeer(p) ==
  /\ p \in PeerID \ DOMAIN PeersPool
  /\ \A q \in PeerID : q < p => q \in DOMAIN PeersPool

(* Mutant: the selector keeps the tag of the connection.                   *)
TagKept(c, p) == Selector[c]

(* Selector.mod.                                                           *)
TagOfPeer(c, p) == Peering(p)

AcceptPeer(k, c) ==
  /\ Reading(k, c)
  /\ Reads(c, {"request"})
  /\ Advance(c)
  /\ \E p \in PeerID :
       /\ FreePeer(p)
       /\ PeersPool' = [q \in DOMAIN PeersPool \cup {p} |-> IF q = p THEN c ELSE PeersPool[q]]
       /\ Selector' = [Selector EXCEPT ![c] = TagOfPeer(c, p)]
  /\ ConnectionsPool' = Restrict(ConnectionsPool, DOMAIN ConnectionsPool \ {k})
  /\ UNCHANGED gone

(* Mutant: a full server says nothing.                                     *)
DenyPeerIfRoom(k, c) ==
  /\ \E p \in PeerID : FreePeer(p)
  /\ Reading(k, c)
  /\ Reads(c, {"request"})
  /\ DropConnection(k)

(* The PeerConnect callback may refuse a peer, and a full server does.     *)
DenyPeer(k, c) ==
  /\ Reading(k, c)
  /\ Reads(c, {"request"})
  /\ DropConnection(k)

HandleConnection(k, c) ==
  KeepConnection(k, c) \/ EndConnection(k, c) \/ AcceptPeer(k, c) \/ DenyPeer(k, c)

-----------------------------------------------------------------------------
(* ReceiveTcp and the ping tick, as far as sockets are concerned.          *)

DropPeer(p) ==
  /\ PeersPool' = Restrict(PeersPool, DOMAIN PeersPool \ {p})
  /\ Selector' = Unwatched({PeersPool[p]})
  /\ gone' = gone \cup {PeersPool[p]}
  /\ UNCHANGED <<ConnectionsPool, evicted, backlog, written, read, closed>>

ReceiveTcp(p) ==
  /\ current = {Peering(p)}
  /\ p \in DOMAIN PeersPool
  /\ Readable(PeersPool[p])
  /\ Handled
  /\ IF read[PeersPool[p]] < Len(written[PeersPool[p]])
     THEN /\ Advance(PeersPool[p])
          /\ UNCHANGED <<ConnectionsPool, PeersPool, Selector, evicted, backlog, written, closed, gone>>
     ELSE DropPeer(p)

(* The tick comes when a batch is done, and may find any peer silent.      *)
PingTimeout(p) ==
  /\ current = {}
  /\ events = {}
  /\ p \in DOMAIN PeersPool
  /\ DropPeer(p)
  /\ UNCHANGED <<events, current>>

-----------------------------------------------------------------------------
Loop ==
  \/ Wait
  \/ \E e \in Tag \cup {Listening} : Take(e)
  \/ NewConnection
  \/ \E k \in ConnectionID, c \in Client : HandleConnection(k, c)
  \/ \E p \in PeerID : ReceiveTcp(p)

Next ==
  \/ Loop
  \/ \E p \in PeerID : PingTimeout(p)
  \/ \E c \in Client : Dial(c) \/ Write(c) \/ Close(c)

(* The loop runs as long as it has something to do; clients need not.      *)
Spec == Init /\ [][Next]_vars /\ WF_vars(Loop)

-----------------------------------------------------------------------------
(* Properties.                                                             *)

(* The pools hold sockets under ids below their limits, the selector and   *)
(* the batch hold tags.                                                    *)
TypeOK ==
  /\ DOMAIN ConnectionsPool \subseteq ConnectionID
  /\ ConnectionsPool \in [DOMAIN ConnectionsPool -> Client]
  /\ DOMAIN PeersPool \subseteq PeerID
  /\ PeersPool \in [DOMAIN PeersPool -> Client]
  /\ DOMAIN Selector \subseteq Client
  /\ Selector \in [DOMAIN Selector -> Tag]
  /\ events \cup current \subseteq Tag \cup {Listening}
  /\ \A d, e \in current : d = e
  /\ evicted \subseteq ConnectionID
  /\ backlog \subseteq Client
  /\ written \in [Client -> Seq(Chunk)]
  /\ read \in [Client -> Nat]
  /\ closed \subseteq Client
  /\ gone \subseteq Client

(* Every socket the server watches belongs to exactly one entry of one     *)
(* pool, its tag leads to that entry, and no entry has a socket that is    *)
(* deleted or unwatched: none leaks, none is used after it was freed.      *)
SocketsOwned ==
  /\ \A k \in DOMAIN ConnectionsPool :
       /\ ConnectionsPool[k] \in DOMAIN Selector
       /\ Selector[ConnectionsPool[k]] = Handshaking(k)
  /\ \A p \in DOMAIN PeersPool :
       /\ PeersPool[p] \in DOMAIN Selector
       /\ Selector[PeersPool[p]] = Peering(p)
  /\ \A c \in DOMAIN Selector :
       /\ c \notin gone \cup backlog
       /\ \/ \E k \in DOMAIN ConnectionsPool : ConnectionsPool[k] = c
          \/ \E p \in DOMAIN PeersPool : PeersPool[p] = c

(* However many peers come and go while a batch is handled, an event of a  *)
(* peer finds the peer still there with something to read: ReceiveTcp      *)
(* neither meets a stranger under a reused id nor keeps the loop waiting.  *)
PeerEventsFresh ==
  \A p \in PeerID : Peering(p) \in events \cup current =>
    p \in DOMAIN PeersPool /\ Readable(PeersPool[p])

(* An event of a connection may be stale, but only when NewConnection took *)
(* the connection's id away earlier in the same batch.                     *)
StaleOnlyIfEvicted ==
  \A k \in ConnectionID : Handshaking(k) \in events \cup current =>
    k \in evicted \/ (k \in DOMAIN ConnectionsPool /\ Readable(ConnectionsPool[k]))

(* A connection that is handled exists: "If requested element doesn't      *)
(* exist, returns empty type to prevent segmentation fault"                *)
(* (server/IDPool.hpp:52), but the empty Connection has no Socket to read. *)
SocketPresent ==
  \A k \in ConnectionID : current = {Handshaking(k)} => k \in DOMAIN ConnectionsPool

(* The loop waits on a stale event of a connection, or has met no socket.  *)
Held ==
  \E k \in ConnectionID :
    /\ current = {Handshaking(k)}
    /\ k \notin DOMAIN ConnectionsPool \/ ~Readable(ConnectionsPool[k])

(* A client that was accepted and has asked to connect gets an answer: it  *)
(* becomes a peer or is let go, unless a stale event holds the loop up,    *)
(* even if accept fails again and again, and however many others call.     *)
RequestsAnswered ==
  \A c \in Client :
    c \in DOMAIN Selector /\ "request" \in Range(written[c])
      ~> (c \in Range(PeersPool) \cup gone \/ Held)
=============================================================================
