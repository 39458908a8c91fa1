------------------------ MODULE Connections_proofs ------------------------
(***************************************************************************)
(* Proofs about Connections: for any number of clients and any limits,     *)
(* every socket has one owner, the events of peers are never stale, and    *)
(* those of connections are stale only after an eviction in the batch.     *)
(*                                                                         *)
(* The invariant adds to the properties that an event which is being       *)
(* handled is no longer in the batch, and that nobody who waits to be      *)
(* accepted has been let go.                                               *)
(***************************************************************************)
EXTENDS Connections, TLAPS, FiniteSetTheorems

Apart == current \cap events = {}

BacklogKept == backlog \cap gone = {}

IInv ==
  /\ TypeOK
  /\ SocketsOwned
  /\ PeerEventsFresh
  /\ StaleOnlyIfEvicted
  /\ Apart
  /\ BacklogKept

(* Tags of different pools or ids are different.                           *)
LEMMA TagsDiffer ==
  /\ \A j, k : Handshaking(j) = Handshaking(k) => j = k
  /\ \A p, q : Peering(p) = Peering(q) => p = q
  /\ \A k, p : Handshaking(k) # Peering(p)
  /\ \A k : Handshaking(k) # Listening /\ Peering(k) # Listening
<1>1. \A k : Handshaking(k).kind = "connection" /\ Handshaking(k).id = k
  BY DEF Handshaking
<1>2. \A p : Peering(p).kind = "peer" /\ Peering(p).id = p
  BY DEF Peering
<1>3. Listening.kind = "listener"
  BY DEF Listening
<1>. QED  BY <1>1, <1>2, <1>3

(* No two entries of the pools have the same socket.                       *)
LEMMA OwnersDiffer ==
  ASSUME SocketsOwned
  PROVE  /\ \A j, k \in DOMAIN ConnectionsPool :
              ConnectionsPool[j] = ConnectionsPool[k] => j = k
         /\ \A p, q \in DOMAIN PeersPool : PeersPool[p] = PeersPool[q] => p = q
         /\ \A k \in DOMAIN ConnectionsPool, p \in DOMAIN PeersPool :
              ConnectionsPool[k] # PeersPool[p]
  BY TagsDiffer DEF SocketsOwned

(* The id of a new connection is one of the pool's.                        *)
LEMMA NextConnectionInPool ==
  ASSUME TypeOK
  PROVE  NextConnection \in ConnectionID
<1>1. IsFiniteSet(ConnectionID)
  BY LimitsAssumption, FS_Interval DEF LimitsAssumption, ConnectionID
<1>2. Cardinality(DOMAIN ConnectionsPool) \in Nat
  BY <1>1, FS_Subset, FS_CardinalityType DEF TypeOK
<1>. QED  BY <1>2, LimitsAssumption DEF LimitsAssumption, NextConnection, ConnectionID

(* The server starts without sockets.                                      *)
LEMMA InitInvariant == Init => IInv
  BY DEF Init, IInv, TypeOK, SocketsOwned, PeerEventsFresh, StaleOnlyIfEvicted, Apart, BacklogKept

(* A client's step leaves the pools alone and makes no socket less         *)
(* readable.                                                               *)
LEMMA ClientStep ==
  ASSUME IInv, NEW c \in Client, Dial(c) \/ Write(c) \/ Close(c)
  PROVE  IInv'
<1>1. UNCHANGED server /\ UNCHANGED <<read, gone>>
  BY DEF Dial, Write, Close
<1>2. /\ backlog' \subseteq Client /\ closed' \subseteq Client
      /\ closed \subseteq closed'
      /\ \A d \in DOMAIN Selector : d \notin backlog'
  BY DEF Dial, Write, Close, IInv, TypeOK, Arrived, SocketsOwned
<1>3. /\ written' \in [Client -> Seq(Chunk)]
      /\ \A d \in Client : Len(written[d]) <= Len(written'[d])
  <2>1. CASE Dial(c) \/ Close(c)
    BY <2>1 DEF Dial, Close, IInv, TypeOK
  <2>2. CASE Write(c)
    <3>1. PICK s \in Script :
            /\ Len(written[c]) < Len(s)
            /\ written' = [written EXCEPT ![c] = SubSeq(s, 1, Len(@) + 1)]
      BY <2>2 DEF Write
    <3>2. s \in Seq(Chunk) /\ written[c] \in Seq(Chunk)
      BY <3>1, ScriptAssumption DEF ScriptAssumption, IInv, TypeOK
    <3>3. /\ SubSeq(s, 1, Len(written[c]) + 1) \in Seq(Chunk)
          /\ Len(SubSeq(s, 1, Len(written[c]) + 1)) = Len(written[c]) + 1
      BY <3>1, <3>2
    <3>. QED  BY <3>1, <3>3 DEF IInv, TypeOK
  <2>. QED  BY <2>1, <2>2
<1>4. \A d \in Client : Readable(d) => Readable(d)'
  BY <1>1, <1>2, <1>3 DEF Readable, IInv, TypeOK
<1>5. TypeOK'
  BY <1>1, <1>2, <1>3 DEF server, IInv, TypeOK
<1>6. SocketsOwned'
  BY <1>1, <1>2 DEF server, IInv, SocketsOwned
<1>7. PeerEventsFresh' /\ StaleOnlyIfEvicted'
  BY <1>1, <1>4 DEF server, IInv, TypeOK, PeerEventsFresh, StaleOnlyIfEvicted
<1>8. Apart' /\ BacklogKept'
  BY <1>1 DEF server, IInv, Apart, BacklogKept, Dial, Write, Close, Arrived
<1>. QED  BY <1>5, <1>6, <1>7, <1>8 DEF IInv

(* A new batch holds events of sockets that are there and readable.        *)
LEMMA WaitStep ==
  ASSUME IInv, Wait
  PROVE  IInv'
<1>1. /\ events' = Ready /\ current = {}
      /\ UNCHANGED <<ConnectionsPool, PeersPool, Selector, current, net>>
      /\ evicted' = {}
  BY DEF Wait
<1>2. Ready \subseteq Tag \cup {Listening}
  BY DEF Ready, IInv, TypeOK
<1>3. \A p \in PeerID : Peering(p) \in Ready => p \in DOMAIN PeersPool /\ Readable(PeersPool[p])
  BY TagsDiffer DEF Ready, IInv, SocketsOwned
<1>4. \A k \in ConnectionID : Handshaking(k) \in Ready =>
        k \in DOMAIN ConnectionsPool /\ Readable(ConnectionsPool[k])
  BY TagsDiffer DEF Ready, IInv, SocketsOwned
<1>5. TypeOK' /\ SocketsOwned' /\ Apart' /\ BacklogKept'
  BY <1>1, <1>2 DEF net, IInv, TypeOK, SocketsOwned, Apart, BacklogKept
<1>6. PeerEventsFresh' /\ StaleOnlyIfEvicted'
  BY <1>1, <1>3, <1>4 DEF net, PeerEventsFresh, StaleOnlyIfEvicted, Readable
<1>. QED  BY <1>5, <1>6 DEF IInv

(* Taking an event out of the batch changes nothing else.                  *)
LEMMA TakeStep ==
  ASSUME IInv, NEW e, Take(e)
  PROVE  IInv'
<1>1. /\ UNCHANGED <<ConnectionsPool, PeersPool, Selector, evicted, net>>
      /\ events' \cup current' \subseteq events \cup current
      /\ current' = {e} /\ events' = events \ {e}
  BY DEF Take
<1>2. TypeOK' /\ SocketsOwned' /\ Apart' /\ BacklogKept'
  BY <1>1 DEF net, IInv, TypeOK, SocketsOwned, Apart, BacklogKept
<1>3. PeerEventsFresh' /\ StaleOnlyIfEvicted'
  BY <1>1 DEF net, IInv, PeerEventsFresh, StaleOnlyIfEvicted, Readable
<1>. QED  BY <1>2, <1>3 DEF IInv

(* NewConnection: whoever had the id is let go, and nobody else is         *)
(* touched.                                                                *)
LEMMA NewConnectionStep ==
  ASSUME IInv, NewConnection
  PROVE  IInv'
<1>. DEFINE k == NextConnection
            kept == DOMAIN ConnectionsPool \ {k}
<1>1. /\ current = {Listening} /\ current' = {} /\ events' = events
      /\ gone' = gone \cup Displaced(k)
      /\ evicted' = IF k \in DOMAIN ConnectionsPool THEN evicted \cup {k} ELSE evicted
      /\ UNCHANGED <<PeersPool, written, read, closed>>
  BY DEF NewConnection, Handled
<1>2. k \in ConnectionID
  BY NextConnectionInPool DEF IInv
<1>3. /\ Displaced(k) \subseteq Client
      /\ \A j \in kept : ConnectionsPool[j] \notin Displaced(k)
      /\ \A p \in DOMAIN PeersPool : PeersPool[p] \notin Displaced(k)
      /\ Displaced(k) \subseteq DOMAIN Selector
  BY OwnersDiffer DEF IInv, TypeOK, SocketsOwned, Displaced
<1>4. \A c : c \in DOMAIN Selector \ Displaced(k) =>
        \/ \E j \in kept : ConnectionsPool[j] = c
        \/ \E p \in DOMAIN PeersPool : PeersPool[p] = c
  BY DEF IInv, SocketsOwned, Displaced
<1>5. /\ events' \cup current' \subseteq Tag \cup {Listening}
      /\ \A d, e \in current' : d = e
      /\ evicted' \subseteq ConnectionID
      /\ evicted \subseteq evicted'
      /\ Apart'
      /\ gone' \subseteq Client
  BY <1>1, <1>2, <1>3 DEF IInv, TypeOK, Apart
<1>6. CASE \E c \in backlog :
             /\ backlog' = backlog \ {c}
             /\ ConnectionsPool' = [j \in kept \cup {k} |-> IF j = k THEN c ELSE ConnectionsPool[j]]
             /\ Selector' = [d \in DOMAIN Unwatched(Displaced(k)) \cup {c} |->
                               IF d = c THEN Handshaking(k) ELSE Selector[d]]
  <2>1. PICK c \in backlog :
          /\ backlog' = backlog \ {c}
          /\ ConnectionsPool' = [j \in kept \cup {k} |-> IF j = k THEN c ELSE ConnectionsPool[j]]
          /\ Selector' = [d \in DOMAIN Unwatched(Displaced(k)) \cup {c} |->
                            IF d = c THEN Handshaking(k) ELSE Selector[d]]
    BY <1>6
  <2>2. /\ DOMAIN Unwatched(Displaced(k)) = DOMAIN Selector \ Displaced(k)
        /\ c \notin DOMAIN Selector
        /\ c \in Client
    BY DEF Unwatched, Restrict, IInv, TypeOK, SocketsOwned
  <2>3. /\ DOMAIN ConnectionsPool' = kept \cup {k}
        /\ ConnectionsPool'[k] = c
        /\ \A j \in kept : ConnectionsPool'[j] = ConnectionsPool[j]
    BY <2>1
  <2>4. /\ DOMAIN Selector' = (DOMAIN Selector \ Displaced(k)) \cup {c}
        /\ Selector'[c] = Handshaking(k)
        /\ \A d \in DOMAIN Selector \ Displaced(k) : Selector'[d] = Selector[d]
    BY <2>1, <2>2
  <2>5. /\ DOMAIN ConnectionsPool' \subseteq ConnectionID
        /\ ConnectionsPool' \in [DOMAIN ConnectionsPool' -> Client]
    BY <1>2, <2>1, <2>2 DEF IInv, TypeOK
  <2>6. /\ DOMAIN Selector' \subseteq Client
        /\ Selector' \in [DOMAIN Selector' -> Tag]
    BY <1>2, <2>1, <2>2 DEF IInv, TypeOK, Tag, Handshaking
  <2>7. TypeOK'
    BY <1>1, <1>5, <2>1, <2>5, <2>6 DEF IInv, TypeOK
  <2>8. SocketsOwned'
    <3>1. \A j \in DOMAIN ConnectionsPool' :
            ConnectionsPool'[j] \in DOMAIN Selector' /\ Selector'[ConnectionsPool'[j]] = Handshaking(j)
      BY <1>3, <2>3, <2>4 DEF IInv, SocketsOwned
    <3>2. \A p \in DOMAIN PeersPool' :
            PeersPool'[p] \in DOMAIN Selector' /\ Selector'[PeersPool'[p]] = Peering(p)
      BY <1>1, <1>3, <2>4 DEF IInv, SocketsOwned
    <3>3. \A d \in DOMAIN Selector' : d \notin gone' \cup backlog'
      <4>1. c \notin gone \cup Displaced(k)
        BY <2>1, <2>2 DEF IInv, BacklogKept, SocketsOwned, Displaced
      <4>. QED  BY <1>1, <2>1, <2>4, <4>1 DEF IInv, SocketsOwned
    <3>4. \A d \in DOMAIN Selector' :
            \/ \E j \in DOMAIN ConnectionsPool' : ConnectionsPool'[j] = d
            \/ \E p \in DOMAIN PeersPool' : PeersPool'[p] = d
      BY <1>1, <1>4, <2>3, <2>4
    <3>. QED  BY <3>1, <3>2, <3>3, <3>4 DEF SocketsOwned
  <2>9. StaleOnlyIfEvicted'
    BY <1>1, <1>5, <2>3 DEF IInv, StaleOnlyIfEvicted, Readable
  <2>10. PeerEventsFresh' /\ BacklogKept'
    BY <1>1, <1>3, <2>1, <2>2
       DEF IInv, PeerEventsFresh, Readable, BacklogKept, SocketsOwned
  <2>. QED  BY <1>5, <2>7, <2>8, <2>9, <2>10 DEF IInv
<1>7. CASE /\ ConnectionsPool' = Restrict(ConnectionsPool, kept)
           /\ Selector' = Unwatched(Displaced(k))
           /\ backlog' = backlog
  <2>1. /\ DOMAIN ConnectionsPool' = kept
        /\ \A j \in kept : ConnectionsPool'[j] = ConnectionsPool[j]
        /\ DOMAIN Selector' = DOMAIN Selector \ Displaced(k)
        /\ \A d \in DOMAIN Selector \ Displaced(k) : Selector'[d] = Selector[d]
        /\ ConnectionsPool' \in [kept -> Client]
        /\ Selector' \in [DOMAIN Selector \ Displaced(k) -> Tag]
    BY <1>7 DEF Restrict, Unwatched, IInv, TypeOK
  <2>2. TypeOK'
    BY <1>1, <1>5, <1>7, <2>1 DEF IInv, TypeOK
  <2>3. SocketsOwned'
    <3>1. \A j \in DOMAIN ConnectionsPool' :
            ConnectionsPool'[j] \in DOMAIN Selector' /\ Selector'[ConnectionsPool'[j]] = Handshaking(j)
      BY <1>3, <2>1 DEF IInv, SocketsOwned
    <3>2. \A p \in DOMAIN PeersPool' :
            PeersPool'[p] \in DOMAIN Selector' /\ Selector'[PeersPool'[p]] = Peering(p)
      BY <1>1, <1>3, <2>1 DEF IInv, SocketsOwned
    <3>3. \A d \in DOMAIN Selector' : d \notin gone' \cup backlog'
      BY <1>1, <1>7, <2>1 DEF IInv, SocketsOwned
    <3>4. \A d \in DOMAIN Selector' :
            \/ \E j \in DOMAIN ConnectionsPool' : ConnectionsPool'[j] = d
            \/ \E p \in DOMAIN PeersPool' : PeersPool'[p] = d
      BY <1>1, <1>4, <2>1
    <3>. QED  BY <3>1, <3>2, <3>3, <3>4 DEF SocketsOwned
  <2>4. StaleOnlyIfEvicted'
    BY <1>1, <1>5, <2>1 DEF IInv, StaleOnlyIfEvicted, Readable
  <2>5. PeerEventsFresh'
    BY <1>1 DEF IInv, PeerEventsFresh, Readable
  <2>6. BacklogKept'
    BY <1>1, <1>7 DEF IInv, BacklogKept, SocketsOwned, Displaced
  <2>. QED  BY <1>5, <2>2, <2>3, <2>4, <2>5, <2>6 DEF IInv
<1>. QED  BY <1>6, <1>7 DEF NewConnection

(* Letting the socket of a pool entry go: whoever handles it, the rest of  *)
(* both pools stays as it was.                                             *)
LEMMA ConnectionDropped ==
  ASSUME IInv, NEW k \in ConnectionID, current = {Handshaking(k)}, k \in DOMAIN ConnectionsPool,
         Handled, DropConnection(k), UNCHANGED <<evicted, backlog, written, closed>>
  PROVE  IInv'
<1>. DEFINE c == ConnectionsPool[k]
<1>1. /\ c \in DOMAIN Selector
      /\ \A j \in DOMAIN ConnectionsPool \ {k} : ConnectionsPool[j] # c
      /\ \A p \in DOMAIN PeersPool : PeersPool[p] # c
      /\ c \notin backlog
  BY OwnersDiffer DEF IInv, SocketsOwned
<1>2. /\ DOMAIN ConnectionsPool' = DOMAIN ConnectionsPool \ {k}
      /\ \A j \in DOMAIN ConnectionsPool \ {k} : ConnectionsPool'[j] = ConnectionsPool[j]
      /\ ConnectionsPool' \in [DOMAIN ConnectionsPool' -> Client]
      /\ DOMAIN Selector' = DOMAIN Selector \ {c}
      /\ \A d \in DOMAIN Selector \ {c} : Selector'[d] = Selector[d]
      /\ Selector' \in [DOMAIN Selector' -> Tag]
      /\ gone' = gone \cup {c}
      /\ UNCHANGED <<PeersPool, read>>
  BY DEF DropConnection, Unwatched, Restrict, IInv, TypeOK
<1>3. current' = {} /\ events' = events /\ Handshaking(k) \notin events
  BY DEF Handled, IInv, Apart
<1>4. TypeOK'
  BY <1>1, <1>2, <1>3 DEF IInv, TypeOK
<1>5. SocketsOwned'
  BY <1>1, <1>2 DEF IInv, SocketsOwned
<1>6. PeerEventsFresh' /\ StaleOnlyIfEvicted'
  BY <1>2, <1>3 DEF IInv, PeerEventsFresh, StaleOnlyIfEvicted, Readable
<1>7. Apart' /\ BacklogKept'
  BY <1>1, <1>2, <1>3 DEF IInv, Apart, BacklogKept
<1>. QED  BY <1>4, <1>5, <1>6, <1>7 DEF IInv

(* The same for a peer, which may be dropped by its own event or between   *)
(* batches.                                                                *)
LEMMA PeerDropped ==
  ASSUME IInv, NEW p \in PeerID, p \in DOMAIN PeersPool, DropPeer(p),
         events' = events, current' = {}, Peering(p) \notin events
  PROVE  IInv'
<1>. DEFINE c == PeersPool[p]
<1>1. /\ c \in DOMAIN Selector
      /\ \A q \in DOMAIN PeersPool \ {p} : PeersPool[q] # c
      /\ \A k \in DOMAIN ConnectionsPool : ConnectionsPool[k] # c
      /\ c \notin backlog
  BY OwnersDiffer DEF IInv, SocketsOwned
<1>2. /\ DOMAIN PeersPool' = DOMAIN PeersPool \ {p}
      /\ \A q \in DOMAIN PeersPool \ {p} : PeersPool'[q] = PeersPool[q]
      /\ PeersPool' \in [DOMAIN PeersPool' -> Client]
      /\ DOMAIN Selector' = DOMAIN Selector \ {c}
      /\ \A d \in DOMAIN Selector \ {c} : Selector'[d] = Selector[d]
      /\ Selector' \in [DOMAIN Selector' -> Tag]
      /\ gone' = gone \cup {c}
      /\ UNCHANGED <<ConnectionsPool, evicted, backlog, written, read, closed>>
  BY DEF DropPeer, Unwatched, Restrict, IInv, TypeOK
<1>3. TypeOK'
  BY <1>1, <1>2 DEF IInv, TypeOK
<1>4. SocketsOwned'
  BY <1>1, <1>2 DEF IInv, SocketsOwned
<1>5. PeerEventsFresh' /\ StaleOnlyIfEvicted'
  BY <1>2 DEF IInv, PeerEventsFresh, StaleOnlyIfEvicted, Readable
<1>6. Apart' /\ BacklogKept'
  BY <1>1, <1>2 DEF IInv, Apart, BacklogKept
<1>. QED  BY <1>3, <1>4, <1>5, <1>6 DEF IInv

(* Reading a socket makes no other socket less readable.                   *)
LEMMA OthersReadable ==
  ASSUME TypeOK, NEW c \in Client, Advance(c), UNCHANGED <<written, closed>>
  PROVE  /\ \A d \in Client \ {c} : Readable(d)' = Readable(d)
         /\ read' \in [Client -> Nat]
  BY DEF TypeOK, Advance, Readable

(* HandleConnection, when the connection stays.                            *)
LEMMA KeepStep ==
  ASSUME IInv, NEW k \in ConnectionID, NEW c \in Client, KeepConnection(k, c)
  PROVE  IInv'
<1>1. /\ current = {Handshaking(k)} /\ k \in DOMAIN ConnectionsPool /\ c = ConnectionsPool[k]
      /\ current' = {} /\ events' = events
      /\ UNCHANGED <<ConnectionsPool, PeersPool, Selector, evicted, backlog, written, closed, gone>>
      /\ Advance(c)
  BY DEF KeepConnection, Reading, Handled
<1>2. Handshaking(k) \notin events
  BY <1>1 DEF IInv, Apart
<1>3. /\ \A j \in DOMAIN ConnectionsPool \ {k} : ConnectionsPool[j] # c
      /\ \A p \in DOMAIN PeersPool : PeersPool[p] # c
  BY <1>1, OwnersDiffer DEF IInv
<1>4. /\ \A d \in Client \ {c} : Readable(d)' = Readable(d)
      /\ read' \in [Client -> Nat]
  BY <1>1, OthersReadable DEF IInv
<1>5. TypeOK'
  BY <1>1, <1>4 DEF IInv, TypeOK
<1>6. SocketsOwned' /\ Apart' /\ BacklogKept'
  BY <1>1 DEF IInv, SocketsOwned, Apart, BacklogKept
<1>7. PeerEventsFresh'
  BY <1>1, <1>3, <1>4 DEF IInv, TypeOK, PeerEventsFresh
<1>8. StaleOnlyIfEvicted'
  BY <1>1, <1>2, <1>3, <1>4 DEF IInv, TypeOK, StaleOnlyIfEvicted
<1>. QED  BY <1>5, <1>6, <1>7, <1>8 DEF IInv

(* HandleConnection, when the connection becomes a peer: the socket passes *)
(* from one pool to the other, and its tag with it.                        *)
LEMMA AcceptStep ==
  ASSUME IInv, NEW k \in ConnectionID, NEW c \in Client, AcceptPeer(k, c)
  PROVE  IInv'
<1>1. /\ current = {Handshaking(k)} /\ k \in DOMAIN ConnectionsPool /\ c = ConnectionsPool[k]
      /\ current' = {} /\ events' = events
      /\ UNCHANGED <<evicted, backlog, written, closed, gone>>
      /\ Advance(c)
  BY DEF AcceptPeer, Reading, Handled
<1>2. PICK p \in PeerID :
        /\ p \notin DOMAIN PeersPool
        /\ PeersPool' = [q \in DOMAIN PeersPool \cup {p} |-> IF q = p THEN c ELSE PeersPool[q]]
        /\ Selector' = [Selector EXCEPT ![c] = Peering(p)]
  BY DEF AcceptPeer, FreePeer, TagOfPeer
<1>3. /\ DOMAIN ConnectionsPool' = DOMAIN ConnectionsPool \ {k}
      /\ \A j \in DOMAIN ConnectionsPool \ {k} : ConnectionsPool'[j] = ConnectionsPool[j]
      /\ ConnectionsPool' \in [DOMAIN ConnectionsPool' -> Client]
  BY DEF AcceptPeer, Restrict, IInv, TypeOK
<1>4. /\ c \in DOMAIN Selector
      /\ \A j \in DOMAIN ConnectionsPool \ {k} : ConnectionsPool[j] # c
      /\ \A q \in DOMAIN PeersPool : PeersPool[q] # c
  BY <1>1, OwnersDiffer DEF IInv, SocketsOwned
<1>5. /\ \A d \in Client \ {c} : Readable(d)' = Readable(d)
      /\ read' \in [Client -> Nat]
  BY <1>1, OthersReadable DEF IInv
<1>6. Handshaking(k) \notin events /\ Peering(p) \notin events
  BY <1>1, <1>2 DEF IInv, Apart, PeerEventsFresh
<1>7. TypeOK'
  <2>1. /\ DOMAIN PeersPool' \subseteq PeerID
        /\ PeersPool' \in [DOMAIN PeersPool' -> Client]
    BY <1>2 DEF IInv, TypeOK
  <2>2. /\ DOMAIN Selector' \subseteq Client
        /\ Selector' \in [DOMAIN Selector' -> Tag]
    BY <1>2 DEF IInv, TypeOK, Tag, Peering
  <2>. QED  BY <1>1, <1>3, <1>5, <2>1, <2>2 DEF IInv, TypeOK
<1>8. SocketsOwned'
  <2>1. DOMAIN PeersPool' = DOMAIN PeersPool \cup {p} /\ PeersPool'[p] = c
    BY <1>2
  <2>2. \A q \in DOMAIN PeersPool : PeersPool'[q] = PeersPool[q]
    BY <1>2
  <2>3. /\ DOMAIN Selector' = DOMAIN Selector
        /\ Selector'[c] = Peering(p)
        /\ \A d \in DOMAIN Selector \ {c} : Selector'[d] = Selector[d]
    BY <1>2, <1>4
  <2>. QED  BY <1>1, <1>3, <1>4, <2>1, <2>2, <2>3 DEF IInv, SocketsOwned
<1>9. PeerEventsFresh'
  BY <1>1, <1>2, <1>4, <1>5, <1>6 DEF IInv, TypeOK, PeerEventsFresh
<1>10. StaleOnlyIfEvicted'
  BY <1>1, <1>3, <1>4, <1>5, <1>6 DEF IInv, TypeOK, StaleOnlyIfEvicted
<1>11. Apart' /\ BacklogKept'
  BY <1>1 DEF IInv, Apart, BacklogKept
<1>. QED  BY <1>7, <1>8, <1>9, <1>10, <1>11 DEF IInv

(* ReceiveTcp: something was read, or the peer is dropped.                 *)
LEMMA ReceiveStep ==
  ASSUME IInv, NEW p \in PeerID, ReceiveTcp(p)
  PROVE  IInv'
<1>. DEFINE c == PeersPool[p]
<1>1. current = {Peering(p)} /\ p \in DOMAIN PeersPool /\ current' = {} /\ events' = events
  BY DEF ReceiveTcp, Handled
<1>2. Peering(p) \notin events
  BY <1>1 DEF IInv, Apart
<1>3. CASE DropPeer(p)
  BY <1>1, <1>2, <1>3, PeerDropped
<1>4. CASE /\ Advance(c)
           /\ UNCHANGED <<ConnectionsPool, PeersPool, Selector, evicted, backlog, written, closed, gone>>
  <2>1. /\ \A q \in DOMAIN PeersPool \ {p} : PeersPool[q] # c
        /\ \A k \in DOMAIN ConnectionsPool : ConnectionsPool[k] # c
        /\ c \in Client
    BY <1>1, OwnersDiffer DEF IInv, TypeOK
  <2>2. /\ \A d \in Client \ {c} : Readable(d)' = Readable(d)
        /\ read' \in [Client -> Nat]
    BY <1>4, <2>1, OthersReadable DEF IInv
  <2>3. TypeOK'
    BY <1>1, <1>4, <2>2 DEF IInv, TypeOK
  <2>4. SocketsOwned' /\ Apart' /\ BacklogKept'
    BY <1>1, <1>4 DEF IInv, SocketsOwned, Apart, BacklogKept
  <2>5. PeerEventsFresh' /\ StaleOnlyIfEvicted'
    BY <1>1, <1>2, <1>4, <2>1, <2>2 DEF IInv, TypeOK, PeerEventsFresh, StaleOnlyIfEvicted
  <2>. QED  BY <2>3, <2>4, <2>5 DEF IInv
<1>. QED  BY <1>3, <1>4 DEF ReceiveTcp

-----------------------------------------------------------------------------
(* Every step of the loop and of the clients preserves the invariant.      *)
LEMMA NextInvariant == IInv /\ [Next]_vars => IInv'
<1>. SUFFICES ASSUME IInv, [Next]_vars PROVE IInv'
  OBVIOUS
<1>1. CASE Wait
  BY <1>1, WaitStep
<1>2. CASE \E e \in Tag \cup {Listening} : Take(e)
  BY <1>2, TakeStep
<1>3. CASE NewConnection
  BY <1>3, NewConnectionStep
<1>4. CASE \E k \in ConnectionID, c \in Client : HandleConnection(k, c)
  <2>1. PICK k \in ConnectionID, c \in Client : HandleConnection(k, c)
    BY <1>4
  <2>2. CASE KeepConnection(k, c)
    BY <2>2, KeepStep
  <2>3. CASE AcceptPeer(k, c)
    BY <2>3, AcceptStep
  <2>4. CASE EndConnection(k, c) \/ DenyPeer(k, c)
    <3>1. /\ current = {Handshaking(k)} /\ k \in DOMAIN ConnectionsPool
          /\ Handled /\ DropConnection(k)
          /\ UNCHANGED <<evicted, backlog, written, closed>>
      BY <2>4 DEF EndConnection, DenyPeer, Reading
    <3>. QED  BY <3>1, ConnectionDropped
  <2>. QED  BY <2>1, <2>2, <2>3, <2>4 DEF HandleConnection
<1>5. CASE \E p \in PeerID : ReceiveTcp(p)
  BY <1>5, ReceiveStep
<1>6. CASE \E p \in PeerID : PingTimeout(p)
  <2>1. PICK p \in PeerID : PingTimeout(p)
    BY <1>6
  <2>2. /\ p \in DOMAIN PeersPool /\ DropPeer(p)
        /\ events' = events /\ current' = {} /\ Peering(p) \notin events
    BY <2>1 DEF PingTimeout
  <2>. QED  BY <2>2, PeerDropped
<1>7. CASE \E c \in Client : Dial(c) \/ Write(c) \/ Close(c)
  BY <1>7, ClientStep
<1>8. CASE UNCHANGED vars
  BY <1>8 DEF vars, server, net, IInv, TypeOK, SocketsOwned, PeerEventsFresh, StaleOnlyIfEvicted,
     Apart, BacklogKept, Readable
<1>. QED  BY <1>1, <1>2, <1>3, <1>4, <1>5, <1>6, <1>7, <1>8 DEF Next, Loop

(* The invariant holds in every reachable state.                           *)
LEMMA Invariance == Spec => []IInv
  BY InitInvariant, NextInvariant, PTL DEF Spec

-----------------------------------------------------------------------------
(* The pools never outgrow their limits, and hold only what belongs there. *)
THEOREM TypeIsCorrect == Spec => []TypeOK
<1>1. IInv => TypeOK
  BY DEF IInv
<1>. QED  BY <1>1, Invariance, PTL

(* Each watched socket has exactly one owner, and its tag leads there.     *)
THEOREM SocketsAreOwned == Spec => []SocketsOwned
<1>1. IInv => SocketsOwned
  BY DEF IInv
<1>. QED  BY <1>1, Invariance, PTL

(* ReceiveTcp never meets a stranger and never keeps the loop waiting.     *)
THEOREM PeerEventsAreFresh == Spec => []PeerEventsFresh
<1>1. IInv => PeerEventsFresh
  BY DEF IInv
<1>. QED  BY <1>1, Invariance, PTL

(* Only an eviction makes an event of a connection stale.                  *)
THEOREM StaleAfterEviction == Spec => []StaleOnlyIfEvicted
<1>1. IInv => StaleOnlyIfEvicted
  BY DEF IInv
<1>. QED  BY <1>1, Invariance, PTL
=============================================================================
