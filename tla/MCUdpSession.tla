---------------------------- MODULE MCUdpSession ----------------------------
(* UdpSession with the values TLC needs.                                   *)
EXTENDS UdpSession, TLC

(* Every client has an address of its own.                                 *)
ApartAddress == [c \in Client |-> c]

Symmetry == Permutations(Client)

(* Two clients, of which one will connect once more.                       *)
First == CHOOSE c \in Client : TRUE

OneReturns == [c \in Client |-> IF c = First THEN 2 ELSE 1]
BothReturn == [c \in Client |-> 2]

(* A state that two connects lead to: both clients are in the channel, the *)
(* one that will return is established, the other has just said hello.     *)
(* Checked from here, ids are given out again within the bounds.           *)
FirstID(c) == IF c = First THEN 1 ELSE 0
FirstOf(p) == CHOOSE c \in Client : FirstID(c) = p

Underway ==
  /\ ConnectState = [c \in Client |-> IF c = First THEN "Established" ELSE "RequestingUdp"]
  /\ PeerID = [c \in Client |-> FirstID(c)]
  /\ socket = [c \in Client |-> "open"]
  /\ session = [c \in Client |-> FirstID(c) + 1]
  /\ toClient = [c \in Client |-> <<>>]
  /\ connection = [s \in 1 .. 2 |-> [client |-> FirstOf(s - 1), stage |-> "peer", peer |-> s - 1]]
  /\ PeersPool = [p \in 0 .. 1 |->
       [client |-> FirstOf(p), session |-> p + 1, UdpPort |-> IF p = 1 THEN First ELSE NoPort]]
  /\ members = {0, 1}
  /\ datagrams = {Hello(FirstOf(0), 0)}

UnderwaySpec == Underway /\ [][Next]_vars /\ Fairness
=============================================================================
