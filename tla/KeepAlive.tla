----------------------------- MODULE KeepAlive -----------------------------
(***************************************************************************)
(* The keepalive of the server: the ping tick at the end of the main loop  *)
(* (server/RedRelayServer.cpp, Start), which walks the vector of allocated *)
(* peers by index, drops those that owe too many answers and writes a ping *)
(* to the others from the buffer every handler shares.                     *)
(*                                                                         *)
(* One iteration of the tick's loop is one step: the server handles no     *)
(* message meanwhile, but the clients read and write.  Of the channels     *)
(* only matters whether a peer that is dropped has fellows who must be     *)
(* told, so one channel stands for all of them.                            *)
(***************************************************************************)
EXTENDS Naturals, Sequences, FiniteSets, Functions

CONSTANT
  PeersLimit     \* RedRelayServer::PeersLimit

ASSUME PeersAssumption == PeersLimit \in Nat \ {0}

PeerID == 0 .. PeersLimit - 1

VARIABLES
  slots,      \* IndexedPool::m_pool: the ids whose slot is not NULL
  allocated,  \* IndexedPool::m_allocated: the peers' ids, oldest entry first
  PingTries,  \* of each allocated peer
  together,   \* the allocated peers that share a channel
  packet,     \* what the shared buffer holds: "Ping", or what DropPeer wrote
  i,          \* the loop's index, counted from 1; 0 while the server polls
  pinged,     \* peers whose client has a ping to answer
  answers,    \* peers whose client's answer the server has not read yet
  visited,    \* peers this tick has come to
  dropped     \* how many peers this tick has dropped

pool == <<slots, allocated>>

vars == <<slots, allocated, PingTries, together, packet, i, pinged, answers, visited, dropped>>

(* Mutant: erases the entry behind the one it looks for.                   *)
ErasedNext(x) ==
  LET k == CHOOSE j \in DOMAIN allocated : allocated[j] = x
  IN  [j \in 1 .. Len(allocated) - 1 |-> IF j <= k THEN allocated[j] ELSE allocated[j + 1]]

(* The vector without the entry of x.                                      *)
Erased(x) ==
  LET k == CHOOSE j \in DOMAIN allocated : allocated[j] = x
  IN  [j \in 1 .. Len(allocated) - 1 |-> IF j < k THEN allocated[j] ELSE allocated[j + 1]]

Init ==
  /\ slots = {}
  /\ allocated = <<>>
  /\ PingTries = [p \in {} |-> 0]
  /\ together = {}
  /\ packet = "Ping"
  /\ i = 0
  /\ pinged = {}
  /\ answers = {}
  /\ visited = {}
  /\ dropped = 0

-----------------------------------------------------------------------------
(* Between ticks the server handles what the sockets bring.                *)

Polling == i = 0

(* A handshake is accepted: the lowest free slot is filled, and an entry   *)
(* appended to the vector.                                                 *)
Connect(p) ==
  /\ Polling
  /\ p \in PeerID \ slots
  /\ \A q \in PeerID : q < p => q \in slots
  /\ slots' = slots \cup {p}
  /\ allocated' = Append(allocated, p)
  /\ PingTries' = [q \in slots \cup {p} |-> IF q = p THEN 0 ELSE PingTries[q]]
  /\ UNCHANGED <<together, packet, i, pinged, answers, visited, dropped>>

Join(p) ==
  /\ Polling
  /\ p \in slots \ together
  /\ together' = together \cup {p}
  /\ UNCHANGED <<pool, PingTries, packet, i, pinged, answers, visited, dropped>>

Leave(p) ==
  /\ Polling
  /\ p \in together
  /\ together' = together \ {p}
  /\ UNCHANGED <<pool, PingTries, packet, i, pinged, answers, visited, dropped>>

(* HandleTCP, type 9.                                                      *)
PingReply(p) ==
  /\ Polling
  /\ p \in answers
  /\ answers' = answers \ {p}
  /\ PingTries' = [PingTries EXCEPT ![p] = 0]
  /\ UNCHANGED <<pool, together, packet, i, pinged, visited, dropped>>

(* What DropPeer takes away; the notices to p's fellows go through packet. *)
Remove(p) ==
  /\ slots' = slots \ {p}
  /\ allocated' = Erased(p)
  /\ PingTries' = Restrict(PingTries, slots \ {p})
  /\ together' = together \ {p}
  /\ packet' = IF p \in together /\ together # {p} THEN "Notice" ELSE packet
  /\ pinged' = pinged \ {p}
  /\ answers' = answers \ {p}

(* The peer's socket was closed.                                           *)
Closed(p) ==
  /\ Polling
  /\ p \in slots
  /\ Remove(p)
  /\ UNCHANGED <<i, visited, dropped>>

-----------------------------------------------------------------------------
(* The tick.                                                               *)

Tick ==
  /\ Polling
  /\ i' = 1
  /\ packet' = "Ping"
  /\ visited' = {}
  /\ dropped' = 0
  /\ UNCHANGED <<pool, PingTries, together, pinged, answers>>

(* Mutant: one try more than the code allows.                              *)
TimedOutLate(p) == PingTries[p] > 3

TimedOut(p) == PingTries[p] > 2

(* Mutant: a try that was counted once is not counted again.               *)
CountOnce(tries) == 1

Counted(tries) == tries + 1

(* Mutant: the loop leaves out every other peer.                           *)
StepTwice(j) == j + 2

Step(j) == j + 1

(* One iteration.  The index moves on even when DropPeer has shortened the *)
(* vector; the write takes whatever packet holds by now.                   *)
Visit(p) ==
  /\ i \in DOMAIN allocated
  /\ p = allocated[i]
  /\ i' = Step(i)
  /\ visited' = visited \cup {p}
  /\ \/ /\ TimedOut(p)
        /\ Remove(p)
        /\ dropped' = dropped + 1
     \/ /\ ~TimedOut(p)
        /\ pinged' = IF PingTries[p] > 0 /\ packet = "Ping" THEN pinged \cup {p} ELSE pinged
        /\ PingTries' = [PingTries EXCEPT ![p] = Counted(@)]
        /\ UNCHANGED <<pool, together, packet, answers, dropped>>

Finish ==
  /\ i > Len(allocated)
  /\ i' = 0
  /\ UNCHANGED <<pool, PingTries, together, packet, pinged, answers, visited, dropped>>

-----------------------------------------------------------------------------
(* The client answers a ping whenever it gets to it (RedRelayClient's      *)
(* HandleTCP, type 11), or never.                                          *)
Answer(p) ==
  /\ p \in pinged
  /\ pinged' = pinged \ {p}
  /\ answers' = answers \cup {p}
  /\ UNCHANGED <<pool, PingTries, together, packet, i, visited, dropped>>

Next ==
  \/ \E p \in PeerID :
       \/ Connect(p) \/ Join(p) \/ Leave(p) \/ PingReply(p) \/ Closed(p)
       \/ Visit(p) \/ Answer(p)
  \/ Tick
  \/ Finish

(* The main loop never stops: its wait ends after WaitTime at the latest,  *)
(* so that ticks keep coming, and a tick runs to its end.                  *)
Fairness ==
  /\ WF_vars(Tick)
  /\ WF_vars(\E p \in PeerID : Visit(p))
  /\ WF_vars(Finish)

Spec == Init /\ [][Next]_vars /\ Fairness

-----------------------------------------------------------------------------
(* Properties.                                                             *)

(* No peer is given more than three tries, what is kept is kept of peers   *)
(* that are there, and the index stays near the end of the vector.         *)
TypeOK ==
  /\ slots \subseteq PeerID
  /\ allocated \in Seq(PeerID)
  /\ PingTries \in [slots -> 0..3]
  /\ together \subseteq slots
  /\ packet \in {"Ping", "Notice"}
  /\ i \in 0 .. Len(allocated) + 2
  /\ pinged \cup answers \subseteq slots
  /\ dropped \in Nat

(* The pool keeps its peers twice: the vector the loop walks has exactly   *)
(* one entry of each slot that is taken.                                   *)
PoolAgrees ==
  /\ Range(allocated) = slots
  /\ \A j, k \in DOMAIN allocated : allocated[j] = allocated[k] => j = k

(* A peer that is dropped in a tick costs at most one other its turn: the  *)
(* one that moved into its place.                                          *)
PassedOver ==
  i > Len(allocated) => Cardinality(slots \ visited) <= dropped

(* A peer that stops answering is dropped in the end, although other peers *)
(* that are dropped may make the loop pass it over.                        *)
SilentDropped ==
  \A p \in PeerID : p \in slots ~> (p \notin slots \/ p \in answers)

(* The loop means to send a "Ping request" (server/RedRelayServer.cpp:831) *)
(* to a peer before it counts it out: one that owes no answer to any ping  *)
(* that reached it is not dropped by the tick.                             *)
ResponsiveKept ==
  [][\A p \in PeerID : Visit(p) /\ TimedOut(p) => p \in pinged \cup answers]_vars
=============================================================================
