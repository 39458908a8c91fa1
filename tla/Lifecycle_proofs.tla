------------------------- MODULE Lifecycle_proofs -------------------------
(***************************************************************************)
(* Proofs about Lifecycle, for any number of threads that stop the server: *)
(* the pools are not emptied under the thread of the datagrams, and a Stop *)
(* that found Start at work is not undone before Start returns.            *)
(*                                                                         *)
(* The invariant adds that a Stop is owed its end only while Start is past *)
(* the place where it sets Running.                                        *)
(***************************************************************************)
EXTENDS Lifecycle, TLAPS

OwedInStart == owed # {} => InStart \/ pc = "over"

IInv ==
  /\ TypeOK
  /\ NoThreadLeft
  /\ StopStands
  /\ OwedInStart

USE DEF InStart, Serving, Closing, Starting, Outside

(* Nothing runs before main does.                                          *)
LEMMA InitInvariant == Init => IInv
<1>. SUFFICES ASSUME Init  PROVE IInv
  OBVIOUS
<1>1. TypeOK
  <2>1. host \in [Host -> {"idle", "send", "poll"}]
    BY DEF Init
  <2>2. /\ running \in BOOLEAN /\ Running \in BOOLEAN /\ Destructible \in BOOLEAN
        /\ bound \in BOOLEAN /\ woken \in BOOLEAN
    BY Zenon DEF Init
  <2>. QED  BY <2>1, <2>2 DEF Init, TypeOK
<1>2. NoThreadLeft /\ StopStands /\ OwedInStart
  BY DEF Init, NoThreadLeft, StopStands, OwedInStart
<1>. QED  BY <1>1, <1>2 DEF IInv

(* The main thread's way into the loop.                                    *)
LEMMA StartStep ==
  ASSUME IInv, TestMain \/ Listen \/ Announce \/ Raise \/ Hold \/ Spawn
  PROVE  IInv'
<1>1. CASE TestMain
  BY <1>1 DEF TestMain, At, IInv, TypeOK, NoThreadLeft, StopStands, OwedInStart
<1>2. CASE Listen
  BY <1>2 DEF Listen, At, IInv, TypeOK, NoThreadLeft, StopStands, OwedInStart
<1>3. CASE Announce
  BY <1>3 DEF Announce, At, IInv, TypeOK, NoThreadLeft, StopStands, OwedInStart
<1>4. CASE Raise
  BY <1>4 DEF Raise, At, IInv, TypeOK, NoThreadLeft, StopStands, OwedInStart
<1>5. CASE Hold
  BY <1>5 DEF Hold, At, IInv, TypeOK, NoThreadLeft, StopStands, OwedInStart
<1>6. CASE Spawn
  BY <1>6 DEF Spawn, At, IInv, TypeOK, NoThreadLeft, StopStands, OwedInStart
<1>. QED  BY <1>1, <1>2, <1>3, <1>4, <1>5, <1>6

(* The loop, and the main thread's way out of it.                          *)
LEMMA ServeStep ==
  ASSUME IInv, Test \/ Wake \/ Event \/ Unbind \/ Join \/ Clear \/ Release \/ Retry
  PROVE  IInv'
<1>1. CASE Test
  BY <1>1 DEF Test, At, IInv, TypeOK, NoThreadLeft, StopStands, OwedInStart
<1>2. CASE Wake
  BY <1>2 DEF Wake, At, IInv, TypeOK, Build, NoThreadLeft, StopStands, OwedInStart
<1>3. CASE Event
  <2>1. /\ pc = "wait" /\ pc' = "test"
        /\ UNCHANGED <<build, running, Destructible, bound, udp, host, signals, owed>>
        /\ Running' = Running \/ Running' = FALSE
        /\ woken' = woken \/ woken' = TRUE
    BY <1>3 DEF Event, At
  <2>2. TypeOK'
    BY <2>1 DEF IInv, TypeOK
  <2>3. NoThreadLeft' /\ StopStands' /\ OwedInStart'
    BY <2>1 DEF IInv, NoThreadLeft, StopStands, OwedInStart
  <2>. QED  BY <2>2, <2>3 DEF IInv
<1>4. CASE Unbind
  BY <1>4 DEF Unbind, At, IInv, TypeOK, NoThreadLeft, StopStands, OwedInStart
<1>5. CASE Join
  BY <1>5 DEF Join, Joined, At, IInv, TypeOK, NoThreadLeft, StopStands, OwedInStart
<1>6. CASE Clear
  BY <1>6 DEF Clear, At, IInv, TypeOK, NoThreadLeft, StopStands, OwedInStart
<1>7. CASE Release
  BY <1>7 DEF Release, At, IInv, TypeOK, NoThreadLeft, StopStands, OwedInStart
<1>8. CASE Retry
  BY <1>8 DEF Retry, At, IInv, TypeOK, NoThreadLeft, StopStands, OwedInStart
<1>. QED  BY <1>1, <1>2, <1>3, <1>4, <1>5, <1>6, <1>7, <1>8

(* The thread of the datagrams never starts by itself.                     *)
LEMMA UdpStep ==
  ASSUME IInv, Udp \/ UdpDatagram
  PROVE  IInv'
<1>1. /\ UNCHANGED <<build, pc, running, Running, Destructible, bound, host, signals, owed>>
      /\ woken' \in {woken, FALSE}
      /\ udp' \in {"test", "receive", "blocked", "done"}
      /\ udp \in {"test", "receive", "blocked"}
  BY DEF Udp, UdpDatagram, UdpTest, UdpReceive, UdpWake, UdpMoves
<1>2. woken' \in BOOLEAN
  BY <1>1 DEF IInv, TypeOK
<1>3. TypeOK'
  BY <1>1, <1>2 DEF IInv, TypeOK
<1>4. NoThreadLeft' /\ StopStands' /\ OwedInStart'
  BY <1>1 DEF IInv, NoThreadLeft, StopStands, OwedInStart
<1>. QED  BY <1>3, <1>4 DEF IInv

(* A Stop, and an interrupt.                                               *)
LEMMA StopStep ==
  ASSUME IInv, NEW h \in Host, Stop(h) \/ StopSend(h) \/ StopPoll(h)
  PROVE  IInv'
<1>1. /\ UNCHANGED <<build, pc, running, Destructible, bound, udp, signals>>
      /\ host' \in [Host -> {"idle", "send", "poll"}]
  BY DEF Stop, StopSend, StopPoll, HostMoves, IInv, TypeOK
<1>2. Running' \in BOOLEAN /\ woken' \in BOOLEAN
  BY DEF Stop, StopSend, StopPoll, WokenByStop, IInv, TypeOK
<1>3. owed' \in SUBSET Host /\ (owed' # {} => owed # {} \/ InStart)
  BY DEF Stop, StopSend, StopPoll, IInv, TypeOK
<1>4. TypeOK'
  BY <1>1, <1>2, <1>3 DEF IInv, TypeOK
<1>5. NoThreadLeft' /\ StopStands' /\ OwedInStart'
  <2>1. owed' = owed \/ Running' = FALSE
    BY DEF Stop, StopSend, StopPoll
  <2>2. Running' = Running \/ Running' = FALSE
    BY DEF Stop, StopSend, StopPoll
  <2>. QED  BY <1>1, <1>3, <2>1, <2>2 DEF IInv, NoThreadLeft, StopStands, OwedInStart
<1>. QED  BY <1>4, <1>5 DEF IInv

LEMMA InterruptStep ==
  ASSUME IInv, Interrupt \/ Exit
  PROVE  IInv'
<1>1. CASE Interrupt
  <2>1. /\ UNCHANGED <<build, Destructible, bound, udp, host, owed>>
        /\ running' = FALSE /\ Running' = FALSE /\ woken' = WokenByStop
        /\ signals' = 1
        /\ pc # "over"
        /\ pc' = pc \/ (pc = "wait" /\ pc' = "test")
    BY <1>1 DEF Interrupt, Handled, At
  <2>2. TypeOK'
    <3>1. running' \in BOOLEAN /\ Running' \in BOOLEAN /\ woken' \in BOOLEAN
      BY <2>1, Zenon DEF WokenByStop, IInv, TypeOK
    <3>. QED  BY <2>1, <3>1 DEF IInv, TypeOK
  <2>3. NoThreadLeft' /\ StopStands' /\ OwedInStart'
    BY <2>1 DEF IInv, NoThreadLeft, StopStands, OwedInStart
  <2>. QED  BY <2>2, <2>3 DEF IInv
<1>2. CASE Exit
  BY <1>2 DEF Exit, IInv, TypeOK, NoThreadLeft, StopStands, OwedInStart
<1>. QED  BY <1>1, <1>2

LEMMA NextInvariant == IInv /\ [Next]_vars => IInv'
<1>. SUFFICES ASSUME IInv, [Next]_vars  PROVE IInv'
  OBVIOUS
<1>1. CASE Main \/ Event
  BY <1>1, StartStep, ServeStep DEF Main
<1>2. CASE Udp \/ UdpDatagram
  BY <1>2, UdpStep
<1>3. ASSUME NEW h \in Host, Stop(h) \/ StopSend(h) \/ StopPoll(h)  PROVE IInv'
  BY <1>3, StopStep
<1>4. CASE Interrupt \/ Exit
  BY <1>4, InterruptStep
<1>5. CASE UNCHANGED vars
  BY <1>5 DEF vars, IInv, TypeOK, NoThreadLeft, StopStands, OwedInStart
<1>. QED  BY <1>1, <1>2, <1>3, <1>4, <1>5 DEF Next

LEMMA Invariant == Spec => []IInv
  BY InitInvariant, NextInvariant, PTL DEF Spec

-----------------------------------------------------------------------------
(* The flags and the threads keep their types (Start, UdpHandler and Stop).*)
THEOREM TypesKept == Spec => []TypeOK
<1>1. IInv => TypeOK
  BY DEF IInv
<1>. QED  BY <1>1, Invariant, PTL

(* Start empties the pools only when the thread that reads them has ended, *)
(* whoever stopped the server and when.                                    *)
THEOREM ThreadsEnd == Spec => []NoThreadLeft
<1>1. IInv => NoThreadLeft
  BY DEF IInv
<1>. QED  BY <1>1, Invariant, PTL

(* Once Stop has found Start at work, Running stays cleared until Start    *)
(* has returned, whichever threads stop the server and when.               *)
THEOREM StopsStand == Spec => []StopStands
<1>1. IInv => StopStands
  BY DEF IInv
<1>. QED  BY <1>1, Invariant, PTL
=============================================================================
