----------------------------- MODULE Lifecycle -----------------------------
(***************************************************************************)
(* Starting and stopping the server (server/RedRelayServer.cpp: Start,     *)
(* UdpHandler, Stop and the destructor; server/Main.cpp: the loop of main  *)
(* and the handler of SIGINT).                                             *)
(*                                                                         *)
(* The main thread is in Start most of the time.  Other threads of the     *)
(* host may call Stop, or destroy the server, which does the same as a     *)
(* blocking Stop and then frees it; in the multi-threaded build one more   *)
(* thread reads the datagrams.  They share Running and Destructible        *)
(* without a lock, and wake each other by a datagram to the server's own   *)
(* port.                                                                   *)
(***************************************************************************)
EXTENDS Naturals

CONSTANT
  Host   \* the host's threads that stop the server

(* How the server is built and configured.                                 *)
(*   threaded: REDRELAY_MULTITHREAD is defined                             *)
(*   timeouts: waiting for events ends by itself, which it does not with   *)
(*             SocketSelector and PingInterval = 0                         *)
(*   unblocks: closing a socket ends a read of it in another thread, which *)
(*             is so on some systems                                       *)
Build == [threaded : BOOLEAN, timeouts : BOOLEAN, unblocks : BOOLEAN]

VARIABLES
  build,         \* does not change
  pc,            \* where the main thread is
  running,       \* the variable of server/Main.cpp
  Running,       \* RedRelayServer::Running
  Destructible,  \* RedRelayServer::Destructible
  bound,         \* the datagram socket is open
  woken,         \* a datagram has come that nobody has read
  udp,           \* where the thread of the datagrams is
  host,          \* where each host thread is
  signals,       \* how often the program was interrupted
  owed           \* host threads whose Stop found Start at work, with Running
                 \* set before; emptied when it ends (history)

threads == <<pc, udp, host>>
vars == <<build, pc, running, Running, Destructible, bound, woken, udp, host, signals, owed>>

Starting == {"listen", "announce", "raise", "hold"}
Serving == {"spawn", "test", "wait"}
Closing == {"unbind", "join", "clear", "release"}
Outside == {"main", "retry"}

Init ==
  /\ build \in Build
  /\ pc = "main"
  /\ running = TRUE
  /\ Running = FALSE
  /\ Destructible = TRUE
  /\ bound = FALSE
  /\ woken = FALSE
  /\ udp = "none"
  /\ host = [h \in Host |-> "idle"]
  /\ signals = 0
  /\ owed = {}

-----------------------------------------------------------------------------
(* The main thread.                                                        *)

At(here, next) == pc = here /\ pc' = next

(* main() starts the server until it is interrupted, and the program ends  *)
(* with it.                                                                *)
TestMain ==
  /\ At("main", IF running THEN "listen" ELSE "over")
  /\ UNCHANGED <<build, running, Running, Destructible, bound, woken, udp, host, signals, owed>>

(* Start opens both sockets, or gives up.                                  *)
Listen ==
  /\ \/ At("listen", "announce") /\ bound' = TRUE /\ woken' = FALSE
     \/ At("listen", "retry") /\ UNCHANGED <<bound, woken>>
  /\ UNCHANGED <<build, running, Running, Destructible, udp, host, signals, owed>>

(* The callback ServerStart may call Stop already.                         *)
Announce ==
  /\ At("announce", "raise")
  /\ \/ Running' = FALSE /\ woken' = TRUE
     \/ UNCHANGED <<Running, woken>>
  /\ UNCHANGED <<build, running, Destructible, bound, udp, host, signals, owed>>

Raise ==
  /\ At("raise", "hold")
  /\ Running' = TRUE
  /\ UNCHANGED <<build, running, Destructible, bound, woken, udp, host, signals, owed>>

(* Mutant: Running is set after Destructible is cleared.                   *)
HoldRaising ==
  /\ At("hold", "spawn")
  /\ Running' = TRUE
  /\ Destructible' = FALSE
  /\ UNCHANGED <<build, running, bound, woken, udp, host, signals, owed>>

Hold ==
  /\ At("hold", "spawn")
  /\ Destructible' = FALSE
  /\ UNCHANGED <<build, running, Running, bound, woken, udp, host, signals, owed>>

Spawn ==
  /\ At("spawn", "test")
  /\ udp' = IF build.threaded THEN "test" ELSE "none"
  /\ UNCHANGED <<build, running, Running, Destructible, bound, woken, host, signals, owed>>

Test ==
  /\ At("test", IF Running THEN "wait" ELSE "unbind")
  /\ UNCHANGED <<build, running, Running, Destructible, bound, woken, udp, host, signals, owed>>

(* Waiting ends with its time, or with a datagram if this thread reads     *)
(* them.                                                                   *)
Wake ==
  /\ At("wait", "test")
  /\ build.timeouts \/ (woken /\ ~build.threaded)
  /\ woken' = (woken /\ build.threaded)
  /\ UNCHANGED <<build, running, Running, Destructible, bound, udp, host, signals, owed>>

(* ... or with what a client does, and a callback may call Stop then.      *)
Event ==
  /\ At("wait", "test")
  /\ \/ Running' = FALSE /\ woken' = TRUE
     \/ UNCHANGED <<Running, woken>>
  /\ UNCHANGED <<build, running, Destructible, bound, udp, host, signals, owed>>

Unbind ==
  /\ At("unbind", "join")
  /\ bound' = FALSE
  /\ UNCHANGED <<build, running, Running, Destructible, woken, udp, host, signals, owed>>

(* Mutant: the thread is left to itself.                                   *)
JoinedAnyway == TRUE

Joined == udp \in {"none", "done"}

Join ==
  /\ At("join", "clear")
  /\ Joined
  /\ UNCHANGED <<build, running, Running, Destructible, bound, woken, udp, host, signals, owed>>

(* The pools are emptied and the listener is closed.                       *)
Clear ==
  /\ At("clear", "release")
  /\ UNCHANGED <<build, running, Running, Destructible, bound, woken, udp, host, signals, owed>>

(* Mutant: Destructible is only ever cleared.                              *)
ReleaseHeld ==
  /\ At("release", "retry")
  /\ owed' = {}
  /\ UNCHANGED <<build, running, Running, Destructible, bound, woken, udp, host, signals>>

Release ==
  /\ At("release", "retry")
  /\ Destructible' = TRUE
  /\ owed' = {}
  /\ UNCHANGED <<build, running, Running, bound, woken, udp, host, signals>>

(* Start has returned: main sleeps, if it is to try again.                 *)
Retry ==
  /\ At("retry", "main")
  /\ UNCHANGED <<build, running, Running, Destructible, bound, woken, udp, host, signals, owed>>

Main ==
  TestMain \/ Listen \/ Announce \/ Raise \/ Hold \/ Spawn \/ Test \/ Wake
    \/ Unbind \/ Join \/ Clear \/ Release \/ Retry

-----------------------------------------------------------------------------
(* UdpHandler.  A read of the open socket waits for a datagram, one of the *)
(* closed socket fails at once.                                            *)

UdpMoves(here, next) ==
  /\ pc # "over"
  /\ udp = here
  /\ udp' = next
  /\ UNCHANGED <<build, pc, running, Running, Destructible, bound, host, signals, owed>>

UdpTest == UdpMoves("test", IF Running THEN "receive" ELSE "done") /\ UNCHANGED woken

UdpReceive == UdpMoves("receive", IF bound THEN "blocked" ELSE "test") /\ UNCHANGED woken

UdpWake ==
  /\ UdpMoves("blocked", "test")
  /\ woken \/ (~bound /\ build.unblocks)
  /\ woken' = FALSE

(* A datagram of a client.  A socket that is closed while it is read lives *)
(* on until the read ends, where the read is not ended by that.            *)
UdpDatagram ==
  /\ UdpMoves("blocked", "test")
  /\ bound \/ ~build.unblocks
  /\ UNCHANGED woken

Udp == UdpTest \/ UdpReceive \/ UdpWake

-----------------------------------------------------------------------------
(* Stop(Block) and the destructor, called by thread h.                     *)

HostMoves(h, here, next) ==
  /\ pc # "over"
  /\ host[h] = here
  /\ host' = [host EXCEPT ![h] = next]
  /\ UNCHANGED <<build, pc, running, Destructible, bound, udp, signals>>

(* Start at work, from where it sets Running to where it returns.          *)
InStart == pc \in {"hold"} \cup Serving \cup Closing

Stop(h) ==
  /\ HostMoves(h, "idle", "send")
  /\ Running' = FALSE
  /\ owed' = IF InStart THEN owed \cup {h} ELSE owed
  /\ UNCHANGED woken

(* Mutant: Stop leaves it at clearing Running.                             *)
WokenAlready == woken

(* The datagram of Stop goes to the port the socket has, if it has one.    *)
WokenByStop == woken \/ bound

StopSend(h) ==
  /\ HostMoves(h, "send", "poll") \/ HostMoves(h, "send", "idle")
  /\ woken' = WokenByStop
  /\ UNCHANGED <<Running, owed>>

(* Start clears Destructible only after it has set Running: a Stop that    *)
(* waits while pc is "hold" does not wait for that Start.                  *)
StopPoll(h) ==
  /\ HostMoves(h, "poll", "idle")
  /\ Destructible
  /\ UNCHANGED <<Running, woken, owed>>

-----------------------------------------------------------------------------
(* SIGINT, between any two steps of the main thread.  The first calls Stop *)
(* without waiting; if the thread waits for events already, that ends.     *)

(* Mutant: sig_handler stays the handler.                                  *)
HandledAlways == signals \in Nat

Handled == signals = 0

Interrupt ==
  /\ pc # "over"
  /\ Handled
  /\ signals' = signals + 1
  /\ running' = FALSE
  /\ Running' = FALSE
  /\ woken' = WokenByStop
  /\ \/ pc' = pc
     \/ At("wait", "test")
  /\ UNCHANGED <<build, Destructible, bound, udp, host, owed>>

(* The second calls exit.                                                  *)
Exit ==
  /\ pc # "over"
  /\ signals = 1
  /\ signals' = 2
  /\ pc' = "over"
  /\ UNCHANGED <<build, running, Running, Destructible, bound, woken, udp, host, owed>>

-----------------------------------------------------------------------------
Next ==
  \/ Main
  \/ Event
  \/ Udp
  \/ UdpDatagram
  \/ \E h \in Host : Stop(h) \/ StopSend(h) \/ StopPoll(h)
  \/ Interrupt
  \/ Exit

(* Threads go on; clients, signals and calls of Stop need not come.        *)
Fairness ==
  /\ WF_vars(Main)
  /\ WF_vars(Udp)
  /\ \A h \in Host : WF_vars(StopSend(h)) /\ WF_vars(StopPoll(h))

Spec == Init /\ [][Next]_vars /\ Fairness
-----------------------------------------------------------------------------
(* Properties.                                                             *)

(* The shared flags, the threads and the history have their types.         *)
TypeOK ==
  /\ build \in Build
  /\ pc \in Outside \cup Starting \cup Serving \cup Closing \cup {"over"}
  /\ running \in BOOLEAN
  /\ Running \in BOOLEAN
  /\ Destructible \in BOOLEAN
  /\ bound \in BOOLEAN
  /\ woken \in BOOLEAN
  /\ udp \in {"none", "test", "receive", "blocked", "done"}
  /\ host \in [Host -> {"idle", "send", "poll"}]
  /\ signals \in 0 .. 2
  /\ owed \subseteq Host

(* The thread of the datagrams reads the pools: it has ended when they are *)
(* emptied, and there is never a second one.                               *)
NoThreadLeft ==
  udp \notin {"none", "done"} => pc \in {"test", "wait", "unbind", "join", "over"}

(* A Stop that found Start at work stands until Start returns: nothing on  *)
(* the way there, by whatever thread, sets Running again (Start, Stop).    *)
StopStands == owed # {} => ~Running

(* What a stop depends on besides the server: an event, where waiting does *)
(* not end by itself and another thread reads the datagram of Stop; and    *)
(* the thread of the datagrams, where Stop's comes too late to be sent and *)
(* closing the socket does not end its read.                               *)
Unwoken == build.threaded /\ ~build.timeouts /\ pc = "wait"
ThreadBlocked == pc = "join" /\ udp = "blocked" /\ ~woken /\ ~build.unblocks
HeldUp == Unwoken \/ ThreadBlocked

(* A Stop that finds Start at work is never lost: Start returns, in        *)
(* whatever order the threads go on, unless it is held up.                 *)
StopEnds == \A h \in Host : h \in owed ~> (h \notin owed \/ HeldUp \/ pc = "over")

(* A blocking Stop returns, and so does the destructor, whenever it was    *)
(* called, unless a Start that came later has set Running again.           *)
StopReturns ==
  \A h \in Host :
    host[h] = "poll" ~> (host[h] = "idle" \/ Running \/ HeldUp \/ pc = "over")

(* An interrupt ends the program, unless it comes before Start has set     *)
(* Running, and is forgotten.                                              *)
InterruptEnds == signals = 1 ~> (pc = "over" \/ HeldUp \/ Running)
=============================================================================
