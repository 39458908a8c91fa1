# Verification of RedRelay

RedRelay is a relay server for the Lacewing Relay protocol and a client library for
it. Clients connect over TCP, take a name, create and enter channels, and send
messages to the members of a channel. This directory holds TLA+ models of the server
and the client, the TLC configurations that check them, and proofs that TLAPS
checks. Line numbers below refer to `src/` of this repository.

## 1. Inventory

### 1.1 Components

| Component | State | Operations | Where |
|---|---|---|---|
| Channel service | `PeersPool`, `ChannelsPool`, `ChannelNames` | `HandleTCP` (name, join, leave, list, sends), `DropPeer` | `server/RedRelayServer.cpp:75-428, 685-711`, `server/Channel.cpp` |
| Connections and event loop | `ConnectionsPool`, `PeersPool`, the selector's tags, a batch of epoll events | `NewConnection`, `HandleConnection`, `DropConnection`, `ReceiveTcp`, the loop of `Start` | `server/RedRelayServer.cpp:58-73, 430-447, 509-583, 782-800`, `server/EpollSelector.cpp` |
| Keepalive | `PingTries` of each peer, the shared `packet` buffer, the loop index | the ping tick of `Start`, the ping reply, the client's answer | `server/RedRelayServer.cpp:816-839, 421-424` |
| IDPool | slots, and the vector of allocated ids | `Allocate`, `Deallocate`, `operator[]`, `GetAllocated`, `Clear` | `server/IDPool.hpp` |
| Framing | buffers of bytes with length prefixes | `RelayPacket`, `Peer::MessageReady`, `ReceiveTcp`, `PacketReader`, `SendTcp`, `Binary` | `server/RelayPacket.cpp`, `server/Channel.cpp:73-87`, `server/RedRelayServer.cpp:509-523`, `client/PacketReader.cpp`, `client/RedRelayClient.cpp:31-45`, `client/Binary.cpp` |
| UDP | `UdpPort` and `IpAddr` of each peer, the client's `ConnectState` and `PeerID` | `ReceiveUdp`, `HandleUDP`, the blasts | `server/RedRelayServer.cpp:449-507`, `client/RedRelayClient.cpp:181-197` |
| Lifecycle | `Running`, `Destructible` | `Start`, `Stop`, the destructor, the signal handler | `server/RedRelayServer.cpp:721-875`, `server/Main.cpp` |
| Client | `ConnectState`, `PeerID`, `Name`, `Channels`, `SelectedChannel`, queues of events | `Connect`, `Update`, `HandleTCP`, `Disconnect`, the requests | `client/RedRelayClient.cpp` |

The rest is a configuration parser, an example program, copies of the headers, and
vendored sockets (SFML, wepoll).

### 1.2 How they interact

The server has one thread. Its loop waits on the selector, handles a batch of ready
sockets one after the other, and then possibly runs a ping tick. A handler runs to
its end: it reads from a socket, changes the pools, and writes to the (blocking)
sockets of any peers the change concerns. All handlers share one `packet` buffer,
and all find peers, channels and connections by small ids that are given out again
as soon as they are free. The host program is called back in the middle of handlers,
and may refuse most requests. Two things cross threads: the host may stop or destroy
the server from any thread, through `Running` and `Destructible`, and a build with
`REDRELAY_MULTITHREAD` reads datagrams in a thread of its own.

Clients and server share nothing but streams: TCP keeps the order of each direction,
and any amount may be in flight in both when either side goes away. Datagrams keep
no order, and neither side can tell to which session one belongs: a hello and a
blast name a peer id, a welcome names nothing.

### 1.3 What is hard

* Ids are reused while events (in a batch), notices (in a stream) and requests (in
  the other stream) still mean their former owner.
* One fact is kept in two places (membership in peers and channels; a channel's name
  in the channel and in the index; a socket's owner in a pool and in the selector's
  tag), and several handlers update both by hand.
* A walk by index over a vector that the body of the walk shortens, and a shared
  buffer that the body overwrites.
* Sizes that are computed from a count after the count was reduced, on streams that
  are cut anywhere.
* Stop flags that threads share without a lock.
* Limits: a full pool, a full buffer, an accept that fails half-way.
* What the client believes lags behind what the server knows.
* Datagrams are lost, doubled and late, and outlive the session they belong to.

`PROJECT.json` lists each such hazard at its line, with the properties that would
catch it going wrong, or the reason why none does yet.

### 1.4 What makes each component correct

* Channel service: memberships agree; a channel has members and its master is one of
  them; names lead to open channels; equal names never meet; every peer is told
  exactly what happened to its channels, and nothing about others.
* Connections: every socket has one owner; nobody reads a deleted or an empty
  socket; a live handshake is not given up without need; who asks gets an answer.
* Keepalive: silent peers are dropped in the end, responsive ones never.
* Client: once it has read its stream it agrees with the server.
* IDPool: the slots and the vector hold the same elements.
* Framing: what was written as one packet is read as one packet, however the stream
  is cut; nobody who writes packets that fit is taken for gone.
* UDP: a peer's port is its client's; a blast reaches the members it is meant for,
  in its sender's name; the handshake completes although datagrams are lost.
* Lifecycle: a stop that finds the server running ends it, and a blocking one
  returns; no thread uses what another has freed.

## 2. Modules

| Module | Models | Extends |
|---|---|---|
| `ChannelService` | what the relay promises about rooms | |
| `Names` | the names of peers and channels, shared by the next two | |
| `RelayServer` | the channel service; implements `ChannelService` | `Names` |
| `RelayServer_proofs` | proofs of `RelayServer`'s invariants | `RelayServer`, `TLAPS` |
| `RelayServerSteps_proofs` | proofs about its steps, and that it implements `ChannelService` | `RelayServer_proofs` |
| `RelayClient` | the client's record and its `HandleTCP`, as operators | `Names` |
| `RelaySystem` | server and clients joined by TCP streams | `RelayServer`, `RelayClient` |
| `RelaySystem_proofs` | proofs about `RelaySystem` | `RelaySystem`, `RelayServerSteps_proofs` |
| `KeepAlive` | the ping tick, the answers, and the pool the tick walks | |
| `KeepAlive_proofs` | proofs about `KeepAlive` | `KeepAlive`, `TLAPS` |
| `Connections` | sockets, handshakes, the selector and its batches | |
| `Connections_proofs` | proofs about `Connections` | `Connections`, `TLAPS` |
| `UdpSession` | connecting, the UDP handshake and the blasts over a lossy network | |
| `UdpSession_proofs` | proofs about `UdpSession` | `UdpSession`, `TLAPS` |
| `Framing` | how bytes become messages, in both directions | |
| `Framing_proofs` | proofs about `Framing` | `Framing`, `TLAPS` |
| `Lifecycle` | starting, stopping and destroying the server; its threads | |
| `Lifecycle_proofs` | proofs about `Lifecycle` | `Lifecycle`, `TLAPS` |
| `MCRelayServer`, `MCRelaySystem`, `MCConnections`, `MCUdpSession`, `MCFraming` | the values, symmetries and views TLC needs | the module after `MC` |

An operator whose comment begins with "Mutant:" is used by no specification. It is a
plausible mistake in the definition after it, and shows that the property under test
can fail.

### 2.1 RelayServer

`PeersPool` and `ChannelsPool` are functions from the allocated ids; a peer is its
name and its channels, a channel its name, the vector of its members, its master and
its two flags. `ChannelNames` is the index by name. `sent` is what the handler that
ran last wrote to each peer: the properties about notices are about it, and nothing
reads it.

Each branch of `HandleTCP` is an action: `SetName`, `DenyNameChange`,
`CreateChannel`, `EnterChannel`, `DenyChannelJoin`, `LeaveChannel`,
`DenyChannelLeave`, `ListChannels`, `SendToChannel`, `SendToPeer`; `Connect` is a
handshake that is accepted (`HandleConnection`), `DropPeer` what follows a closed
socket, a ping timeout or the host's call. The server is single-threaded, so a
handler is atomic. Names are model values, with the empty string and a name too long
set apart since the code treats them differently. `Callbacks` says which callbacks
are installed; an installed one may refuse, nondeterministically. `NameRewrites` is
what the `NameSet` callback may put in the name's place. The proofs about the server
hold whatever it is, but for those of `NamesUnique` and `NoticesExact`; those about
`RelaySystem` hold if it has no blank name in it; the runs take it empty. A
replacement is stored without being compared with the names of others, nor with the
peer's own (`RedRelayServer.cpp:140, 145, 157`): `NamesUnique` then depends on the
host, and a peer whose new name was replaced by its old one is announced again.

### 2.2 RelayClient and RelaySystem

`RelayClient` has one operator per message of the server, named `On...`, on the
record of one session. `RelaySystem` keeps `client`, both streams of each session,
and `link`, which says whose socket a peer has. A client's requests come from what
it believes (`LeaveChannel` and `ChannelSend` look the channel up in the client's
own vector first). A step of the server consumes one request with `RelayServer`'s
action for it and appends `sent` to the streams (`Deliver`); where a handler writes
several messages to one peer, they are about different channels, and are appended in
any order, as the peer's vector of channels may have any. Either end may go away at
any time: what the server has not read is lost with the peer, what the client has
not read with its session. `requests` counts what all clients have sent. A request
to leave or to send names its channel by id; `meant` is the name the client has for
it, which is recorded and not sent.

A client that connects again is a new session. It starts with what `Connect` and
`Disconnect` do not clear (`RedRelayClient.cpp:207-225`): the id, the name and the
selected channel of the session before, which are any (`Leftovers`), as it may have
been another server's. `ClientsConverge` therefore compares the client's own name
with the server's only once the server has one for the peer. Before that `SelfName`
gives the old name, although the documentation calls it "current"
(`doc/client.html:125`): `PROJECT.json` lists this as a hazard.

A blank name that the `NameSet` callback puts in place of another confuses clients:
the peer itself rejects the reply as too short (`RedRelayClient.cpp:71`), and its
fellow members take the notice for news of the master, or add a second entry for the
peer and keep the old name in the first (152-166). `RelayClient` has all of this,
with a sequence of entries for each id, and the server's side lets it happen
(`NameRewrites`); both properties of `relay_system` are stated for hosts that do not
do that.

`ClientsConverge` leaves two things out on purpose, the master and the flags: the
server never tells a successor (`RedRelayServer.cpp:308-310`), and the second byte
of its reply to a join is "created", which the client takes for the flags
(`RedRelayClient.cpp:90`). Messages arrive whole here; `Framing` shows when they do.

### 2.3 KeepAlive

One iteration of the tick's loop is an action (`Visit`), because clients read and
answer meanwhile. The pool of peers is modelled as `IDPool` keeps it: `slots` are
the ids in use, `allocated` is the vector of their entries, which `Deallocate` scans
for the one to erase (`Erased`). The index `i` walks that vector; `packet` is the
buffer `DropPeer` writes its notices to. `visited` and `dropped` are history: whom
this tick has come to and how many it has dropped.

### 2.4 Connections

`ConnectionsPool` and `PeersPool` map ids to sockets, `Selector` maps each watched
socket to the tag it was registered with. `Wait` fills the batch `events` with the
tags of all readable sockets, `Take` picks the next, and one of `NewConnection`,
`HandleConnection` and `ReceiveTcp` handles it. `written` and `read` count what a
client wrote and the server read; a handshake may come in pieces, in another
revision, or not be one. `evicted` is history: the ids `NewConnection` took away in
this batch. A batch is a set, so all orders of the kernel are covered. A handler
whose socket has nothing to read is not enabled: sockets block, and with them the
loop. `Connections` ends where the channel service begins: what else `DropPeer` does
is in `RelayServer`.

### 2.5 UdpSession

A client has one TCP socket and one UDP socket for all of its sessions.
`ConnectState`, `PeerID`, `socket` and `session` are the client's; `connection` is
the sequence of all TCP connections ever made, with how far the server is with each;
`toClient` is what the server wrote on a client's present one. `PeersPool` keeps of
a peer its session and its `UdpPort`, and `members` are the peers in one channel,
which they enter and leave freely. `datagrams` is the set of datagrams on their way:
receiving one may leave it there (it comes again), `Lose` takes one away, and
nothing keeps their order.

`Update` is split into its parts, since the network acts between them: `RequestTcp`
(the state `Connecting`), `Read` (one message of the stream, or its end),
`RequestUdp` (the state `RequestingUdp`), `HandleUDP` (one datagram). On the server
`ReceiveHello` and `ReceiveBlast` are the branches of `ReceiveUdp`; `AcceptPeer`,
`DenyConnection`, `DropConnection` and `DropPeer` are what `Connections` and
`RelayServer` model in detail. The server may do the last two at any time, and so
notices at any time, or never, that a client has gone. `Address` says which clients
share an IP address. `ReceiveUdp` tells peers apart by it alone, so `PortIsOwners`
and `BlastsGenuine` are stated for clients that do not share one: of two clients
behind one router, a late hello of one can bind its port to the other's peer, if
that has the id now.

A blast to a peer names it by its id alone, and is relayed to whoever has the id
when it comes (481-487). `meant` is history: the session that the sender took for
the owner of the id, which may be any that has or had it. `BlastsGenuine` says that
the blast reaches that session's client; or, when the server has ended that session,
the id's new owner. The code delivers it to that stranger, as no field of the
datagram could tell it not to, and the property says no more than that this is the
only way to reach one.

### 2.6 Framing

One direction of one connection: `side` says whether the server or the client reads.
`stream` is what is on its way; `Receive` takes any part of it, as TCP may. The two
readers keep the same record, `buffer`, `begin` and `packetsize`, and compute the
sizes (`SizeOffset`, `MessageSize`, `MessageReady`) alike. They differ in three
places: the server's buffer is fixed, and a full one looks like a disconnect
(`Overflow`), while the client's doubles (`CheckBounds`); the server moves what is
left to the front when no message is ready any more (`EndRead`), the client as soon
as the next is not (`NextPacket`); the client's writes may be given up half-way
(`WritePart`, `SendTcp`).

`NextBegin` is what the code does: `packetsize` is reduced first, and the sizes that
move `begin` on are computed from the bytes that count after that. When less is left
than the header had (`torn`, history), they miss the length, and `begin` lands
behind the buffer. The server then loses a byte; the client copies from behind its
buffer, and any bytes may come (`buffer' \in [1 .. Rest -> Byte]`). When more than
one byte would be looked at there, `status` is `"undefined"` and the model stops.
Lengths are in terms of `Base`, the number of values of a byte: 254, 255, 65535 and
65536 are `Base - 2`, `Base - 1`, `Base * Base - 1` and `Base * Base`. A packet
written from scratch, and one relayed in a channel or to a peer, have headers of
their own (`LongForm`), and the contents the reader must find differ (`Contents`).

### 2.7 Lifecycle

`pc` is where the main thread is: in `main`, at one of the steps of `Start`, or
over. Every step of `Start` that touches what threads share is an action: it binds
(`Listen`), calls back (`Announce`), sets `Running` (`Raise`) and only then clears
`Destructible` (`Hold`), starts the datagrams' thread, tests and waits, and undoes
it all in order. `udp` is `UdpHandler`'s thread, `host` holds the host's threads,
which call `Stop`, send its datagram, and poll `Destructible` if they are to wait.
The destructor is a blocking `Stop`. The server object of `Main.cpp` is never
destroyed, so `Exit` just ends the program. `build` covers the builds and platforms:
whether there is a second thread, whether waiting ends by itself, and whether
closing a socket ends another thread's read. `Interrupt` is SIGINT between any two
steps. `owed` is history: the host's threads whose `Stop` found `Start` at work,
from the moment it sets `Running` (774) to its return.

That a blocking `Stop` which finds `Start` at work returns only after it is not true
and not stated: `Destructible` is cleared after `Running` is set (774-775), and who
polls between the two returns at once, while `Start` goes on to use the server,
which its host may free. No document promises more; `PROJECT.json` lists it as a
hazard. What holds is that the stop is not undone (`StopStands`), that it ends
`Start` (`StopEnds`), and that a blocking one returns, early or not (`StopReturns`),
unless a later `Start` has set `Running` again before the stopping thread has
looked.

## 3. Runs

| Run | Checks | Shows |
|---|---|---|
| `relay_server` | type, `MembershipSymmetric`, `MembersDistinct`, `MasterPresent`, `NamesIndexChannels`, `NamesUnique`, `NoticesExact`, `Discreet`, `Succession`, `ImplementsChannelService` | the service is consistent and tells its peers exactly what happens |
| `relay_system` | `ClientsConverge`, `SendersKnown` | clients that have caught up agree with the server, also when ids are reused while notices are in flight and when they remember earlier sessions |
| `send_misdirected` | `SendsReachTheirChannel` fails | a message reaches another channel that got the id meanwhile |
| `keepalive` | type, `PoolAgrees`, `PassedOver`, `SilentDropped` | silent peers go in the end; the pool stays consistent |
| `keepalive_responsive` | `ResponsiveKept` fails | a peer that never got a ping is dropped for silence |
| `connections` | type, `SocketsOwned`, `PeerEventsFresh`, `StaleOnlyIfEvicted`, `RequestsAnswered` | sockets have one owner; only an eviction makes events stale; who asks becomes a peer, is refused or is evicted |
| `connection_missing` | `SocketPresent` fails | a failed accept leaves an event without a socket |
| `udp_session` | type, `PortIsOwners`, `IDIsCurrent`, `BlastsGenuine`, `HandshakeCompletes` | late hellos bind nobody's port wrongly; a late blast keeps its sender and reaches whom it was meant for, or the new owner of that peer's id; the handshake completes |
| `established_early` | `EstablishedMeansBound` fails | a welcome of an earlier session makes a new one `Established` at once |
| `framing` | type, `HandedAsWritten`, `ContentsKept`, `WithinBuffer`, `DroppedForCause`, `AllHandedOver` | whatever the pieces, messages arrive as written unless a piece ends within the next header; even then lengths and contents do |
| `framing_intact` | `PacketsIntact` fails | such a piece costs the next message its type |
| `lifecycle` | type, `NoThreadLeft`, `StopStands`, `StopEnds`, `StopReturns`, `InterruptEnds` | a stop that finds `Start` at work is not undone, ends it and returns, whatever threads do |

A run that fails states what a document, a comment or a message of the repository
says; the comment of the property quotes it, and `PROJECT.json` ("findings")
explains the disagreement.

### 3.1 Bounds, and why they are enough

* `relay_server`: three peers, three names, two channels. Three peers are the fewest
  for a successor who is not the only one left and for a notice to a bystander;
  three names for a rename that conflicts with neither or either of two fellows; two
  channels for a departure that closes one and not the other. Names are
  interchangeable (symmetry). `sent` is left out of TLC's view: no action reads it,
  and TLC judges it on every step it generates.
* `relay_system`: three sessions for two peer ids and one channel id, so that both
  kinds of id are given to someone else while requests and notices are on their way;
  `MaxRequests` = 6 requests in all (three clients named and joined, the third where
  the first has left and by its id; or two, which send and leave) and `MaxPending` =
  1 of a session in flight. Three names let one of two members take a new one. These
  bound only what clients send; what the server sends is not bounded. TLC's view
  leaves out what no property and no other session can tell any more: what a client
  still remembers once it has disconnected; its id before it is welcomed, and its
  own name as long as the server has none for it or a reply on its way replaces it,
  for neither property reads them then; and, once the server has closed the socket,
  what is left of the session, unless there are channel messages among what it has
  yet to read. Both properties are also proved for any number of sessions, ids,
  requests and messages in flight. `send_misdirected`: two clients, one channel id
  for two names of channels, six requests. Within these bounds nobody else is in the
  second channel: the message is relayed there and reaches nobody.
* `keepalive`: three peers, so that one is passed over between others;
  `keepalive_responsive` needs a fourth: two that fall silent, a fellow that hears
  of them, and the one that suffers.
* `connections`: three clients with room for two handshakes and one peer: the
  newcomer meets a pool with a gap and a full one, and two requests compete for one
  place. A client writes the handshake and one message, each whole, or the first
  byte of a handshake and no more; handshakes that are cut in two and completed are
  not among the runs, but among what is proved. It keeps clients apart, since
  symmetry is not sound for liveness; `connection_missing` need not.
* `udp_session`: two clients, three sessions in all (`MaxSessions`), one blast on
  its way at a time (`MaxBlasts`), two ids; every client has an address of its own.
  The run starts where two connects lead (`Underway`): both clients are peers and in
  the channel, one is established, the other has just said hello. From there all
  orders in which sessions end, one client comes back under its own id or under the
  other's, and hellos, welcomes and blasts come late are explored, so that a blast
  meets another session under its sender's id while its receiver is still there, and
  another peer under its target's. Started from `Init`, three sessions would be too
  many states. Hellos and welcomes are not bounded, being a set. The safety
  properties are also proved, from `Init`, for any number of each.
  `established_early` starts from `Init`, with two sessions of each client, and
  needs no blast.
* `framing`: a byte has four values (`Base`), so that the boundaries are at lengths
  2 and 15 and the server's buffer has 16 bytes: all that the code distinguishes at
  254, 65535 and 65536, in streams short enough to be cut everywhere. The messages
  lie on both sides of each boundary; the largest request that fits in the buffer
  comes with one that does not. Up to three messages are written (`MaxMessages`):
  one to be cut short of, one to be damaged, and one behind it. Nothing is written
  behind a message that no reader can make out (`Readable`). `framing_intact` needs
  two messages.
* `lifecycle`: two threads of the host, one to wait while the other stops;
  interrupts are bounded by the code, whose second one exits. All builds are initial
  states.

`CHECK_DEADLOCK FALSE` is set where clients may all be done or never start, and in
`lifecycle`, where the program ends.

### 3.2 Fairness

* `KeepAlive`: weak fairness of `Tick`, `Visit` and `Finish`. The loop's wait ends
  after `WaitTime` at the latest, which every round shortens, so a tick comes
  (`PingInterval` above 0); a tick that has begun runs to its end. Clients have no
  fairness: they answer or not.
* `Connections`: weak fairness of the loop as a whole, which is one thread that goes
  on while it has something to do. There is none on the order of events, on clients
  or on the tick. `RequestsAnswered` therefore allows that the loop is held up by a
  stale event: the code blocks there.
* `UdpSession`: weak fairness of `Read` and `RequestUdp` for each client, whose
  application calls `Update` "every tick" (doc/client.html:90); strong fairness of
  the server's receiving some hello of a client, and of a client's receiving some
  welcome: a network that loses datagrams, but not all of those that are sent again
  and again, and a server whose loop is not held up. There is none on connecting, on
  the server's answers or on leaving.
* `Framing`: weak fairness of the reader, server or client, which is called again as
  long as there is something to read. Writers need not write.
* `Lifecycle`: weak fairness of each thread's next step: threads are scheduled, and
  main's loop goes on. There is none on clients, callbacks, signals or calls of
  `Stop`. The liveness properties name what the code does depend on (`HeldUp`): an
  event, in the multi-threaded build where waiting has no timeout; and the end of a
  read of a closed socket, on systems that do not end it, if `Stop`'s datagram comes
  too late to be sent.
* `RelayServer` and `RelaySystem` state safety only.

## 4. Proofs

`RelayServer_proofs` proves for every value of the constants, from
`LimitsAssumption`, `NamesAssumption` and `CallbacksAssumption`:

| Theorem | States |
|---|---|
| `TypeCorrect` | `Spec => []TypeOK` |
| `MembershipAgrees` | `Spec => []MembershipSymmetric` |
| `MembersAreDistinct` | `Spec => []MembersDistinct` |
| `MasterIsPresent` | `Spec => []MasterPresent` |
| `NamesAreIndexed` | `Spec => []NamesIndexChannels` |
| `NamesAreUnique` | `Spec => []NamesUnique`, if `NameRewrites = {}` |

The inductive invariant is the conjunction of the first five. None is inductive
alone: a master is among the members only if an empty channel is closed, which the
code tells from `Peers`; erasing a peer from a channel removes it only if it is
there once; entering keeps it there once only if the peer's own list of channels
says whether it is there. The lemmas about vectors (`AppendRange`, `AppendDistinct`,
`EraseProperties`) come first, then `Departure`, the part that `LeaveChannel` and
`DropPeer` share, then one lemma per action. `NamesUnique` is inductive on top of
them: both tests, at a name taken and at a channel entered, rest on the two records
of membership agreeing, and whatever leaves names and members alone, or takes
members away, cannot break it.

`RelayServerSteps_proofs` proves from the same assumptions, on top of that
invariant, what a step may do:

| Theorem | States |
|---|---|
| `MasterSucceeds` | `Spec => Succession` |
| `ServerIsDiscreet` | `Spec => Discreet` |
| `NoticesAreExact` | `Spec => NoticesExact`, if `NameRewrites = {}` |
| `RefinesChannelService` | `Spec => ImplementsChannelService` |

`StepKinds` sorts the handlers: a step leaves all channels alone (`Quiet`), opens
one, enters one, or is a departure (`Departs`), from one channel or from all of a
peer's. Each theorem then has one lemma for each kind. `Succession` rests on
`EraseHead`: what erasing the master leaves first in the vector stood first, or
behind the master alone. `NoticesExact` is proved peer by peer and channel by
channel (`Exact`), where what was written to a peer is compared with who was and who
is a member; it needs that equal messages are about the same channel and the same
peer (`Messages`). The refinement maps the rooms by name (`ViewByName`, which
follows from `NamesIndexChannels`), so that a step on a channel is one on the room
of its name; a departure from several channels at once changes each as if it were
alone.

`Connections_proofs` proves from `LimitsAssumption` and `ScriptAssumption`, for any
number of clients:

| Theorem | States |
|---|---|
| `TypeIsCorrect` | `Spec => []TypeOK` |
| `SocketsAreOwned` | `Spec => []SocketsOwned` |
| `PeerEventsAreFresh` | `Spec => []PeerEventsFresh` |
| `StaleAfterEviction` | `Spec => []StaleOnlyIfEvicted` |

The inductive invariant adds `Apart` (the event in hand is no longer in the batch,
so that handling it may end its socket) and `BacklogKept` (who waits to be accepted
has not been let go, so that a newcomer's socket is a live one). The core of the
argument is `OwnersDiffer`: since a tag leads to its owner, two entries never share
a socket, and dropping one leaves all others as they were. An event of a peer stays
fresh because a peer is dropped only by its own event, or by the tick, which comes
when the batch is empty.

`UdpSession_proofs` proves from `ClientsAssumption`, `AddressAssumption` and
`BoundsAssumption`, for any number of clients, sessions, ids and blasts:

| Theorem | States |
|---|---|
| `SessionTypes` | `Spec => []TypeOK` |
| `PortsAreOwners` | `Spec => []PortIsOwners` |
| `IDsAreCurrent` | `Spec => []IDIsCurrent` |
| `BlastsAreGenuine` | `Spec => BlastsGenuine` |

The inductive invariant adds `Dialling` and `SessionsOwned` (which of a client's
variables go together, and that its session is a connection of its own),
`AnswersCurrent` (an accepted answer on its way names the peer that the session is,
unless the server has ended it), `Identified` (who says hello has been given an id)
and `BlastsToOthers` (a blast is for someone else). A second one, `HInv`, follows
which connection has or had which id: `Opening` and `Holders` (a connection has none
before it is a peer's, and is found under it as long as it is one), `Seated` (and
nothing else is), and `BlastsAddressed` (a blast for a peer means a session that has
had the id). `IDIsCurrent` follows from `AnswersCurrent` when the answer is read,
and is kept because an id is freed only together with its session's end, and given
out only when it is free. `BlastsGenuine` is an action property: only `ReceiveBlast`
relays, and by `PortIsOwners` the port it compares and the ports it sends to are the
owners'; by `HInv`, a session that has had the id of a blast and is not the peer
under that id has been ended. Like `PortIsOwners`, it is about clients with
addresses of their own.

`KeepAlive_proofs` proves from `PeersAssumption`, for any number of peers:

| Theorem | States |
|---|---|
| `TypesAgree` | `Spec => []TypeOK` |
| `PoolsAgree` | `Spec => []PoolAgrees` |
| `FewPassedOver` | `Spec => []PassedOver` |

`PassedOver` speaks of the end of a tick. What holds all along is `MissedFew`: of
the entries the index has gone past, at most as many were not visited as peers have
been dropped. Erasing the entry at the index moves one entry below it, and since
`PoolAgrees` makes entries distinct (`ErasedEntry`), no more than one.

`Framing_proofs` proves from `BaseAssumption` and `MessagesAssumption`, for any
`Base`, messages and pieces:

| Theorem | States |
|---|---|
| `ReadsWhatIsWritten` | in front of any bytes, a framed message shorter than `Wide` is ready, and is cut out whole |
| `WaitsForTheRest` | no proper prefix of it is ready |
| `TypesKept` | `Spec => []TypeOK` |
| `StaysWithinBuffer` | `Spec => []WithinBuffer` |
| `MessagesComeAsWritten` | `Spec => []HandedAsWritten` |
| `ContentsAreKept` | `Spec => []ContentsKept` |
| `NoneIsDroppedWithoutCause` | `Spec => []DroppedForCause` |

The first two say that both readers invert the writers, for lengths of one and of
two bytes. The inductive invariant of the next two adds `Front`: between reads, the
buffer holds exactly what has not been handed over. The last three come from
`Handing`, which says where the reader is in what was written. `start[i]` is the
number of bytes in front of the `i`-th message; `Follows` says that what the reader
holds and what is on its way together are the messages that were not handed over, at
these positions, but for one byte where a header was torn. That the positions exist
is part of the invariant, so that no sum over the stream is needed. `Aligned` (what
is held ends where the buffer ends) and `Waiting` (a reader that is not reading has
no message ready) make the step by step argument go through: `NextIsDue` concludes
that the next message is ready exactly when all of it is there, and is cut out with
its contents. A torn header changes only the byte in front of a length, which
`TypeAside` shows no size depends on.

`Lifecycle_proofs` proves, for any number of threads of the host:

| Theorem | States |
|---|---|
| `TypesKept` | `Spec => []TypeOK` |
| `ThreadsEnd` | `Spec => []NoThreadLeft` |
| `StopsStand` | `Spec => []StopStands` |

The invariant adds `OwedInStart`: a stop is owed its end only while `Start` is past
the place where it sets `Running`, so that what sets it again, the next `Start`,
finds no stop that is owed anything.

`RelaySystem_proofs` proves from the assumptions of `RelayServer`, for any number of
sessions, peers, channels, requests and messages on their way, and any leftovers of
earlier sessions, if `NameRewrites` has no blank name in it:

| Theorem | States |
|---|---|
| `ClientsDoConverge` | `SystemSpec => []ClientsConverge`, if `BlankName \notin NameRewrites` |
| `SendersAreKnown` | `SystemSpec => []SendersKnown`, if `BlankName \notin NameRewrites` |

What a client knows (`Picture`) and what the server has to say of a peer (`Account`)
are both written topic by topic: its id, its name, and each channel id. As long as
the server has no name for the peer, the account of its name is what the session
began with (`OwnName`). A message is about one topic, and `Read` says what it does
to a picture. The argument has three parts.

* The client: `HandleReads` shows that `HandleTCP` changes the picture as `Read`
  says, for a message that fits it (`Fitting`), and keeps the client sane: ids of
  channels are distinct in its vector.
* The server: for each handler a lemma (`...Tells`) shows that what it writes to a
  peer is a `Batch` that leads from the peer's account before to the one after: one
  message at most for each topic, so that their order does not matter, and none for
  a topic that stays as it was.
* The stream: `Follows` says that a client that reads all that is on its way to it
  arrives at the server's account of its peer. A message read shortens the path at
  its front (`ReceiveStep`), a handler lengthens it at its end (`DeliveredFollows`).

The inductive invariant `SystemInv` joins `Follows` with `RelayServer`'s invariant,
with `Links` (each peer has a session of its own behind it) and with `Streams` (a
session that has not been accepted has written its handshake alone and heard
nothing). It does not mention what sets ids apart in time, and needs not: when an id
is given to someone else, all in whose account it was have been told before.

Induction over data is out of the prover's reach as a scheme, but not over a set:
where a proof counts along a stream (`Counting`, `StagesHandled`), it takes the
least number for which the claim fails, which exists by the library's `WFMin`. In
this way `StagesHandled` gets from the steps of `Follows` to the value of the
recursive function `HandleAll`.

Only model-checked is liveness (`SilentDropped`, `RequestsAnswered`,
`HandshakeCompletes`, `AllHandedOver`, `StopEnds`, `StopReturns`, `InterruptEnds`):
the prover cannot reason about ENABLED and fairness. So are the properties that
fail, which have nothing to prove.

## 5. Not modelled

* The select build of the loop (`RedRelayServer.cpp:802-813`), which walks the pools
  by index. That walk is `KeepAlive`'s; whom it passes over is ready again in the
  next round.
* Races on the pools between the loop and the datagrams' thread in the
  multi-threaded build, which would need a memory model of them. `Lifecycle` covers
  only when that thread ends.
* Callbacks that call back into the server. A callback here only decides, or stops
  the server.
* Sockets that fill up: a write of the server always succeeds at once. That the
  client gives up a message half-way is in `Framing`.
* Lengths near 2^32, whose sums wrap around, and names of channels of 256 bytes and
  more, whose length is written as one byte.
* What a client knows of a channel's master and flags (2.2): it is told neither.
* Several channels over UDP (membership is checked per channel, in `RelayServer`),
  and a client's channel view together with its connection state.
* That a failed bind leaves `sf::err` silent, and the listener bound if only UDP
  failed.
* Messages too short for their type, which the server ignores or refuses.
* The accessors of `Event` and `Binary`'s typed reads, which are pure;
  configuration, logging, the example client, the copies of the headers, vendored
  sockets.

## 6. What could come next

1. Readers that stall the server, in `RelaySystem`: the fill level of each socket,
   and writes that wait.
2. Callbacks that call `DropPeer` in the middle of a handler that holds references
   into the pools.
3. The select build of the loop next to `Connections`.
4. Proofs: `NoticesExact` for callbacks that replace names, which needs it stated of
   the names as they were asked for; `MissedFew` and `PassedOver` for the select
   build's walk, once it is modelled.
