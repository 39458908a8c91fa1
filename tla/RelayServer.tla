---------------------------- MODULE RelayServer ----------------------------
(***************************************************************************)
(* The channel service of the RedRelay server: peers, names, channels,     *)
(* channel masters and the messages the server writes to its peers'        *)
(* sockets (server/RedRelayServer.cpp, server/Channel.cpp).                *)
(*                                                                         *)
(* The server runs in one thread and handles one complete message at a     *)
(* time, so a handler is one action.  How bytes become messages, how a     *)
(* socket becomes a peer, keepalive and UDP are modelled elsewhere.        *)
(***************************************************************************)
EXTENDS Names, Integers, Sequences, FiniteSets, Functions

CONSTANTS
  PeersLimit,         \* RedRelayServer::PeersLimit, a uint16_t above 0
  ChannelsLimit,      \* RedRelayServer::ChannelsLimit
  PeerChannelsLimit,  \* RedRelayServer::PeerChannelsLimit
  Callbacks,          \* which of the host's callbacks are installed
  NameRewrites        \* what the NameSet callback may put in place of a name

CallbackKind == {"NameSet", "ChannelJoin", "ChannelLeave", "ChannelsListRequest"}

(* SetPeersLimit, SetChannelsLimit and SetChannelsPerPeerLimit take a      *)
(* uint16_t and ignore 0.                                                  *)
IsLimit(n) == n \in Nat /\ 1 <= n /\ n <= 65535

ASSUME LimitsAssumption ==
  /\ IsLimit(PeersLimit)
  /\ IsLimit(ChannelsLimit)
  /\ IsLimit(PeerChannelsLimit)

ASSUME CallbacksAssumption ==
  /\ Callbacks \subseteq CallbackKind
  /\ NameRewrites \subseteq Name \cup {BlankName}

PeerID == 0 .. PeersLimit - 1
ChannelID == 0 .. ChannelsLimit - 1

VARIABLES
  PeersPool,     \* the allocated peers: a function from their ids
  ChannelsPool,  \* the open channels: a function from their ids
  ChannelNames,  \* std::unordered_map from channel name to channel id
  sent           \* what the last handler wrote to each peer's socket

vars == <<PeersPool, ChannelsPool, ChannelNames, sent>>

(* A peer's Channels is a vector in the code; its order decides only in    *)
(* which order one handler's notices about different channels go out.      *)
Peer == [Name : Name \cup {BlankName}, Channels : SUBSET ChannelID]

(* The order of a channel's Peers matters: the first one inherits Master.  *)
Channel == [Name : ChannelName, Peers : Seq(PeerID), Master : PeerID,
            HideFromList : BOOLEAN, CloseOnLeave : BOOLEAN]

-----------------------------------------------------------------------------
(* What the server writes to its peers.                                    *)

Welcome(p) == [type |-> "Connected", peer |-> p]
NameReply(ok, n) == [type |-> "NameReply", ok |-> ok, name |-> n]
JoinDenied(n) == [type |-> "JoinDenied", name |-> n]
Joined(created, n, c, roster) ==
  [type |-> "Joined", created |-> created, name |-> n, channel |-> c, peers |-> roster]
LeaveDenied(c) == [type |-> "LeaveDenied", channel |-> c]
Dropped(c) == [type |-> "Dropped", channel |-> c]
PeerLeft(c, p) == [type |-> "PeerLeft", channel |-> c, peer |-> p]
PeerNamed(c, p, master, n) ==
  [type |-> "PeerNamed", channel |-> c, peer |-> p, master |-> master, name |-> n]
ListDenied == [type |-> "ListDenied"]
ChannelList(entries) == [type |-> "ChannelList", channels |-> entries]
ChannelMessage(c, p) == [type |-> "ChannelMessage", channel |-> c, peer |-> p]
PeerMessage(c, p) == [type |-> "PeerMessage", channel |-> c, peer |-> p]

Nothing == [q \in PeerID |-> {}]
Only(p, msg) == [Nothing EXCEPT ![p] = {msg}]

-----------------------------------------------------------------------------
(* Helpers of Peer, Channel and IndexedPool.                               *)

IsInChannel(p, c) == c \in PeersPool[p].Channels

Members(c) == Range(ChannelsPool[c].Peers)

NameInUse(c, n) == \E q \in Members(c) : PeersPool[q].Name = n

(* Channel::ErasePeer on a vector that holds the peer once.                *)
Erase(s, x) ==
  IF x \notin Range(s) THEN s
  ELSE LET i == CHOOSE j \in DOMAIN s : s[j] = x
       IN  [j \in 1 .. Len(s) - 1 |-> IF j < i THEN s[j] ELSE s[j + 1]]

(* The first id that is not allocated, as the loops of JoinChannel and     *)
(* HandleConnection look for it.                                           *)
LowestFree(pool, ids, id) ==
  /\ id \in ids \ DOMAIN pool
  /\ \A i \in ids : i < id => i \in DOMAIN pool

Denies(kind) == kind \in Callbacks

-----------------------------------------------------------------------------
Init ==
  /\ PeersPool = [p \in {} |-> {}]
  /\ ChannelsPool = [c \in {} |-> {}]
  /\ ChannelNames = [n \in {} |-> {}]
  /\ sent = Nothing

(* A handshake that HandleConnection accepts makes a nameless peer.        *)
Connect(p) ==
  /\ LowestFree(PeersPool, PeerID, p)
  /\ PeersPool' = [q \in DOMAIN PeersPool \cup {p} |->
                     IF q = p THEN [Name |-> BlankName, Channels |-> {}] ELSE PeersPool[q]]
  /\ sent' = Only(p, Welcome(p))
  /\ UNCHANGED <<ChannelsPool, ChannelNames>>

-----------------------------------------------------------------------------
(* SetName: HandleTCP, type 0, request 1.                                  *)

(* Mutant: only the longest-standing member is asked.                      *)
NameTakenByFirst(p, n) ==
  \E c \in PeersPool[p].Channels : PeersPool[Head(ChannelsPool[c].Peers)].Name = n

NameTaken(p, n) == \E c \in PeersPool[p].Channels : NameInUse(c, n)

DenyNameChange(p, n) ==
  /\ \/ n \in {BlankName, LongName}
     \/ n # PeersPool[p].Name /\ (NameTaken(p, n) \/ Denies("NameSet"))
  /\ sent' = Only(p, NameReply(FALSE, n))
  /\ UNCHANGED <<PeersPool, ChannelsPool, ChannelNames>>

(* The name a peer ends up with: the callback gets it by reference.        *)
Accepted(n) == {n} \cup (IF "NameSet" \in Callbacks THEN NameRewrites ELSE {})

(* What the others hear when p, known so far under another name, is m.     *)
RenameNotices(p, m, q) ==
  {PeerNamed(c, p, ChannelsPool[c].Master = p, m) :
     c \in {d \in PeersPool[p].Channels : q \in Members(d) \ {p}}}

SetName(p, n) ==
  /\ n \in Name
  /\ IF n = PeersPool[p].Name
     THEN /\ sent' = Only(p, NameReply(TRUE, n))
          /\ UNCHANGED PeersPool
     ELSE /\ ~NameTaken(p, n)
          /\ \E m \in Accepted(n) :
               /\ PeersPool' = [PeersPool EXCEPT ![p].Name = m]
               /\ sent' = [q \in PeerID |-> IF q = p THEN {NameReply(TRUE, m)}
                                            ELSE RenameNotices(p, m, q)]
  /\ UNCHANGED <<ChannelsPool, ChannelNames>>

-----------------------------------------------------------------------------
(* JoinChannel: HandleTCP, type 0, request 2.                              *)

MayJoin(p, n) ==
  /\ n # BlankName
  /\ PeersPool[p].Name # BlankName
  /\ Cardinality(PeersPool[p].Channels) < PeerChannelsLimit

(* Mutant: a member may enter again.                                       *)
MayEnterTwice(p, c) == \A q \in Members(c) \ {p} : PeersPool[q].Name # PeersPool[p].Name

(* p is not in the channel, and nobody in it has p's name.                 *)
MayEnter(p, c) ==
  /\ ~IsInChannel(p, c)
  /\ ~NameInUse(c, PeersPool[p].Name)

MayCreate == Cardinality(DOMAIN ChannelsPool) < ChannelsLimit

(* A channel the ChannelJoin callback refuses is created and removed again *)
(* within the handler: nothing of it stays.                                *)
DenyChannelJoin(p, n) ==
  /\ \/ ~MayJoin(p, n)
     \/ n \in DOMAIN ChannelNames /\ ~MayEnter(p, ChannelNames[n])
     \/ n \notin DOMAIN ChannelNames /\ ~MayCreate
     \/ Denies("ChannelJoin")
  /\ sent' = Only(p, JoinDenied(n))
  /\ UNCHANGED <<PeersPool, ChannelsPool, ChannelNames>>

CreateChannel(p, n, hide, close) ==
  /\ MayJoin(p, n)
  /\ n \notin DOMAIN ChannelNames
  /\ MayCreate
  /\ \E c \in ChannelID :
       /\ LowestFree(ChannelsPool, ChannelID, c)
       /\ ChannelsPool' = [d \in DOMAIN ChannelsPool \cup {c} |->
            IF d = c THEN [Name |-> n, Peers |-> <<p>>, Master |-> p,
                           HideFromList |-> hide, CloseOnLeave |-> close]
                     ELSE ChannelsPool[d]]
       /\ ChannelNames' = [m \in DOMAIN ChannelNames \cup {n} |->
            IF m = n THEN c ELSE ChannelNames[m]]
       /\ PeersPool' = [PeersPool EXCEPT ![p].Channels = @ \cup {c}]
       /\ sent' = Only(p, Joined(TRUE, n, c, {}))

(* The reply's list of those already in channel c.                         *)
Roster(c) ==
  {[id |-> q, master |-> q = ChannelsPool[c].Master, name |-> PeersPool[q].Name] :
     q \in Members(c)}

EnterChannel(p, n) ==
  /\ MayJoin(p, n)
  /\ n \in DOMAIN ChannelNames
  /\ LET c == ChannelNames[n]
     IN  /\ MayEnter(p, c)
         /\ PeersPool' = [PeersPool EXCEPT ![p].Channels = @ \cup {c}]
         /\ ChannelsPool' = [ChannelsPool EXCEPT ![c].Peers = Append(@, p)]
         /\ sent' = [q \in PeerID |->
              IF q = p THEN {Joined(FALSE, n, c, Roster(c))}
              ELSE IF q \in Members(c) THEN {PeerNamed(c, p, FALSE, PeersPool[p].Name)}
              ELSE {}]
  /\ UNCHANGED ChannelNames

-----------------------------------------------------------------------------
(* A peer leaves some of its channels: the one of a LeaveChannel request,  *)
(* or all of them in DropPeer.                                             *)

Remaining(p, c) == Erase(ChannelsPool[c].Peers, p)

(* Mutant: CloseOnLeave is forgotten.                                      *)
ClosesIfEmpty(p, c) == Remaining(p, c) = <<>>

Closes(p, c) ==
  \/ Remaining(p, c) = <<>>
  \/ ChannelsPool[c].CloseOnLeave /\ ChannelsPool[c].Master = p

(* Mutants: nobody succeeds the master; it stays on record; the newest     *)
(* member succeeds it.                                                     *)
MasterNone(p, c) == IF ChannelsPool[c].Master = p THEN 65535 ELSE ChannelsPool[c].Master
MasterKept(p, c) == ChannelsPool[c].Master
MasterNewest(p, c) ==
  IF ChannelsPool[c].Master = p THEN Remaining(p, c)[Len(Remaining(p, c))]
  ELSE ChannelsPool[c].Master

(* GiveNewMaster is TRUE from the constructor on and has no setter.        *)
MasterAfter(p, c) ==
  IF ChannelsPool[c].Master = p THEN Head(Remaining(p, c)) ELSE ChannelsPool[c].Master

ClosedBy(p, cs) == {c \in cs : Closes(p, c)}

(* Mutant: EraseChannel is left out for those still in a closed channel.   *)
NoneExpelled(p, cs, q) == {}

(* The closed channels that q loses without having left them.              *)
Expelled(p, cs, q) == {c \in ClosedBy(p, cs) : q \in Members(c)}

ChannelsWithout(p, cs) ==
  [c \in DOMAIN ChannelsPool \ ClosedBy(p, cs) |->
     IF c \in cs THEN [ChannelsPool[c] EXCEPT !.Peers = Remaining(p, c), !.Master = MasterAfter(p, c)]
                 ELSE ChannelsPool[c]]

(* Mutant: ChannelNames.erase is left out.                                 *)
NamesKept(closed) == ChannelNames

NamesWithout(closed) ==
  [n \in DOMAIN ChannelNames \ {ChannelsPool[c].Name : c \in closed} |-> ChannelNames[n]]

(* Mutant: those who lose a closed channel only hear that p left.          *)
DepartureOnly(p, cs, q) == {PeerLeft(c, p) : c \in {d \in cs : q \in Members(d)}}

(* PeerLeftChannel and PeerDroppedFromChannel, seen by the one who stays.  *)
DepartureNotices(p, cs, q) ==
  {IF Closes(p, c) THEN Dropped(c) ELSE PeerLeft(c, p) : c \in {d \in cs : q \in Members(d)}}

(* HandleTCP, type 0, request 3.                                           *)
DenyChannelLeave(p, c) ==
  /\ c \in DOMAIN ChannelsPool
  /\ IsInChannel(p, c)
  /\ Denies("ChannelLeave")
  /\ sent' = Only(p, LeaveDenied(c))
  /\ UNCHANGED <<PeersPool, ChannelsPool, ChannelNames>>

LeaveChannel(p, c) ==
  /\ c \in DOMAIN ChannelsPool
  /\ IsInChannel(p, c)
  /\ PeersPool' = [q \in DOMAIN PeersPool |->
       [PeersPool[q] EXCEPT !.Channels = @ \ IF q = p THEN {c} ELSE Expelled(p, {c}, q)]]
  /\ ChannelsPool' = ChannelsWithout(p, {c})
  /\ ChannelNames' = NamesWithout(ClosedBy(p, {c}))
  /\ sent' = [q \in PeerID |-> IF q = p THEN {Dropped(c)} ELSE DepartureNotices(p, {c}, q)]

(* The peer's socket closed, the host dropped it or its pings timed out.   *)
DropPeer(p) ==
  LET cs == PeersPool[p].Channels
  IN  /\ PeersPool' = [q \in DOMAIN PeersPool \ {p} |->
           [PeersPool[q] EXCEPT !.Channels = @ \ Expelled(p, cs, q)]]
      /\ ChannelsPool' = ChannelsWithout(p, cs)
      /\ ChannelNames' = NamesWithout(ClosedBy(p, cs))
      /\ sent' = [q \in PeerID |-> IF q = p THEN {} ELSE DepartureNotices(p, cs, q)]

-----------------------------------------------------------------------------
(* ChannelsListRequest: HandleTCP, type 0, request 4.                      *)
ListChannels(p) ==
  /\ \/ /\ Denies("ChannelsListRequest")
        /\ sent' = Only(p, ListDenied)
     \/ sent' = Only(p, ChannelList(
          {[name |-> ChannelsPool[c].Name, peers |-> Len(ChannelsPool[c].Peers)] :
             c \in {d \in DOMAIN ChannelsPool : ~ChannelsPool[d].HideFromList}}))
  /\ UNCHANGED <<PeersPool, ChannelsPool, ChannelNames>>

(* Messages relayed over TCP: HandleTCP, types 2 and 3.                    *)
SendToChannel(p, c) ==
  /\ IsInChannel(p, c)
  /\ sent' = [q \in PeerID |-> IF q \in Members(c) \ {p} THEN {ChannelMessage(c, p)} ELSE {}]
  /\ UNCHANGED <<PeersPool, ChannelsPool, ChannelNames>>

(* Mutant: nobody checks that the addressee is in the channel.             *)
SendToAnyPeer(p, c, q) ==
  /\ q \in DOMAIN PeersPool
  /\ IsInChannel(p, c)
  /\ sent' = Only(q, PeerMessage(c, p))
  /\ UNCHANGED <<PeersPool, ChannelsPool, ChannelNames>>

SendToPeer(p, c, q) ==
  /\ q \in DOMAIN PeersPool
  /\ IsInChannel(p, c)
  /\ IsInChannel(q, c)
  /\ sent' = Only(q, PeerMessage(c, p))
  /\ UNCHANGED <<PeersPool, ChannelsPool, ChannelNames>>

-----------------------------------------------------------------------------
(* What peer p may make the server do.                                     *)
Request(p) ==
  \/ \E n \in Name \cup {BlankName, LongName} : SetName(p, n) \/ DenyNameChange(p, n)
  \/ \E n \in ChannelName \cup {BlankName} : DenyChannelJoin(p, n) \/ EnterChannel(p, n)
  \/ \E n \in ChannelName, hide, close \in BOOLEAN : CreateChannel(p, n, hide, close)
  \/ \E c \in ChannelID : LeaveChannel(p, c) \/ DenyChannelLeave(p, c) \/ SendToChannel(p, c)
  \/ \E c \in ChannelID, q \in PeerID : SendToPeer(p, c, q)
  \/ ListChannels(p)

Next ==
  \/ \E p \in PeerID : Connect(p)
  \/ \E p \in DOMAIN PeersPool : Request(p) \/ DropPeer(p)

Spec == Init /\ [][Next]_vars

-----------------------------------------------------------------------------
(* Properties.                                                             *)

(* The pools hold peers and channels under ids below their limits, and the *)
(* map of channel names leads to channel ids.                              *)
TypeOK ==
  /\ DOMAIN PeersPool \subseteq PeerID
  /\ PeersPool \in [DOMAIN PeersPool -> Peer]
  /\ DOMAIN ChannelsPool \subseteq ChannelID
  /\ ChannelsPool \in [DOMAIN ChannelsPool -> Channel]
  /\ DOMAIN ChannelNames \subseteq ChannelName
  /\ ChannelNames \in [DOMAIN ChannelNames -> ChannelID]
  /\ DOMAIN sent = PeerID

(* Peer::Channels and Channel::Peers tell the same story, although every   *)
(* handler updates them separately: no peer keeps the id of a closed       *)
(* channel, no channel that of a peer that is gone.                        *)
MembershipSymmetric ==
  /\ \A p \in DOMAIN PeersPool : PeersPool[p].Channels \subseteq DOMAIN ChannelsPool
  /\ \A c \in DOMAIN ChannelsPool : Members(c) \subseteq DOMAIN PeersPool
  /\ \A p \in DOMAIN PeersPool, c \in DOMAIN ChannelsPool :
       c \in PeersPool[p].Channels <=> p \in Members(c)

(* No peer is twice in a channel (ErasePeer would skip the second).        *)
MembersDistinct ==
  \A c \in DOMAIN ChannelsPool :
    \A i, j \in DOMAIN ChannelsPool[c].Peers :
      ChannelsPool[c].Peers[i] = ChannelsPool[c].Peers[j] => i = j

(* An open channel is never without members, and its master is one of them *)
(* however peers leave or vanish.                                          *)
MasterPresent == \A c \in DOMAIN ChannelsPool : ChannelsPool[c].Master \in Members(c)

(* ChannelNames is exactly the index of the open channels by name: a name  *)
(* never leads to a closed channel, and two channels never share one.      *)
NamesIndexChannels ==
  /\ \A n \in DOMAIN ChannelNames :
       /\ ChannelNames[n] \in DOMAIN ChannelsPool
       /\ ChannelsPool[ChannelNames[n]].Name = n
  /\ \A c \in DOMAIN ChannelsPool :
       /\ ChannelsPool[c].Name \in DOMAIN ChannelNames
       /\ ChannelNames[ChannelsPool[c].Name] = c

(* Two members of a channel never have the same name, and none is          *)
(* nameless, whether it took the name before joining or while in it: a     *)
(* name is refused when it "conflicted with other peer name"               *)
(* (client/RedRelayClient.hpp:98).  A NameSet callback that changes the    *)
(* name can break this.                                                    *)
NamesUnique ==
  \A c \in DOMAIN ChannelsPool : \A p, q \in Members(c) :
    /\ PeersPool[p].Name # BlankName
    /\ p # q => PeersPool[p].Name # PeersPool[q].Name

(* What a step tells the peers is exactly what it does to their channels:  *)
(* each peer that stays in a channel hears of everyone who entered, left   *)
(* or was renamed and of nobody else, each that goes is told so, each that *)
(* enters gets the roster.                                                 *)
NoticesExact ==
  [][\A q \in DOMAIN PeersPool \cap DOMAIN PeersPool', c \in ChannelID :
       LET was  == c \in DOMAIN ChannelsPool /\ q \in Members(c)
           is   == c \in DOMAIN ChannelsPool' /\ q \in Members(c)'
           gone == {x \in PeerID : PeerLeft(c, x) \in sent'[q]}
           new  == {x \in PeerID : \E m \in BOOLEAN :
                      /\ x \in DOMAIN PeersPool'
                      /\ PeerNamed(c, x, m, PeersPool'[x].Name) \in sent'[q]}
           told == {m \in sent'[q] : m.type = "Joined" /\ m.channel = c}
       IN  /\ Dropped(c) \in sent'[q] <=> was /\ ~is
           /\ gone = IF was /\ is THEN Members(c) \ Members(c)' ELSE {}
           /\ new = IF was /\ is
                    THEN {x \in Members(c)' \ {q} :
                            x \notin Members(c) \/ PeersPool'[x].Name # PeersPool[x].Name}
                    ELSE {}
           /\ told # {} <=> is /\ ~was
           /\ \A m \in told : {e.id : e \in m.peers} = Members(c)' \ {q}
    ]_vars

(* Nobody hears a word about a channel it was not in before the step and   *)
(* is not in after it, whoever sends what to whom.                         *)
Discreet ==
  [][\A q \in PeerID : \A m \in sent'[q] :
       m.type \in {"PeerLeft", "PeerNamed", "Joined", "Dropped", "ChannelMessage", "PeerMessage"} =>
         \/ m.channel \in DOMAIN ChannelsPool /\ q \in Members(m.channel)
         \/ m.channel \in DOMAIN ChannelsPool' /\ q \in Members(m.channel)'
    ]_vars

(* A channel that stays open changes its master only when the old one is   *)
(* no longer in it, and then to the member who has been in it longest; one *)
(* that closes when its master leaves never changes it.                    *)
Succession ==
  [][\A c \in DOMAIN ChannelsPool \cap DOMAIN ChannelsPool' :
       LET old == ChannelsPool[c].Master
           new == ChannelsPool'[c].Master
       IN  old # new =>
             /\ old \notin Members(c)'
             /\ ~ChannelsPool[c].CloseOnLeave
             /\ \E i \in DOMAIN ChannelsPool[c].Peers :
                  /\ ChannelsPool[c].Peers[i] = new
                  /\ \A j \in 1 .. i - 1 : ChannelsPool[c].Peers[j] = old
    ]_vars

-----------------------------------------------------------------------------
(* The channels as ChannelService knows them: by name.                     *)
RoomsView ==
  [n \in {ChannelsPool[c].Name : c \in DOMAIN ChannelsPool} |->
     LET c == ChannelNames[n]
     IN  [members |-> Members(c), owner |-> ChannelsPool[c].Master,
          hidden |-> ChannelsPool[c].HideFromList, closing |-> ChannelsPool[c].CloseOnLeave]]

Service == INSTANCE ChannelService
             WITH Member <- PeerID, RoomName <- ChannelName, rooms <- RoomsView

(* Every run of the server is a run of ChannelService.                     *)
ImplementsChannelService == Service!Spec
=============================================================================
