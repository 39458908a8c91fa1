---------------------- MODULE RelayServerSteps_proofs ----------------------
(***************************************************************************)
(* Proofs about what a step of RelayServer may do: who inherits a channel, *)
(* who is told what, and that every step is one of ChannelService.  They   *)
(* rest on the inductive invariant of RelayServer_proofs.                  *)
(***************************************************************************)
EXTENDS RelayServer_proofs

-----------------------------------------------------------------------------
(* What the handlers do, in the words the theorems use.                    *)

(* A step that leaves the channels and their members alone.                *)
Quiet ==
  \/ \E p \in PeerID : Connect(p)
  \/ \E p \in DOMAIN PeersPool : \E n : SetName(p, n)
  \/ \E p \in DOMAIN PeersPool : Replies(p)

(* p leaves the channels cs, by a request or because it is gone.           *)
Departs(p, cs) ==
  /\ p \in PeerID
  /\ cs \in SUBSET DOMAIN ChannelsPool
  /\ \A c \in cs : p \in Members(c)
  /\ ChannelsPool' = ChannelsWithout(p, cs)
  /\ ChannelNames' = NamesWithout(ClosedBy(p, cs))
  /\ \A q \in PeerID \ {p} : sent'[q] = DepartureNotices(p, cs, q)
  /\ \A q \in DOMAIN PeersPool' : q \in DOMAIN PeersPool /\ PeersPool'[q].Name = PeersPool[q].Name

(* Every step is quiet, opens a channel, enters one, or is a departure.    *)
LEMMA StepKinds ==
  ASSUME Next
  PROVE  \/ Quiet
         \/ \E p \in DOMAIN PeersPool :
              \/ \E n \in ChannelName, hide, close \in BOOLEAN : CreateChannel(p, n, hide, close)
              \/ \E n \in ChannelName \cup {BlankName} : EnterChannel(p, n)
              \/ \E c : LeaveChannel(p, c)
              \/ DropPeer(p)
  BY Zenon DEF Next, Request, Replies, Quiet

LEMMA QuietChannels ==
  ASSUME Quiet
  PROVE  UNCHANGED <<ChannelsPool, ChannelNames>>
  BY DEF Quiet, Connect, SetName, Replies, DenyNameChange, DenyChannelJoin, DenyChannelLeave,
         SendToChannel, SendToPeer, ListChannels

(* A request to leave is the departure from one channel, which the peer    *)
(* hears of itself.                                                        *)
LEMMA LeaveDeparts ==
  ASSUME IInv, NEW p \in DOMAIN PeersPool, NEW c, LeaveChannel(p, c)
  PROVE  Departs(p, {c}) /\ sent'[p] = {Dropped(c)}
<1>1. c \in DOMAIN ChannelsPool /\ c \in PeersPool[p].Channels /\ p \in PeerID
  BY DEF LeaveChannel, IsInChannel, IInv, TypeOK
<1>2. p \in Members(c)
  BY <1>1 DEF IInv, MembershipSymmetric
<1>3. \A q \in DOMAIN PeersPool' : q \in DOMAIN PeersPool /\ PeersPool'[q].Name = PeersPool[q].Name
  BY DEF LeaveChannel, IInv, TypeOK, Peer
<1>4. /\ sent'[p] = {Dropped(c)}
      /\ \A q \in PeerID \ {p} : sent'[q] = DepartureNotices(p, {c}, q)
  BY <1>1 DEF LeaveChannel
<1>5. ChannelsPool' = ChannelsWithout(p, {c}) /\ ChannelNames' = NamesWithout(ClosedBy(p, {c}))
  BY DEF LeaveChannel
<1>. QED  BY <1>1, <1>2, <1>3, <1>4, <1>5 DEF Departs

(* A peer that is dropped departs from all its channels, and is gone.      *)
LEMMA DropDeparts ==
  ASSUME IInv, NEW p \in DOMAIN PeersPool, DropPeer(p)
  PROVE  /\ Departs(p, PeersPool[p].Channels)
         /\ sent'[p] = {}
         /\ p \notin DOMAIN PeersPool'
<1>. DEFINE cs == PeersPool[p].Channels
<1>1. cs \in SUBSET DOMAIN ChannelsPool /\ p \in PeerID
  BY DEF IInv, TypeOK, MembershipSymmetric
<1>2. \A c \in cs : p \in Members(c)
  BY <1>1 DEF IInv, MembershipSymmetric
<1>3. \A q \in DOMAIN PeersPool' : q \in DOMAIN PeersPool /\ PeersPool'[q].Name = PeersPool[q].Name
  BY DEF DropPeer, IInv, TypeOK, Peer
<1>4. /\ sent'[p] = {} /\ p \notin DOMAIN PeersPool'
      /\ \A q \in PeerID \ {p} : sent'[q] = DepartureNotices(p, cs, q)
  BY <1>1 DEF DropPeer
<1>5. ChannelsPool' = ChannelsWithout(p, cs) /\ ChannelNames' = NamesWithout(ClosedBy(p, cs))
  BY DEF DropPeer
<1>. QED  BY <1>1, <1>2, <1>3, <1>4, <1>5 DEF Departs

(* Every step is quiet, a join or a departure.                             *)
LEMMA StepCases ==
  ASSUME IInv, Next
  PROVE  \/ Quiet
         \/ \E p \in DOMAIN PeersPool :
              \/ \E n \in ChannelName, hide, close \in BOOLEAN : CreateChannel(p, n, hide, close)
              \/ \E n \in ChannelName \cup {BlankName} : EnterChannel(p, n)
              \/ \E cs : Departs(p, cs)
  BY StepKinds, LeaveDeparts, DropDeparts, Zenon

(* The channels that survive a departure, and what becomes of them.        *)
LEMMA DepartureChannels ==
  ASSUME IInv, NEW p, NEW cs, Departs(p, cs)
  PROVE  /\ \A c :
              c \in DOMAIN ChannelsPool' <=> c \in DOMAIN ChannelsPool /\ c \notin ClosedBy(p, cs)
         /\ \A c \in DOMAIN ChannelsPool' :
              /\ Members(c)' = IF c \in cs THEN Members(c) \ {p} ELSE Members(c)
              /\ ChannelsPool'[c].Name = ChannelsPool[c].Name
              /\ ChannelsPool'[c].HideFromList = ChannelsPool[c].HideFromList
              /\ ChannelsPool'[c].CloseOnLeave = ChannelsPool[c].CloseOnLeave
              /\ ChannelsPool'[c].Master
                   = IF c \in cs THEN MasterAfter(p, c) ELSE ChannelsPool[c].Master
<1>1. p \in PeerID /\ cs \in SUBSET DOMAIN ChannelsPool
  BY DEF Departs
<1>2. ChannelsPool' = ChannelsWithout(p, cs) /\ ChannelNames' = NamesWithout(ClosedBy(p, cs))
  BY DEF Departs
<1>3. /\ DOMAIN ChannelsPool' = DOMAIN ChannelsPool \ ClosedBy(p, cs)
      /\ \A c \in DOMAIN ChannelsPool' :
           Members(c)' = IF c \in cs THEN Members(c) \ {p} ELSE Members(c)
  BY <1>1, <1>2, Departure, Zenon
<1>4. ASSUME NEW c \in DOMAIN ChannelsPool'
      PROVE  /\ ChannelsPool'[c].Name = ChannelsPool[c].Name
             /\ ChannelsPool'[c].HideFromList = ChannelsPool[c].HideFromList
             /\ ChannelsPool'[c].CloseOnLeave = ChannelsPool[c].CloseOnLeave
             /\ ChannelsPool'[c].Master
                  = IF c \in cs THEN MasterAfter(p, c) ELSE ChannelsPool[c].Master
  <2>1. ChannelsPool[c] \in Channel
    BY <1>3, OpenChannel
  <2>2. ChannelsPool'[c] = IF c \in cs
          THEN [ChannelsPool[c] EXCEPT !.Peers = Remaining(p, c), !.Master = MasterAfter(p, c)]
          ELSE ChannelsPool[c]
    BY <1>2, <1>3 DEF ChannelsWithout
  <2>. QED  BY <2>1, <2>2 DEF Channel
<1>. QED  BY <1>3, <1>4

(* p opens channel c, which was the first free one.                        *)
Creates(p, n, hide, close, c) ==
  /\ c \in ChannelID \ DOMAIN ChannelsPool
  /\ n \notin DOMAIN ChannelNames
  /\ ChannelsPool' = [d \in DOMAIN ChannelsPool \cup {c} |->
       IF d = c THEN [Name |-> n, Peers |-> <<p>>, Master |-> p,
                      HideFromList |-> hide, CloseOnLeave |-> close]
                ELSE ChannelsPool[d]]
  /\ ChannelNames' = [m \in DOMAIN ChannelNames \cup {n} |->
                        IF m = n THEN c ELSE ChannelNames[m]]
  /\ PeersPool' = [PeersPool EXCEPT ![p].Channels = @ \cup {c}]
  /\ sent' = Only(p, Joined(TRUE, n, c, {}))

LEMMA CreateCreates ==
  ASSUME NEW p, NEW n, NEW hide, NEW close, CreateChannel(p, n, hide, close)
  PROVE  \E c : Creates(p, n, hide, close, c)
  BY DEF CreateChannel, LowestFree, Creates

(* The channel a peer opens.                                               *)
LEMMA CreatedChannel ==
  ASSUME IInv, NEW p \in DOMAIN PeersPool, NEW n, NEW hide, NEW close, NEW c,
         Creates(p, n, hide, close, c)
  PROVE  /\ c \notin DOMAIN ChannelsPool
         /\ \A d : d \in DOMAIN ChannelsPool' <=> d \in DOMAIN ChannelsPool \/ d = c
         /\ ChannelsPool'[c].Master = p
         /\ ChannelsPool'[c].HideFromList = hide
         /\ ChannelsPool'[c].CloseOnLeave = close
         /\ Members(c)' = {p}
         /\ \A d \in DOMAIN ChannelsPool :
              ChannelsPool'[d] = ChannelsPool[d] /\ Members(d)' = Members(d)
         /\ \A q \in DOMAIN PeersPool : PeersPool'[q].Name = PeersPool[q].Name
         /\ n \notin DOMAIN ChannelNames
         /\ \A m : m \in DOMAIN ChannelNames' <=> m \in DOMAIN ChannelNames \/ m = n
         /\ ChannelNames'[n] = c
         /\ \A m \in DOMAIN ChannelNames : ChannelNames'[m] = ChannelNames[m]
<1>1. \A q \in DOMAIN PeersPool : PeersPool'[q].Name = PeersPool[q].Name
  BY DEF Creates, IInv, TypeOK, Peer
<1>2. /\ c \notin DOMAIN ChannelsPool
      /\ \A d : d \in DOMAIN ChannelsPool' <=> d \in DOMAIN ChannelsPool \/ d = c
      /\ ChannelsPool'[c] = [Name |-> n, Peers |-> <<p>>, Master |-> p,
                             HideFromList |-> hide, CloseOnLeave |-> close]
      /\ \A d \in DOMAIN ChannelsPool : ChannelsPool'[d] = ChannelsPool[d]
  BY DEF Creates
<1>3. /\ n \notin DOMAIN ChannelNames
      /\ \A m : m \in DOMAIN ChannelNames' <=> m \in DOMAIN ChannelNames \/ m = n
      /\ ChannelNames'[n] = c
      /\ \A m \in DOMAIN ChannelNames : ChannelNames'[m] = ChannelNames[m]
  BY DEF Creates
<1>4. Members(c)' = {p} /\ \A d \in DOMAIN ChannelsPool : Members(d)' = Members(d)
  BY <1>2 DEF Members, Range
<1>. QED  BY <1>1, <1>2, <1>3, <1>4

(* The channel a peer enters.                                              *)
LEMMA EnterChannels ==
  ASSUME IInv, NEW p \in DOMAIN PeersPool, NEW n, EnterChannel(p, n),
         NEW c, c = ChannelNames[n]
  PROVE  /\ c \in DOMAIN ChannelsPool
         /\ n \in DOMAIN ChannelNames
         /\ p \notin Members(c)
         /\ DOMAIN ChannelsPool' = DOMAIN ChannelsPool
         /\ \A d \in DOMAIN ChannelsPool :
              /\ Members(d)' = IF d = c THEN Members(d) \cup {p} ELSE Members(d)
              /\ ChannelsPool'[d].Name = ChannelsPool[d].Name
              /\ ChannelsPool'[d].Master = ChannelsPool[d].Master
              /\ ChannelsPool'[d].HideFromList = ChannelsPool[d].HideFromList
              /\ ChannelsPool'[d].CloseOnLeave = ChannelsPool[d].CloseOnLeave
         /\ \A q \in DOMAIN PeersPool : PeersPool'[q].Name = PeersPool[q].Name
         /\ DOMAIN PeersPool' = DOMAIN PeersPool
         /\ ChannelNames' = ChannelNames
<1>1. c \in DOMAIN ChannelsPool /\ n \in DOMAIN ChannelNames /\ p \in PeerID
  BY DEF EnterChannel, IInv, TypeOK, NamesIndexChannels
<1>2. /\ c \notin PeersPool[p].Channels
      /\ PeersPool' = [PeersPool EXCEPT ![p].Channels = @ \cup {c}]
      /\ ChannelsPool' = [ChannelsPool EXCEPT ![c].Peers = Append(@, p)]
      /\ ChannelNames' = ChannelNames
  BY <1>1 DEF EnterChannel, MayEnter, IsInChannel
<1>3. p \notin Members(c)
  BY <1>1, <1>2 DEF IInv, MembershipSymmetric
<1>4. /\ ChannelsPool[c].Peers \in Seq(PeerID)
      /\ Members(c) = Range(ChannelsPool[c].Peers)
      /\ ChannelsPool[c] \in Channel
  BY <1>1, OpenChannel
<1>5. /\ DOMAIN ChannelsPool' = DOMAIN ChannelsPool
      /\ ChannelsPool'[c] = [ChannelsPool[c] EXCEPT !.Peers = Append(@, p)]
      /\ \A d \in DOMAIN ChannelsPool : d # c => ChannelsPool'[d] = ChannelsPool[d]
  BY <1>1, <1>2 DEF IInv, TypeOK
<1>6. /\ ChannelsPool'[c].Peers = Append(ChannelsPool[c].Peers, p)
      /\ ChannelsPool'[c].Master = ChannelsPool[c].Master
      /\ ChannelsPool'[c].Name = ChannelsPool[c].Name
      /\ ChannelsPool'[c].HideFromList = ChannelsPool[c].HideFromList
      /\ ChannelsPool'[c].CloseOnLeave = ChannelsPool[c].CloseOnLeave
  BY <1>4, <1>5 DEF Channel
<1>7. /\ Members(c)' = Members(c) \cup {p}
      /\ \A d \in DOMAIN ChannelsPool : d # c => Members(d)' = Members(d)
  BY <1>1, <1>4, <1>5, <1>6, AppendRange DEF Members
<1>8. /\ DOMAIN PeersPool' = DOMAIN PeersPool
      /\ \A q \in DOMAIN PeersPool : PeersPool'[q].Name = PeersPool[q].Name
  BY <1>2 DEF IInv, TypeOK, Peer
<1>9. \A d \in DOMAIN ChannelsPool :
        /\ Members(d)' = IF d = c THEN Members(d) \cup {p} ELSE Members(d)
        /\ ChannelsPool'[d].Name = ChannelsPool[d].Name
        /\ ChannelsPool'[d].Master = ChannelsPool[d].Master
        /\ ChannelsPool'[d].HideFromList = ChannelsPool[d].HideFromList
        /\ ChannelsPool'[d].CloseOnLeave = ChannelsPool[d].CloseOnLeave
  BY <1>5, <1>6, <1>7
<1>. QED  BY <1>1, <1>2, <1>3, <1>5, <1>8, <1>9

-----------------------------------------------------------------------------
(* Succession.                                                             *)

(* What is left of a vector starts with its second element when the first  *)
(* one is erased, and with the first one otherwise.                        *)
LEMMA EraseHead ==
  ASSUME NEW S, NEW s \in Seq(S), NEW x, x \in Range(s), Erase(s, x) # <<>>
  PROVE  \E i \in DOMAIN s : s[i] = Head(Erase(s, x)) /\ \A j \in 1 .. i - 1 : s[j] = x
<1>. DEFINE k == CHOOSE j \in DOMAIN s : s[j] = x
            e == [j \in 1 .. Len(s) - 1 |-> IF j < k THEN s[j] ELSE s[j + 1]]
<1>1. k \in DOMAIN s /\ s[k] = x
  BY DEF Range
<1>2. Erase(s, x) = e
  BY DEF Erase
<1>. HIDE DEF k
<1>3. DOMAIN s = 1 .. Len(s) /\ Len(s) \in Nat
  OBVIOUS
<1>4. e \in Seq(S) /\ e # <<>>
  BY <1>1, <1>2, <1>3
<1>5. Len(s) - 1 >= 1
  BY <1>3, <1>4, <1>1
<1>6. Head(e) = e[1] /\ e[1] = IF 1 < k THEN s[1] ELSE s[2]
  BY <1>4, <1>5
<1>7. CASE 1 < k
  BY <1>2, <1>3, <1>5, <1>6, <1>7
<1>8. CASE ~ (1 < k)
  <2>1. k = 1
    BY <1>1, <1>3, <1>8
  <2>. QED  BY <1>1, <1>2, <1>3, <1>5, <1>6, <2>1
<1>. QED  BY <1>7, <1>8

(* A channel changes its master only when the old one leaves, for the      *)
(* member who has been in it longest of those who stay.                    *)
THEOREM MasterSucceeds == Spec => Succession
<1>. DEFINE Step ==
       \A c \in DOMAIN ChannelsPool \cap DOMAIN ChannelsPool' :
         ChannelsPool[c].Master # ChannelsPool'[c].Master =>
           /\ ChannelsPool[c].Master \notin Members(c)'
           /\ ~ChannelsPool[c].CloseOnLeave
           /\ \E i \in DOMAIN ChannelsPool[c].Peers :
                /\ ChannelsPool[c].Peers[i] = ChannelsPool'[c].Master
                /\ \A j \in 1 .. i - 1 : ChannelsPool[c].Peers[j] = ChannelsPool[c].Master
<1>1. IInv /\ Next => Step
  <2>. SUFFICES ASSUME IInv, Next, NEW c \in DOMAIN ChannelsPool \cap DOMAIN ChannelsPool',
                       ChannelsPool[c].Master # ChannelsPool'[c].Master
                PROVE  /\ ChannelsPool[c].Master \notin Members(c)'
                       /\ ~ChannelsPool[c].CloseOnLeave
                       /\ \E i \in DOMAIN ChannelsPool[c].Peers :
                            /\ ChannelsPool[c].Peers[i] = ChannelsPool'[c].Master
                            /\ \A j \in 1 .. i - 1 :
                                 ChannelsPool[c].Peers[j] = ChannelsPool[c].Master
    OBVIOUS
  <2>1. ~Quiet
    BY QuietChannels
  <2>2. ~\E p \in DOMAIN PeersPool : \E n, hide, close : CreateChannel(p, n, hide, close)
    BY CreateCreates, CreatedChannel
  <2>3. ~\E p \in DOMAIN PeersPool : \E n : EnterChannel(p, n)
    BY EnterChannels
  <2>4. PICK p, cs : p \in DOMAIN PeersPool /\ Departs(p, cs)
    BY <2>1, <2>2, <2>3, StepCases
  <2>5. c \in cs /\ c \notin ClosedBy(p, cs) /\ ChannelsPool'[c].Master = MasterAfter(p, c)
    BY <2>4, DepartureChannels
  <2>6. ChannelsPool[c].Master = p /\ MasterAfter(p, c) = Head(Remaining(p, c))
    BY <2>5 DEF MasterAfter
  <2>7. ~ChannelsPool[c].CloseOnLeave /\ Remaining(p, c) # <<>>
    BY <2>5, <2>6 DEF ClosedBy, Closes
  <2>8. p \notin Members(c)'
    BY <2>4, <2>5, DepartureChannels
  <2>9. /\ ChannelsPool[c].Peers \in Seq(PeerID)
        /\ p \in Range(ChannelsPool[c].Peers)
    BY <2>6, OpenChannel
  <2>10. \E i \in DOMAIN ChannelsPool[c].Peers :
           /\ ChannelsPool[c].Peers[i] = Head(Remaining(p, c))
           /\ \A j \in 1 .. i - 1 : ChannelsPool[c].Peers[j] = p
    BY <2>7, <2>9, EraseHead DEF Remaining
  <2>. QED  BY <2>5, <2>6, <2>7, <2>8, <2>10
<1>. QED  BY <1>1, Invariance, PTL DEF Spec, Succession
-----------------------------------------------------------------------------
(* Who is told what.                                                       *)

(* What a message is, and of which channel, peer and name it speaks.       *)
LEMMA Messages ==
  /\ \A c, d : Dropped(c) = Dropped(d) => c = d
  /\ \A c, d, p, x : PeerLeft(c, x) = PeerLeft(d, p) => c = d /\ x = p
  /\ \A c, d, p, x, m, k, n, o :
       PeerNamed(c, x, m, n) = PeerNamed(d, p, k, o) => c = d /\ x = p /\ n = o
  /\ \A c : Dropped(c).type = "Dropped" /\ Dropped(c).channel = c
  /\ \A c, x : PeerLeft(c, x).type = "PeerLeft" /\ PeerLeft(c, x).channel = c
  /\ \A c, x, m, n : /\ PeerNamed(c, x, m, n).type = "PeerNamed"
                     /\ PeerNamed(c, x, m, n).channel = c
  /\ \A b, n, c, r : /\ Joined(b, n, c, r).type = "Joined"
                     /\ Joined(b, n, c, r).channel = c
                     /\ Joined(b, n, c, r).peers = r
  /\ \A c, x : ChannelMessage(c, x).type = "ChannelMessage" /\ ChannelMessage(c, x).channel = c
  /\ \A c, x : PeerMessage(c, x).type = "PeerMessage" /\ PeerMessage(c, x).channel = c
  /\ \A p : Welcome(p).type = "Connected"
  /\ \A ok, n : NameReply(ok, n).type = "NameReply"
  /\ \A n : JoinDenied(n).type = "JoinDenied"
  /\ \A c : LeaveDenied(c).type = "LeaveDenied"
  /\ ListDenied.type = "ListDenied"
  /\ \A e : ChannelList(e).type = "ChannelList"
<1>1. \A c, d : Dropped(c) = Dropped(d) => c = d
  BY DEF Dropped
<1>2. \A c, d, p, x : PeerLeft(c, x) = PeerLeft(d, p) => c = d /\ x = p
  BY DEF PeerLeft
<1>3. \A c, d, p, x, m, k, n, o :
       PeerNamed(c, x, m, n) = PeerNamed(d, p, k, o) => c = d /\ x = p /\ n = o
  BY DEF PeerNamed
<1>. QED  BY <1>1, <1>2, <1>3 DEF Dropped, PeerLeft, PeerNamed, Joined, ChannelMessage,
          PeerMessage, Welcome, NameReply, JoinDenied, LeaveDenied, ListDenied, ChannelList

LEMMA OnlyOne ==
  \A p, q \in PeerID : \A m : m \in Only(p, m)[p] /\ \A k \in Only(p, m)[q] : k = m /\ q = p
  BY DEF Only, Nothing

(* Who enters a channel gets its roster, and those in it hear of the newcomer. *)
LEMMA EnterHeard ==
  ASSUME NEW p, NEW n, EnterChannel(p, n), NEW c, c = ChannelNames[n], NEW q \in PeerID
  PROVE  \A m : m \in sent'[q] <=>
           \/ q = p /\ m = Joined(FALSE, n, c, Roster(c))
           \/ q # p /\ q \in Members(c) /\ m = PeerNamed(c, p, FALSE, PeersPool[p].Name)
<1>1. sent'[q] = IF q = p THEN {Joined(FALSE, n, c, Roster(c))}
                 ELSE IF q \in Members(c) THEN {PeerNamed(c, p, FALSE, PeersPool[p].Name)}
                 ELSE {}
  BY DEF EnterChannel
<1>. QED  BY <1>1

(* Those who stay hear of a departure for each channel they shared.        *)
LEMMA DepartureHeard ==
  ASSUME NEW p, NEW cs, Departs(p, cs), NEW q \in PeerID, q # p, NEW c
  PROVE  /\ Dropped(c) \in sent'[q] <=> c \in cs /\ q \in Members(c) /\ Closes(p, c)
         /\ \A x : PeerLeft(c, x) \in sent'[q]
                     <=> x = p /\ c \in cs /\ q \in Members(c) /\ ~Closes(p, c)
         /\ \A m \in sent'[q] : \E d \in cs : /\ q \in Members(d)
                                            /\ m \in {Dropped(d), PeerLeft(d, p)}
<1>1. sent'[q] = DepartureNotices(p, cs, q)
  BY DEF Departs
<1>2. \A m : m \in sent'[q] <=>
        \E d \in cs : q \in Members(d) /\ m = IF Closes(p, d) THEN Dropped(d) ELSE PeerLeft(d, p)
  BY <1>1 DEF DepartureNotices
<1>3. \A d, e, x : Dropped(d) # PeerLeft(e, x)
  BY Messages
<1>. QED  BY <1>2, <1>3, Messages

(* What is said about a channel in a step that moves nobody is said to     *)
(* those who are in it.                                                    *)
LEMMA QuietDiscreet ==
  ASSUME IInv, Quiet, NEW q \in PeerID, NEW m \in sent'[q],
         m.type \in {"PeerLeft", "PeerNamed", "Joined", "Dropped", "ChannelMessage", "PeerMessage"}
  PROVE  m.channel \in DOMAIN ChannelsPool /\ q \in Members(m.channel)
<1>0. DOMAIN PeersPool \subseteq PeerID
  BY DEF IInv, TypeOK
<1>1. ASSUME NEW p \in PeerID, Connect(p)  PROVE FALSE
  <2>1. m = Welcome(p)
    BY <1>1, OnlyOne DEF Connect
  <2>. QED  BY <2>1, Messages
<1>2. ASSUME NEW p \in DOMAIN PeersPool, NEW n, SetName(p, n)
      PROVE  m.channel \in DOMAIN ChannelsPool /\ q \in Members(m.channel)
  <2>1. CASE n = PeersPool[p].Name
    <3>1. sent' = Only(p, NameReply(TRUE, n))
      BY <1>2, <2>1 DEF SetName
    <3>2. m = NameReply(TRUE, n)
      BY <1>0, <3>1, OnlyOne
    <3>. QED  BY <3>2, Messages
  <2>2. CASE n # PeersPool[p].Name
    <3>1. PICK k \in Accepted(n) : sent' = [r \in PeerID |-> IF r = p THEN {NameReply(TRUE, k)}
                                                           ELSE RenameNotices(p, k, r)]
      BY <1>2, <2>2 DEF SetName
    <3>2. m \in RenameNotices(p, k, q)
      <4>1. m # NameReply(TRUE, k)
        BY DEF NameReply
      <4>. QED  BY <3>1, <4>1
    <3>3. PICK c \in PeersPool[p].Channels :
            q \in Members(c) /\ m = PeerNamed(c, p, ChannelsPool[c].Master = p, k)
      BY <3>2 DEF RenameNotices
    <3>4. c \in DOMAIN ChannelsPool
      BY <1>2 DEF IInv, MembershipSymmetric
    <3>. QED  BY <3>3, <3>4, Messages
  <2>. QED  BY <2>1, <2>2
<1>3. ASSUME NEW p \in DOMAIN PeersPool, Replies(p)
      PROVE  m.channel \in DOMAIN ChannelsPool /\ q \in Members(m.channel)
  <2>1. ASSUME NEW n, DenyNameChange(p, n)  PROVE FALSE
    <3>1. m = NameReply(FALSE, n)
      BY <1>0, <2>1, OnlyOne DEF DenyNameChange
    <3>. QED  BY <3>1, Messages
  <2>2. ASSUME NEW n, DenyChannelJoin(p, n)  PROVE FALSE
    <3>1. m = JoinDenied(n)
      BY <1>0, <2>2, OnlyOne DEF DenyChannelJoin
    <3>. QED  BY <3>1, Messages
  <2>3. ASSUME NEW c, DenyChannelLeave(p, c)  PROVE FALSE
    <3>1. m = LeaveDenied(c)
      BY <1>0, <2>3, OnlyOne DEF DenyChannelLeave
    <3>. QED  BY <3>1, Messages
  <2>4. ASSUME ListChannels(p)  PROVE FALSE
    <3>1. m = ListDenied \/ \E e : m = ChannelList(e)
      BY <1>0, <2>4, OnlyOne DEF ListChannels
    <3>. QED  BY <3>1, Messages
  <2>5. ASSUME NEW c, SendToChannel(p, c)
        PROVE  m.channel \in DOMAIN ChannelsPool /\ q \in Members(m.channel)
    <3>1. c \in PeersPool[p].Channels /\ q \in Members(c) /\ m = ChannelMessage(c, p)
      BY <2>5 DEF SendToChannel, IsInChannel
    <3>2. c \in DOMAIN ChannelsPool
      BY <3>1 DEF IInv, MembershipSymmetric
    <3>. QED  BY <3>1, <3>2, Messages
  <2>6. ASSUME NEW c, NEW r, SendToPeer(p, c, r)
        PROVE  m.channel \in DOMAIN ChannelsPool /\ q \in Members(m.channel)
    <3>1. /\ r \in DOMAIN PeersPool /\ c \in PeersPool[r].Channels
          /\ m = PeerMessage(c, p) /\ q = r
      BY <1>0, <2>6, OnlyOne DEF SendToPeer, IsInChannel
    <3>2. c \in DOMAIN ChannelsPool /\ r \in Members(c)
      BY <3>1 DEF IInv, MembershipSymmetric
    <3>. QED  BY <3>1, <3>2, Messages
  <2>. QED  BY <1>3, <2>1, <2>2, <2>3, <2>4, <2>5, <2>6 DEF Replies
<1>. QED  BY <1>1, <1>2, <1>3 DEF Quiet

(* Nobody is told about a channel that it neither was in nor is in.        *)
THEOREM ServerIsDiscreet == Spec => Discreet
<1>. DEFINE Channelled ==
       {"PeerLeft", "PeerNamed", "Joined", "Dropped", "ChannelMessage", "PeerMessage"}
            Step ==
       \A q \in PeerID : \A m \in sent'[q] :
         m.type \in Channelled =>
           \/ m.channel \in DOMAIN ChannelsPool /\ q \in Members(m.channel)
           \/ m.channel \in DOMAIN ChannelsPool' /\ q \in Members(m.channel)'
<1>1. IInv /\ Next => Step
  <2>. DEFINE Was(c, q) == c \in DOMAIN ChannelsPool /\ q \in Members(c)
              Is(c, q) == c \in DOMAIN ChannelsPool' /\ q \in Members(c)'
  <2>. SUFFICES ASSUME IInv, Next, NEW q \in PeerID, NEW m \in sent'[q], m.type \in Channelled,
                       NEW c, c = m.channel
                PROVE  Was(c, q) \/ Is(c, q)
    OBVIOUS
  <2>0. DOMAIN PeersPool \subseteq PeerID
    BY DEF IInv, TypeOK
  <2>1. CASE Quiet
    BY <2>1, QuietDiscreet
  <2>2. ASSUME NEW p \in DOMAIN PeersPool, NEW n, NEW hide, NEW close,
               CreateChannel(p, n, hide, close)
        PROVE  Is(c, q)
    <3>0. PICK d : Creates(p, n, hide, close, d)
      BY <2>2, CreateCreates
    <3>1. Is(d, p)
      BY <3>0, CreatedChannel
    <3>2. m = Joined(TRUE, n, d, {}) /\ q = p
      BY <2>0, <3>0, OnlyOne DEF Creates
    <3>3. c = d
      BY <3>2 DEF Joined
    <3>. QED  BY <3>1, <3>2, <3>3
  <2>3. ASSUME NEW p \in DOMAIN PeersPool, NEW n, EnterChannel(p, n)
        PROVE  Was(c, q) \/ Is(c, q)
    <3>1. PICK d : d = ChannelNames[n]
      OBVIOUS
    <3>2. d \in DOMAIN ChannelsPool /\ Is(d, p)
      BY <2>3, <3>1, EnterChannels
    <3>3. CASE q = p
      <4>1. m = Joined(FALSE, n, d, Roster(d))
        BY <2>3, <3>1, <3>3, EnterHeard
      <4>2. c = d
        BY <4>1 DEF Joined
      <4>. QED  BY <3>2, <3>3, <4>2
    <3>4. CASE q # p
      <4>1. q \in Members(d) /\ m = PeerNamed(d, p, FALSE, PeersPool[p].Name)
        BY <2>3, <3>1, <3>4, EnterHeard
      <4>2. c = d
        BY <4>1 DEF PeerNamed
      <4>. QED  BY <3>2, <4>1, <4>2
    <3>. QED  BY <3>3, <3>4
  <2>4. ASSUME NEW p, NEW cs, Departs(p, cs), q # p
        PROVE  Was(c, q)
    <3>1. PICK d \in cs : q \in Members(d) /\ m \in {Dropped(d), PeerLeft(d, p)}
      BY <2>4, DepartureHeard
    <3>2. d \in DOMAIN ChannelsPool
      BY <2>4 DEF Departs
    <3>. QED  BY <3>1, <3>2, Messages
  <2>5. ASSUME NEW p \in DOMAIN PeersPool, NEW d, LeaveChannel(p, d), q = p
        PROVE  Was(c, q)
    <3>1. m = Dropped(d) /\ d \in DOMAIN ChannelsPool /\ p \in Members(d)
      BY <2>5, LeaveDeparts DEF Departs
    <3>. QED  BY <2>5, <3>1, Messages
  <2>6. ASSUME NEW p \in DOMAIN PeersPool, NEW d, LeaveChannel(p, d)
        PROVE  Was(c, q)
    BY <2>4, <2>5, <2>6, LeaveDeparts, Zenon
  <2>7. ASSUME NEW p \in DOMAIN PeersPool, DropPeer(p)
        PROVE  Was(c, q)
    <3>1. Departs(p, PeersPool[p].Channels) /\ q # p
      BY <2>7, DropDeparts
    <3>. QED  BY <2>4, <3>1
  <2>. QED  BY <2>1, <2>2, <2>3, <2>6, <2>7, StepKinds
<1>. QED  BY <1>1, Invariance, PTL DEF Spec, Discreet

-----------------------------------------------------------------------------
(* Notices.                                                                *)

Was(q, c) == c \in DOMAIN ChannelsPool /\ q \in Members(c)
Is(q, c) == c \in DOMAIN ChannelsPool' /\ q \in Members(c)'

(* x is new to those in channel c, or has a new name.                      *)
News(x, c) == x \notin Members(c) \/ PeersPool'[x].Name # PeersPool[x].Name

Hears(q, c, x) == \E m \in BOOLEAN : PeerNamed(c, x, m, PeersPool'[x].Name) \in sent'[q]

IsJoined(m, c) == m.type = "Joined" /\ m.channel = c

(* What NoticesExact says of peer q and channel c, peer by peer.           *)
Exact(q, c) ==
  /\ Dropped(c) \in sent'[q] <=> Was(q, c) /\ ~Is(q, c)
  /\ \A x : PeerLeft(c, x) \in sent'[q] <=>
             Was(q, c) /\ Is(q, c) /\ x \in Members(c) /\ x \notin Members(c)'
  /\ \A x \in DOMAIN PeersPool' : Hears(q, c, x) <=>
             Was(q, c) /\ Is(q, c) /\ x \in Members(c)' /\ x # q /\ News(x, c)
  /\ (\E m \in sent'[q] : IsJoined(m, c)) <=> Is(q, c) /\ ~Was(q, c)
  /\ \A m \in sent'[q] : IsJoined(m, c) => {e.id : e \in m.peers} = Members(c)' \ {q}

NoticeKinds == {"Dropped", "PeerLeft", "PeerNamed", "Joined"}

(* Notices are exact where nobody enters or leaves, nobody else takes a    *)
(* name, and no notice is sent.                                            *)
LEMMA SilenceIsExact ==
  ASSUME IInv, NEW q, NEW c,
         c \in DOMAIN ChannelsPool <=> c \in DOMAIN ChannelsPool',
         c \in DOMAIN ChannelsPool => Members(c)' = Members(c),
         \A x \in DOMAIN PeersPool \cap DOMAIN PeersPool' :
           x # q => PeersPool'[x].Name = PeersPool[x].Name,
         \A m \in sent'[q] : m.type \in NoticeKinds => m.channel # c
  PROVE  Exact(q, c)
<1>1. Was(q, c) <=> Is(q, c)
  BY DEF Was, Is
<1>2. /\ Dropped(c) \notin sent'[q]
      /\ \A x : PeerLeft(c, x) \notin sent'[q]
      /\ \A x, m, n : PeerNamed(c, x, m, n) \notin sent'[q]
      /\ \A m \in sent'[q] : ~IsJoined(m, c)
  BY Messages DEF NoticeKinds, IsJoined
<1>3. ASSUME NEW x \in DOMAIN PeersPool', Is(q, c), x \in Members(c)', x # q
      PROVE  ~News(x, c)
  <2>1. c \in DOMAIN ChannelsPool /\ x \in Members(c)
    BY <1>3 DEF Is
  <2>2. x \in DOMAIN PeersPool
    BY <2>1, OpenChannel
  <2>. QED  BY <1>3, <2>1, <2>2 DEF News
<1>4. \A x : x \in Members(c) /\ Was(q, c) => x \in Members(c)'
  BY DEF Was
<1>. QED  BY <1>1, <1>2, <1>3, <1>4 DEF Exact, Hears

(* Answers, and what is passed on, are no notices.                         *)
LEMMA RepliesAreNoNotices ==
  ASSUME IInv, NEW p \in DOMAIN PeersPool, Replies(p), NEW q \in PeerID, NEW m \in sent'[q]
  PROVE  m.type \notin NoticeKinds
<1>0. p \in PeerID /\ DOMAIN PeersPool \subseteq PeerID
  BY DEF IInv, TypeOK
<1>1. ASSUME NEW n, DenyNameChange(p, n)  PROVE m.type = "NameReply"
  <2>1. m = NameReply(FALSE, n)
    BY <1>0, <1>1, OnlyOne DEF DenyNameChange
  <2>. QED  BY <2>1 DEF NameReply
<1>2. ASSUME NEW n, DenyChannelJoin(p, n)  PROVE m.type = "JoinDenied"
  <2>1. m = JoinDenied(n)
    BY <1>0, <1>2, OnlyOne DEF DenyChannelJoin
  <2>. QED  BY <2>1, Messages
<1>3. ASSUME NEW c, DenyChannelLeave(p, c)  PROVE m.type = "LeaveDenied"
  <2>1. m = LeaveDenied(c)
    BY <1>0, <1>3, OnlyOne DEF DenyChannelLeave
  <2>. QED  BY <2>1, Messages
<1>4. ASSUME ListChannels(p)  PROVE m.type \in {"ListDenied", "ChannelList"}
  <2>1. m = ListDenied \/ \E e : m = ChannelList(e)
    BY <1>0, <1>4, OnlyOne DEF ListChannels
  <2>. QED  BY <2>1, Messages
<1>5. ASSUME NEW c, SendToChannel(p, c)  PROVE m.type = "ChannelMessage"
  <2>1. m = ChannelMessage(c, p)
    BY <1>5 DEF SendToChannel
  <2>. QED  BY <2>1, Messages
<1>6. ASSUME NEW c, NEW r, SendToPeer(p, c, r)  PROVE m.type = "PeerMessage"
  <2>1. m = PeerMessage(c, p)
    BY <1>0, <1>6, OnlyOne DEF SendToPeer
  <2>. QED  BY <2>1, Messages
<1>. QED  BY <1>1, <1>2, <1>3, <1>4, <1>5, <1>6 DEF Replies, NoticeKinds

(* A new name is told to those who share a channel with its owner.  A name *)
(* the callback replaced could be the one the peer had before, and would   *)
(* then be told as if it were new.                                         *)
LEMMA SetNameIsExact ==
  ASSUME IInv, NameRewrites = {}, NEW p \in DOMAIN PeersPool, NEW n, SetName(p, n),
         NEW q \in DOMAIN PeersPool, NEW c
  PROVE  Exact(q, c)
<1>0. /\ p \in PeerID /\ q \in PeerID
      /\ UNCHANGED ChannelsPool /\ Members(c)' = Members(c)
  BY DEF SetName, IInv, TypeOK, Members
<1>1. CASE n = PeersPool[p].Name
  <2>1. sent' = Only(p, NameReply(TRUE, n)) /\ UNCHANGED PeersPool
    BY <1>1 DEF SetName
  <2>2. \A m \in sent'[q] : m.type = "NameReply"
    <3>1. \A m \in sent'[q] : m = NameReply(TRUE, n)
      BY <1>0, <2>1, OnlyOne
    <3>. QED  BY <3>1 DEF NameReply
  <2>. QED  BY <1>0, <2>1, <2>2, SilenceIsExact DEF NoticeKinds
<1>2. CASE n # PeersPool[p].Name
  <2>1. /\ PeersPool' = [PeersPool EXCEPT ![p].Name = n]
        /\ sent' = [r \in PeerID |-> IF r = p THEN {NameReply(TRUE, n)} ELSE RenameNotices(p, n, r)]
    BY <1>2 DEF SetName, Accepted
  <2>2. /\ DOMAIN PeersPool' = DOMAIN PeersPool
        /\ PeersPool'[p].Name = n
        /\ \A x \in DOMAIN PeersPool : x # p => PeersPool'[x].Name = PeersPool[x].Name
    BY <2>1 DEF IInv, TypeOK, Peer
  <2>3. CASE q = p
    <3>1. \A m \in sent'[q] : m.type = "NameReply"
      <4>1. sent'[q] = {NameReply(TRUE, n)}
        BY <1>0, <2>1, <2>3
      <4>. QED  BY <4>1 DEF NameReply
    <3>. QED  BY <1>0, <2>2, <2>3, <3>1, SilenceIsExact DEF NoticeKinds
  <2>4. CASE q # p
    <3>1. \A m : m \in sent'[q] <=>
            \E d \in PeersPool[p].Channels :
              q \in Members(d) /\ m = PeerNamed(d, p, ChannelsPool[d].Master = p, n)
      <4>1. sent'[q] = RenameNotices(p, n, q)
        BY <1>0, <2>1, <2>4
      <4>. QED  BY <2>4, <4>1 DEF RenameNotices
    <3>2. /\ Dropped(c) \notin sent'[q]
          /\ \A x : PeerLeft(c, x) \notin sent'[q]
          /\ \A m \in sent'[q] : ~IsJoined(m, c)
      <4>1. \A m \in sent'[q] : m.type = "PeerNamed"
        BY <3>1, Messages
      <4>. QED  BY <4>1, Messages DEF IsJoined
    <3>3. ASSUME NEW x \in DOMAIN PeersPool
          PROVE  Hears(q, c, x) <=> x = p /\ c \in PeersPool[p].Channels /\ q \in Members(c)
      <4>1. ASSUME Hears(q, c, x)
            PROVE  x = p /\ c \in PeersPool[p].Channels /\ q \in Members(c)
        <5>1. PICK k \in BOOLEAN, d \in PeersPool[p].Channels :
                /\ q \in Members(d)
                /\ PeerNamed(c, x, k, PeersPool'[x].Name)
                     = PeerNamed(d, p, ChannelsPool[d].Master = p, n)
          BY <3>1, <4>1 DEF Hears
        <5>. QED  BY <5>1 DEF PeerNamed
      <4>2. ASSUME x = p, c \in PeersPool[p].Channels, q \in Members(c)
            PROVE  Hears(q, c, x)
        <5>1. (ChannelsPool[c].Master = p) \in BOOLEAN
          OBVIOUS
        <5>2. PeerNamed(c, p, ChannelsPool[c].Master = p, n) \in sent'[q]
          BY <3>1, <4>2
        <5>. QED  BY <2>2, <4>2, <5>1, <5>2, Zenon DEF Hears
      <4>. QED  BY <4>1, <4>2
    <3>4. c \in PeersPool[p].Channels <=> c \in DOMAIN ChannelsPool /\ p \in Members(c)
      BY DEF IInv, MembershipSymmetric
    <3>5. c \in DOMAIN ChannelsPool => Members(c) \subseteq DOMAIN PeersPool
      BY OpenChannel
    <3>6. (Was(q, c) <=> Is(q, c)) /\ (Is(q, c) <=> c \in DOMAIN ChannelsPool /\ q \in Members(c))
      BY <1>0 DEF Was, Is
    <3>7. \A x \in DOMAIN PeersPool' : Hears(q, c, x) <=>
            Was(q, c) /\ Is(q, c) /\ x \in Members(c)' /\ x # q /\ News(x, c)
      BY <1>0, <1>2, <2>2, <2>4, <3>3, <3>4, <3>5, <3>6 DEF News
    <3>. QED  BY <1>0, <3>2, <3>6, <3>7 DEF Exact
  <2>. QED  BY <2>3, <2>4
<1>. QED  BY <1>1, <1>2

(* Who opens a channel is told that it is in it, and alone.                *)
LEMMA CreateIsExact ==
  ASSUME IInv, NEW p \in DOMAIN PeersPool, NEW n, NEW hide, NEW close,
         CreateChannel(p, n, hide, close), NEW q \in DOMAIN PeersPool, NEW c
  PROVE  Exact(q, c)
<1>0. PICK d : Creates(p, n, hide, close, d)
  BY CreateCreates
<1>1. /\ d \notin DOMAIN ChannelsPool
      /\ \A e : e \in DOMAIN ChannelsPool' <=> e \in DOMAIN ChannelsPool \/ e = d
      /\ Members(d)' = {p}
      /\ \A e \in DOMAIN ChannelsPool : Members(e)' = Members(e)
      /\ \A x \in DOMAIN PeersPool : PeersPool'[x].Name = PeersPool[x].Name
  BY <1>0, CreatedChannel
<1>2. p \in PeerID /\ q \in PeerID
  BY DEF IInv, TypeOK
<1>3. \A m : m \in sent'[q] <=> q = p /\ m = Joined(TRUE, n, d, {})
  BY <1>0, <1>2, OnlyOne DEF Creates
<1>4. \A m \in sent'[q] : m.type = "Joined" /\ m.channel = d /\ m.peers = {}
  BY <1>3 DEF Joined
<1>5. CASE c # d
  BY <1>1, <1>4, <1>5, SilenceIsExact
<1>6. CASE c = d
  <2>1. ~Was(q, c) /\ (Is(q, c) <=> q = p)
    BY <1>1, <1>6 DEF Was, Is
  <2>2. /\ Dropped(c) \notin sent'[q]
        /\ \A x : PeerLeft(c, x) \notin sent'[q]
        /\ \A x, m, k : PeerNamed(c, x, m, k) \notin sent'[q]
    BY <1>4, Messages
  <2>3. (\E m \in sent'[q] : IsJoined(m, c)) <=> q = p
    BY <1>3, <1>4, <1>6 DEF IsJoined
  <2>4. \A m \in sent'[q] : {e.id : e \in m.peers} = Members(c)' \ {q}
    BY <1>1, <1>3, <1>4, <1>6
  <2>. QED  BY <2>1, <2>2, <2>3, <2>4 DEF Exact, Hears
<1>. QED  BY <1>5, <1>6

(* Who enters a channel is told who is in it, and they are told of it.     *)
LEMMA EnterIsExact ==
  ASSUME IInv, NEW p \in DOMAIN PeersPool, NEW n, EnterChannel(p, n),
         NEW q \in DOMAIN PeersPool, NEW c
  PROVE  Exact(q, c)
<1>1. PICK d : d = ChannelNames[n]
  OBVIOUS
<1>2. /\ d \in DOMAIN ChannelsPool /\ p \notin Members(d)
      /\ DOMAIN ChannelsPool' = DOMAIN ChannelsPool
      /\ \A e \in DOMAIN ChannelsPool :
           Members(e)' = IF e = d THEN Members(e) \cup {p} ELSE Members(e)
      /\ \A x \in DOMAIN PeersPool : PeersPool'[x].Name = PeersPool[x].Name
  BY <1>1, EnterChannels
<1>3. p \in PeerID /\ q \in PeerID
  BY DEF IInv, TypeOK
<1>4. \A m : m \in sent'[q] <=>
        \/ q = p /\ m = Joined(FALSE, n, d, Roster(d))
        \/ q # p /\ q \in Members(d) /\ m = PeerNamed(d, p, FALSE, PeersPool[p].Name)
  <2>1. /\ q = p => sent'[q] = {Joined(FALSE, n, d, Roster(d))}
        /\ q # p => sent'[q] = IF q \in Members(d) THEN {PeerNamed(d, p, FALSE, PeersPool[p].Name)}
                               ELSE {}
    BY <1>1, <1>3 DEF EnterChannel
  <2>2. CASE q = p
    BY <2>1, <2>2
  <2>3. CASE q # p
    BY <2>1, <2>3
  <2>. QED  BY <2>2, <2>3
<1>5. \A m \in sent'[q] : m.channel = d
  BY <1>4 DEF Joined, PeerNamed
<1>6. CASE c # d
  BY <1>2, <1>5, <1>6, SilenceIsExact
<1>7. CASE c = d /\ q = p
  <2>1. ~Was(q, c) /\ Is(q, c)
    BY <1>2, <1>7 DEF Was, Is
  <2>2. \A m \in sent'[q] : m.type = "Joined" /\ m.channel = d /\ m.peers = Roster(d)
    BY <1>4, <1>7 DEF Joined
  <2>3. /\ Dropped(c) \notin sent'[q]
        /\ \A x : PeerLeft(c, x) \notin sent'[q]
        /\ \A x, m, k : PeerNamed(c, x, m, k) \notin sent'[q]
    BY <2>2, Messages
  <2>4. \E m \in sent'[q] : IsJoined(m, c)
    BY <1>4, <1>7, <2>2 DEF IsJoined
  <2>5. {e.id : e \in Roster(d)} = Members(d)
    <3>. DEFINE Entry(x) == [id |-> x, master |-> x = ChannelsPool[d].Master, name |-> PeersPool[x].Name]
    <3>1. \A e : e \in Roster(d) <=> \E x \in Members(d) : e = Entry(x)
      BY DEF Roster
    <3>2. \A x : Entry(x).id = x
      OBVIOUS
    <3>. HIDE DEF Entry
    <3>. QED  BY <3>1, <3>2
  <2>6. Members(c)' \ {q} = Members(d)
    BY <1>2, <1>7
  <2>. QED  BY <2>1, <2>2, <2>3, <2>4, <2>5, <2>6 DEF Exact, Hears
<1>8. CASE c = d /\ q # p
  <2>1. /\ Was(q, c) <=> q \in Members(d)
        /\ Is(q, c) <=> q \in Members(d)
        /\ \A x : x \in Members(c)' <=> x \in Members(d) \/ x = p
    BY <1>2, <1>8 DEF Was, Is
  <2>2. \A m \in sent'[q] : m.type = "PeerNamed"
    <3>1. \A m \in sent'[q] : m = PeerNamed(d, p, FALSE, PeersPool[p].Name)
      BY <1>4, <1>8
    <3>. QED  BY <3>1 DEF PeerNamed
  <2>3. /\ Dropped(c) \notin sent'[q]
        /\ \A x : PeerLeft(c, x) \notin sent'[q]
        /\ \A m \in sent'[q] : ~IsJoined(m, c)
    BY <2>2, Messages DEF IsJoined
  <2>4. ASSUME NEW x  PROVE Hears(q, c, x) <=> x = p /\ q \in Members(d)
    <3>1. ASSUME Hears(q, c, x)  PROVE x = p /\ q \in Members(d)
      <4>1. PICK k \in BOOLEAN : /\ q \in Members(d)
                                /\ PeerNamed(c, x, k, PeersPool'[x].Name)
                                     = PeerNamed(d, p, FALSE, PeersPool[p].Name)
        BY <1>4, <1>8, <3>1 DEF Hears
      <4>. QED  BY <4>1 DEF PeerNamed
    <3>2. ASSUME x = p, q \in Members(d)  PROVE Hears(q, c, x)
      <4>1. PeerNamed(d, p, FALSE, PeersPool[p].Name) \in sent'[q]
        BY <1>4, <1>8, <3>2
      <4>. QED  BY <1>2, <1>8, <3>2, <4>1, Zenon DEF Hears
    <3>. QED  BY <3>1, <3>2
  <2>5. \A x \in Members(d) : x \in DOMAIN PeersPool /\ x # p
    BY <1>2, OpenChannel
  <2>6. \A x \in DOMAIN PeersPool' : Hears(q, c, x) <=>
          Was(q, c) /\ Is(q, c) /\ x \in Members(c)' /\ x # q /\ News(x, c)
    BY <1>2, <1>8, <2>1, <2>4, <2>5 DEF News
  <2>. QED  BY <1>8, <2>1, <2>3, <2>6 DEF Exact
<1>. QED  BY <1>6, <1>7, <1>8

(* Those who stay behind are told who left, or that the channel is closed. *)
LEMMA DepartureIsExact ==
  ASSUME IInv, NEW p, NEW cs, Departs(p, cs),
         NEW q \in DOMAIN PeersPool \cap DOMAIN PeersPool', q # p, NEW c
  PROVE  Exact(q, c)
<1>1. /\ \A d : d \in DOMAIN ChannelsPool' <=> d \in DOMAIN ChannelsPool /\ d \notin ClosedBy(p, cs)
      /\ \A d \in DOMAIN ChannelsPool' :
           Members(d)' = IF d \in cs THEN Members(d) \ {p} ELSE Members(d)
  BY DepartureChannels
<1>2. /\ q \in PeerID /\ cs \subseteq DOMAIN ChannelsPool
      /\ \A d \in cs : p \in Members(d)
      /\ \A x \in DOMAIN PeersPool' : x \in DOMAIN PeersPool /\ PeersPool'[x].Name = PeersPool[x].Name
  BY DEF Departs, IInv, TypeOK
<1>3. \A d \in cs : d \in ClosedBy(p, cs) <=> Closes(p, d)
  BY DEF ClosedBy
<1>4. /\ Dropped(c) \in sent'[q] <=> c \in cs /\ q \in Members(c) /\ Closes(p, c)
      /\ \A x : PeerLeft(c, x) \in sent'[q]
                   <=> x = p /\ c \in cs /\ q \in Members(c) /\ ~Closes(p, c)
  BY <1>2, DepartureHeard
<1>5. \A m \in sent'[q] : m.type \in {"Dropped", "PeerLeft"} /\ m.channel \in cs
  <2>1. \A m \in sent'[q] : \E d \in cs : m \in {Dropped(d), PeerLeft(d, p)}
    BY <1>2, DepartureHeard
  <2>. QED  BY <2>1, Messages
<1>6. CASE c \notin cs
  <2>1. /\ c \in DOMAIN ChannelsPool <=> c \in DOMAIN ChannelsPool'
        /\ c \in DOMAIN ChannelsPool => Members(c)' = Members(c)
    BY <1>1, <1>6 DEF ClosedBy
  <2>. QED  BY <1>2, <1>5, <1>6, <2>1, SilenceIsExact
<1>7. CASE c \in cs
  <2>1. /\ Was(q, c) <=> q \in Members(c)
        /\ Is(q, c) <=> q \in Members(c) /\ ~Closes(p, c)
    BY <1>1, <1>2, <1>3, <1>7 DEF Was, Is
  <2>2. /\ \A x, m, n : PeerNamed(c, x, m, n) \notin sent'[q]
        /\ \A m \in sent'[q] : ~IsJoined(m, c)
    BY <1>5, Messages DEF IsJoined
  <2>3. ~Closes(p, c) => \A x : x \in Members(c)' <=> x \in Members(c) /\ x # p
    BY <1>1, <1>2, <1>3, <1>7
  <2>4. ~Closes(p, c) => \A x \in Members(c)' : x \in DOMAIN PeersPool' => ~News(x, c)
    BY <1>2, <2>3 DEF News
  <2>. QED  BY <1>2, <1>4, <1>7, <2>1, <2>2, <2>3, <2>4 DEF Exact, Hears
<1>. QED  BY <1>6, <1>7

(* And who asked to leave a channel is told that it is out.                *)
LEMMA LeaverIsExact ==
  ASSUME IInv, NEW p \in DOMAIN PeersPool, NEW d, LeaveChannel(p, d), NEW c
  PROVE  Exact(p, c)
<1>1. Departs(p, {d}) /\ \A m : m \in sent'[p] <=> m = Dropped(d)
  BY LeaveDeparts
<1>2. /\ \A e : e \in DOMAIN ChannelsPool' <=> e \in DOMAIN ChannelsPool /\ e \notin ClosedBy(p, {d})
      /\ \A e \in DOMAIN ChannelsPool' :
           Members(e)' = IF e \in {d} THEN Members(e) \ {p} ELSE Members(e)
  BY <1>1, DepartureChannels
<1>3. /\ d \in DOMAIN ChannelsPool /\ p \in Members(d)
      /\ \A x \in DOMAIN PeersPool' : x \in DOMAIN PeersPool /\ PeersPool'[x].Name = PeersPool[x].Name
  BY <1>1 DEF Departs
<1>4. \A m \in sent'[p] : m.type = "Dropped" /\ m.channel = d
  BY <1>1, Messages
<1>5. CASE c # d
  <2>1. /\ c \in DOMAIN ChannelsPool <=> c \in DOMAIN ChannelsPool'
        /\ c \in DOMAIN ChannelsPool => Members(c)' = Members(c)
    BY <1>2, <1>5 DEF ClosedBy
  <2>. QED  BY <1>3, <1>4, <1>5, <2>1, SilenceIsExact
<1>6. CASE c = d
  <2>1. Was(p, c) /\ ~Is(p, c)
    BY <1>2, <1>3, <1>6 DEF Was, Is
  <2>2. Dropped(c) \in sent'[p]
    BY <1>1, <1>6
  <2>3. /\ \A x : PeerLeft(c, x) \notin sent'[p]
        /\ \A x, m, n : PeerNamed(c, x, m, n) \notin sent'[p]
        /\ \A m \in sent'[p] : ~IsJoined(m, c)
    BY <1>4, Messages DEF IsJoined
  <2>. QED  BY <2>1, <2>2, <2>3 DEF Exact, Hears
<1>. QED  BY <1>5, <1>6

LEMMA StepIsExact ==
  ASSUME IInv, NameRewrites = {}, Next,
         NEW q \in DOMAIN PeersPool \cap DOMAIN PeersPool', NEW c
  PROVE  Exact(q, c)
<1>0. q \in PeerID /\ DOMAIN PeersPool \subseteq PeerID
  BY DEF IInv, TypeOK
<1>1. ASSUME NEW p \in PeerID, Connect(p)  PROVE Exact(q, c)
  <2>1. /\ UNCHANGED ChannelsPool /\ Members(c)' = Members(c)
        /\ \A x \in DOMAIN PeersPool : PeersPool'[x] = PeersPool[x]
    BY <1>1 DEF Connect, LowestFree, Members
  <2>2. \A m \in sent'[q] : m.type = "Connected"
    <3>1. \A m \in sent'[q] : m = Welcome(p)
      BY <1>0, <1>1, OnlyOne DEF Connect
    <3>. QED  BY <3>1, Messages
  <2>. QED  BY <2>1, <2>2, SilenceIsExact DEF NoticeKinds
<1>2. ASSUME NEW p \in DOMAIN PeersPool, NEW n, SetName(p, n)  PROVE Exact(q, c)
  BY <1>2, SetNameIsExact
<1>3. ASSUME NEW p \in DOMAIN PeersPool, Replies(p)  PROVE Exact(q, c)
  <2>1. /\ UNCHANGED <<PeersPool, ChannelsPool>> /\ Members(c)' = Members(c)
    BY <1>3 DEF Replies, DenyNameChange, DenyChannelJoin, DenyChannelLeave, SendToChannel,
            SendToPeer, ListChannels, Members
  <2>2. \A m \in sent'[q] : m.type \notin NoticeKinds
    BY <1>0, <1>3, RepliesAreNoNotices
  <2>. QED  BY <2>1, <2>2, SilenceIsExact
<1>4. ASSUME NEW p \in DOMAIN PeersPool, NEW n, NEW hide, NEW close, CreateChannel(p, n, hide, close)
      PROVE  Exact(q, c)
  BY <1>4, CreateIsExact
<1>5. ASSUME NEW p \in DOMAIN PeersPool, NEW n, EnterChannel(p, n)  PROVE Exact(q, c)
  BY <1>5, EnterIsExact
<1>6. ASSUME NEW p \in DOMAIN PeersPool, NEW d, LeaveChannel(p, d)  PROVE Exact(q, c)
  <2>1. CASE q = p
    BY <1>6, <2>1, LeaverIsExact
  <2>2. CASE q # p
    BY <1>6, <2>2, LeaveDeparts, DepartureIsExact
  <2>. QED  BY <2>1, <2>2
<1>7. ASSUME NEW p \in DOMAIN PeersPool, DropPeer(p)  PROVE Exact(q, c)
  BY <1>7, DropDeparts, DepartureIsExact
<1>. QED  BY <1>1, <1>2, <1>3, <1>4, <1>5, <1>6, <1>7, StepKinds, Zenon DEF Quiet

(* What a step tells each peer about each channel is exactly what the step *)
(* did there, as long as the NameSet callback replaces no name.            *)
THEOREM NoticesAreExact ==
  ASSUME NameRewrites = {}
  PROVE  Spec => NoticesExact
<1>. DEFINE Notices(q, c) ==
       LET was  == c \in DOMAIN ChannelsPool /\ q \in Members(c)
           is   == c \in DOMAIN ChannelsPool' /\ q \in Members(c)'
           gone == {x \in PeerID : PeerLeft(c, x) \in sent'[q]}
           new  == {x \in PeerID : \E m \in BOOLEAN :
                      /\ x \in DOMAIN PeersPool'
                      /\ PeerNamed(c, x, m, PeersPool'[x].Name) \in sent'[q]}
           told == {m \in sent'[q] : m.type = "Joined" /\ m.channel = c}
       IN  /\ Dropped(c) \in sent'[q] <=> was /\ ~is
           /\ gone = IF was /\ is THEN Members(c) \ Members(c)' ELSE {}
           /\ new = IF was /\ is
                    THEN {x \in Members(c)' \ {q} :
                            x \notin Members(c) \/ PeersPool'[x].Name # PeersPool[x].Name}
                    ELSE {}
           /\ told # {} <=> is /\ ~was
           /\ \A m \in told : {e.id : e \in m.peers} = Members(c)' \ {q}
            Step ==
       \A q \in DOMAIN PeersPool \cap DOMAIN PeersPool', c \in ChannelID : Notices(q, c)
<1>1. IInv /\ IInv' /\ Next => Step
  <2>. SUFFICES ASSUME IInv, IInv', Next,
                       NEW q \in DOMAIN PeersPool \cap DOMAIN PeersPool', NEW c \in ChannelID
                PROVE  Notices(q, c)
    OBVIOUS
  <2>1. Exact(q, c)
    BY StepIsExact
  <2>2. /\ Was(q, c) => Members(c) \subseteq PeerID
        /\ Is(q, c) => Members(c)' \subseteq DOMAIN PeersPool' /\ Members(c)' \subseteq PeerID
    BY DEF Was, Is, IInv, TypeOK, MembershipSymmetric
  <2>3. Dropped(c) \in sent'[q] <=> Was(q, c) /\ ~Is(q, c)
    BY <2>1 DEF Exact
  <2>4. {x \in PeerID : PeerLeft(c, x) \in sent'[q]}
          = IF Was(q, c) /\ Is(q, c) THEN Members(c) \ Members(c)' ELSE {}
    BY <2>1, <2>2 DEF Exact
  <2>5. {x \in PeerID : x \in DOMAIN PeersPool' /\ Hears(q, c, x)}
          = IF Was(q, c) /\ Is(q, c) THEN {x \in Members(c)' \ {q} : News(x, c)} ELSE {}
    BY <2>1, <2>2 DEF Exact
  <2>6. {x \in PeerID : \E m \in BOOLEAN :
           /\ x \in DOMAIN PeersPool'
           /\ PeerNamed(c, x, m, PeersPool'[x].Name) \in sent'[q]}
          = {x \in PeerID : x \in DOMAIN PeersPool' /\ Hears(q, c, x)}
    BY Zenon DEF Hears
  <2>7. /\ {m \in sent'[q] : IsJoined(m, c)} # {} <=> Is(q, c) /\ ~Was(q, c)
        /\ \A m \in {k \in sent'[q] : IsJoined(k, c)} : {e.id : e \in m.peers} = Members(c)' \ {q}
    BY <2>1 DEF Exact
  <2>. QED  BY <2>3, <2>4, <2>5, <2>6, <2>7, Zenon DEF Was, Is, News, IsJoined
<1>. QED  BY <1>1, Invariance, PTL DEF Spec, NoticesExact

-----------------------------------------------------------------------------
(* ChannelService.                                                         *)

(* What RoomsView makes of channel c.                                      *)
RoomOf(c) ==
  [members |-> Members(c), owner |-> ChannelsPool[c].Master,
   hidden |-> ChannelsPool[c].HideFromList, closing |-> ChannelsPool[c].CloseOnLeave]

LEMMA RoomFields ==
  \A c : /\ RoomOf(c).members = Members(c)
         /\ RoomOf(c).owner = ChannelsPool[c].Master
         /\ RoomOf(c).hidden = ChannelsPool[c].HideFromList
         /\ RoomOf(c).closing = ChannelsPool[c].CloseOnLeave
  BY DEF RoomOf

(* Replacing the members, or the owner, of a room.                         *)
LEMMA NewMembers ==
  ASSUME NEW m, NEW o, NEW h, NEW e, NEW x
  PROVE  [[members |-> m, owner |-> o, hidden |-> h, closing |-> e] EXCEPT !.members = x]
           = [members |-> x, owner |-> o, hidden |-> h, closing |-> e]
  OBVIOUS

LEMMA NewOwner ==
  ASSUME NEW m, NEW o, NEW h, NEW e, NEW x
  PROVE  [[members |-> m, owner |-> o, hidden |-> h, closing |-> e] EXCEPT !.owner = x]
           = [members |-> m, owner |-> x, hidden |-> h, closing |-> e]
  OBVIOUS

LEMMA MembersReplaced ==
  ASSUME NEW c, NEW x
  PROVE  [RoomOf(c) EXCEPT !.members = x]
           = [members |-> x, owner |-> ChannelsPool[c].Master,
              hidden |-> ChannelsPool[c].HideFromList, closing |-> ChannelsPool[c].CloseOnLeave]
<1>1. \E m, o, h, e : /\ m = Members(c)
                      /\ o = ChannelsPool[c].Master
                      /\ h = ChannelsPool[c].HideFromList
                      /\ e = ChannelsPool[c].CloseOnLeave
  OBVIOUS
<1>2. PICK m, o, h, e : /\ m = Members(c)
                        /\ o = ChannelsPool[c].Master
                        /\ h = ChannelsPool[c].HideFromList
                        /\ e = ChannelsPool[c].CloseOnLeave
  BY <1>1
<1>3. RoomOf(c) = [members |-> m, owner |-> o, hidden |-> h, closing |-> e]
  BY <1>2, Zenon DEF RoomOf
<1>4. [[members |-> m, owner |-> o, hidden |-> h, closing |-> e] EXCEPT !.members = x]
        = [members |-> x, owner |-> o, hidden |-> h, closing |-> e]
  BY NewMembers
<1>. QED  BY <1>2, <1>3, <1>4, Zenon

LEMMA NewMembersAndOwner ==
  ASSUME NEW r, NEW x, NEW y, NEW q, q = [r EXCEPT !.members = x]
  PROVE  [r EXCEPT !.members = x, !.owner = y] = [q EXCEPT !.owner = y]
  OBVIOUS

(* The rooms are the open channels, found by name.                         *)
ViewByName ==
  /\ \A n : n \in DOMAIN RoomsView <=> n \in DOMAIN ChannelNames
  /\ \A n \in DOMAIN RoomsView :
       /\ ChannelNames[n] \in DOMAIN ChannelsPool
       /\ ChannelsPool[ChannelNames[n]].Name = n
       /\ RoomsView[n] = RoomOf(ChannelNames[n])
  /\ RoomsView = [n \in DOMAIN RoomsView |-> RoomsView[n]]

LEMMA View == IInv => ViewByName
<1>. SUFFICES ASSUME IInv  PROVE ViewByName
  OBVIOUS
<1>1. \A n : n \in DOMAIN RoomsView <=> n \in DOMAIN ChannelNames
  BY DEF RoomsView, IInv, NamesIndexChannels
<1>2. \A n \in DOMAIN RoomsView : RoomsView[n] = RoomOf(ChannelNames[n])
  BY DEF RoomsView, RoomOf
<1>3. RoomsView = [n \in DOMAIN RoomsView |-> RoomsView[n]]
  BY DEF RoomsView
<1>. QED  BY <1>1, <1>2, <1>3 DEF IInv, NamesIndexChannels, ViewByName

LEMMA ViewAfter == IInv' => ViewByName'
  BY View, PTL

(* Opening a channel opens the room.                                       *)
LEMMA CreateOpens ==
  ASSUME IInv, IInv', NEW p \in DOMAIN PeersPool, NEW n \in ChannelName, NEW hide \in BOOLEAN,
         NEW close \in BOOLEAN, CreateChannel(p, n, hide, close)
  PROVE  Service!Open(p, n, hide, close)
<1>0. PICK c : Creates(p, n, hide, close, c)
  BY CreateCreates
<1>1. /\ ChannelsPool'[c].Master = p
      /\ ChannelsPool'[c].HideFromList = hide
      /\ ChannelsPool'[c].CloseOnLeave = close
      /\ Members(c)' = {p}
      /\ \A d \in DOMAIN ChannelsPool :
           ChannelsPool'[d] = ChannelsPool[d] /\ Members(d)' = Members(d)
      /\ n \notin DOMAIN ChannelNames
      /\ \A m : m \in DOMAIN ChannelNames' <=> m \in DOMAIN ChannelNames \/ m = n
      /\ ChannelNames'[n] = c
      /\ \A m \in DOMAIN ChannelNames : ChannelNames'[m] = ChannelNames[m]
  BY <1>0, CreatedChannel
<1>2. n \notin DOMAIN RoomsView
  BY <1>1, View DEF ViewByName
<1>3. \A m : m \in DOMAIN RoomsView' <=> m \in DOMAIN RoomsView \/ m = n
  BY <1>1, View, ViewAfter DEF ViewByName
<1>. DEFINE new == [members |-> {p}, owner |-> p, hidden |-> hide, closing |-> close]
<1>4. RoomsView'[n] = new
  <2>1. ChannelNames'[n] = c
    BY <1>1
  <2>2. RoomOf(c)' = new
    BY <1>1 DEF RoomOf
  <2>3. RoomsView'[n] = RoomOf(ChannelNames[n])'
    BY <1>3, ViewAfter DEF ViewByName
  <2>. QED  BY <2>1, <2>2, <2>3 DEF RoomOf
<1>5. \A m \in DOMAIN RoomsView : RoomsView'[m] = RoomsView[m]
  <2>1. TAKE m \in DOMAIN RoomsView
  <2>2. PICK d \in DOMAIN ChannelsPool : d = ChannelNames[m] /\ RoomsView[m] = RoomOf(d)
    BY View DEF ViewByName
  <2>3. ChannelNames'[m] = d
    BY <1>1, <1>2, <2>2, View DEF ViewByName
  <2>4. RoomOf(d)' = RoomOf(d)
    BY <1>1, <2>2 DEF RoomOf
  <2>5. RoomsView'[m] = RoomOf(ChannelNames[m])'
    BY <1>3, ViewAfter DEF ViewByName
  <2>. QED  BY <2>2, <2>3, <2>4, <2>5 DEF RoomOf
<1>6. RoomsView' = [s \in DOMAIN RoomsView \cup {n} |-> IF s = n THEN new ELSE RoomsView[s]]
  <2>1. RoomsView' = [s \in DOMAIN RoomsView' |-> RoomsView'[s]]
    BY ViewAfter DEF ViewByName
  <2>2. DOMAIN RoomsView' = DOMAIN RoomsView \cup {n}
    BY <1>3
  <2>. HIDE DEF new
  <2>. QED  BY <1>2, <1>4, <1>5, <2>1, <2>2
<1>. QED  BY <1>2, <1>6 DEF Service!Open

(* Entering a channel is entering the room.                                *)
LEMMA EnterEnters ==
  ASSUME IInv, IInv', NEW p \in DOMAIN PeersPool, NEW n, EnterChannel(p, n)
  PROVE  Service!Enter(p, n)
<1>1. PICK c : c = ChannelNames[n]
  OBVIOUS
<1>2. /\ c \in DOMAIN ChannelsPool /\ n \in DOMAIN ChannelNames /\ p \notin Members(c)
      /\ ChannelNames' = ChannelNames
      /\ \A d \in DOMAIN ChannelsPool :
           /\ Members(d)' = IF d = c THEN Members(d) \cup {p} ELSE Members(d)
           /\ ChannelsPool'[d].Master = ChannelsPool[d].Master
           /\ ChannelsPool'[d].HideFromList = ChannelsPool[d].HideFromList
           /\ ChannelsPool'[d].CloseOnLeave = ChannelsPool[d].CloseOnLeave
  BY <1>1, EnterChannels
<1>3. n \in DOMAIN RoomsView /\ RoomsView[n] = RoomOf(c)
  BY <1>1, <1>2, View DEF ViewByName
<1>4. DOMAIN RoomsView' = DOMAIN RoomsView
  BY <1>2, View, ViewAfter DEF ViewByName
<1>5. \A m \in DOMAIN RoomsView :
        RoomsView'[m] = IF m = n THEN [RoomsView[n] EXCEPT !.members = @ \cup {p}] ELSE RoomsView[m]
  <2>1. TAKE m \in DOMAIN RoomsView
  <2>2. PICK d \in DOMAIN ChannelsPool :
          d = ChannelNames[m] /\ ChannelsPool[d].Name = m /\ RoomsView[m] = RoomOf(d)
    BY View DEF ViewByName
  <2>3. RoomsView'[m] = RoomOf(d)'
    <3>1. RoomsView'[m] = RoomOf(ChannelNames[m])' /\ ChannelNames'[m] = d
      BY <1>2, <1>4, <2>2, ViewAfter DEF ViewByName
    <3>. QED  BY <3>1 DEF RoomOf
  <2>4. m = n <=> d = c
    BY <1>1, <1>2, <2>2 DEF IInv, NamesIndexChannels
  <2>5. CASE d = c
    <3>1. RoomOf(d)' = [members |-> Members(d) \cup {p}, owner |-> ChannelsPool[d].Master,
                        hidden |-> ChannelsPool[d].HideFromList,
                        closing |-> ChannelsPool[d].CloseOnLeave]
      BY <1>2, <2>5 DEF RoomOf
    <3>2. RoomOf(d)' = [RoomOf(d) EXCEPT !.members = Members(d) \cup {p}]
      <4>1. [RoomOf(d) EXCEPT !.members = Members(d) \cup {p}]
              = [members |-> Members(d) \cup {p}, owner |-> ChannelsPool[d].Master,
                 hidden |-> ChannelsPool[d].HideFromList, closing |-> ChannelsPool[d].CloseOnLeave]
        BY MembersReplaced
      <4>. QED  BY <3>1, <4>1, Zenon
    <3>3. RoomsView[n] = RoomOf(d)
      BY <2>2, <2>4, <2>5
    <3>4. RoomsView[n].members = Members(d)
      BY <3>3, RoomFields
    <3>5. RoomsView'[m] = [RoomsView[n] EXCEPT !.members = @ \cup {p}]
      BY <2>3, <3>2, <3>3, <3>4, Zenon
    <3>. QED  BY <2>4, <2>5, <3>5, Zenon
  <2>6. CASE d # c
    BY <1>2, <2>2, <2>3, <2>4, <2>6 DEF RoomOf
  <2>. QED  BY <2>5, <2>6
<1>6. RoomsView' = [RoomsView EXCEPT ![n].members = @ \cup {p}]
  <2>1. /\ RoomsView' = [m \in DOMAIN RoomsView' |-> RoomsView'[m]]
        /\ RoomsView = [m \in DOMAIN RoomsView |-> RoomsView[m]]
    BY View, ViewAfter DEF ViewByName
  <2>. QED  BY <1>3, <1>4, <1>5, <2>1
<1>. QED  BY <1>2, <1>3, <1>6 DEF Service!Enter, RoomOf

(* The rooms a departure leaves.                                           *)
Rooms(cs) == {ChannelsPool[c].Name : c \in cs}

(* A channel closes exactly when its room ends.                            *)
LEMMA ClosesEnds ==
  ASSUME IInv, NEW p \in PeerID, NEW c \in DOMAIN ChannelsPool, p \in Members(c)
  PROVE  /\ RoomsView[ChannelsPool[c].Name] = RoomOf(c)
         /\ Closes(p, c) <=> Service!Ends(p, ChannelsPool[c].Name)
<1>1. RoomsView[ChannelsPool[c].Name] = RoomOf(c)
  BY View, OpenChannel DEF ViewByName
<1>2. Remaining(p, c) = <<>> <=> Members(c) = {p}
  <2>1. /\ ChannelsPool[c].Peers \in Seq(PeerID)
        /\ Distinct(ChannelsPool[c].Peers)
        /\ Members(c) = Range(ChannelsPool[c].Peers)
    BY OpenChannel
  <2>2. Remaining(p, c) \in Seq(PeerID) /\ Range(Remaining(p, c)) = Members(c) \ {p}
    BY <2>1, EraseProperties DEF Remaining
  <2>3. Remaining(p, c) = <<>> <=> Range(Remaining(p, c)) = {}
    BY <2>2 DEF Range
  <2>4. Members(c) \ {p} = {} <=> Members(c) = {p}
    OBVIOUS
  <2>. QED  BY <2>2, <2>3, <2>4
<1>. QED  BY <1>1, <1>2 DEF Closes, Service!Ends, RoomOf

(* Leaving channels is leaving their rooms.                                *)
LEMMA DepartureDeparts ==
  ASSUME IInv, IInv', NEW p, NEW cs, Departs(p, cs)
  PROVE  Service!Depart(p, Rooms(cs))
<1>1. /\ \A c : c \in DOMAIN ChannelsPool' <=> c \in DOMAIN ChannelsPool /\ c \notin ClosedBy(p, cs)
      /\ \A c \in DOMAIN ChannelsPool' :
           /\ Members(c)' = IF c \in cs THEN Members(c) \ {p} ELSE Members(c)
           /\ ChannelsPool'[c].Name = ChannelsPool[c].Name
           /\ ChannelsPool'[c].HideFromList = ChannelsPool[c].HideFromList
           /\ ChannelsPool'[c].CloseOnLeave = ChannelsPool[c].CloseOnLeave
           /\ ChannelsPool'[c].Master
                = IF c \in cs THEN MasterAfter(p, c) ELSE ChannelsPool[c].Master
  BY DepartureChannels
<1>2. p \in PeerID /\ cs \subseteq DOMAIN ChannelsPool /\ \A c \in cs : p \in Members(c)
  BY DEF Departs
<1>3. \A c \in DOMAIN ChannelsPool :
        /\ ChannelsPool[c].Name \in DOMAIN RoomsView
        /\ RoomsView[ChannelsPool[c].Name] = RoomOf(c)
        /\ ChannelsPool[c].Name \in Rooms(cs) <=> c \in cs
  BY <1>2, View, OpenChannel DEF ViewByName, Rooms
<1>4. \A r \in DOMAIN RoomsView : \E c \in DOMAIN ChannelsPool : r = ChannelsPool[c].Name
  BY View DEF ViewByName
<1>5. \A r \in DOMAIN RoomsView' : \E c \in DOMAIN ChannelsPool' :
        r = ChannelsPool'[c].Name /\ ChannelNames'[r] = c /\ RoomsView'[r] = RoomOf(ChannelNames[r])'
  BY ViewAfter DEF ViewByName
<1>6. \A c \in DOMAIN ChannelsPool' : ChannelsPool'[c].Name \in DOMAIN RoomsView'
  <2>1. \A c \in DOMAIN ChannelsPool' : ChannelsPool'[c].Name \in DOMAIN ChannelNames'
    BY DEF IInv, NamesIndexChannels
  <2>. QED  BY <2>1, ViewAfter DEF ViewByName
<1>7. \A r \in Rooms(cs) : r \in DOMAIN RoomsView /\ p \in RoomsView[r].members
  <2>1. \A c \in cs : /\ ChannelsPool[c].Name \in DOMAIN RoomsView
                     /\ RoomsView[ChannelsPool[c].Name].members = Members(c)
    BY <1>2, <1>3, RoomFields
  <2>. QED  BY <1>2, <2>1 DEF Rooms
<1>8. DOMAIN RoomsView' = DOMAIN RoomsView \ {r \in Rooms(cs) : Service!Ends(p, r)}
  <2>1. ASSUME NEW c \in DOMAIN ChannelsPool
        PROVE  c \in ClosedBy(p, cs) <=>
                 ChannelsPool[c].Name \in Rooms(cs) /\ Service!Ends(p, ChannelsPool[c].Name)
    BY <1>2, <1>3, ClosesEnds DEF ClosedBy
  <2>2. ASSUME NEW r \in DOMAIN RoomsView'
        PROVE  r \in DOMAIN RoomsView /\ ~ (r \in Rooms(cs) /\ Service!Ends(p, r))
    <3>1. PICK c \in DOMAIN ChannelsPool' : r = ChannelsPool'[c].Name
      BY <1>5
    <3>2. c \in DOMAIN ChannelsPool /\ c \notin ClosedBy(p, cs) /\ r = ChannelsPool[c].Name
      BY <1>1, <3>1
    <3>. QED  BY <1>3, <2>1, <3>2
  <2>3. ASSUME NEW r \in DOMAIN RoomsView, ~ (r \in Rooms(cs) /\ Service!Ends(p, r))
        PROVE  r \in DOMAIN RoomsView'
    <3>1. PICK c \in DOMAIN ChannelsPool : r = ChannelsPool[c].Name
      BY <1>4
    <3>2. c \in DOMAIN ChannelsPool' /\ ChannelsPool'[c].Name = r
      BY <1>1, <2>1, <2>3, <3>1
    <3>. QED  BY <1>6, <3>2
  <2>. QED  BY <2>2, <2>3
<1>9. ASSUME NEW r \in DOMAIN RoomsView'
      PROVE  RoomsView'[r] \in IF r \in Rooms(cs) THEN Service!LeftBy(p, r) ELSE {RoomsView[r]}
  <2>1. PICK c \in DOMAIN ChannelsPool' :
          r = ChannelsPool'[c].Name /\ ChannelNames'[r] = c /\ RoomsView'[r] = RoomOf(ChannelNames[r])'
    BY <1>5
  <2>2. RoomsView'[r] = RoomOf(c)'
    BY <2>1 DEF RoomOf
  <2>3. c \in DOMAIN ChannelsPool /\ r = ChannelsPool[c].Name /\ RoomsView[r] = RoomOf(c)
    BY <1>1, <1>3, <2>1
  <2>4. CASE c \notin cs
    <3>1. RoomOf(c)' = RoomOf(c)
      BY <1>1, <2>4 DEF RoomOf
    <3>. QED  BY <1>3, <2>2, <2>3, <2>4, <3>1
  <2>5. CASE c \in cs
    <3>. DEFINE staying == Members(c) \ {p}
    <3>1. RoomOf(c)' = [members |-> staying, owner |-> MasterAfter(p, c),
                        hidden |-> ChannelsPool[c].HideFromList,
                        closing |-> ChannelsPool[c].CloseOnLeave]
      BY <1>1, <2>5 DEF RoomOf
    <3>2. MasterAfter(p, c) \in IF ChannelsPool[c].Master = p THEN staying ELSE {ChannelsPool[c].Master}
      <4>1. MasterAfter(p, c) \in Members(c)'
        BY <1>1, <2>5 DEF IInv, MasterPresent
      <4>2. MasterAfter(p, c) \in staying
        BY <1>1, <2>5, <4>1
      <4>. QED  BY <4>2 DEF MasterAfter
    <3>3. RoomOf(c)' = [RoomOf(c) EXCEPT !.members = staying, !.owner = MasterAfter(p, c)]
      <4>1. [RoomOf(c) EXCEPT !.members = staying]
              = [members |-> staying, owner |-> ChannelsPool[c].Master,
                 hidden |-> ChannelsPool[c].HideFromList, closing |-> ChannelsPool[c].CloseOnLeave]
        BY MembersReplaced
      <4>2. PICK left : left = [RoomOf(c) EXCEPT !.members = staying]
        OBVIOUS
      <4>3. [left EXCEPT !.owner = MasterAfter(p, c)]
              = [members |-> staying, owner |-> MasterAfter(p, c),
                 hidden |-> ChannelsPool[c].HideFromList, closing |-> ChannelsPool[c].CloseOnLeave]
        <5>1. left = [members |-> staying, owner |-> ChannelsPool[c].Master,
                      hidden |-> ChannelsPool[c].HideFromList,
                      closing |-> ChannelsPool[c].CloseOnLeave]
          BY <4>1, <4>2, Zenon
        <5>. QED  BY <5>1, NewOwner
      <4>4. [RoomOf(c) EXCEPT !.members = staying, !.owner = MasterAfter(p, c)]
              = [left EXCEPT !.owner = MasterAfter(p, c)]
        BY <4>2, NewMembersAndOwner
      <4>. QED  BY <3>1, <4>3, <4>4, Zenon
    <3>4. RoomOf(c).members = Members(c) /\ RoomOf(c).owner = ChannelsPool[c].Master
      BY DEF RoomOf
    <3>5. RoomsView'[r] \in Service!LeftBy(p, r)
      BY <2>2, <2>3, <3>2, <3>3, <3>4 DEF Service!LeftBy
    <3>. QED  BY <1>3, <2>3, <2>5, <3>5
  <2>. QED  BY <2>4, <2>5
<1>10. RoomsView' = [r \in DOMAIN RoomsView' |-> RoomsView'[r]]
  BY ViewAfter DEF ViewByName
<1>. QED  BY <1>7, <1>8, <1>9, <1>10 DEF Service!Depart

(* Every run of the server is a run of ChannelService, with the channels   *)
(* as rooms.                                                               *)
THEOREM RefinesChannelService == Spec => ImplementsChannelService
<1>1. Init => Service!Init
  BY DEF Init, Service!Init, RoomsView
<1>2. IInv /\ IInv' /\ [Next]_vars => [Service!Next]_RoomsView
  <2>. SUFFICES ASSUME IInv, IInv', [Next]_vars  PROVE [Service!Next]_RoomsView
    OBVIOUS
  <2>0. DOMAIN PeersPool \subseteq PeerID
    BY DEF IInv, TypeOK
  <2>1. CASE UNCHANGED <<ChannelsPool, ChannelNames>>
    BY <2>1 DEF RoomsView, Members
  <2>2. ASSUME NEW p \in DOMAIN PeersPool, NEW n \in ChannelName, NEW hide \in BOOLEAN,
               NEW close \in BOOLEAN, CreateChannel(p, n, hide, close)
        PROVE  Service!Next
    BY <2>0, <2>2, CreateOpens DEF Service!Next
  <2>3. ASSUME NEW p \in DOMAIN PeersPool, NEW n, EnterChannel(p, n)
        PROVE  Service!Next
    <3>1. n \in ChannelName
      BY <2>3 DEF EnterChannel, IInv, TypeOK
    <3>. QED  BY <2>0, <2>3, <3>1, EnterEnters DEF Service!Next
  <2>4. ASSUME NEW p \in DOMAIN PeersPool, NEW c, LeaveChannel(p, c)
        PROVE  Service!Next
    <3>1. Service!Depart(p, Rooms({c})) /\ Rooms({c}) = {ChannelsPool[c].Name}
      BY <2>4, LeaveDeparts, DepartureDeparts DEF Rooms
    <3>2. ChannelsPool[c].Name \in Service!RoomsOf(p)
      BY <3>1 DEF Service!Depart, Service!RoomsOf
    <3>. QED  BY <2>0, <3>1, <3>2 DEF Service!Next
  <2>5. ASSUME NEW p \in DOMAIN PeersPool, DropPeer(p)
        PROVE  Service!Next
    <3>. DEFINE cs == PeersPool[p].Channels
    <3>1. Service!Depart(p, Rooms(cs))
      BY <2>5, DropDeparts, DepartureDeparts
    <3>2. Rooms(cs) \subseteq Service!RoomsOf(p)
      BY <3>1 DEF Service!Depart, Service!RoomsOf
    <3>3. Service!RoomsOf(p) \subseteq Rooms(cs)
      <4>1. ASSUME NEW r \in DOMAIN RoomsView, p \in RoomsView[r].members
            PROVE  r \in Rooms(cs)
        <5>1. PICK c \in DOMAIN ChannelsPool : r = ChannelsPool[c].Name /\ RoomsView[r] = RoomOf(c)
          BY View DEF ViewByName
        <5>2. c \in cs
          BY <4>1, <5>1 DEF RoomOf, IInv, MembershipSymmetric
        <5>. QED  BY <5>1, <5>2 DEF Rooms
      <4>. QED  BY <4>1 DEF Service!RoomsOf
    <3>. HIDE DEF cs
    <3>4. Service!Depart(p, Service!RoomsOf(p))
      <4>1. Rooms(cs) = Service!RoomsOf(p)
        BY <3>2, <3>3
      <4>. QED  BY <3>1, <4>1
    <3>. QED  BY <2>0, <3>4 DEF Service!Next
  <2>6. CASE UNCHANGED vars
    BY <2>1, <2>6 DEF vars
  <2>7. CASE Next
    BY <2>1, <2>2, <2>3, <2>4, <2>5, <2>7, StepKinds, QuietChannels
  <2>. QED  BY <2>6, <2>7
<1>. QED  BY <1>1, <1>2, Invariance, PTL DEF Spec, ImplementsChannelService, Service!Spec
=============================================================================
