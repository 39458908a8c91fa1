------------------------- MODULE RelayServer_proofs -------------------------
(***************************************************************************)
(* Proofs about RelayServer, for every limit, every set of names and every *)
(* choice of callbacks.                                                    *)
(***************************************************************************)
EXTENDS RelayServer, TLAPS

-----------------------------------------------------------------------------
(* Vectors of ids.                                                         *)

Distinct(s) == \A i, j \in DOMAIN s : s[i] = s[j] => i = j

(* push_back adds its argument to what a vector holds.                     *)
LEMMA AppendRange ==
  ASSUME NEW S, NEW s \in Seq(S), NEW x \in S
  PROVE  /\ Append(s, x) \in Seq(S)
         /\ Range(Append(s, x)) = Range(s) \cup {x}
<1>1. Append(s, x) \in Seq(S) /\ DOMAIN Append(s, x) = 1 .. Len(s) + 1
  OBVIOUS
<1>2. \A i \in 1 .. Len(s) : Append(s, x)[i] = s[i]
  OBVIOUS
<1>3. Append(s, x)[Len(s) + 1] = x
  OBVIOUS
<1>4. DOMAIN s = 1 .. Len(s) /\ Len(s) \in Nat
  OBVIOUS
<1>. QED  BY <1>1, <1>2, <1>3, <1>4 DEF Range

(* push_back of a new element keeps the elements distinct.                 *)
LEMMA AppendDistinct ==
  ASSUME NEW S, NEW s \in Seq(S), NEW x \in S, Distinct(s), x \notin Range(s)
  PROVE  Distinct(Append(s, x))
<1>1. DOMAIN Append(s, x) = 1 .. Len(s) + 1
  OBVIOUS
<1>2. \A i \in 1 .. Len(s) : Append(s, x)[i] = s[i] /\ s[i] # x
  BY DEF Range
<1>3. Append(s, x)[Len(s) + 1] = x
  OBVIOUS
<1>4. DOMAIN s = 1 .. Len(s) /\ Len(s) \in Nat
  OBVIOUS
<1>. QED  BY <1>1, <1>2, <1>3, <1>4 DEF Distinct

(* Erase shortens a vector that holds its argument once by just that       *)
(* element.                                                                *)
LEMMA EraseProperties ==
  ASSUME NEW S, NEW s \in Seq(S), NEW x, Distinct(s)
  PROVE  /\ Erase(s, x) \in Seq(S)
         /\ Range(Erase(s, x)) = Range(s) \ {x}
         /\ Distinct(Erase(s, x))
<1>0. DOMAIN s = 1 .. Len(s) /\ Len(s) \in Nat /\ \A i \in 1 .. Len(s) : s[i] \in S
  OBVIOUS
<1>1. CASE x \notin Range(s)
  BY <1>1 DEF Erase
<1>2. CASE x \in Range(s)
  <2>. DEFINE k == CHOOSE j \in DOMAIN s : s[j] = x
              e == [j \in 1 .. Len(s) - 1 |-> IF j < k THEN s[j] ELSE s[j + 1]]
  <2>1. k \in DOMAIN s /\ s[k] = x
    BY <1>2 DEF Range
  <2>2. Erase(s, x) = e
    BY <1>2 DEF Erase
  <2>. HIDE DEF k
  <2>3. e \in Seq(S) /\ Len(e) = Len(s) - 1 /\ DOMAIN e = 1 .. Len(s) - 1
    BY <1>0, <2>1
  <2>4. Distinct(e)
    BY <1>0, <2>1, <2>3 DEF Distinct
  <2>5. Range(e) \subseteq Range(s) \ {x}
    <3>1. ASSUME NEW j \in 1 .. Len(s) - 1  PROVE  e[j] \in Range(s) /\ e[j] # x
      BY <1>0, <2>1 DEF Distinct, Range
    <3>. QED  BY <3>1, <2>3 DEF Range
  <2>6. Range(s) \ {x} \subseteq Range(e)
    <3>1. ASSUME NEW i \in DOMAIN s, s[i] # x  PROVE  s[i] \in Range(e)
      <4>1. CASE i < k
        <5>1. i \in DOMAIN e /\ e[i] = s[i]
          BY <1>0, <2>1, <2>3, <4>1
        <5>. QED  BY <5>1 DEF Range
      <4>2. CASE i > k
        <5>1. i - 1 \in DOMAIN e /\ e[i - 1] = s[i]
          BY <1>0, <2>1, <2>3, <4>2
        <5>. QED  BY <5>1 DEF Range
      <4>. QED  BY <4>1, <4>2, <2>1, <1>0, <3>1
    <3>. QED  BY <3>1 DEF Range
  <2>. QED  BY <2>2, <2>3, <2>4, <2>5, <2>6
<1>. QED  BY <1>1, <1>2

-----------------------------------------------------------------------------
(* The inductive invariant.  The two directions of membership, the masters *)
(* and the index of names hold each other up: MasterPresent needs that a   *)
(* channel left empty is closed, which Closes tells from Peers alone, and  *)
(* NamesIndexChannels needs that what is closed was open under its name.   *)

IInv ==
  /\ TypeOK
  /\ MembershipSymmetric
  /\ MembersDistinct
  /\ MasterPresent
  /\ NamesIndexChannels

(* What IInv says of one open channel, in the words the lemmas use.        *)
LEMMA OpenChannel ==
  ASSUME IInv, NEW c \in DOMAIN ChannelsPool
  PROVE  /\ c \in ChannelID
         /\ ChannelsPool[c] \in Channel
         /\ ChannelsPool[c].Peers \in Seq(PeerID)
         /\ Distinct(ChannelsPool[c].Peers)
         /\ Members(c) = Range(ChannelsPool[c].Peers)
         /\ Members(c) \subseteq DOMAIN PeersPool
         /\ ChannelsPool[c].Master \in Members(c)
         /\ ChannelsPool[c].Name \in DOMAIN ChannelNames
         /\ ChannelNames[ChannelsPool[c].Name] = c
  BY DEF IInv, TypeOK, Channel, MembersDistinct, Distinct, Members, MembershipSymmetric,
         MasterPresent, NamesIndexChannels

(* What is left of a channel that stays open after one of its peers left.  *)
LEMMA ChannelAfter ==
  ASSUME IInv, NEW p \in PeerID, NEW cs \in SUBSET DOMAIN ChannelsPool,
         NEW c \in DOMAIN ChannelsPool \ ClosedBy(p, cs)
  PROVE  LET after == ChannelsWithout(p, cs)[c]
         IN  /\ after \in Channel
             /\ after.Name = ChannelsPool[c].Name
             /\ Distinct(after.Peers)
             /\ Range(after.Peers) = IF c \in cs THEN Members(c) \ {p} ELSE Members(c)
             /\ after.Master \in Range(after.Peers)
<1>1. /\ ChannelsPool[c] \in Channel
      /\ ChannelsPool[c].Peers \in Seq(PeerID)
      /\ Distinct(ChannelsPool[c].Peers)
      /\ Members(c) = Range(ChannelsPool[c].Peers)
      /\ ChannelsPool[c].Master \in Members(c)
  BY OpenChannel
<1>2. CASE c \notin cs
  BY <1>1, <1>2 DEF ChannelsWithout
<1>3. CASE c \in cs
  <2>. DEFINE rest == Remaining(p, c)
  <2>1. rest \in Seq(PeerID) /\ Range(rest) = Members(c) \ {p} /\ Distinct(rest)
    BY <1>1, EraseProperties DEF Remaining
  <2>2. rest # <<>>
    BY <1>3 DEF ClosedBy, Closes
  <2>3. Head(rest) \in PeerID /\ Head(rest) \in Range(rest)
    BY <2>1, <2>2 DEF Range
  <2>4. MasterAfter(p, c) \in Range(rest)
    BY <1>1, <2>1, <2>3 DEF MasterAfter
  <2>5. MasterAfter(p, c) \in PeerID
    BY <2>1, <2>4 DEF Range
  <2>6. ChannelsWithout(p, cs)[c]
          = [ChannelsPool[c] EXCEPT !.Peers = rest, !.Master = MasterAfter(p, c)]
    BY <1>3 DEF ChannelsWithout
  <2>. HIDE DEF rest
  <2>7. /\ ChannelsWithout(p, cs)[c] \in Channel
        /\ ChannelsWithout(p, cs)[c].Name = ChannelsPool[c].Name
        /\ ChannelsWithout(p, cs)[c].Peers = rest
        /\ ChannelsWithout(p, cs)[c].Master = MasterAfter(p, c)
    BY <1>1, <2>1, <2>5, <2>6 DEF Channel
  <2>. QED  BY <1>3, <2>1, <2>4, <2>7
<1>. QED  BY <1>2, <1>3

(* Everything about channels that survives a departure, whoever leaves     *)
(* which channels.                                                         *)
LEMMA Departure ==
  ASSUME IInv, NEW p \in PeerID, NEW cs \in SUBSET DOMAIN ChannelsPool,
         ChannelsPool' = ChannelsWithout(p, cs),
         ChannelNames' = NamesWithout(ClosedBy(p, cs))
  PROVE  /\ DOMAIN ChannelsPool' = DOMAIN ChannelsPool \ ClosedBy(p, cs)
         /\ DOMAIN ChannelsPool' \subseteq ChannelID
         /\ ChannelsPool' \in [DOMAIN ChannelsPool' -> Channel]
         /\ \A c \in DOMAIN ChannelsPool' :
              Members(c)' = IF c \in cs THEN Members(c) \ {p} ELSE Members(c)
         /\ DOMAIN ChannelNames' \subseteq ChannelName
         /\ ChannelNames' \in [DOMAIN ChannelNames' -> ChannelID]
         /\ MembersDistinct'
         /\ MasterPresent'
         /\ NamesIndexChannels'
<1>1. /\ DOMAIN ChannelsPool' = DOMAIN ChannelsPool \ ClosedBy(p, cs)
      /\ ChannelsPool' = [c \in DOMAIN ChannelsPool' |-> ChannelsPool'[c]]
  BY DEF ChannelsWithout
<1>2. \A c \in DOMAIN ChannelsPool' :
        /\ ChannelsPool'[c] \in Channel
        /\ ChannelsPool'[c].Name = ChannelsPool[c].Name
        /\ Distinct(ChannelsPool'[c].Peers)
        /\ Range(ChannelsPool'[c].Peers) = IF c \in cs THEN Members(c) \ {p} ELSE Members(c)
        /\ ChannelsPool'[c].Master \in Range(ChannelsPool'[c].Peers)
  BY <1>1, ChannelAfter
<1>3. MembersDistinct' /\ MasterPresent'
  BY <1>2 DEF MembersDistinct, MasterPresent, Distinct, Members
<1>4. /\ DOMAIN ChannelNames' = DOMAIN ChannelNames \ {ChannelsPool[c].Name : c \in ClosedBy(p, cs)}
      /\ ChannelNames' = [n \in DOMAIN ChannelNames' |-> ChannelNames[n]]
  BY DEF NamesWithout
<1>5. NamesIndexChannels'
  <2>1. ASSUME NEW n \in DOMAIN ChannelNames'
        PROVE  ChannelNames'[n] \in DOMAIN ChannelsPool' /\ ChannelsPool'[ChannelNames'[n]].Name = n
    <3>1. ChannelNames[n] \in DOMAIN ChannelsPool /\ ChannelsPool[ChannelNames[n]].Name = n
      BY <1>4 DEF IInv, NamesIndexChannels
    <3>2. ChannelNames[n] \notin ClosedBy(p, cs)
      BY <1>4, <3>1
    <3>. QED  BY <1>1, <1>2, <1>4, <3>1, <3>2
  <2>2. ASSUME NEW c \in DOMAIN ChannelsPool'
        PROVE  ChannelsPool'[c].Name \in DOMAIN ChannelNames' /\ ChannelNames'[ChannelsPool'[c].Name] = c
    <3>1. ChannelsPool[c].Name \in DOMAIN ChannelNames /\ ChannelNames[ChannelsPool[c].Name] = c
      BY <1>1, OpenChannel
    <3>2. ChannelsPool[c].Name \notin {ChannelsPool[d].Name : d \in ClosedBy(p, cs)}
      <4>1. SUFFICES ASSUME NEW d \in ClosedBy(p, cs), ChannelsPool[d].Name = ChannelsPool[c].Name
                     PROVE  FALSE
        OBVIOUS
      <4>2. d \in DOMAIN ChannelsPool
        BY DEF ClosedBy
      <4>3. ChannelNames[ChannelsPool[d].Name] = d
        BY <4>2, OpenChannel
      <4>. QED  BY <1>1, <3>1, <4>1, <4>3
    <3>. QED  BY <1>2, <1>4, <3>1, <3>2
  <2>. QED  BY <2>1, <2>2 DEF NamesIndexChannels
<1>6. /\ DOMAIN ChannelNames' \subseteq ChannelName
      /\ ChannelNames' \in [DOMAIN ChannelNames' -> ChannelID]
  BY <1>4 DEF IInv, TypeOK
<1>. QED  BY <1>1, <1>2, <1>3, <1>5, <1>6 DEF IInv, TypeOK, Members

(* What changes a peer's name, or only writes to sockets, leaves the       *)
(* membership as it is.                                                    *)
LEMMA MembershipUntouched ==
  ASSUME IInv, DOMAIN sent' = PeerID,
         UNCHANGED <<ChannelsPool, ChannelNames>>,
         DOMAIN PeersPool' = DOMAIN PeersPool,
         PeersPool' \in [DOMAIN PeersPool' -> Peer],
         \A q \in DOMAIN PeersPool : PeersPool'[q].Channels = PeersPool[q].Channels
  PROVE  IInv'
  BY DEF IInv, TypeOK, MembershipSymmetric, MembersDistinct, MasterPresent,
         NamesIndexChannels, Members

(* A newcomer is in no channel, so connecting it disturbs no membership.   *)
LEMMA ConnectStep ==
  ASSUME IInv, NEW p \in PeerID, Connect(p)
  PROVE  IInv'
<1>1. p \notin DOMAIN PeersPool
  BY DEF Connect, LowestFree
<1>2. /\ DOMAIN PeersPool' = DOMAIN PeersPool \cup {p}
      /\ PeersPool'[p] = [Name |-> BlankName, Channels |-> {}]
      /\ \A q \in DOMAIN PeersPool : PeersPool'[q] = PeersPool[q]
      /\ UNCHANGED <<ChannelsPool, ChannelNames>>
  BY <1>1 DEF Connect
<1>3. TypeOK'
  <2>1. PeersPool' = [q \in DOMAIN PeersPool' |-> PeersPool'[q]]
    BY DEF Connect
  <2>2. \A q \in DOMAIN PeersPool' : PeersPool'[q] \in Peer
    BY <1>2 DEF IInv, TypeOK, Peer
  <2>3. DOMAIN sent' = PeerID
    BY DEF Connect, Only, Nothing
  <2>. QED  BY <1>2, <2>1, <2>2, <2>3 DEF IInv, TypeOK
<1>4. MembershipSymmetric'
  BY <1>1, <1>2, OpenChannel DEF IInv, MembershipSymmetric, Members
<1>5. MembersDistinct' /\ MasterPresent' /\ NamesIndexChannels'
  BY <1>2 DEF IInv, MembersDistinct, MasterPresent, NamesIndexChannels, Members
<1>. QED  BY <1>3, <1>4, <1>5 DEF IInv

(* Setting a name touches no channel and no list of members.               *)
LEMMA SetNameStep ==
  ASSUME IInv, NEW p \in DOMAIN PeersPool, NEW n, SetName(p, n)
  PROVE  IInv'
<1>1. CASE n = PeersPool[p].Name
  <2>1. UNCHANGED <<PeersPool, ChannelsPool, ChannelNames>> /\ DOMAIN sent' = PeerID
    BY <1>1 DEF SetName, Only, Nothing
  <2>. QED  BY <2>1, MembershipUntouched DEF IInv, TypeOK
<1>2. CASE n # PeersPool[p].Name
  <2>1. PICK m \in Accepted(n) : /\ PeersPool' = [PeersPool EXCEPT ![p].Name = m]
                                 /\ DOMAIN sent' = PeerID
    BY <1>2 DEF SetName
  <2>2. m \in Name \cup {BlankName}
    BY CallbacksAssumption DEF SetName, Accepted
  <2>3. /\ PeersPool' \in [DOMAIN PeersPool' -> Peer]
        /\ DOMAIN PeersPool' = DOMAIN PeersPool
        /\ \A q \in DOMAIN PeersPool : PeersPool'[q].Channels = PeersPool[q].Channels
    BY <2>1, <2>2 DEF IInv, TypeOK, Peer
  <2>4. UNCHANGED <<ChannelsPool, ChannelNames>>
    BY DEF SetName
  <2>. QED  BY <2>1, <2>3, <2>4, MembershipUntouched
<1>. QED  BY <1>1, <1>2

(* The handlers that answer or relay and change nothing else.              *)
Replies(p) ==
  \/ \E n : DenyNameChange(p, n) \/ DenyChannelJoin(p, n)
  \/ \E c : DenyChannelLeave(p, c) \/ SendToChannel(p, c)
  \/ \E c, q : SendToPeer(p, c, q)
  \/ ListChannels(p)

(* The handlers that only answer, or pass a message on, change no pool.    *)
LEMMA ReplyStep ==
  ASSUME IInv, NEW p \in DOMAIN PeersPool, Replies(p)
  PROVE  IInv'
<1>1. UNCHANGED <<PeersPool, ChannelsPool, ChannelNames>> /\ DOMAIN sent' = PeerID
  BY DEF Replies, DenyNameChange, DenyChannelJoin, DenyChannelLeave, SendToChannel,
         SendToPeer, ListChannels, Only, Nothing
<1>. QED  BY <1>1, MembershipUntouched DEF IInv, TypeOK

(* The channel that JoinChannel creates starts with its creator as the     *)
(* only member and as the master, under a name that was free.              *)
LEMMA CreateStep ==
  ASSUME IInv, NEW p \in DOMAIN PeersPool, NEW n \in ChannelName,
         NEW hide \in BOOLEAN, NEW close \in BOOLEAN, CreateChannel(p, n, hide, close)
  PROVE  IInv'
<1>1. PICK c \in ChannelID :
        /\ LowestFree(ChannelsPool, ChannelID, c)
        /\ ChannelsPool' = [d \in DOMAIN ChannelsPool \cup {c} |->
             IF d = c THEN [Name |-> n, Peers |-> <<p>>, Master |-> p,
                            HideFromList |-> hide, CloseOnLeave |-> close]
                      ELSE ChannelsPool[d]]
        /\ ChannelNames' = [m \in DOMAIN ChannelNames \cup {n} |->
             IF m = n THEN c ELSE ChannelNames[m]]
        /\ PeersPool' = [PeersPool EXCEPT ![p].Channels = @ \cup {c}]
        /\ DOMAIN sent' = PeerID
  BY DEF CreateChannel, Only, Nothing
<1>2. c \notin DOMAIN ChannelsPool /\ n \notin DOMAIN ChannelNames /\ p \in PeerID
  BY <1>1 DEF LowestFree, CreateChannel, IInv, TypeOK
<1>3. /\ DOMAIN ChannelsPool' = DOMAIN ChannelsPool \cup {c}
      /\ ChannelsPool'[c] = [Name |-> n, Peers |-> <<p>>, Master |-> p,
                             HideFromList |-> hide, CloseOnLeave |-> close]
      /\ \A d \in DOMAIN ChannelsPool : ChannelsPool'[d] = ChannelsPool[d]
      /\ ChannelsPool' = [d \in DOMAIN ChannelsPool' |-> ChannelsPool'[d]]
  BY <1>1, <1>2
<1>4. /\ DOMAIN PeersPool' = DOMAIN PeersPool
      /\ PeersPool'[p].Channels = PeersPool[p].Channels \cup {c}
      /\ \A q \in DOMAIN PeersPool : q # p => PeersPool'[q] = PeersPool[q]
      /\ PeersPool' \in [DOMAIN PeersPool' -> Peer]
  BY <1>1 DEF IInv, TypeOK, Peer
<1>5. Range(<<p>>) = {p} /\ Distinct(<<p>>) /\ <<p>> \in Seq(PeerID)
  BY <1>2 DEF Range, Distinct
<1>6. Members(c)' = {p} /\ \A d \in DOMAIN ChannelsPool : Members(d)' = Members(d)
  BY <1>3, <1>5 DEF Members
<1>7. TypeOK'
  <2>1. \A d \in DOMAIN ChannelsPool' : ChannelsPool'[d] \in Channel
    <3>1. \A d \in DOMAIN ChannelsPool : ChannelsPool'[d] \in Channel
      BY <1>3 DEF IInv, TypeOK
    <3>2. \A s \in Seq(PeerID) : [Name |-> n, Peers |-> s, Master |-> p,
                                  HideFromList |-> hide, CloseOnLeave |-> close] \in Channel
      BY <1>2 DEF Channel
    <3>3. ChannelsPool'[c] \in Channel
      BY <1>3, <1>5, <3>2
    <3>. QED  BY <1>3, <3>1, <3>3
  <2>2. /\ DOMAIN ChannelNames' \subseteq ChannelName
        /\ ChannelNames' \in [DOMAIN ChannelNames' -> ChannelID]
    BY <1>1 DEF IInv, TypeOK
  <2>. QED  BY <1>1, <1>3, <1>4, <2>1, <2>2 DEF IInv, TypeOK
<1>8. MembershipSymmetric'
  <2>1. \A q \in DOMAIN PeersPool : c \notin PeersPool[q].Channels
    BY <1>2 DEF IInv, MembershipSymmetric
  <2>. QED  BY <1>3, <1>4, <1>6, <2>1 DEF IInv, MembershipSymmetric
<1>9. MembersDistinct' /\ MasterPresent'
  BY <1>3, <1>5, <1>6 DEF IInv, MembersDistinct, MasterPresent, Distinct
<1>10. NamesIndexChannels'
  BY <1>1, <1>2, <1>3 DEF IInv, NamesIndexChannels
<1>. QED  BY <1>7, <1>8, <1>9, <1>10 DEF IInv

(* Entering an open channel updates the peer's list and the channel's      *)
(* alike, and puts nobody in twice.                                        *)
LEMMA EnterStep ==
  ASSUME IInv, NEW p \in DOMAIN PeersPool, NEW n, EnterChannel(p, n)
  PROVE  IInv'
<1>1. PICK c \in ChannelID : c = ChannelNames[n] /\ c \in DOMAIN ChannelsPool /\ p \in PeerID
  BY DEF EnterChannel, IInv, TypeOK, NamesIndexChannels
<1>2. /\ c \notin PeersPool[p].Channels
      /\ PeersPool' = [PeersPool EXCEPT ![p].Channels = @ \cup {c}]
      /\ ChannelsPool' = [ChannelsPool EXCEPT ![c].Peers = Append(@, p)]
      /\ UNCHANGED ChannelNames
      /\ DOMAIN sent' = PeerID
  BY <1>1 DEF EnterChannel, MayEnter, IsInChannel
<1>3. p \notin Members(c)
  BY <1>1, <1>2 DEF IInv, MembershipSymmetric
<1>4. /\ ChannelsPool[c].Peers \in Seq(PeerID)
      /\ Distinct(ChannelsPool[c].Peers)
      /\ Members(c) = Range(ChannelsPool[c].Peers)
      /\ ChannelsPool[c] \in Channel
  BY <1>1, OpenChannel
<1>5. /\ DOMAIN ChannelsPool' = DOMAIN ChannelsPool
      /\ ChannelsPool'[c] = [ChannelsPool[c] EXCEPT !.Peers = Append(@, p)]
      /\ \A d \in DOMAIN ChannelsPool : d # c => ChannelsPool'[d] = ChannelsPool[d]
      /\ ChannelsPool' = [d \in DOMAIN ChannelsPool' |-> ChannelsPool'[d]]
  BY <1>1, <1>2 DEF IInv, TypeOK
<1>6. /\ Append(ChannelsPool[c].Peers, p) \in Seq(PeerID)
      /\ Range(Append(ChannelsPool[c].Peers, p)) = Members(c) \cup {p}
      /\ Distinct(Append(ChannelsPool[c].Peers, p))
  BY <1>1, <1>3, <1>4, AppendRange, AppendDistinct
<1>7. /\ ChannelsPool'[c] \in Channel
      /\ ChannelsPool'[c].Peers = Append(ChannelsPool[c].Peers, p)
      /\ ChannelsPool'[c].Master = ChannelsPool[c].Master
      /\ ChannelsPool'[c].Name = ChannelsPool[c].Name
  BY <1>4, <1>5, <1>6 DEF Channel
<1>8. /\ Members(c)' = Members(c) \cup {p}
      /\ \A d \in DOMAIN ChannelsPool : d # c => Members(d)' = Members(d)
  BY <1>5, <1>6, <1>7 DEF Members
<1>9. /\ DOMAIN PeersPool' = DOMAIN PeersPool
      /\ PeersPool'[p].Channels = PeersPool[p].Channels \cup {c}
      /\ \A q \in DOMAIN PeersPool : q # p => PeersPool'[q] = PeersPool[q]
      /\ PeersPool' \in [DOMAIN PeersPool' -> Peer]
  BY <1>1, <1>2 DEF IInv, TypeOK, Peer
<1>10. TypeOK'
  BY <1>2, <1>5, <1>7, <1>9 DEF IInv, TypeOK
<1>11. MembershipSymmetric'
  BY <1>5, <1>8, <1>9, <1>1 DEF IInv, MembershipSymmetric
<1>12. MembersDistinct' /\ MasterPresent'
  <2>1. \A d \in DOMAIN ChannelsPool' : Distinct(ChannelsPool'[d].Peers)
    BY <1>5, <1>6, <1>7, OpenChannel
  <2>2. ASSUME NEW d \in DOMAIN ChannelsPool'
        PROVE  ChannelsPool'[d].Master \in Members(d)'
    <3>1. ChannelsPool[d].Master \in Members(d)
      BY <1>5, OpenChannel
    <3>2. CASE d = c
      BY <1>7, <1>8, <3>1, <3>2
    <3>3. CASE d # c
      BY <1>5, <1>8, <3>1, <3>3
    <3>. QED  BY <3>2, <3>3
  <2>. QED  BY <2>1, <2>2 DEF MembersDistinct, MasterPresent, Distinct
<1>13. NamesIndexChannels'
  BY <1>2, <1>5, <1>7 DEF IInv, NamesIndexChannels
<1>. QED  BY <1>10, <1>11, <1>12, <1>13 DEF IInv

(* LeaveChannel: one channel, whether it closes or lives on.               *)
LEMMA LeaveStep ==
  ASSUME IInv, NEW p \in DOMAIN PeersPool, NEW c, LeaveChannel(p, c)
  PROVE  IInv'
<1>1. c \in DOMAIN ChannelsPool /\ p \in PeerID
  BY DEF LeaveChannel, IInv, TypeOK
<1>2. /\ DOMAIN ChannelsPool' = DOMAIN ChannelsPool \ ClosedBy(p, {c})
      /\ DOMAIN ChannelsPool' \subseteq ChannelID
      /\ ChannelsPool' \in [DOMAIN ChannelsPool' -> Channel]
      /\ \A d \in DOMAIN ChannelsPool' :
           Members(d)' = IF d \in {c} THEN Members(d) \ {p} ELSE Members(d)
      /\ DOMAIN ChannelNames' \subseteq ChannelName
      /\ ChannelNames' \in [DOMAIN ChannelNames' -> ChannelID]
      /\ MembersDistinct' /\ MasterPresent' /\ NamesIndexChannels'
  BY <1>1, Departure, Zenon DEF LeaveChannel
<1>3. /\ DOMAIN PeersPool' = DOMAIN PeersPool
      /\ PeersPool' = [q \in DOMAIN PeersPool' |-> PeersPool'[q]]
      /\ \A q \in DOMAIN PeersPool :
           /\ PeersPool'[q].Channels
                = PeersPool[q].Channels \ IF q = p THEN {c} ELSE Expelled(p, {c}, q)
           /\ PeersPool'[q] \in Peer
  BY DEF LeaveChannel, IInv, TypeOK, Peer
<1>4. DOMAIN sent' = PeerID
  BY DEF LeaveChannel
<1>5. MembershipSymmetric'
  <2>1. ASSUME NEW d \in DOMAIN ChannelsPool'
        PROVE  Members(d)' \subseteq DOMAIN PeersPool'
    <3>1. d \in DOMAIN ChannelsPool /\ Members(d)' \subseteq Members(d)
      BY <1>2
    <3>2. Members(d) \subseteq DOMAIN PeersPool
      BY <3>1 DEF IInv, MembershipSymmetric
    <3>. QED  BY <1>3, <3>1, <3>2
  <2>2. ASSUME NEW q \in DOMAIN PeersPool'
        PROVE  PeersPool'[q].Channels \subseteq DOMAIN ChannelsPool'
    BY <1>1, <1>2, <1>3 DEF IInv, MembershipSymmetric, Expelled, ClosedBy
  <2>3. ASSUME NEW q \in DOMAIN PeersPool', NEW d \in DOMAIN ChannelsPool'
        PROVE  d \in PeersPool'[q].Channels <=> q \in Members(d)'
    <3>1. d \in DOMAIN ChannelsPool /\ d \notin ClosedBy(p, {c}) /\ q \in DOMAIN PeersPool
      BY <1>2, <1>3
    <3>2. d \in PeersPool[q].Channels <=> q \in Members(d)
      BY <3>1 DEF IInv, MembershipSymmetric
    <3>3. CASE q = p
      BY <1>2, <1>3, <3>1, <3>2, <3>3
    <3>4. CASE q # p
      <4>1. PeersPool'[q].Channels = PeersPool[q].Channels \ Expelled(p, {c}, q)
        BY <1>3, <3>1, <3>4
      <4>. QED  BY <1>2, <3>1, <3>2, <3>4, <4>1 DEF Expelled
    <3>. QED  BY <3>3, <3>4
  <2>. QED  BY <2>1, <2>2, <2>3 DEF MembershipSymmetric
<1>6. TypeOK'
  BY <1>2, <1>3, <1>4 DEF IInv, TypeOK
<1>. QED  BY <1>2, <1>5, <1>6 DEF IInv

(* DropPeer: all the channels of a peer that is gone afterwards.           *)
LEMMA DropStep ==
  ASSUME IInv, NEW p \in DOMAIN PeersPool, DropPeer(p)
  PROVE  IInv'
<1>. DEFINE cs == PeersPool[p].Channels
<1>1. cs \in SUBSET DOMAIN ChannelsPool /\ p \in PeerID
  BY DEF IInv, TypeOK, MembershipSymmetric
<1>2. /\ DOMAIN ChannelsPool' = DOMAIN ChannelsPool \ ClosedBy(p, cs)
      /\ DOMAIN ChannelsPool' \subseteq ChannelID
      /\ ChannelsPool' \in [DOMAIN ChannelsPool' -> Channel]
      /\ \A d \in DOMAIN ChannelsPool' :
           Members(d)' = IF d \in cs THEN Members(d) \ {p} ELSE Members(d)
      /\ DOMAIN ChannelNames' \subseteq ChannelName
      /\ ChannelNames' \in [DOMAIN ChannelNames' -> ChannelID]
      /\ MembersDistinct' /\ MasterPresent' /\ NamesIndexChannels'
  <2>1. ChannelsPool' = ChannelsWithout(p, cs) /\ ChannelNames' = NamesWithout(ClosedBy(p, cs))
    BY DEF DropPeer
  <2>. HIDE DEF cs
  <2>. QED  BY <1>1, <2>1, Departure, Zenon
<1>3. /\ DOMAIN PeersPool' = DOMAIN PeersPool \ {p}
      /\ PeersPool' = [q \in DOMAIN PeersPool' |-> PeersPool'[q]]
      /\ \A q \in DOMAIN PeersPool' :
           /\ PeersPool'[q].Channels = PeersPool[q].Channels \ Expelled(p, cs, q)
           /\ PeersPool'[q] \in Peer
  BY DEF DropPeer, IInv, TypeOK, Peer
<1>4. DOMAIN sent' = PeerID
  BY DEF DropPeer
<1>5. MembershipSymmetric'
  <2>1. \A d \in DOMAIN ChannelsPool' : p \notin Members(d)'
    BY <1>1, <1>2 DEF IInv, MembershipSymmetric
  <2>2. \A d \in DOMAIN ChannelsPool' : Members(d)' \subseteq DOMAIN PeersPool'
    BY <1>2, <1>3, <2>1, OpenChannel
  <2>3. ASSUME NEW q \in DOMAIN PeersPool'
        PROVE  PeersPool'[q].Channels \subseteq DOMAIN ChannelsPool'
    BY <1>1, <1>2, <1>3 DEF IInv, MembershipSymmetric, Expelled, ClosedBy
  <2>4. ASSUME NEW q \in DOMAIN PeersPool', NEW d \in DOMAIN ChannelsPool'
        PROVE  d \in PeersPool'[q].Channels <=> q \in Members(d)'
    BY <1>1, <1>2, <1>3 DEF IInv, MembershipSymmetric, Expelled
  <2>. QED  BY <2>2, <2>3, <2>4 DEF MembershipSymmetric
<1>6. TypeOK'
  BY <1>2, <1>3, <1>4 DEF IInv, TypeOK
<1>. QED  BY <1>2, <1>5, <1>6 DEF IInv

-----------------------------------------------------------------------------
(* The server starts with empty pools.                                     *)
LEMMA InitInvariant == Init => IInv
  BY DEF Init, IInv, TypeOK, MembershipSymmetric, MembersDistinct, MasterPresent,
         NamesIndexChannels, Nothing

(* Every handler of the server preserves the invariant.                    *)
LEMMA NextInvariant == IInv /\ [Next]_vars => IInv'
<1>1. SUFFICES ASSUME IInv, [Next]_vars
               PROVE  IInv'
  OBVIOUS
<1>2. ASSUME NEW p \in PeerID, Connect(p)
      PROVE  IInv'
  BY <1>1, <1>2, ConnectStep
<1>3. ASSUME NEW p \in DOMAIN PeersPool, Request(p)
      PROVE  IInv'
  <2>1. CASE \E n : SetName(p, n)
    BY <1>1, <2>1, SetNameStep
  <2>2. CASE Replies(p)
    BY <1>1, <2>2, ReplyStep
  <2>3. CASE \E n : EnterChannel(p, n)
    BY <1>1, <2>3, EnterStep
  <2>4. CASE \E n \in ChannelName, hide, close \in BOOLEAN : CreateChannel(p, n, hide, close)
    BY <1>1, <2>4, CreateStep
  <2>5. CASE \E c : LeaveChannel(p, c)
    BY <1>1, <2>5, LeaveStep
  <2>. QED  BY <1>3, <2>1, <2>2, <2>3, <2>4, <2>5, Zenon DEF Request, Replies
<1>4. ASSUME NEW p \in DOMAIN PeersPool, DropPeer(p)
      PROVE  IInv'
  BY <1>1, <1>4, DropStep
<1>5. CASE UNCHANGED vars
  BY <1>1, <1>5 DEF vars, IInv, TypeOK, MembershipSymmetric, MembersDistinct, MasterPresent,
     NamesIndexChannels, Members
<1>. QED  BY <1>1, <1>2, <1>3, <1>4, <1>5 DEF Next

(* The invariant holds in every reachable state.                           *)
LEMMA Invariance == Spec => []IInv
  BY InitInvariant, NextInvariant, PTL DEF Spec

-----------------------------------------------------------------------------
(* The pools and the index of names are always well-formed.                *)
THEOREM TypeCorrect == Spec => []TypeOK
<1>1. IInv => TypeOK
  BY DEF IInv
<1>. QED  BY <1>1, Invariance, PTL

(* The server's two records of who is in which channel never disagree.     *)
THEOREM MembershipAgrees == Spec => []MembershipSymmetric
<1>1. IInv => MembershipSymmetric
  BY DEF IInv
<1>. QED  BY <1>1, Invariance, PTL

(* No peer is ever twice in a channel.                                     *)
THEOREM MembersAreDistinct == Spec => []MembersDistinct
<1>1. IInv => MembersDistinct
  BY DEF IInv
<1>. QED  BY <1>1, Invariance, PTL

(* Every open channel always has a master, who is in it.                   *)
THEOREM MasterIsPresent == Spec => []MasterPresent
<1>1. IInv => MasterPresent
  BY DEF IInv
<1>. QED  BY <1>1, Invariance, PTL

(* Names lead to open channels, and each open channel is found by its own. *)
THEOREM NamesAreIndexed == Spec => []NamesIndexChannels
<1>1. IInv => NamesIndexChannels
  BY DEF IInv
<1>. QED  BY <1>1, Invariance, PTL

-----------------------------------------------------------------------------
(* Names in channels.                                                      *)

(* Nothing conflicts when nobody enters a channel or takes a name.         *)
LEMMA NamesCarried ==
  ASSUME IInv, IInv', NamesUnique,
         DOMAIN ChannelsPool' \subseteq DOMAIN ChannelsPool,
         \A c \in DOMAIN ChannelsPool' : Members(c)' \subseteq Members(c),
         \A q \in DOMAIN PeersPool \cap DOMAIN PeersPool' : PeersPool'[q].Name = PeersPool[q].Name
  PROVE  NamesUnique'
<1>. SUFFICES ASSUME NEW c \in DOMAIN ChannelsPool', NEW p \in Members(c)', NEW q \in Members(c)'
              PROVE  /\ PeersPool'[p].Name # BlankName
                     /\ p # q => PeersPool'[p].Name # PeersPool'[q].Name
  BY DEF NamesUnique
<1>1. c \in DOMAIN ChannelsPool /\ p \in Members(c) /\ q \in Members(c)
  OBVIOUS
<1>2. {p, q} \subseteq DOMAIN PeersPool \cap DOMAIN PeersPool'
  BY <1>1 DEF IInv, MembershipSymmetric
<1>. QED  BY <1>1, <1>2 DEF NamesUnique

(* A name that is taken conflicts in none of the channels its owner is in. *)
LEMMA SetNameUnique ==
  ASSUME IInv, NamesUnique, NameRewrites = {}, NEW p \in DOMAIN PeersPool, NEW n, SetName(p, n),
         n # PeersPool[p].Name
  PROVE  NamesUnique'
<1>1. /\ n # BlankName /\ ~NameTaken(p, n)
      /\ PeersPool' = [PeersPool EXCEPT ![p].Name = n]
      /\ UNCHANGED ChannelsPool
  BY NamesAssumption DEF NamesAssumption, SetName, Accepted
<1>2. /\ \A q \in DOMAIN PeersPool : q # p => PeersPool'[q] = PeersPool[q]
      /\ PeersPool'[p].Name = n
  BY <1>1 DEF IInv, TypeOK, Peer
<1>3. ASSUME NEW c \in DOMAIN ChannelsPool, p \in Members(c), NEW q \in Members(c), q # p
      PROVE  PeersPool[q].Name # n
  <2>1. c \in PeersPool[p].Channels
    BY <1>3 DEF IInv, MembershipSymmetric
  <2>. QED  BY <1>1, <2>1 DEF NameTaken, NameInUse
<1>4. \A c \in DOMAIN ChannelsPool : Members(c)' = Members(c) /\ Members(c) \subseteq DOMAIN PeersPool
  BY <1>1, OpenChannel DEF Members
<1>. QED  BY <1>1, <1>2, <1>3, <1>4 DEF NamesUnique

(* Who creates or enters a channel has a name, and one that nobody there   *)
(* has.                                                                    *)
LEMMA JoinUnique ==
  ASSUME IInv, NamesUnique, NEW p \in DOMAIN PeersPool, PeersPool[p].Name # BlankName,
         \A q \in DOMAIN PeersPool : PeersPool'[q].Name = PeersPool[q].Name,
         NEW c,
         c \in DOMAIN ChannelsPool => ~NameInUse(c, PeersPool[p].Name),
         Members(c)' \subseteq {p} \cup (IF c \in DOMAIN ChannelsPool THEN Members(c) ELSE {}),
         DOMAIN ChannelsPool' \subseteq DOMAIN ChannelsPool \cup {c},
         \A d \in DOMAIN ChannelsPool : d # c => Members(d)' = Members(d)
  PROVE  NamesUnique'
<1>1. \A d \in DOMAIN ChannelsPool : Members(d) \subseteq DOMAIN PeersPool
  BY OpenChannel
<1>2. ASSUME NEW d \in DOMAIN ChannelsPool', NEW q \in Members(d)', NEW r \in Members(d)'
      PROVE  /\ PeersPool'[q].Name # BlankName
             /\ q # r => PeersPool'[q].Name # PeersPool'[r].Name
  <2>1. CASE d # c
    BY <2>1, <1>1 DEF NamesUnique
  <2>2. CASE d = c /\ c \notin DOMAIN ChannelsPool
    BY <2>2
  <2>3. CASE d = c /\ c \in DOMAIN ChannelsPool
    <3>1. \A s \in Members(c) : PeersPool[s].Name # PeersPool[p].Name
      BY <2>3 DEF NameInUse
    <3>2. q \in Members(c) \cup {p} /\ r \in Members(c) \cup {p}
      BY <2>3
    <3>3. PeersPool'[q].Name = PeersPool[q].Name /\ PeersPool'[r].Name = PeersPool[r].Name
      BY <2>3, <3>2, <1>1
    <3>. QED  BY <2>3, <3>1, <3>2, <3>3 DEF NamesUnique
  <2>. QED  BY <2>1, <2>2, <2>3
<1>. QED  BY <1>2 DEF NamesUnique

LEMMA CreateUnique ==
  ASSUME IInv, NamesUnique, NEW p \in DOMAIN PeersPool, NEW n, NEW hide, NEW close,
         CreateChannel(p, n, hide, close)
  PROVE  NamesUnique'
<1>1. PICK c \in ChannelID :
        /\ c \notin DOMAIN ChannelsPool
        /\ ChannelsPool' = [d \in DOMAIN ChannelsPool \cup {c} |->
             IF d = c THEN [Name |-> n, Peers |-> <<p>>, Master |-> p,
                            HideFromList |-> hide, CloseOnLeave |-> close]
                      ELSE ChannelsPool[d]]
        /\ PeersPool' = [PeersPool EXCEPT ![p].Channels = @ \cup {c}]
  BY DEF CreateChannel, LowestFree
<1>2. \A q \in DOMAIN PeersPool : PeersPool'[q].Name = PeersPool[q].Name
  BY <1>1 DEF IInv, TypeOK, Peer
<1>3. /\ ChannelsPool'[c].Peers = <<p>>
      /\ \A d \in DOMAIN ChannelsPool : ChannelsPool'[d] = ChannelsPool[d]
      /\ DOMAIN ChannelsPool' = DOMAIN ChannelsPool \cup {c}
  BY <1>1
<1>4. Members(c)' = {p} /\ \A d \in DOMAIN ChannelsPool : Members(d)' = Members(d)
  BY <1>3 DEF Members, Range
<1>5. PeersPool[p].Name # BlankName
  BY DEF CreateChannel, MayJoin
<1>. QED  BY <1>1, <1>2, <1>3, <1>4, <1>5, JoinUnique

LEMMA EnterUnique ==
  ASSUME IInv, NamesUnique, NEW p \in DOMAIN PeersPool, NEW n, EnterChannel(p, n)
  PROVE  NamesUnique'
<1>1. PICK c \in ChannelID : c = ChannelNames[n] /\ c \in DOMAIN ChannelsPool /\ p \in PeerID
  BY DEF EnterChannel, IInv, TypeOK, NamesIndexChannels
<1>2. /\ ~NameInUse(c, PeersPool[p].Name)
      /\ PeersPool[p].Name # BlankName
      /\ PeersPool' = [PeersPool EXCEPT ![p].Channels = @ \cup {c}]
      /\ ChannelsPool' = [ChannelsPool EXCEPT ![c].Peers = Append(@, p)]
  BY <1>1 DEF EnterChannel, MayEnter, MayJoin
<1>3. \A q \in DOMAIN PeersPool : PeersPool'[q].Name = PeersPool[q].Name
  BY <1>2 DEF IInv, TypeOK, Peer
<1>4. /\ ChannelsPool[c].Peers \in Seq(PeerID)
      /\ Members(c) = Range(ChannelsPool[c].Peers)
      /\ ChannelsPool[c] \in Channel
  BY <1>1, OpenChannel
<1>5. /\ DOMAIN ChannelsPool' = DOMAIN ChannelsPool
      /\ ChannelsPool'[c].Peers = Append(ChannelsPool[c].Peers, p)
      /\ \A d \in DOMAIN ChannelsPool : d # c => ChannelsPool'[d] = ChannelsPool[d]
  BY <1>1, <1>2, <1>4 DEF Channel, IInv, TypeOK
<1>6. /\ Members(c)' = Members(c) \cup {p}
      /\ \A d \in DOMAIN ChannelsPool : d # c => Members(d)' = Members(d)
  BY <1>1, <1>4, <1>5, AppendRange DEF Members
<1>7. /\ Members(c)' \subseteq {p} \cup (IF c \in DOMAIN ChannelsPool THEN Members(c) ELSE {})
      /\ DOMAIN ChannelsPool' \subseteq DOMAIN ChannelsPool \cup {c}
  BY <1>1, <1>5, <1>6
<1>. QED  BY <1>2, <1>3, <1>6, <1>7, JoinUnique

(* Every other handler lets peers go, or changes neither names nor members.*)
LEMMA OtherStepUnique ==
  ASSUME IInv, IInv', NamesUnique,
         \/ \E p \in PeerID : Connect(p)
         \/ \E p \in DOMAIN PeersPool :
              \/ \E n : SetName(p, n) /\ n = PeersPool[p].Name
              \/ Replies(p)
              \/ \E c : LeaveChannel(p, c)
              \/ DropPeer(p)
         \/ UNCHANGED vars
  PROVE  NamesUnique'
<1>1. ASSUME NEW p \in PeerID, Connect(p)  PROVE NamesUnique'
  <2>1. /\ \A q \in DOMAIN PeersPool : PeersPool'[q] = PeersPool[q]
        /\ UNCHANGED ChannelsPool
    BY <1>1 DEF Connect, LowestFree
  <2>. QED  BY <2>1, NamesCarried DEF Members
<1>2. ASSUME UNCHANGED <<PeersPool, ChannelsPool>>  PROVE NamesUnique'
  BY <1>2, NamesCarried DEF Members
<1>3. ASSUME NEW p \in DOMAIN PeersPool, NEW c, LeaveChannel(p, c)  PROVE NamesUnique'
  <2>1. c \in DOMAIN ChannelsPool /\ p \in PeerID
    BY <1>3 DEF LeaveChannel, IInv, TypeOK
  <2>2. ChannelsPool' = ChannelsWithout(p, {c}) /\ ChannelNames' = NamesWithout(ClosedBy(p, {c}))
    BY <1>3 DEF LeaveChannel
  <2>3. \A q \in DOMAIN PeersPool : PeersPool'[q].Name = PeersPool[q].Name
    BY <1>3 DEF LeaveChannel, IInv, TypeOK, Peer
  <2>4. {c} \in SUBSET DOMAIN ChannelsPool
    BY <2>1
  <2>5. /\ DOMAIN ChannelsPool' = DOMAIN ChannelsPool \ ClosedBy(p, {c})
        /\ \A d \in DOMAIN ChannelsPool' :
             Members(d)' = IF d \in {c} THEN Members(d) \ {p} ELSE Members(d)
    BY <2>1, <2>2, <2>4, Departure, Zenon
  <2>. QED  BY <2>3, <2>5, NamesCarried
<1>4. ASSUME NEW p \in DOMAIN PeersPool, DropPeer(p)  PROVE NamesUnique'
  <2>. DEFINE cs == PeersPool[p].Channels
  <2>1. cs \in SUBSET DOMAIN ChannelsPool /\ p \in PeerID
    BY DEF IInv, TypeOK, MembershipSymmetric
  <2>2. ChannelsPool' = ChannelsWithout(p, cs) /\ ChannelNames' = NamesWithout(ClosedBy(p, cs))
    BY <1>4 DEF DropPeer
  <2>3. \A q \in DOMAIN PeersPool' : q \in DOMAIN PeersPool /\ PeersPool'[q].Name = PeersPool[q].Name
    BY <1>4 DEF DropPeer, IInv, TypeOK, Peer
  <2>. HIDE DEF cs
  <2>4. /\ DOMAIN ChannelsPool' = DOMAIN ChannelsPool \ ClosedBy(p, cs)
        /\ \A d \in DOMAIN ChannelsPool' :
             Members(d)' = IF d \in cs THEN Members(d) \ {p} ELSE Members(d)
    BY <2>1, <2>2, Departure, Zenon
  <2>. QED  BY <2>3, <2>4, NamesCarried
<1>5. ASSUME NEW p \in DOMAIN PeersPool, Replies(p) \/ \E n : SetName(p, n) /\ n = PeersPool[p].Name
      PROVE  UNCHANGED <<PeersPool, ChannelsPool>>
  BY <1>5 DEF SetName, Replies, DenyNameChange, DenyChannelJoin, DenyChannelLeave, SendToChannel,
          SendToPeer, ListChannels
<1>. QED  BY <1>1, <1>2, <1>3, <1>4, <1>5 DEF vars

(* Two members of a channel never share a name, as long as the NameSet     *)
(* callback replaces none: a name is compared when it is taken and when    *)
(* its owner enters a channel, and nothing else brings two together.       *)
THEOREM NamesAreUnique ==
  ASSUME NameRewrites = {}
  PROVE  Spec => []NamesUnique
<1>1. Init => NamesUnique
  BY DEF Init, NamesUnique
<1>2. IInv /\ IInv' /\ NamesUnique /\ [Next]_vars => NamesUnique'
  <2>. SUFFICES ASSUME IInv, IInv', NamesUnique, [Next]_vars  PROVE NamesUnique'
    OBVIOUS
  <2>1. CASE \E p \in DOMAIN PeersPool : \E n : SetName(p, n) /\ n # PeersPool[p].Name
    BY <2>1, SetNameUnique
  <2>2. CASE \E p \in DOMAIN PeersPool : \E n, hide, close : CreateChannel(p, n, hide, close)
    BY <2>2, CreateUnique
  <2>3. CASE \E p \in DOMAIN PeersPool : \E n : EnterChannel(p, n)
    BY <2>3, EnterUnique
  <2>4. CASE /\ ~\E p \in DOMAIN PeersPool : \E n : SetName(p, n) /\ n # PeersPool[p].Name
             /\ ~\E p \in DOMAIN PeersPool : \E n, hide, close : CreateChannel(p, n, hide, close)
             /\ ~\E p \in DOMAIN PeersPool : \E n : EnterChannel(p, n)
    <3>1. \/ \E p \in PeerID : Connect(p)
          \/ \E p \in DOMAIN PeersPool :
               \/ \E n : SetName(p, n) /\ n = PeersPool[p].Name
               \/ Replies(p)
               \/ \E c : LeaveChannel(p, c)
               \/ DropPeer(p)
          \/ UNCHANGED vars
      BY <2>4, Zenon DEF Next, Request, Replies
    <3>. QED  BY <3>1, OtherStepUnique, Zenon
  <2>. QED  BY <2>1, <2>2, <2>3, <2>4, Zenon
<1>. QED  BY <1>1, <1>2, Invariance, PTL DEF Spec
=============================================================================
