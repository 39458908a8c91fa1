------------------------ MODULE RelaySystem_proofs ------------------------
(***************************************************************************)
(* Proofs about RelaySystem, for any number of sessions and any limits:    *)
(* every client that reads its stream to the end sees what the server      *)
(* sees, and knows who sends what it reads.                                *)
(*                                                                         *)
(* What a client knows and what the server has to say of a peer are both   *)
(* written topic by topic, as a picture: its id, its name and each         *)
(* channel.  A message is about one topic.  HandleTCP is shown to change   *)
(* the picture as the message says; each handler of the server to write    *)
(* what leads from the old account of a peer to the new one; so the stream *)
(* between them always leads from what the client knows to what the server *)
(* would say.                                                              *)
(***************************************************************************)
EXTENDS RelaySystem, RelayServerSteps_proofs, FiniteSetTheorems, SequenceTheorems,
        WellFoundedInduction

-----------------------------------------------------------------------------
(* The least element of a set of numbers, and induction over a set.        *)

(* The order of the numbers as a relation, which is what WFMin is about.   *)
Less == OpToRel(<, Nat)

(* It is well founded, by NaturalsInduction.                               *)
LEMMA LessIsWellFounded == IsWellFoundedOn(Less, Nat)
  BY NatLessThanWellFounded, Zenon DEF Less

(* And it is the order.                                                    *)
LEMMA LessIs == \A x, y \in Nat : <<y, x>> \in Less <=> y < x
  BY DEF Less, OpToRel

(* A set of numbers that is not empty has a least element.                 *)
LEMMA Least ==
  ASSUME NEW S \in SUBSET Nat, S # {}
  PROVE  \E m \in S : \A k \in S : m <= k
<1>1. PICK x \in S : \A y \in S : ~ (<<y, x>> \in Less)
  BY LessIsWellFounded, WFMin
<1>2. \A y \in S : x \in Nat /\ y \in Nat /\ ~ (y < x)
  BY <1>1, LessIs
<1>3. \A y \in S : x <= y
  BY <1>2
<1>. QED  BY <1>3

(* A set that holds 0 and with every number its successor holds them all.  *)
LEMMA Counting ==
  ASSUME NEW S, 0 \in S, \A n \in Nat : n \in S => n + 1 \in S
  PROVE  Nat \subseteq S
<1>. SUFFICES ASSUME Nat \ S # {}  PROVE FALSE
  OBVIOUS
<1>1. PICK m \in Nat \ S : \A k \in Nat \ S : m <= k
  BY Least
<1>2. m - 1 \in Nat /\ m - 1 \in S
  BY <1>1
<1>. QED  BY <1>1, <1>2

-----------------------------------------------------------------------------
(* What a client knows, topic by topic: its id, its name and each channel. *)

(* The topics besides the ids of channels, and that of what is of no topic *)
(* at all.                                                                 *)
Itself == -1
ItsName == -2
Elsewhere == -3

(* All topics a message may have.                                          *)
Topics == ChannelID \cup {Itself, ItsName}

(* What the client has of a channel: none or one of it is in its vector.   *)
Seen(ch) == [Name |-> ch.Name, Peers |-> ch.Peers]
Entry(cl, k) == {Seen(ch) : ch \in {d \in Range(cl.Channels) : d.ID = k}}

(* What it knows of a topic.                                               *)
Knows(cl, k) ==
  IF k = Itself THEN cl.PeerID ELSE IF k = ItsName THEN cl.Name ELSE Entry(cl, k)

(* The shape of the client's record, which no handler breaks.              *)
IsVector(x) == x \in Seq(Range(x))

IsSession(cl) == DOMAIN cl = {"ConnectState", "PeerID", "Name", "Channels", "SelectedChannel"}
IsFunction(f) == f = [x \in DOMAIN f |-> f[x]]
IsChannel(ch) ==
  /\ DOMAIN ch = {"ID", "Name", "Flags", "Master", "Peers"}
  /\ ch.ID \in ChannelID
  /\ IsFunction(ch.Peers)

(* A client whose vector has each channel once.                            *)
Sane(cl) ==
  /\ IsSession(cl)
  /\ IsVector(cl.Channels)
  /\ \A i \in DOMAIN cl.Channels : IsChannel(cl.Channels[i])
  /\ \A i, j \in DOMAIN cl.Channels : cl.Channels[i].ID = cl.Channels[j].ID => i = j

(* A vector has a length.                                                  *)
LEMMA Vector ==
  ASSUME NEW x, IsVector(x)
  PROVE  Len(x) \in Nat /\ DOMAIN x = 1 .. Len(x)
  BY DEF IsVector

(* The first position found by SelectInSeq, or none.                       *)
LEMMA PositionIs ==
  ASSUME NEW cl, IsVector(cl.Channels), NEW c
  PROVE  \/ /\ Position(cl, c) = 0
            /\ \A i \in DOMAIN cl.Channels : cl.Channels[i].ID # c
         \/ /\ Position(cl, c) \in DOMAIN cl.Channels
            /\ cl.Channels[Position(cl, c)].ID = c
            /\ Position(cl, c) # 0
<1>. DEFINE I == {i \in 1 .. Len(cl.Channels) : cl.Channels[i].ID = c}
<1>1. Position(cl, c) = IF I # {} THEN Min(I) ELSE 0
  BY DEF Position, SelectInSeq
<1>2. Len(cl.Channels) \in Nat /\ DOMAIN cl.Channels = 1 .. Len(cl.Channels)
  BY Vector
<1>3. CASE I = {}
  BY <1>1, <1>2, <1>3
<1>4. CASE I # {}
  <2>1. I \in SUBSET Nat
    BY <1>2
  <2>2. \E m \in I : \A k \in I : m <= k
    BY <2>1, <1>4, Least
  <2>3. Min(I) \in I
    BY <2>2 DEF Min
  <2>. QED  BY <1>1, <1>2, <1>4, <2>3
<1>. QED  BY <1>3, <1>4

(* What the client has of a channel of its vector.                         *)
LEMMA EntryAt ==
  ASSUME NEW cl, Sane(cl), NEW i \in DOMAIN cl.Channels
  PROVE  Entry(cl, cl.Channels[i].ID) = {Seen(cl.Channels[i])}
  BY DEF Entry, Sane, Range

(* A channel that is not in the vector has no entry...                     *)
LEMMA EntryNone ==
  ASSUME NEW cl, NEW k, \A i \in DOMAIN cl.Channels : cl.Channels[i].ID # k
  PROVE  Entry(cl, k) = {}
  BY DEF Entry, Range

(* ... and one that has no entry is not in it.                             *)
LEMMA EntrySome ==
  ASSUME NEW cl, NEW k, Entry(cl, k) = {}
  PROVE  \A i \in DOMAIN cl.Channels : cl.Channels[i].ID # k
  BY DEF Entry, Range

-----------------------------------------------------------------------------
(* How a message changes what a client knows.                              *)

(* The messages that are about a channel.                                  *)
OfChannels == {"Joined", "Dropped", "PeerLeft", "PeerNamed"}

(* The topic of a message.                                                 *)
Topic(m) ==
  CASE m.type = "Connected"               -> Itself
    [] m.type = "NameReply" /\ m.ok        -> ItsName
    [] m.type \in OfChannels              -> m.channel
    [] OTHER                              -> Elsewhere

(* What it says of the channel: who is in it, who left, who is new or has  *)
(* another name.                                                           *)
PeersOf(m) == [i \in {e.id : e \in m.peers} |-> <<(CHOOSE e \in m.peers : e.id = i).name>>]
WithoutPeer(x, q) ==
  [Name |-> x.Name, Peers |-> IF q \in DOMAIN x.Peers THEN FirstErased(x.Peers, q) ELSE x.Peers]
WithPeer(x, q, n) ==
  [Name |-> x.Name,
   Peers |-> IF q \in DOMAIN x.Peers THEN FirstRenamed(x.Peers, q, n) ELSE Pushed(x.Peers, q, n)]

(* What is known of the topic after the message, when it was x before.     *)
After(x, m) ==
  CASE m.type = "Connected" -> m.peer
    [] m.type = "NameReply" -> m.name
    [] m.type = "Joined"    -> {[Name |-> m.name, Peers |-> PeersOf(m)]}
    [] m.type = "Dropped"   -> {}
    [] m.type = "PeerLeft"  -> {WithoutPeer(e, m.peer) : e \in x}
    [] m.type = "PeerNamed" -> {WithPeer(e, m.peer, m.name) : e \in x}
    [] OTHER                -> x

(* A message read: what is known of every topic before and after.          *)
Read(x, m) == [k \in Topics |-> IF k = Topic(m) THEN After(x[k], m) ELSE x[k]]

(* A message a client is prepared for: a channel it joins is not yet in    *)
(* its vector, a new name is not blank, the sender of a message is among   *)
(* the peers it knows.                                                     *)
Fitting(x, m) ==
  /\ (m.type = "NameReply" /\ m.ok) \/ m.type = "PeerNamed" => m.name # BlankName
  /\ m.type \in OfChannels \cup {"ChannelMessage"} => m.channel \in ChannelID
  /\ m.type = "Joined" => x[m.channel] = {}
  /\ m.type = "ChannelMessage" => \E e \in x[m.channel] : m.peer \in DOMAIN e.Peers

(* All a client knows.                                                     *)
Picture(cl) == [k \in Topics |-> Knows(cl, k)]

(* There are finitely many ids of channels.                                *)
LEMMA IdsAreFinite == ChannelID \subseteq Nat /\ IsFiniteSet(ChannelID)
<1>1. ChannelsLimit \in Int
  BY LimitsAssumption DEF LimitsAssumption, IsLimit
<1>. QED  BY <1>1, FS_Interval DEF ChannelID

(* The topics differ.                                                      *)
LEMMA ChannelsAreTopics ==
  /\ \A k \in ChannelID : k \in Topics /\ k # Itself /\ k # ItsName /\ k # Elsewhere
  /\ Itself \in Topics /\ ItsName \in Topics /\ Elsewhere \notin Topics
  /\ Itself # ItsName
  BY IdsAreFinite DEF Topics, Itself, ItsName, Elsewhere

(* The three ways HandleTCP changes the vector of channels.                *)

(* The vector is left alone.                                               *)
LEMMA KnowsSame ==
  ASSUME NEW cl, NEW new, Sane(cl), IsSession(new), new.Channels = cl.Channels
  PROVE  /\ Sane(new)
         /\ \A k : Entry(new, k) = Entry(cl, k)
  BY DEF Sane, Entry

(* One channel of it is replaced.                                          *)
LEMMA KnowsChanged ==
  ASSUME NEW cl, NEW new, Sane(cl), IsSession(new), IsVector(new.Channels),
         NEW i \in DOMAIN cl.Channels,
         DOMAIN new.Channels = DOMAIN cl.Channels,
         \A j \in DOMAIN cl.Channels : j # i => new.Channels[j] = cl.Channels[j],
         IsChannel(new.Channels[i]), new.Channels[i].ID = cl.Channels[i].ID
  PROVE  /\ Sane(new)
         /\ \A k : Entry(new, k) = IF k = cl.Channels[i].ID THEN {Seen(new.Channels[i])}
                                 ELSE Entry(cl, k)
<1>1. Sane(new)
  BY DEF Sane
<1>2. ASSUME NEW k
      PROVE  Entry(new, k) = IF k = cl.Channels[i].ID THEN {Seen(new.Channels[i])}
                             ELSE Entry(cl, k)
  <2>1. CASE k = cl.Channels[i].ID
    BY <1>1, <2>1, EntryAt
  <2>2. CASE k # cl.Channels[i].ID
    BY <2>2 DEF Entry, Range
  <2>. QED  BY <2>1, <2>2
<1>. QED  BY <1>1, <1>2

(* A channel is appended.                                                  *)
LEMMA KnowsAdded ==
  ASSUME NEW cl, NEW new, Sane(cl), IsSession(new), NEW ch, IsChannel(ch),
         new.Channels = Append(cl.Channels, ch), Entry(cl, ch.ID) = {}
  PROVE  /\ Sane(new)
         /\ \A k : Entry(new, k) = IF k = ch.ID THEN {Seen(ch)} ELSE Entry(cl, k)
<1>. DEFINE n == Len(cl.Channels)  S == Range(cl.Channels) \cup {ch}
<1>1. cl.Channels \in Seq(S) /\ n \in Nat /\ DOMAIN cl.Channels = 1 .. n
  <2>1. cl.Channels \in Seq(Range(cl.Channels))
    BY DEF Sane, IsVector
  <2>. QED  BY <2>1, SeqMonotonic
<1>2. /\ IsVector(new.Channels)
      /\ DOMAIN new.Channels = 1 .. n + 1
      /\ \A i \in 1 .. n : new.Channels[i] = cl.Channels[i]
      /\ new.Channels[n + 1] = ch
  <2>1. new.Channels \in Seq(S)
    BY <1>1, AppendProperties
  <2>2. IsVector(new.Channels)
    BY <2>1, SeqOfRange DEF IsVector
  <2>. QED  BY <2>2, <1>1, AppendProperties, LenProperties
<1>3. \A i \in DOMAIN cl.Channels : cl.Channels[i].ID # ch.ID
  BY EntrySome
<1>. HIDE DEF n, S
<1>4. Sane(new)
  <2>1. \A i \in 1 .. n : IsChannel(new.Channels[i]) /\ new.Channels[i].ID # ch.ID
    BY <1>1, <1>2, <1>3 DEF Sane
  <2>2. \A i, j \in 1 .. n : new.Channels[i].ID = new.Channels[j].ID => i = j
    BY <1>1, <1>2 DEF Sane
  <2>3. \A i \in 1 .. n + 1 : i \in 1 .. n \/ i = n + 1
    BY <1>1
  <2>4. \A i \in DOMAIN new.Channels : IsChannel(new.Channels[i])
    BY <1>2, <2>1, <2>3
  <2>5. \A i, j \in DOMAIN new.Channels : new.Channels[i].ID = new.Channels[j].ID => i = j
    BY <1>2, <2>1, <2>2, <2>3
  <2>. QED  BY <1>2, <2>4, <2>5 DEF Sane
<1>5. ASSUME NEW k  PROVE Entry(new, k) = IF k = ch.ID THEN {Seen(ch)} ELSE Entry(cl, k)
  <2>1. CASE k = ch.ID
    <3>1. n + 1 \in DOMAIN new.Channels
      BY <1>1, <1>2
    <3>. QED  BY <1>2, <1>4, <2>1, <3>1, EntryAt
  <2>2. CASE k # ch.ID
    <3>1. Range(new.Channels) = Range(cl.Channels) \cup {ch}
      BY <1>1, <1>2 DEF Range
    <3>. QED  BY <2>2, <3>1 DEF Entry
  <2>. QED  BY <2>1, <2>2
<1>. QED  BY <1>4, <1>5

(* RemoveAt leaves out one position.                                       *)
LEMMA RemoveAtIs ==
  ASSUME NEW x, IsVector(x), NEW i \in DOMAIN x
  PROVE  /\ IsVector(RemoveAt(x, i))
         /\ DOMAIN RemoveAt(x, i) = 1 .. Len(x) - 1
         /\ \A j \in 1 .. Len(x) - 1 : RemoveAt(x, i)[j] = x[IF j < i THEN j ELSE j + 1]
<1>. DEFINE S == Range(x)  n == Len(x)  a == SubSeq(x, 1, i - 1)  b == SubSeq(x, i + 1, n)
<1>1. x \in Seq(S) /\ n \in Nat /\ DOMAIN x = 1 .. n /\ i \in 1 .. n
  BY DEF IsVector
<1>0. \A j \in 1 .. n : x[j] \in S
  BY <1>1 DEF Range
<1>. HIDE DEF S, n
<1>2. /\ a \in Seq(S)
      /\ Len(a) = i - 1
      /\ \A j \in 1 .. i - 1 : a[j] = x[j]
  <2>1. \A j \in 1 .. i - 1 : x[j] \in S
    BY <1>0, <1>1
  <2>2. /\ 1 \in Int /\ i - 1 \in Int
        /\ 1 <= i - 1 => (i - 1) - 1 + 1 = i - 1
        /\ ~ (1 <= i - 1) => i - 1 = 0
    BY <1>1
  <2>3. a \in Seq(S) /\ Len(a) = IF 1 <= i - 1 THEN (i - 1) - 1 + 1 ELSE 0
    BY <2>1, <2>2, SubSeqProperties
  <2>4. \A j \in 1 .. (i - 1) - 1 + 1 : a[j] = x[1 + j - 1]
    BY <2>1, <2>2, SubSeqProperties
  <2>. QED  BY <2>2, <2>3, <2>4, <1>1
<1>3. /\ b \in Seq(S)
      /\ Len(b) = n - i
      /\ \A j \in 1 .. n - i : b[j] = x[i + j]
  <2>1. \A j \in i + 1 .. n : x[j] \in S
    BY <1>0, <1>1
  <2>2. i + 1 \in Int /\ n \in Int
    BY <1>1
  <2>3. b \in Seq(S) /\ Len(b) = IF i + 1 <= n THEN n - (i + 1) + 1 ELSE 0
    BY <2>1, <2>2, SubSeqProperties
  <2>4. \A j \in 1 .. n - (i + 1) + 1 : b[j] = x[(i + 1) + j - 1]
    BY <2>1, <2>2, SubSeqProperties
  <2>. QED  BY <2>2, <2>3, <2>4, <1>1
<1>. HIDE DEF a, b
<1>4. RemoveAt(x, i) = a \o b
  BY DEF RemoveAt, a, b, n
<1>5. /\ a \o b \in Seq(S)
      /\ Len(a \o b) = n - 1
      /\ \A j \in 1 .. n - 1 : (a \o b)[j] = IF j <= i - 1 THEN a[j] ELSE b[j - (i - 1)]
  <2>1. /\ a \o b \in Seq(S)
        /\ Len(a \o b) = Len(a) + Len(b)
        /\ \A j \in 1 .. Len(a) + Len(b) : (a \o b)[j] = IF j <= Len(a) THEN a[j] ELSE b[j - Len(a)]
    BY <1>2, <1>3, ConcatProperties
  <2>2. Len(a) + Len(b) = n - 1
    BY <1>1, <1>2, <1>3
  <2>. QED  BY <2>1, <2>2, <1>2
<1>6. IsVector(a \o b)
  BY <1>5, SeqOfRange DEF IsVector
<1>7. \A j \in 1 .. n - 1 : (a \o b)[j] = x[IF j < i THEN j ELSE j + 1]
  <2>1. ASSUME NEW j \in 1 .. n - 1, j < i  PROVE (a \o b)[j] = x[j]
    BY <1>1, <1>2, <1>5, <2>1
  <2>2. ASSUME NEW j \in 1 .. n - 1, ~ (j < i)  PROVE (a \o b)[j] = x[j + 1]
    <3>1. j - (i - 1) \in 1 .. n - i /\ i + (j - (i - 1)) = j + 1 /\ ~ (j <= i - 1)
      BY <1>1, <2>2
    <3>. QED  BY <1>5, <3>1, <1>3
  <2>. QED  BY <2>1, <2>2
<1>. QED  BY <1>4, <1>5, <1>6, <1>7, LenProperties DEF n

(* A channel is removed.                                                   *)
LEMMA KnowsRemoved ==
  ASSUME NEW cl, NEW new, Sane(cl), IsSession(new), NEW i \in DOMAIN cl.Channels,
         new.Channels = RemoveAt(cl.Channels, i)
  PROVE  /\ Sane(new)
         /\ \A k : Entry(new, k) = IF k = cl.Channels[i].ID THEN {} ELSE Entry(cl, k)
<1>. DEFINE n == Len(cl.Channels)  old(j) == IF j < i THEN j ELSE j + 1
<1>1. n \in Nat /\ DOMAIN cl.Channels = 1 .. n /\ IsVector(cl.Channels)
  BY Vector DEF Sane
<1>2. /\ IsVector(new.Channels)
      /\ DOMAIN new.Channels = 1 .. n - 1
      /\ \A j \in 1 .. n - 1 : new.Channels[j] = cl.Channels[old(j)]
  BY <1>1, RemoveAtIs
<1>. HIDE DEF n
<1>3. /\ \A j \in 1 .. n - 1 : old(j) \in 1 .. n /\ old(j) # i
      /\ \A j, l \in 1 .. n - 1 : old(j) = old(l) => j = l
      /\ \A j \in 1 .. n : j # i => \E l \in 1 .. n - 1 : j = old(l)
  <2>1. ASSUME NEW j \in 1 .. n, j # i  PROVE  \E l \in 1 .. n - 1 : j = old(l)
    <3>1. CASE j < i
      BY <1>1, <3>1
    <3>2. CASE j > i
      <4>1. j - 1 \in 1 .. n - 1 /\ j = old(j - 1)
        BY <1>1, <3>2
      <4>. QED  BY <4>1
    <3>. QED  BY <1>1, <2>1, <3>1, <3>2
  <2>. QED  BY <1>1, <2>1
<1>. HIDE DEF old
<1>4. Sane(new)
  <2>1. \A j \in DOMAIN new.Channels : IsChannel(new.Channels[j])
    BY <1>1, <1>2, <1>3 DEF Sane
  <2>2. ASSUME NEW j \in 1 .. n - 1, NEW l \in 1 .. n - 1, new.Channels[j].ID = new.Channels[l].ID
        PROVE  j = l
    <3>1. old(j) \in 1 .. n /\ old(l) \in 1 .. n /\ (old(j) = old(l) => j = l)
      BY <1>3
    <3>2. cl.Channels[old(j)].ID = cl.Channels[old(l)].ID
      BY <1>2, <2>2
    <3>. QED  BY <1>1, <3>1, <3>2 DEF Sane
  <2>. QED  BY <1>2, <2>1, <2>2 DEF Sane
<1>5. ASSUME NEW k, k = cl.Channels[i].ID  PROVE  Entry(new, k) = {}
  <2>1. \A j \in DOMAIN new.Channels : new.Channels[j].ID # k
    BY <1>1, <1>2, <1>3, <1>5 DEF Sane
  <2>. QED  BY <2>1, EntryNone
<1>6. ASSUME NEW k, k # cl.Channels[i].ID  PROVE  Entry(new, k) = Entry(cl, k)
  <2>1. Entry(new, k) \subseteq Entry(cl, k)
    BY <1>1, <1>2, <1>3 DEF Entry, Range
  <2>2. Entry(cl, k) \subseteq Entry(new, k)
    <3>1. ASSUME NEW j \in 1 .. n, cl.Channels[j].ID = k
          PROVE  cl.Channels[j] \in {d \in Range(new.Channels) : d.ID = k}
      <4>1. PICK l \in 1 .. n - 1 : j = old(l)
        BY <1>3, <1>6, <3>1
      <4>2. l \in DOMAIN new.Channels /\ new.Channels[l] = cl.Channels[j]
        BY <1>2, <4>1
      <4>. QED  BY <3>1, <4>2 DEF Range
    <3>. QED  BY <1>1, <3>1 DEF Entry, Range
  <2>. QED  BY <2>1, <2>2
<1>. QED  BY <1>4, <1>5, <1>6

(* What is made of a function from ids to names is one.                    *)
LEMMA ErasedIs ==
  ASSUME NEW f, NEW q, IsFunction(f)
  PROVE  IsFunction(FirstErased(f, q))
<1>1. CASE Len(f[q]) > 1
  BY <1>1 DEF FirstErased, IsFunction
<1>2. CASE ~ (Len(f[q]) > 1)
  BY <1>2 DEF FirstErased, IsFunction
<1>. QED  BY <1>1, <1>2

(* The same of a name that comes.                                          *)
LEMMA NamedIs ==
  ASSUME NEW f, NEW q, NEW n, IsFunction(f)
  PROVE  IsFunction(FirstRenamed(f, q, n)) /\ IsFunction(Pushed(f, q, n))
  BY DEF FirstRenamed, Pushed, IsFunction

(* Topic and After, type by type.                                          *)
LEMMA Meanings ==
  ASSUME NEW m, NEW x
  PROVE  /\ m.type = "Connected" => Topic(m) = Itself /\ After(x, m) = m.peer
         /\ m.type = "NameReply" =>
              Topic(m) = (IF m.ok THEN ItsName ELSE Elsewhere) /\ After(x, m) = m.name
         /\ m.type = "Joined" =>
              Topic(m) = m.channel /\ After(x, m) = {[Name |-> m.name, Peers |-> PeersOf(m)]}
         /\ m.type = "Dropped" => Topic(m) = m.channel /\ After(x, m) = {}
         /\ m.type = "PeerLeft" =>
              Topic(m) = m.channel /\ After(x, m) = {WithoutPeer(e, m.peer) : e \in x}
         /\ m.type = "PeerNamed" =>
              Topic(m) = m.channel /\ After(x, m) = {WithPeer(e, m.peer, m.name) : e \in x}
         /\ m.type \notin OfChannels \cup {"Connected", "NameReply"} => Topic(m) = Elsewhere
  BY DEF Topic, After, OfChannels

(* HandleTCP, type by type.                                                *)
LEMMA Handlers ==
  ASSUME NEW m, NEW cl
  PROVE  /\ m.type = "Connected" => HandleTCP(cl, m) = OnConnected(cl, m)
         /\ m.type = "NameReply" => HandleTCP(cl, m) = OnNameReply(cl, m)
         /\ m.type = "Joined" => HandleTCP(cl, m) = OnJoined(cl, m)
         /\ m.type = "Dropped" => HandleTCP(cl, m) = OnDropped(cl, m)
         /\ m.type = "PeerLeft" => HandleTCP(cl, m) = OnPeerLeft(cl, m)
         /\ m.type = "PeerNamed" => HandleTCP(cl, m) = OnPeerNamed(cl, m)
         /\ m.type \notin OfChannels \cup {"Connected", "NameReply"} => HandleTCP(cl, m) = cl
  BY DEF HandleTCP, OnConnectDenied, OfChannels

(* What a handler makes of a client is what the message says of its topic. *)
Takes(cl, new, m) ==
  /\ Sane(new)
  /\ \A k \in Topics : Knows(new, k) = IF k = Topic(m) THEN After(Knows(cl, k), m) ELSE Knows(cl, k)

(* A handler that changes one channel of the vector.                       *)
LEMMA ChannelTaken ==
  ASSUME NEW cl, NEW new, NEW m, NEW x, m.channel \in ChannelID, Topic(m) = m.channel,
         Sane(new), new.PeerID = cl.PeerID, new.Name = cl.Name,
         \A k : Entry(new, k) = IF k = m.channel THEN x ELSE Entry(cl, k),
         After(Entry(cl, m.channel), m) = x
  PROVE  Takes(cl, new, m)
  BY ChannelsAreTopics DEF Takes, Knows, Topics

(* A handler that changes nothing.                                         *)
LEMMA SameTaken ==
  ASSUME NEW cl, NEW m, Sane(cl),
         Topic(m) \in ChannelID => After(Entry(cl, Topic(m)), m) = Entry(cl, Topic(m)),
         Topic(m) \in ChannelID \cup {Elsewhere}
  PROVE  Takes(cl, cl, m)
  BY ChannelsAreTopics DEF Takes, Knows, Topics

(* The handlers, one by one: the welcome.                                  *)
LEMMA TakesConnected ==
  ASSUME NEW cl, Sane(cl), NEW m, m.type = "Connected"
  PROVE  Takes(cl, HandleTCP(cl, m), m)
<1>. DEFINE new == HandleTCP(cl, m)
<1>1. new = [cl EXCEPT !.PeerID = m.peer, !.ConnectState = "RequestingUdp"]
  BY Handlers DEF OnConnected
<1>2. /\ IsSession(new) /\ new.Channels = cl.Channels
      /\ new.PeerID = m.peer /\ new.Name = cl.Name
  BY <1>1 DEF Sane, IsSession
<1>3. Sane(new) /\ \A k : Entry(new, k) = Entry(cl, k)
  BY <1>2, KnowsSame
<1>. HIDE DEF new
<1>4. Topic(m) = Itself /\ \A x : After(x, m) = m.peer
  BY Meanings
<1>5. Takes(cl, new, m)
  BY <1>2, <1>3, <1>4, ChannelsAreTopics DEF Takes, Knows
<1>. QED  BY <1>5 DEF new

(* The answer to SetName.                                                  *)
LEMMA TakesNameReply ==
  ASSUME NEW cl, Sane(cl), NEW m, m.type = "NameReply", m.ok => m.name # BlankName
  PROVE  Takes(cl, HandleTCP(cl, m), m)
<1>. DEFINE new == HandleTCP(cl, m)
<1>1. Topic(m) = (IF m.ok THEN ItsName ELSE Elsewhere) /\ \A x : After(x, m) = m.name
  BY Meanings
<1>2. CASE ~ m.ok
  <2>1. new = cl
    BY <1>2, Handlers DEF OnNameReply
  <2>. QED  BY <1>1, <1>2, <2>1, SameTaken, ChannelsAreTopics
<1>3. CASE m.ok
  <2>1. new = [cl EXCEPT !.Name = m.name]
    BY <1>3, Handlers DEF OnNameReply
  <2>2. /\ IsSession(new) /\ new.Channels = cl.Channels
        /\ new.PeerID = cl.PeerID /\ new.Name = m.name
    BY <2>1 DEF Sane, IsSession
  <2>3. Sane(new) /\ \A k : Entry(new, k) = Entry(cl, k)
    BY <2>2, KnowsSame
  <2>. HIDE DEF new
  <2>4. Takes(cl, new, m)
    BY <1>1, <1>3, <2>2, <2>3, ChannelsAreTopics DEF Takes, Knows
  <2>. QED  BY <2>4 DEF new
<1>. QED  BY <1>2, <1>3

(* The answer to JoinChannel.                                              *)
LEMMA TakesJoined ==
  ASSUME NEW cl, Sane(cl), NEW m, m.type = "Joined", m.channel \in ChannelID,
         Entry(cl, m.channel) = {}
  PROVE  Takes(cl, HandleTCP(cl, m), m)
<1>. DEFINE new == HandleTCP(cl, m)
            flags == IF m.created THEN 1 ELSE 0
            masters == {e \in m.peers : e.master}
            master == IF m.peers = {} THEN cl.PeerID
                      ELSE IF masters = {} THEN NoMaster ELSE (CHOOSE e \in masters : TRUE).id
            ch == [ID |-> m.channel, Name |-> m.name, Flags |-> flags, Master |-> master,
                   Peers |-> PeersOf(m)]
<1>1. new = [cl EXCEPT !.Channels = Append(cl.Channels, ch), !.SelectedChannel = m.channel]
  BY Handlers DEF OnJoined, PeersOf
<1>. HIDE DEF master, flags
<1>2. /\ IsSession(new) /\ new.Channels = Append(cl.Channels, ch)
      /\ new.PeerID = cl.PeerID /\ new.Name = cl.Name
  BY <1>1 DEF Sane, IsSession
<1>3. IsChannel(ch) /\ ch.ID = m.channel /\ Seen(ch) = [Name |-> m.name, Peers |-> PeersOf(m)]
  BY DEF IsChannel, Seen, IsFunction, PeersOf
<1>. HIDE DEF new, ch
<1>4. Sane(new) /\ \A k : Entry(new, k) = IF k = m.channel THEN {Seen(ch)} ELSE Entry(cl, k)
  BY <1>2, <1>3, KnowsAdded
<1>5. Topic(m) = m.channel /\ After(Entry(cl, m.channel), m) = {Seen(ch)}
  BY <1>3, Meanings
<1>6. Takes(cl, new, m)
  BY <1>2, <1>4, <1>5, ChannelTaken
<1>. QED  BY <1>6 DEF new

(* The loss of a channel.                                                  *)
LEMMA TakesDropped ==
  ASSUME NEW cl, Sane(cl), NEW m, m.type = "Dropped", m.channel \in ChannelID
  PROVE  Takes(cl, HandleTCP(cl, m), m)
<1>. DEFINE new == HandleTCP(cl, m)
            i == Position(cl, m.channel)
<1>1. Topic(m) = m.channel /\ \A x : After(x, m) = {}
  BY Meanings
<1>2. IsVector(cl.Channels)
  BY DEF Sane
<1>3. CASE i = 0
  <2>1. new = cl
    BY <1>3, Handlers DEF OnDropped
  <2>2. Entry(cl, m.channel) = {}
    BY <1>2, <1>3, PositionIs, EntryNone
  <2>. QED  BY <1>1, <2>1, <2>2, SameTaken
<1>4. CASE i # 0
  <2>1. i \in DOMAIN cl.Channels /\ cl.Channels[i].ID = m.channel
    BY <1>2, <1>4, PositionIs
  <2>. DEFINE sel == IF i > 1 THEN cl.Channels[i - 1].ID ELSE cl.SelectedChannel
  <2>2. new = [cl EXCEPT !.Channels = RemoveAt(cl.Channels, i), !.SelectedChannel = sel]
    BY <1>4, Handlers DEF OnDropped
  <2>. HIDE DEF sel
  <2>3. /\ IsSession(new) /\ new.Channels = RemoveAt(cl.Channels, i)
        /\ new.PeerID = cl.PeerID /\ new.Name = cl.Name
    BY <2>2 DEF Sane, IsSession
  <2>. HIDE DEF new, i
  <2>4. Sane(new) /\ \A k : Entry(new, k) = IF k = m.channel THEN {} ELSE Entry(cl, k)
    BY <2>1, <2>3, KnowsRemoved
  <2>5. Takes(cl, new, m)
    BY <1>1, <2>3, <2>4, ChannelTaken
  <2>. QED  BY <2>5 DEF new
<1>. QED  BY <1>3, <1>4

(* One channel of the vector is replaced by one that has other peers.      *)
LEMMA TakesPeers ==
  ASSUME NEW cl, Sane(cl), NEW m, m.channel \in ChannelID, Topic(m) = m.channel,
         NEW i \in DOMAIN cl.Channels, cl.Channels[i].ID = m.channel,
         NEW ch, IsChannel(ch), ch.ID = m.channel, ch.Name = cl.Channels[i].Name,
         NEW new, IsSession(new), new.PeerID = cl.PeerID, new.Name = cl.Name,
         new.Channels = [cl.Channels EXCEPT ![i] = ch],
         After({Seen(cl.Channels[i])}, m) = {Seen(ch)}
  PROVE  Takes(cl, new, m)
<1>1. /\ DOMAIN new.Channels = DOMAIN cl.Channels
      /\ \A j \in DOMAIN cl.Channels : j # i => new.Channels[j] = cl.Channels[j]
      /\ new.Channels[i] = ch
  OBVIOUS
<1>2. IsVector(new.Channels)
  <2>. DEFINE S == Range(cl.Channels) \cup {ch}
  <2>1. cl.Channels \in Seq(S) /\ i \in 1 .. Len(cl.Channels) /\ ch \in S
    <3>1. cl.Channels \in Seq(Range(cl.Channels)) /\ i \in 1 .. Len(cl.Channels)
      BY Vector DEF Sane, IsVector
    <3>. QED  BY <3>1, SeqMonotonic
  <2>2. [cl.Channels EXCEPT ![i] = ch] \in Seq(S)
    BY <2>1, ExceptSeq
  <2>. QED  BY <2>2, SeqOfRange DEF IsVector
<1>3. /\ Sane(new)
      /\ \A k : Entry(new, k) = IF k = m.channel THEN {Seen(new.Channels[i])} ELSE Entry(cl, k)
  <2>1. new.Channels[i].ID = cl.Channels[i].ID /\ IsChannel(new.Channels[i])
    BY <1>1
  <2>2. /\ Sane(new)
        /\ \A k : Entry(new, k) = IF k = cl.Channels[i].ID THEN {Seen(new.Channels[i])}
                                ELSE Entry(cl, k)
    BY <1>1, <1>2, <2>1, KnowsChanged
  <2>. QED  BY <2>2
<1>4. Entry(cl, m.channel) = {Seen(cl.Channels[i])}
  BY EntryAt
<1>. QED  BY <1>1, <1>3, <1>4, ChannelTaken

(* Somebody left the channel.                                              *)
LEMMA TakesPeerLeft ==
  ASSUME NEW cl, Sane(cl), NEW m, m.type = "PeerLeft", m.channel \in ChannelID
  PROVE  Takes(cl, HandleTCP(cl, m), m)
<1>. DEFINE new == HandleTCP(cl, m)
            i == Position(cl, m.channel)
<1>1. Topic(m) = m.channel /\ \A x : After(x, m) = {WithoutPeer(e, m.peer) : e \in x}
  BY Meanings
<1>2. IsVector(cl.Channels)
  BY DEF Sane
<1>3. CASE i = 0
  <2>1. new = cl
    BY <1>3, Handlers DEF OnPeerLeft
  <2>2. Entry(cl, m.channel) = {}
    BY <1>2, <1>3, PositionIs, EntryNone
  <2>3. After({}, m) = {}
    BY <1>1
  <2>. QED  BY <1>1, <2>1, <2>2, <2>3, SameTaken
<1>4. CASE i # 0
  <2>1. i \in DOMAIN cl.Channels /\ cl.Channels[i].ID = m.channel
    BY <1>2, <1>4, PositionIs
  <2>. DEFINE old == cl.Channels[i]
  <2>2. After({Seen(old)}, m) = {WithoutPeer(Seen(old), m.peer)}
    BY <1>1
  <2>3. CASE m.peer \notin DOMAIN old.Peers
    <3>1. new = cl
      BY <1>4, <2>3, Handlers DEF OnPeerLeft
    <3>2. Entry(cl, m.channel) = {Seen(old)}
      BY <2>1, EntryAt
    <3>3. WithoutPeer(Seen(old), m.peer) = Seen(old)
      BY <2>3 DEF WithoutPeer, Seen
    <3>. QED  BY <1>1, <2>2, <3>1, <3>2, <3>3, SameTaken
  <2>4. CASE m.peer \in DOMAIN old.Peers
    <3>. DEFINE peers == FirstErased(old.Peers, m.peer)
                master == IF old.Master = m.peer THEN NoMaster ELSE old.Master
                ch == [old EXCEPT !.Master = master, !.Peers = peers]
    <3>1. new = [cl EXCEPT !.Channels[i].Master = IF @ = m.peer THEN NoMaster ELSE @,
                           !.Channels[i].Peers = FirstErased(@, m.peer)]
      BY <1>4, <2>1, <2>4, Handlers DEF OnPeerLeft
    <3>2. DOMAIN cl = {"ConnectState", "PeerID", "Name", "Channels", "SelectedChannel"}
      BY DEF Sane, IsSession
    <3>3. DOMAIN old = {"ID", "Name", "Flags", "Master", "Peers"} /\ i \in DOMAIN cl.Channels
      BY <2>1 DEF Sane, IsChannel
    <3>4. IsSession(new) /\ new.PeerID = cl.PeerID /\ new.Name = cl.Name
      BY <3>1, <3>2 DEF IsSession
    <3>. DEFINE mid == [cl EXCEPT !.Channels[i].Master = IF @ = m.peer THEN NoMaster ELSE @]
    <3>5. /\ mid.Channels = [cl.Channels EXCEPT ![i] = [old EXCEPT !.Master = master]]
          /\ DOMAIN mid = DOMAIN cl
      BY <3>2
    <3>6. mid.Channels[i] = [old EXCEPT !.Master = master]
      BY <3>5, <3>3
    <3>7. mid.Channels[i].Peers = old.Peers
      BY <3>6, <3>3
    <3>8. new = [mid EXCEPT !.Channels[i].Peers = peers]
      BY <3>1, <3>7
    <3>. HIDE DEF mid
    <3>9. new.Channels = [mid.Channels EXCEPT ![i] = [mid.Channels[i] EXCEPT !.Peers = peers]]
      BY <3>8, <3>5, <3>2
    <3>10. [mid.Channels[i] EXCEPT !.Peers = peers] = ch
      BY <3>6, <3>3
    <3>11. new.Channels = [cl.Channels EXCEPT ![i] = ch]
      BY <3>9, <3>10, <3>5, <3>3
    <3>12. /\ IsChannel(ch) /\ ch.ID = m.channel /\ ch.Name = old.Name
           /\ Seen(ch) = WithoutPeer(Seen(old), m.peer)
      <4>1. IsFunction(old.Peers)
        BY <2>1 DEF Sane, IsChannel
      <4>2. IsFunction(peers)
        BY <4>1, ErasedIs
      <4>3. old.ID = m.channel /\ old.ID \in ChannelID
        BY <2>1
      <4>. HIDE DEF peers, master
      <4>4. /\ ch.ID = old.ID /\ ch.Name = old.Name /\ ch.Peers = peers
            /\ DOMAIN ch = {"ID", "Name", "Flags", "Master", "Peers"}
        BY <3>3
      <4>5. IsChannel(ch)
        BY <4>2, <4>3, <4>4 DEF IsChannel
      <4>6. Seen(ch) = WithoutPeer(Seen(old), m.peer)
        BY <2>4, <4>4 DEF WithoutPeer, Seen, peers
      <4>. QED  BY <4>3, <4>4, <4>5, <4>6
    <3>. HIDE DEF new, peers, master, ch, i
    <3>13. Takes(cl, new, m)
      BY <1>1, <2>1, <2>2, <3>4, <3>11, <3>12, TakesPeers
    <3>. QED  BY <3>13 DEF new
  <2>. QED  BY <2>3, <2>4
<1>. QED  BY <1>3, <1>4

(* Somebody came, or has another name.                                     *)
LEMMA TakesPeerNamed ==
  ASSUME NEW cl, Sane(cl), NEW m, m.type = "PeerNamed", m.channel \in ChannelID,
         m.name # BlankName
  PROVE  Takes(cl, HandleTCP(cl, m), m)
<1>. DEFINE new == HandleTCP(cl, m)
            i == Position(cl, m.channel)
<1>1. Topic(m) = m.channel /\ \A x : After(x, m) = {WithPeer(e, m.peer, m.name) : e \in x}
  BY Meanings
<1>2. IsVector(cl.Channels)
  BY DEF Sane
<1>3. CASE i = 0
  <2>1. new = cl
    BY <1>3, Handlers DEF OnPeerNamed
  <2>2. Entry(cl, m.channel) = {}
    BY <1>2, <1>3, PositionIs, EntryNone
  <2>3. After({}, m) = {}
    BY <1>1
  <2>. QED  BY <1>1, <2>1, <2>2, <2>3, SameTaken
<1>4. CASE i # 0
  <2>1. i \in DOMAIN cl.Channels /\ cl.Channels[i].ID = m.channel
    BY <1>2, <1>4, PositionIs
  <2>. DEFINE old == cl.Channels[i]
              peers == IF m.peer \in DOMAIN old.Peers THEN FirstRenamed(old.Peers, m.peer, m.name)
                       ELSE Pushed(old.Peers, m.peer, m.name)
              ch == [old EXCEPT !.Peers = peers]
  <2>2. new = [cl EXCEPT !.Channels[i].Peers = peers]
    BY <1>4, Handlers DEF OnPeerNamed
  <2>3. DOMAIN cl = {"ConnectState", "PeerID", "Name", "Channels", "SelectedChannel"}
    BY DEF Sane, IsSession
  <2>4. DOMAIN old = {"ID", "Name", "Flags", "Master", "Peers"} /\ i \in DOMAIN cl.Channels
    BY <2>1 DEF Sane, IsChannel
  <2>5. /\ IsSession(new) /\ new.PeerID = cl.PeerID /\ new.Name = cl.Name
        /\ new.Channels = [cl.Channels EXCEPT ![i] = ch]
    BY <2>2, <2>3 DEF IsSession
  <2>6. /\ IsChannel(ch) /\ ch.ID = m.channel /\ ch.Name = old.Name
        /\ Seen(ch) = WithPeer(Seen(old), m.peer, m.name)
    <3>1. IsFunction(old.Peers)
      BY <2>1 DEF Sane, IsChannel
    <3>2. IsFunction(peers)
      BY <3>1, NamedIs
    <3>3. old.ID = m.channel /\ old.ID \in ChannelID
      BY <2>1
    <3>4. Seen(old).Peers = old.Peers /\ Seen(old).Name = old.Name
      BY DEF Seen
    <3>. HIDE DEF old
    <3>5. WithPeer(Seen(old), m.peer, m.name) = [Name |-> old.Name, Peers |-> peers]
      BY <3>4 DEF WithPeer
    <3>. HIDE DEF peers
    <3>6. /\ ch.ID = old.ID /\ ch.Name = old.Name /\ ch.Peers = peers
          /\ DOMAIN ch = {"ID", "Name", "Flags", "Master", "Peers"}
      BY <2>4
    <3>7. IsChannel(ch)
      BY <3>2, <3>3, <3>6 DEF IsChannel
    <3>8. Seen(ch) = [Name |-> old.Name, Peers |-> peers]
      BY <3>6 DEF Seen
    <3>. QED  BY <3>3, <3>5, <3>6, <3>7, <3>8
  <2>7. After({Seen(old)}, m) = {WithPeer(Seen(old), m.peer, m.name)}
    BY <1>1
  <2>. HIDE DEF new, peers, ch, i
  <2>8. Takes(cl, new, m)
    BY <1>1, <2>1, <2>5, <2>6, <2>7, TakesPeers
  <2>. QED  BY <2>8 DEF new
<1>. QED  BY <1>3, <1>4

(* HandleTCP changes what the message is about, as it says, and nothing    *)
(* else.                                                                   *)
LEMMA HandleReads ==
  ASSUME NEW cl, Sane(cl), NEW m, Fitting(Picture(cl), m)
  PROVE  /\ Sane(HandleTCP(cl, m))
         /\ Picture(HandleTCP(cl, m)) = Read(Picture(cl), m)
<1>1. /\ m.type \in OfChannels \cup {"ChannelMessage"} => m.channel \in ChannelID
      /\ m.type = "Joined" => Entry(cl, m.channel) = {}
      /\ (m.type = "NameReply" /\ m.ok) \/ m.type = "PeerNamed" => m.name # BlankName
  BY ChannelsAreTopics DEF Fitting, Picture, Knows, OfChannels
<1>2. Takes(cl, HandleTCP(cl, m), m)
  <2>1. CASE m.type = "Connected"
    BY <2>1, TakesConnected
  <2>2. CASE m.type = "NameReply"
    BY <1>1, <2>2, TakesNameReply
  <2>3. CASE m.type = "Joined"
    BY <1>1, <2>3, TakesJoined DEF OfChannels
  <2>4. CASE m.type = "Dropped"
    BY <1>1, <2>4, TakesDropped DEF OfChannels
  <2>5. CASE m.type = "PeerLeft"
    BY <1>1, <2>5, TakesPeerLeft DEF OfChannels
  <2>6. CASE m.type = "PeerNamed"
    BY <1>1, <2>6, TakesPeerNamed DEF OfChannels
  <2>7. CASE m.type \notin OfChannels \cup {"Connected", "NameReply"}
    <3>1. HandleTCP(cl, m) = cl /\ Topic(m) = Elsewhere
      BY <2>7, Handlers, Meanings
    <3>. QED  BY <3>1, SameTaken, ChannelsAreTopics
  <2>. QED  BY <2>1, <2>2, <2>3, <2>4, <2>5, <2>6, <2>7 DEF OfChannels
<1>. QED  BY <1>2 DEF Takes, Picture, Read

(* v: what a client knows before the first of the messages on their way to *)
(* it and after each of them.                                              *)
Stages(cl, ms, v) ==
  /\ DOMAIN v = 0 .. Len(ms)
  /\ v[0] = Picture(cl)
  /\ \A i \in 1 .. Len(ms) : v[i] = Read(v[i - 1], ms[i]) /\ Fitting(v[i - 1], ms[i])

(* It says something of every topic and of nothing else.                   *)
IsPicture(x) == x = [k \in Topics |-> x[k]]

(* What is known in the end is known topic by topic.                       *)
LEMMA StagesArePictures ==
  ASSUME NEW cl, NEW ms, IsVector(ms), NEW v, Stages(cl, ms, v)
  PROVE  IsPicture(v[Len(ms)])
<1>1. Len(ms) \in Nat
  BY Vector
<1>2. CASE Len(ms) = 0
  BY <1>2 DEF Stages, Picture, IsPicture
<1>3. CASE Len(ms) # 0
  <2>1. v[Len(ms)] = Read(v[Len(ms) - 1], ms[Len(ms)])
    BY <1>1, <1>3 DEF Stages
  <2>. QED  BY <2>1 DEF Read, IsPicture
<1>. QED  BY <1>2, <1>3

-----------------------------------------------------------------------------
(* The client reads one message, or all of them.                           *)

(* The client reads the first message: the rest leads to the same end.     *)
LEMMA StagesRead ==
  ASSUME NEW cl, Sane(cl), NEW ms, IsVector(ms), ms # <<>>, NEW v, Stages(cl, ms, v)
  PROVE  /\ Sane(HandleTCP(cl, Head(ms)))
         /\ IsVector(Tail(ms))
         /\ \E w : /\ Stages(HandleTCP(cl, Head(ms)), Tail(ms), w)
                   /\ w[Len(Tail(ms))] = v[Len(ms)]
<1>. DEFINE n == Len(ms)
            w == [i \in 0 .. n - 1 |-> v[i + 1]]
<1>1. /\ n \in Nat \ {0} /\ ms[1] = Head(ms)
      /\ Tail(ms) \in Seq(Range(ms)) /\ Len(Tail(ms)) = n - 1
      /\ \A i \in 1 .. n - 1 : Tail(ms)[i] = ms[i + 1]
  BY HeadTailProperties, EmptySeq DEF IsVector
<1>2. IsVector(Tail(ms))
  BY <1>1, SeqOfRange DEF IsVector
<1>3. /\ v[0] = Picture(cl)
      /\ \A i \in 1 .. n : v[i] = Read(v[i - 1], ms[i]) /\ Fitting(v[i - 1], ms[i])
  BY DEF Stages
<1>. HIDE DEF n
<1>4. v[1] = Read(v[0], ms[1]) /\ Fitting(v[0], ms[1])
  BY <1>1, <1>3
<1>5. Sane(HandleTCP(cl, Head(ms))) /\ Picture(HandleTCP(cl, Head(ms))) = v[1]
  BY <1>1, <1>3, <1>4, HandleReads
<1>6. \A i \in 1 .. n - 1 : w[i] = Read(w[i - 1], Tail(ms)[i]) /\ Fitting(w[i - 1], Tail(ms)[i])
  <2>1. ASSUME NEW i \in 1 .. n - 1
        PROVE  w[i] = Read(w[i - 1], Tail(ms)[i]) /\ Fitting(w[i - 1], Tail(ms)[i])
    <3>1. /\ i + 1 \in 1 .. n /\ (i + 1) - 1 = i /\ i \in 0 .. n - 1 /\ i - 1 \in 0 .. n - 1
          /\ (i - 1) + 1 = i
      BY <1>1
    <3>2. v[i + 1] = Read(v[i], ms[i + 1]) /\ Fitting(v[i], ms[i + 1])
      BY <1>3, <3>1
    <3>3. w[i] = v[i + 1] /\ w[i - 1] = v[i]
      BY <3>1
    <3>. QED  BY <1>1, <3>2, <3>3
  <2>. QED  BY <2>1
<1>7. w[0] = v[1] /\ w[n - 1] = v[n] /\ DOMAIN w = 0 .. n - 1
  BY <1>1
<1>. HIDE DEF w
<1>8. Stages(HandleTCP(cl, Head(ms)), Tail(ms), w)
  BY <1>1, <1>5, <1>6, <1>7 DEF Stages
<1>. QED  BY <1>1, <1>2, <1>5, <1>7, <1>8 DEF n

(* The recursive function of HandleAll, up to k.                           *)
IsRun(f, cl, ms, k) ==
  f = [j \in 0 .. k |-> IF j = 0 THEN cl ELSE HandleTCP(f[j - 1], ms[j])]

(* There is one for every k.                                               *)
LEMMA RunExists ==
  ASSUME NEW cl, NEW ms
  PROVE  \A k \in Nat : \E f : IsRun(f, cl, ms, k)
<1>. DEFINE S == {k \in Nat : \E f : IsRun(f, cl, ms, k)}
<1>1. 0 \in S
  <2>. DEFINE f == [j \in 0 .. 0 |-> cl]
  <2>1. IsRun(f, cl, ms, 0)
    BY DEF IsRun
  <2>. QED  BY <2>1
<1>2. ASSUME NEW n \in Nat, n \in S  PROVE  n + 1 \in S
  <2>1. PICK f : IsRun(f, cl, ms, n)
    BY <1>2
  <2>. DEFINE g == [j \in 0 .. n + 1 |-> IF j = n + 1 THEN HandleTCP(f[n], ms[n + 1]) ELSE f[j]]
  <2>2. \A j \in 0 .. n : f[j] = IF j = 0 THEN cl ELSE HandleTCP(f[j - 1], ms[j])
    BY <2>1 DEF IsRun
  <2>3. ASSUME NEW j \in 0 .. n + 1
        PROVE  g[j] = IF j = 0 THEN cl ELSE HandleTCP(g[j - 1], ms[j])
    <3>1. CASE j = n + 1
      <4>1. (n + 1) - 1 = n /\ n \in 0 .. n + 1 /\ n # n + 1 /\ n + 1 # 0
        OBVIOUS
      <4>2. g[n] = f[n] /\ g[n + 1] = HandleTCP(f[n], ms[n + 1])
        BY <4>1
      <4>. QED  BY <3>1, <4>1, <4>2
    <3>2. CASE j = 0
      BY <2>2, <3>2
    <3>3. CASE j \in 1 .. n
      <4>1. j \in 0 .. n /\ j - 1 \in 0 .. n + 1 /\ j - 1 # n + 1 /\ j # n + 1 /\ j # 0
        BY <3>3
      <4>2. g[j] = f[j] /\ g[j - 1] = f[j - 1]
        BY <4>1
      <4>. QED  BY <2>2, <4>1, <4>2
    <3>. QED  BY <3>1, <3>2, <3>3
  <2>4. IsRun(g, cl, ms, n + 1)
    BY <2>3 DEF IsRun
  <2>. QED  BY <2>4
<1>. HIDE DEF S
<1>3. Nat \subseteq S
  BY <1>1, <1>2, Counting
<1>. QED  BY <1>3 DEF S

(* A client that reads all of them knows in the end what the stages say.   *)
LEMMA StagesHandled ==
  ASSUME NEW cl, Sane(cl), NEW ms, IsVector(ms), NEW v, Stages(cl, ms, v)
  PROVE  /\ Sane(HandleAll(cl, ms))
         /\ Picture(HandleAll(cl, ms)) = v[Len(ms)]
<1>. DEFINE n == Len(ms)
<1>1. n \in Nat
  BY Vector
<1>2. \E f : f = [j \in 0 .. n |-> IF j = 0 THEN cl ELSE HandleTCP(f[j - 1], ms[j])]
  <2>1. PICK f : IsRun(f, cl, ms, n)
    BY <1>1, RunExists
  <2>2. f = [j \in 0 .. n |-> IF j = 0 THEN cl ELSE HandleTCP(f[j - 1], ms[j])]
    BY <2>1, Zenon DEF IsRun
  <2>. QED  BY <2>2, Zenon
<1>. DEFINE f == CHOOSE g : g = [j \in 0 .. n |-> IF j = 0 THEN cl ELSE HandleTCP(g[j - 1], ms[j])]
<1>3. f = [j \in 0 .. n |-> IF j = 0 THEN cl ELSE HandleTCP(f[j - 1], ms[j])]
  BY <1>2
<1>4. HandleAll(cl, ms) = f[n]
  BY DEF HandleAll
<1>. HIDE DEF f, n
<1>5. /\ f[0] = cl
      /\ \A j \in 1 .. n : f[j] = HandleTCP(f[j - 1], ms[j])
  <2>1. \A j \in 0 .. n : f[j] = IF j = 0 THEN cl ELSE HandleTCP(f[j - 1], ms[j])
    BY <1>3, Zenon
  <2>2. 0 \in 0 .. n /\ \A j \in 1 .. n : j \in 0 .. n /\ j # 0
    BY <1>1
  <2>. QED  BY <2>1, <2>2
<1>6. /\ v[0] = Picture(cl)
      /\ \A i \in 1 .. n : v[i] = Read(v[i - 1], ms[i]) /\ Fitting(v[i - 1], ms[i])
  BY DEF Stages, n
<1>. DEFINE S == {k \in Nat : k <= n => Sane(f[k]) /\ Picture(f[k]) = v[k]}
<1>7. 0 \in S
  BY <1>1, <1>5, <1>6
<1>8. ASSUME NEW k \in Nat, k \in S  PROVE  k + 1 \in S
  <2>. SUFFICES ASSUME k + 1 <= n  PROVE  Sane(f[k + 1]) /\ Picture(f[k + 1]) = v[k + 1]
    OBVIOUS
  <2>1. k + 1 \in 1 .. n /\ (k + 1) - 1 = k /\ k <= n
    BY <1>1
  <2>2. Sane(f[k]) /\ Picture(f[k]) = v[k]
    BY <1>8, <2>1
  <2>3. f[k + 1] = HandleTCP(f[k], ms[k + 1])
    BY <1>5, <2>1
  <2>4. v[k + 1] = Read(v[k], ms[k + 1]) /\ Fitting(v[k], ms[k + 1])
    BY <1>6, <2>1
  <2>. QED  BY <2>2, <2>3, <2>4, HandleReads
<1>. HIDE DEF S
<1>9. Nat \subseteq S
  BY <1>7, <1>8, Counting
<1>10. n \in S
  BY <1>1, <1>9
<1>. QED  BY <1>1, <1>4, <1>10 DEF S, n

-----------------------------------------------------------------------------
(* The server writes several messages at once, in any order.               *)

(* Messages that lead from one picture to another: at most one is about a  *)
(* topic, and a topic none is about stays as it was.                       *)
Batch(msgs, old, new) ==
  /\ IsFiniteSet(msgs)
  /\ \A l, m \in msgs : Topic(l) \in Topics /\ Topic(l) = Topic(m) => l = m
  /\ \A m \in msgs : Topic(m) \in Topics => new[Topic(m)] = After(old[Topic(m)], m)
  /\ \A k \in Topics : (\A m \in msgs : Topic(m) # k) => new[k] = old[k]
  /\ \A m \in msgs : Fitting(old, m)
  /\ \A l, m \in msgs : m.type = "ChannelMessage" => Topic(l) \notin Topics

(* An order of a set of messages has each of them once.                    *)
LEMMA Order ==
  ASSUME NEW msgs, IsFiniteSet(msgs), NEW news \in SetToSeqs(msgs)
  PROVE  /\ news \in Seq(msgs)
         /\ IsVector(news)
         /\ \A i, j \in 1 .. Len(news) : news[i] = news[j] => i = j
         /\ \A m \in msgs : \E i \in 1 .. Len(news) : news[i] = m
<1>. DEFINE c == Cardinality(msgs)
<1>1. c \in Nat
  BY FS_CardinalityType
<1>2. /\ news \in [1 .. c -> msgs]
      /\ \A i, j \in 1 .. c : i # j => news[i] # news[j]
  BY DEF SetToSeqs
<1>3. news \in Seq(msgs) /\ Len(news) = c
  BY <1>1, <1>2
<1>4. news \in Injection(1 .. c, msgs)
  BY <1>2 DEF Injection, IsInjective
<1>5. IsFiniteSet(1 .. c) /\ Cardinality(1 .. c) = c
  <2>1. 1 \in Int /\ c \in Int /\ (1 > c => c = 0) /\ c - 1 + 1 = c
    BY <1>1
  <2>2. /\ IsFiniteSet(1 .. c)
        /\ Cardinality(1 .. c) = IF 1 > c THEN 0 ELSE c - 1 + 1
    BY <2>1, FS_Interval
  <2>. QED  BY <2>1, <2>2
<1>6. news \in Surjection(1 .. c, msgs)
  BY <1>4, <1>5, FS_Injection
<1>7. \A m \in msgs : \E i \in 1 .. c : news[i] = m
  BY <1>6 DEF Surjection
<1>8. IsVector(news)
  BY <1>3, SeqOfRange DEF IsVector
<1>. QED  BY <1>2, <1>3, <1>7, <1>8

(* Written behind what is already on its way, in any order, they lead from *)
(* the picture at its end to the new one.                                  *)
LEMMA StagesMore ==
  ASSUME NEW cl, NEW ms, IsVector(ms), NEW v, Stages(cl, ms, v),
         NEW msgs, NEW new, IsPicture(new), Batch(msgs, v[Len(ms)], new),
         NEW news \in SetToSeqs(msgs)
  PROVE  /\ IsVector(ms \o news)
         /\ \E w : Stages(cl, ms \o news, w) /\ w[Len(ms \o news)] = new
<1>. DEFINE n == Len(ms)  c == Len(news)  all == ms \o news  old == v[n]
            Told(j, k) == \E i \in 1 .. j : Topic(news[i]) = k
            x(j) == [k \in Topics |-> IF Told(j, k) THEN new[k] ELSE old[k]]
            w == [i \in 0 .. n + c |-> IF i <= n THEN v[i] ELSE x(i - n)]
<1>1. /\ IsFiniteSet(msgs)
      /\ \A l, m \in msgs : Topic(l) \in Topics /\ Topic(l) = Topic(m) => l = m
      /\ \A m \in msgs : Topic(m) \in Topics => new[Topic(m)] = After(old[Topic(m)], m)
      /\ \A k \in Topics : (\A m \in msgs : Topic(m) # k) => new[k] = old[k]
      /\ \A m \in msgs : Fitting(old, m)
      /\ \A l, m \in msgs : m.type = "ChannelMessage" => Topic(l) \notin Topics
  BY DEF Batch
<1>2. /\ news \in Seq(msgs) /\ c \in Nat
      /\ \A i, j \in 1 .. c : news[i] = news[j] => i = j
      /\ \A m \in msgs : \E i \in 1 .. c : news[i] = m
      /\ \A i \in 1 .. c : news[i] \in msgs
  BY <1>1, Order
<1>3. /\ IsVector(all) /\ n \in Nat /\ Len(all) = n + c
      /\ \A i \in 1 .. n : all[i] = ms[i]
      /\ \A j \in 1 .. c : all[n + j] = news[j]
  <2>. DEFINE S == Range(ms) \cup msgs
  <2>1. ms \in Seq(S) /\ news \in Seq(S) /\ n \in Nat
    BY <1>2, Vector, SeqMonotonic DEF IsVector
  <2>2. /\ all \in Seq(S)
        /\ Len(all) = n + c
        /\ \A i \in 1 .. n + c : all[i] = IF i <= n THEN ms[i] ELSE news[i - n]
    BY <2>1, ConcatProperties
  <2>3. \A j \in 1 .. c : n + j \in 1 .. n + c /\ ~ (n + j <= n) /\ (n + j) - n = j
    BY <1>2, <2>1
  <2>4. \A i \in 1 .. n : i \in 1 .. n + c /\ i <= n
    BY <1>2, <2>1
  <2>. HIDE DEF n, c, all
  <2>5. \A j \in 1 .. c : all[n + j] = news[j]
    BY <2>2, <2>3
  <2>6. \A i \in 1 .. n : all[i] = ms[i]
    BY <2>2, <2>4
  <2>. QED  BY <2>1, <2>2, <2>5, <2>6, SeqOfRange DEF IsVector
<1>4. /\ v[0] = Picture(cl)
      /\ \A i \in 1 .. n : v[i] = Read(v[i - 1], ms[i]) /\ Fitting(v[i - 1], ms[i])
  BY DEF Stages
<1>5. IsPicture(old)
  BY StagesArePictures
<1>. HIDE DEF n, c, all, old
<1>6. /\ \A i \in 0 .. n : w[i] = v[i]
      /\ \A j \in 1 .. c : w[n + j] = x(j)
  <2>1. ASSUME NEW j \in 1 .. c  PROVE  w[n + j] = x(j)
    <3>1. n + j \in 0 .. n + c /\ ~ (n + j <= n) /\ (n + j) - n = j
      BY <1>2, <1>3
    <3>. HIDE DEF x
    <3>. QED  BY <3>1
  <2>2. ASSUME NEW i \in 0 .. n  PROVE  w[i] = v[i]
    <3>1. i \in 0 .. n + c /\ i <= n
      BY <1>2, <1>3
    <3>. QED  BY <3>1
  <2>. QED  BY <2>1, <2>2
<1>7. \A k \in Topics : x(0)[k] = old[k]
  OBVIOUS
<1>8. \A j \in 1 .. c, k \in Topics : w[n + (j - 1)][k] = x(j - 1)[k]
  <2>1. ASSUME NEW j \in 1 .. c, NEW k \in Topics  PROVE  w[n + (j - 1)][k] = x(j - 1)[k]
    <3>. HIDE DEF x, w
    <3>1. CASE j = 1
      <4>1. n + (j - 1) = n /\ j - 1 = 0 /\ n \in 0 .. n
        BY <1>3, <3>1
      <4>2. w[n] = old
        BY <1>6, <4>1 DEF old
      <4>. QED  BY <1>7, <4>1, <4>2
    <3>2. CASE j # 1
      <4>1. j - 1 \in 1 .. c
        BY <1>2, <3>2
      <4>. QED  BY <1>6, <4>1
    <3>. QED  BY <3>1, <3>2
  <2>. QED  BY <2>1
<1>9. ASSUME NEW j \in 1 .. c
      PROVE  /\ w[n + j] = Read(w[n + (j - 1)], news[j])
             /\ Fitting(w[n + (j - 1)], news[j])
  <2>. DEFINE m == news[j]  y == w[n + (j - 1)]
  <2>1. m \in msgs
    BY <1>2
  <2>2. \A k \in Topics : y[k] = IF Told(j - 1, k) THEN new[k] ELSE old[k]
    BY <1>8
  <2>3. Topic(m) \in Topics => ~ Told(j - 1, Topic(m))
    <3>1. ASSUME Topic(m) \in Topics, NEW i \in 1 .. j - 1, Topic(news[i]) = Topic(m)  PROVE FALSE
      <4>1. i \in 1 .. c /\ i # j
        BY <1>2
      <4>2. news[i] = m
        BY <1>1, <1>2, <2>1, <3>1, <4>1
      <4>. QED  BY <1>2, <4>1, <4>2
    <3>. QED  BY <3>1
  <2>4. \A k : Told(j, k) <=> (Told(j - 1, k) \/ k = Topic(m))
    <3>1. \A i : i \in 1 .. j <=> (i \in 1 .. j - 1 \/ i = j)
      BY <1>2
    <3>. QED  BY <3>1
  <2>. HIDE DEF y, Told
  <2>5. \A k \in Topics : (IF Told(j, k) THEN new[k] ELSE old[k])
                          = IF k = Topic(m) THEN After(y[k], m) ELSE y[k]
    <3>1. ASSUME NEW k \in Topics, k = Topic(m)
          PROVE  Told(j, k) /\ new[k] = After(y[k], m)
      BY <1>1, <2>1, <2>2, <2>3, <2>4, <3>1
    <3>2. ASSUME NEW k \in Topics, k # Topic(m)
          PROVE  (IF Told(j, k) THEN new[k] ELSE old[k]) = y[k]
      BY <2>2, <2>4, <3>2
    <3>. QED  BY <3>1, <3>2
  <2>6. w[n + j] = Read(y, m)
    <3>1. w[n + j] = [k \in Topics |-> IF Told(j, k) THEN new[k] ELSE old[k]]
      BY <1>6
    <3>. QED  BY <2>5, <3>1 DEF Read
  <2>7. Fitting(old, m)
    BY <1>1, <2>1
  <2>8. m.type \in OfChannels \cup {"ChannelMessage"} => y[m.channel] = old[m.channel]
    <3>1. ASSUME m.type \in OfChannels \cup {"ChannelMessage"}  PROVE  m.channel \in Topics
      BY <2>7, <3>1, ChannelsAreTopics DEF Fitting
    <3>2. CASE m.type \in OfChannels
      <4>1. Topic(m) = m.channel
        BY <3>2 DEF Topic, OfChannels
      <4>. QED  BY <2>2, <2>3, <3>1, <3>2, <4>1
    <3>3. CASE m.type = "ChannelMessage"
      <4>1. ~ Told(j - 1, m.channel)
        <5>1. \A i \in 1 .. j - 1 : Topic(news[i]) \notin Topics
          <6>1. \A i \in 1 .. j - 1 : i \in 1 .. c
            BY <1>2
          <6>. QED  BY <1>1, <1>2, <2>1, <3>3, <6>1
        <5>. QED  BY <3>1, <3>3, <5>1 DEF Told
      <4>. QED  BY <2>2, <3>1, <3>3, <4>1
    <3>. QED  BY <3>2, <3>3
  <2>9. Fitting(y, m)
    BY <2>7, <2>8 DEF Fitting, OfChannels
  <2>. QED  BY <2>6, <2>9 DEF y
<1>10. w[n + c] = new
  <2>1. CASE c = 0
    <3>1. msgs = {}
      BY <1>2, <2>1
    <3>2. \A k \in Topics : new[k] = old[k]
      BY <1>1, <3>1
    <3>3. new = old
      BY <1>5, <3>2 DEF IsPicture
    <3>4. n + c = n /\ n \in 0 .. n
      BY <1>3, <2>1
    <3>. HIDE DEF w
    <3>. QED  BY <1>6, <3>3, <3>4 DEF old
  <2>2. CASE c # 0
    <3>1. c \in 1 .. c
      BY <1>2, <2>2
    <3>2. \A k \in Topics : (IF Told(c, k) THEN new[k] ELSE old[k]) = new[k]
      BY <1>1, <1>2
    <3>3. w[n + c] = [k \in Topics |-> IF Told(c, k) THEN new[k] ELSE old[k]]
      BY <1>6, <3>1
    <3>. QED  BY <3>2, <3>3 DEF IsPicture
  <2>. QED  BY <2>1, <2>2
<1>11. DOMAIN w = 0 .. Len(all)
  BY <1>3
<1>. HIDE DEF w
<1>12. w[0] = Picture(cl)
  BY <1>3, <1>4, <1>6
<1>13. \A i \in 1 .. Len(all) : w[i] = Read(w[i - 1], all[i]) /\ Fitting(w[i - 1], all[i])
  <2>1. ASSUME NEW i \in 1 .. n  PROVE  w[i] = Read(w[i - 1], all[i]) /\ Fitting(w[i - 1], all[i])
    <3>1. i \in 0 .. n /\ i - 1 \in 0 .. n
      BY <1>3
    <3>. QED  BY <1>3, <1>4, <1>6, <3>1
  <2>2. ASSUME NEW j \in 1 .. c
        PROVE  w[n + j] = Read(w[(n + j) - 1], all[n + j]) /\ Fitting(w[(n + j) - 1], all[n + j])
    <3>1. (n + j) - 1 = n + (j - 1)
      BY <1>2, <1>3
    <3>. QED  BY <1>3, <1>9, <3>1
  <2>3. \A i \in 1 .. n + c : i \in 1 .. n \/ \E j \in 1 .. c : i = n + j
    <3>1. ASSUME NEW i \in 1 .. n + c, i \notin 1 .. n  PROVE  i - n \in 1 .. c /\ i = n + (i - n)
      BY <1>2, <1>3, <3>1
    <3>. QED  BY <3>1
  <2>. QED  BY <1>3, <2>1, <2>2, <2>3
<1>14. Stages(cl, all, w)
  BY <1>11, <1>12, <1>13 DEF Stages
<1>. QED  BY <1>3, <1>10, <1>14 DEF all

(* The server's account of a peer, topic by topic.                         *)
Room(c, p) ==
  [Name |-> ChannelsPool[c].Name, Peers |-> [q \in Members(c) \ {p} |-> <<PeersPool[q].Name>>]]

(* The name its client should have: until the server has one, the one kept *)
(* from an earlier session.                                                *)
OwnName(p, kept) == IF PeersPool[p].Name = BlankName THEN kept ELSE PeersPool[p].Name

(* And all of it, as the picture its client should have.                   *)
Account(p, kept) ==
  [k \in Topics |-> IF k = Itself THEN p
                    ELSE IF k = ItsName THEN OwnName(p, kept)
                    ELSE IF k \in PeersPool[p].Channels THEN {Room(k, p)} ELSE {}]

(* No host makes a name blank: its NameSet callback leaves one.            *)
NamesStay == BlankName \notin NameRewrites

(* What is written to q in a step is what makes a reader of the old        *)
(* account one of the new.                                                 *)
Tells(q, kept) == Batch(sent'[q], Account(q, kept), Account(q, kept)')

(* The account, topic by topic.                                            *)
LEMMA AccountIs ==
  ASSUME NEW p, NEW kept
  PROVE  /\ IsPicture(Account(p, kept))
         /\ Account(p, kept)[Itself] = p
         /\ Account(p, kept)[ItsName] = OwnName(p, kept)
         /\ \A k \in ChannelID :
              Account(p, kept)[k] = IF k \in PeersPool[p].Channels THEN {Room(k, p)} ELSE {}
  BY ChannelsAreTopics DEF Account, OwnName, IsPicture

(* The same after the step.                                                *)
LEMMA AccountBecomes ==
  ASSUME NEW p, NEW kept
  PROVE  /\ IsPicture(Account(p, kept)')
         /\ Account(p, kept)'[Itself] = p
         /\ Account(p, kept)'[ItsName] = OwnName(p, kept)'
         /\ \A k \in ChannelID :
              Account(p, kept)'[k] = IF k \in PeersPool'[p].Channels THEN {Room(k, p)'} ELSE {}
  BY ChannelsAreTopics DEF Account, OwnName, IsPicture

(* A channel as p sees it: nobody came or went.                            *)
LEMMA RoomSame ==
  ASSUME NEW c, NEW q, ChannelsPool'[c].Name = ChannelsPool[c].Name,
         Members(c)' \ {q} = Members(c) \ {q},
         \A r \in Members(c) \ {q} : PeersPool'[r].Name = PeersPool[r].Name
  PROVE  Room(c, q)' = Room(c, q)
<1>1. Room(c, q)' = [Name |-> ChannelsPool'[c].Name,
                     Peers |-> [r \in Members(c)' \ {q} |-> <<PeersPool'[r].Name>>]]
  BY DEF Room
<1>. QED  BY <1>1 DEF Room

(* Somebody came or has another name.                                      *)
LEMMA RoomGains ==
  ASSUME NEW c, NEW q, NEW p, NEW n, ChannelsPool'[c].Name = ChannelsPool[c].Name,
         Members(c)' \ {q} = (Members(c) \ {q}) \cup {p},
         \A r \in Members(c) \ {q} : r # p => PeersPool'[r].Name = PeersPool[r].Name,
         PeersPool'[p].Name = n
  PROVE  Room(c, q)' = WithPeer(Room(c, q), p, n)
<1>1. Room(c, q)' = [Name |-> ChannelsPool'[c].Name,
                     Peers |-> [r \in Members(c)' \ {q} |-> <<PeersPool'[r].Name>>]]
  BY DEF Room
<1>2. /\ Room(c, q).Name = ChannelsPool[c].Name
      /\ DOMAIN Room(c, q).Peers = Members(c) \ {q}
      /\ \A r \in Members(c) \ {q} : Room(c, q).Peers[r] = <<PeersPool[r].Name>>
  BY DEF Room
<1>. DEFINE f == Room(c, q).Peers
<1>3. \A x : <<n>> \o Tail(<<x>>) = <<n>>
  OBVIOUS
<1>4. CASE p \in DOMAIN f
  <2>1. FirstRenamed(f, p, n) = [r \in Members(c)' \ {q} |-> <<PeersPool'[r].Name>>]
    BY <1>2, <1>3, <1>4 DEF FirstRenamed
  <2>. QED  BY <1>1, <1>2, <1>4, <2>1 DEF WithPeer
<1>5. CASE p \notin DOMAIN f
  <2>1. Pushed(f, p, n) = [r \in Members(c)' \ {q} |-> <<PeersPool'[r].Name>>]
    BY <1>2, <1>5 DEF Pushed
  <2>. QED  BY <1>1, <1>2, <1>5, <2>1 DEF WithPeer
<1>. QED  BY <1>4, <1>5

(* Somebody went.                                                          *)
LEMMA RoomLoses ==
  ASSUME NEW c, NEW q, NEW p, ChannelsPool'[c].Name = ChannelsPool[c].Name,
         Members(c)' \ {q} = (Members(c) \ {q}) \ {p},
         \A r \in (Members(c) \ {q}) \ {p} : PeersPool'[r].Name = PeersPool[r].Name
  PROVE  Room(c, q)' = WithoutPeer(Room(c, q), p)
<1>1. Room(c, q)' = [Name |-> ChannelsPool'[c].Name,
                     Peers |-> [r \in Members(c)' \ {q} |-> <<PeersPool'[r].Name>>]]
  BY DEF Room
<1>2. /\ Room(c, q).Name = ChannelsPool[c].Name
      /\ DOMAIN Room(c, q).Peers = Members(c) \ {q}
      /\ \A r \in Members(c) \ {q} : Room(c, q).Peers[r] = <<PeersPool[r].Name>>
  BY DEF Room
<1>. DEFINE f == Room(c, q).Peers
<1>3. CASE p \in DOMAIN f
  <2>1. Len(f[p]) = 1
    <3>1. f[p] = <<PeersPool[p].Name>>
      BY <1>2, <1>3
    <3>. HIDE DEF f
    <3>. QED  BY <3>1
  <2>2. FirstErased(f, p) = [r \in Members(c)' \ {q} |-> <<PeersPool'[r].Name>>]
    BY <1>2, <2>1 DEF FirstErased
  <2>. QED  BY <1>1, <1>2, <1>3, <2>2 DEF WithoutPeer
<1>4. CASE p \notin DOMAIN f
  <2>1. f = [r \in Members(c)' \ {q} |-> <<PeersPool'[r].Name>>]
    BY <1>2, <1>4 DEF Room
  <2>. QED  BY <1>1, <1>2, <1>4, <2>1 DEF WithoutPeer
<1>. QED  BY <1>3, <1>4

(* Kinds of batches.                                                       *)

(* Messages about channels, at most one about each.                        *)
LEMMA ChannelBatch ==
  ASSUME NEW msgs, NEW old, NEW new,
         new[Itself] = old[Itself], new[ItsName] = old[ItsName],
         \A m \in msgs : /\ m.type \in OfChannels
                         /\ m.channel \in ChannelID
                         /\ new[m.channel] = After(old[m.channel], m)
                         /\ m.type = "Joined" => old[m.channel] = {}
                         /\ m.type = "PeerNamed" => m.name # BlankName,
         \A l, m \in msgs : l.channel = m.channel => l = m,
         \A k \in ChannelID : (\A m \in msgs : m.channel # k) => new[k] = old[k]
  PROVE  Batch(msgs, old, new)
<1>1. \A m \in msgs : Topic(m) = m.channel /\ Topic(m) \in Topics
  BY ChannelsAreTopics DEF Topic, OfChannels
<1>2. IsFiniteSet(msgs)
  <2>. DEFINE f == [m \in msgs |-> m.channel]
  <2>1. f \in Injection(msgs, ChannelID)
    BY DEF Injection, IsInjective
  <2>2. IsFiniteSet(ChannelID)
    BY IdsAreFinite
  <2>. QED  BY <2>1, <2>2, FS_Injection
<1>3. \A m \in msgs : Fitting(old, m)
  BY DEF Fitting, OfChannels
<1>4. \A k \in Topics : (\A m \in msgs : Topic(m) # k) => new[k] = old[k]
  BY <1>1 DEF Topics
<1>5. \A m \in msgs : m.type # "ChannelMessage"
  BY DEF OfChannels
<1>. QED  BY <1>1, <1>2, <1>3, <1>4, <1>5 DEF Batch

(* A message to which the client's view gives no meaning, or none at all.  *)
LEMMA SilentBatch ==
  ASSUME NEW msgs, NEW old, NEW new, \A k \in Topics : new[k] = old[k],
         NEW m, msgs \subseteq {m}, Topic(m) = Elsewhere, Fitting(old, m)
  PROVE  Batch(msgs, old, new)
<1>1. IsFiniteSet(msgs)
  BY FS_Singleton, FS_Subset
<1>2. \A l \in msgs : l = m
  OBVIOUS
<1>. QED  BY <1>1, <1>2, ChannelsAreTopics DEF Batch

(* No message, and nothing to tell.                                        *)
LEMMA NoBatch ==
  ASSUME NEW old, NEW new, \A k \in Topics : new[k] = old[k]
  PROVE  Batch({}, old, new)
<1>1. IsFiniteSet({})
  BY FS_EmptySet
<1>. QED  BY <1>1 DEF Batch

(* One message.                                                            *)
LEMMA OneBatch ==
  ASSUME NEW m, NEW old, NEW new, Topic(m) \in Topics, Fitting(old, m),
         m.type # "ChannelMessage",
         new[Topic(m)] = After(old[Topic(m)], m),
         \A k \in Topics : k # Topic(m) => new[k] = old[k]
  PROVE  Batch({m}, old, new)
<1>1. IsFiniteSet({m})
  BY FS_Singleton
<1>. QED  BY <1>1 DEF Batch

-----------------------------------------------------------------------------
(* The members of a channel have it among theirs.                          *)
LEMMA BothSides ==
  ASSUME IInv, NEW q \in DOMAIN PeersPool
  PROVE  /\ q \in PeerID
         /\ PeersPool[q].Channels \subseteq ChannelID
         /\ PeersPool[q].Channels \subseteq DOMAIN ChannelsPool
         /\ \A c \in DOMAIN ChannelsPool : c \in PeersPool[q].Channels <=> q \in Members(c)
         /\ \A c \in PeersPool[q].Channels : Members(c) \subseteq DOMAIN PeersPool
  BY DEF IInv, TypeOK, MembershipSymmetric, Peer

(* The same after a step.                                                  *)
LEMMA BothSidesAfter ==
  ASSUME IInv', NEW q \in DOMAIN PeersPool'
  PROVE  /\ PeersPool'[q].Channels \subseteq DOMAIN ChannelsPool'
         /\ \A c \in DOMAIN ChannelsPool' : c \in PeersPool'[q].Channels <=> q \in Members(c)'
  BY DEF IInv, MembershipSymmetric

(* Nothing that q sees of the channels changes.                            *)
LEMMA AccountSame ==
  ASSUME NEW kept, IInv, NEW q \in DOMAIN PeersPool,
         PeersPool'[q].Name = PeersPool[q].Name,
         PeersPool'[q].Channels = PeersPool[q].Channels,
         \A c \in PeersPool[q].Channels :
           /\ ChannelsPool'[c].Name = ChannelsPool[c].Name
           /\ Members(c)' \ {q} = Members(c) \ {q}
           /\ \A r \in Members(c) \ {q} : PeersPool'[r].Name = PeersPool[r].Name
  PROVE  \A k \in Topics : Account(q, kept)'[k] = Account(q, kept)[k]
<1>1. \A k \in ChannelID : Account(q, kept)'[k] = Account(q, kept)[k]
  <2>1. ASSUME NEW k \in ChannelID  PROVE  Account(q, kept)'[k] = Account(q, kept)[k]
    <3>1. ASSUME k \in PeersPool[q].Channels  PROVE Room(k, q)' = Room(k, q)
      <4>1. /\ ChannelsPool'[k].Name = ChannelsPool[k].Name
            /\ Members(k)' \ {q} = Members(k) \ {q}
            /\ \A r \in Members(k) \ {q} : PeersPool'[r].Name = PeersPool[r].Name
        BY <3>1
      <4>. QED  BY <4>1, RoomSame, Zenon
    <3>2. Account(q, kept)[k] = IF k \in PeersPool[q].Channels THEN {Room(k, q)} ELSE {}
      BY AccountIs
    <3>3. Account(q, kept)'[k] = IF k \in PeersPool'[q].Channels THEN {Room(k, q)'} ELSE {}
      BY AccountBecomes
    <3>. QED  BY <3>1, <3>2, <3>3
  <2>. QED  BY <2>1
<1>2. /\ Account(q, kept)'[Itself] = Account(q, kept)[Itself]
      /\ Account(q, kept)'[ItsName] = Account(q, kept)[ItsName]
  <2>1. OwnName(q, kept)' = OwnName(q, kept)
    BY DEF OwnName
  <2>. QED  BY <2>1, AccountIs, AccountBecomes
<1>. QED  BY <1>1, <1>2 DEF Topics

(* The reply tells the peer what it asks for is done or not, and nobody    *)
(* else hears of it.                                                       *)
LEMMA ReplyTells ==
  ASSUME NEW kept, IInv, NEW p \in PeerID, NEW q \in DOMAIN PeersPool, NEW m, sent' = Only(p, m),
         Topic(m) = Elsewhere, m.type \notin OfChannels \cup {"ChannelMessage"},
         UNCHANGED <<PeersPool, ChannelsPool>>
  PROVE  Tells(q, kept)
<1>1. \A k \in Topics : Account(q, kept)'[k] = Account(q, kept)[k]
  <2>1. \A c : Members(c)' = Members(c)
    BY DEF Members
  <2>. QED  BY <2>1, AccountSame
<1>2. sent'[q] \subseteq {m}
  BY BothSides DEF Only, Nothing
<1>3. Fitting(Account(q, kept), m)
  BY Meanings, ChannelsAreTopics DEF Fitting, OfChannels
<1>. QED  BY <1>1, <1>2, <1>3, SilentBatch DEF Tells

(* A denial is about no topic of the client's view.                        *)
LEMMA DenialsTell ==
  ASSUME NEW kept, IInv, NEW p \in DOMAIN PeersPool, NEW q \in DOMAIN PeersPool, NEW n,
         DenyNameChange(p, n) \/ DenyChannelJoin(p, n)
  PROVE  Tells(q, kept)
<1>. DEFINE m == IF DenyNameChange(p, n) THEN NameReply(FALSE, n) ELSE JoinDenied(n)
<1>1. sent' = Only(p, m) /\ UNCHANGED <<PeersPool, ChannelsPool>>
  BY DEF DenyNameChange, DenyChannelJoin
<1>2. m.type \in {"NameReply", "JoinDenied"} /\ (m.type = "NameReply" => ~ m.ok)
  BY DEF NameReply, JoinDenied
<1>. HIDE DEF m
<1>3. Topic(m) = Elsewhere /\ m.type \notin OfChannels \cup {"ChannelMessage"}
  BY <1>2, Meanings DEF OfChannels
<1>4. p \in PeerID
  BY BothSides
<1>. QED  BY <1>1, <1>3, <1>4, ReplyTells

(* A request that is ignored tells nobody anything.                        *)
LEMMA IgnoringTells ==
  ASSUME NEW kept, IInv, NEW p, NEW r, Ignore(p, r), NEW q \in DOMAIN PeersPool
  PROVE  Tells(q, kept)
<1>1. \A k \in Topics : Account(q, kept)'[k] = Account(q, kept)[k]
  <2>1. \A c : Members(c)' = Members(c)
    BY DEF Members, Ignore
  <2>. QED  BY <2>1, AccountSame DEF Ignore
<1>2. sent'[q] = {}
  BY BothSides DEF Ignore, Nothing
<1>. QED  BY <1>1, <1>2, NoBatch DEF Tells

(* A message sent to a channel changes no view: it goes to its other       *)
(* members, who know its sender.                                           *)
LEMMA SendingTells ==
  ASSUME NEW kept, IInv, NEW p \in DOMAIN PeersPool, NEW c, SendToChannel(p, c), NEW q \in DOMAIN PeersPool
  PROVE  Tells(q, kept)
<1>. DEFINE m == ChannelMessage(c, p)
<1>1. \A k \in Topics : Account(q, kept)'[k] = Account(q, kept)[k]
  <2>1. \A d : Members(d)' = Members(d)
    BY DEF Members, SendToChannel
  <2>. QED  BY <2>1, AccountSame DEF SendToChannel
<1>2. sent'[q] = IF q \in Members(c) \ {p} THEN {m} ELSE {}
  BY BothSides DEF SendToChannel
<1>3. CASE q \in Members(c) \ {p}
  <2>1. c \in PeersPool[p].Channels
    BY DEF SendToChannel, IsInChannel
  <2>2. c \in ChannelID /\ p \in Members(c) /\ c \in PeersPool[q].Channels
    BY <1>3, <2>1, BothSides
  <2>3. Account(q, kept)[c] = {Room(c, q)} /\ p \in DOMAIN Room(c, q).Peers
    BY <1>3, <2>2, AccountIs DEF Room
  <2>4. m.type = "ChannelMessage" /\ m.channel = c /\ m.peer = p
    BY DEF ChannelMessage
  <2>. HIDE DEF m
  <2>5. Fitting(Account(q, kept), m) /\ Topic(m) = Elsewhere
    BY <2>2, <2>3, <2>4, Meanings DEF Fitting, OfChannels
  <2>6. sent'[q] \subseteq {m}
    BY <1>2
  <2>. QED  BY <1>1, <2>5, <2>6, SilentBatch DEF Tells
<1>4. CASE q \notin Members(c) \ {p}
  BY <1>1, <1>2, <1>4, NoBatch DEF Tells
<1>. QED  BY <1>3, <1>4

(* A new peer disturbs nobody, and is told its id.                         *)
LEMMA ConnectTells ==
  ASSUME NEW kept, NEW left, left.Name = kept, IInv, NEW p \in PeerID, Connect(p)
  PROVE  /\ \A q \in DOMAIN PeersPool : Tells(q, kept)
         /\ Batch(sent'[p], Picture(NewSession(left)), Account(p, kept)')
<1>1. /\ p \notin DOMAIN PeersPool
      /\ \A q \in DOMAIN PeersPool : PeersPool'[q] = PeersPool[q]
      /\ PeersPool'[p] = [Name |-> BlankName, Channels |-> {}]
      /\ ChannelsPool' = ChannelsPool
      /\ sent' = Only(p, Welcome(p))
  BY DEF Connect, LowestFree
<1>2. ASSUME NEW q \in DOMAIN PeersPool  PROVE Tells(q, kept)
  <2>1. \A d : Members(d)' = Members(d)
    BY <1>1 DEF Members
  <2>2. \A c \in PeersPool[q].Channels :
           /\ ChannelsPool'[c].Name = ChannelsPool[c].Name
           /\ Members(c)' \ {q} = Members(c) \ {q}
           /\ \A r \in Members(c) \ {q} : PeersPool'[r].Name = PeersPool[r].Name
    BY <1>1, <2>1, BothSides
  <2>3. PeersPool'[q].Name = PeersPool[q].Name /\ PeersPool'[q].Channels = PeersPool[q].Channels
    BY <1>1
  <2>4. \A k \in Topics : Account(q, kept)'[k] = Account(q, kept)[k]
    BY <2>2, <2>3, AccountSame
  <2>5. sent'[q] = {}
    BY <1>1, BothSides DEF Only, Nothing
  <2>. QED  BY <2>4, <2>5, NoBatch DEF Tells
<1>3. Batch(sent'[p], Picture(NewSession(left)), Account(p, kept)')
  <2>. DEFINE old == Picture(NewSession(left))  new == Account(p, kept)'  m == Welcome(p)
  <2>1. /\ old[ItsName] = kept
        /\ \A k \in ChannelID : old[k] = {}
    <3>1. NewSession(left).Name = kept /\ NewSession(left).Channels = <<>>
      BY DEF NewSession
    <3>2. \A k : Entry(NewSession(left), k) = {}
      BY <3>1, EntryNone
    <3>. QED  BY <3>1, <3>2, ChannelsAreTopics DEF Picture, Knows
  <2>2. /\ new[Itself] = p
        /\ new[ItsName] = kept
        /\ \A k \in ChannelID : new[k] = {}
    <3>1. /\ new[Itself] = p
          /\ new[ItsName] = OwnName(p, kept)'
          /\ \A k \in ChannelID : new[k] = IF k \in PeersPool'[p].Channels THEN {Room(k, p)'} ELSE {}
      BY AccountBecomes, SMT
    <3>2. OwnName(p, kept)' = kept /\ PeersPool'[p].Channels = {}
      BY <1>1 DEF OwnName
    <3>. HIDE DEF new
    <3>. QED  BY <3>1, <3>2
  <2>3. sent'[p] = {m}
    BY <1>1 DEF Only, Nothing
  <2>4. m.type = "Connected" /\ m.peer = p
    BY DEF Welcome
  <2>. HIDE DEF m, old, new
  <2>5. Topic(m) = Itself /\ After(old[Itself], m) = p
    BY <2>4, Meanings
  <2>6. Fitting(old, m)
    BY <2>4 DEF Fitting, OfChannels
  <2>7. \A k \in Topics : k # Itself => new[k] = old[k]
    BY <2>1, <2>2 DEF Topics
  <2>8. Batch({m}, old, new)
    BY <2>2, <2>4, <2>5, <2>6, <2>7, ChannelsAreTopics, OneBatch
  <2>. QED  BY <2>3, <2>8 DEF old, new
<1>. QED  BY <1>2, <1>3

(* A new name: who asked for it and those it shares channels with.         *)
LEMMA SetNameTells ==
  ASSUME NEW kept, IInv, NamesStay, NEW p \in DOMAIN PeersPool, NEW n, SetName(p, n),
         NEW q \in DOMAIN PeersPool
  PROVE  Tells(q, kept)
<1>1. PICK m : /\ \/ PeersPool' = PeersPool /\ PeersPool[p].Name = m
                     /\ sent' = Only(p, NameReply(TRUE, m))
                  \/ /\ PeersPool' = [PeersPool EXCEPT ![p].Name = m]
                     /\ sent' = [r \in PeerID |-> IF r = p THEN {NameReply(TRUE, m)}
                                                  ELSE RenameNotices(p, m, r)]
               /\ ChannelsPool' = ChannelsPool
               /\ m # BlankName
  BY NamesAssumption DEF SetName, Accepted, NamesStay, NamesAssumption
<1>2. /\ PeersPool'[p].Name = m
      /\ PeersPool'[q].Channels = PeersPool[q].Channels
      /\ \A r \in DOMAIN PeersPool : r # p => PeersPool'[r].Name = PeersPool[r].Name
  <2>1. \A r \in DOMAIN PeersPool : DOMAIN PeersPool[r] = {"Name", "Channels"}
    BY DEF IInv, TypeOK, Peer
  <2>2. CASE PeersPool' = PeersPool /\ PeersPool[p].Name = m
    BY <2>2
  <2>3. CASE PeersPool' = [PeersPool EXCEPT ![p].Name = m]
    BY <2>1, <2>3
  <2>. QED  BY <1>1, <2>2, <2>3
<1>3. \A d : Members(d)' = Members(d)
  BY <1>1 DEF Members
<1>4. p \in PeerID /\ q \in PeerID
  BY BothSides
<1>. DEFINE old == Account(q, kept)  new == Account(q, kept)'  told == sent'[q]
<1>5. /\ old[Itself] = q /\ new[Itself] = q
      /\ old[ItsName] = OwnName(q, kept) /\ new[ItsName] = OwnName(q, kept)'
      /\ \A k \in ChannelID : old[k] = IF k \in PeersPool[q].Channels THEN {Room(k, q)} ELSE {}
      /\ \A k \in ChannelID : new[k] = IF k \in PeersPool[q].Channels THEN {Room(k, q)'} ELSE {}
  <2>1. /\ new[Itself] = q
        /\ new[ItsName] = OwnName(q, kept)'
        /\ \A k \in ChannelID : new[k] = IF k \in PeersPool'[q].Channels THEN {Room(k, q)'} ELSE {}
    BY AccountBecomes, Zenon
  <2>2. /\ old[Itself] = q
        /\ old[ItsName] = OwnName(q, kept)
        /\ \A k \in ChannelID : old[k] = IF k \in PeersPool[q].Channels THEN {Room(k, q)} ELSE {}
    BY AccountIs, Zenon
  <2>. HIDE DEF old, new
  <2>. QED  BY <1>2, <2>1, <2>2
<1>6. \A c \in PeersPool[q].Channels : p \notin Members(c) \ {q} => Room(c, q)' = Room(c, q)
  <2>1. ASSUME NEW c \in PeersPool[q].Channels, p \notin Members(c) \ {q}  PROVE Room(c, q)' = Room(c, q)
    <3>1. \A r \in Members(c) \ {q} : PeersPool'[r].Name = PeersPool[r].Name
      BY <1>2, <2>1, BothSides
    <3>2. ChannelsPool'[c].Name = ChannelsPool[c].Name /\ Members(c)' \ {q} = Members(c) \ {q}
      BY <1>1, <1>3
    <3>. QED  BY <3>1, <3>2, RoomSame
  <2>. QED  BY <2>1
<1>7. \A c \in PeersPool[q].Channels : p \in Members(c) \ {q} => Room(c, q)' = WithPeer(Room(c, q), p, m)
  <2>1. ASSUME NEW c \in PeersPool[q].Channels, p \in Members(c) \ {q}
        PROVE Room(c, q)' = WithPeer(Room(c, q), p, m)
    <3>1. \A r \in Members(c) \ {q} : r # p => PeersPool'[r].Name = PeersPool[r].Name
      BY <1>2, BothSides
    <3>2. /\ ChannelsPool'[c].Name = ChannelsPool[c].Name
          /\ Members(c)' \ {q} = (Members(c) \ {q}) \cup {p}
      BY <1>1, <1>3, <2>1
    <3>. QED  BY <1>2, <3>1, <3>2, RoomGains
  <2>. QED  BY <2>1
<1>. HIDE DEF old, new, told
<1>8. CASE q = p
  <2>. DEFINE x == NameReply(TRUE, m)
  <2>1. told = {x}
    BY <1>1, <1>4, <1>8 DEF Only, Nothing, told
  <2>2. x.type = "NameReply" /\ x.ok /\ x.name = m
    BY DEF NameReply
  <2>. HIDE DEF x
  <2>3. /\ Topic(x) = ItsName /\ After(old[ItsName], x) = m
        /\ Fitting(old, x) /\ x.type # "ChannelMessage"
    BY <1>1, <2>2, Meanings DEF Fitting, OfChannels
  <2>4. \A k \in Topics : k # ItsName => new[k] = old[k]
    <3>1. \A c \in PeersPool[q].Channels : Room(c, q)' = Room(c, q)
      BY <1>6, <1>8
    <3>. QED  BY <1>5, <3>1 DEF Topics
  <2>5. new[ItsName] = m
    BY <1>1, <1>2, <1>5, <1>8 DEF OwnName
  <2>6. Batch({x}, old, new)
    BY <2>3, <2>4, <2>5, ChannelsAreTopics, OneBatch
  <2>. QED  BY <2>1, <2>6 DEF Tells, old, new, told
<1>9. CASE q # p
  <2>1. new[Itself] = old[Itself] /\ new[ItsName] = old[ItsName]
    BY <1>2, <1>5, <1>9 DEF OwnName
  <2>2. CASE PeersPool' = PeersPool /\ sent' = Only(p, NameReply(TRUE, m))
    <3>1. told = {}
      BY <1>4, <1>9, <2>2 DEF Only, Nothing, told
    <3>2. \A k \in Topics : new[k] = old[k]
      BY <1>1, <1>3, <2>2, AccountSame DEF old, new
    <3>. QED  BY <3>1, <3>2, NoBatch DEF Tells, old, new, told
  <2>3. CASE sent' = [r \in PeerID |-> IF r = p THEN {NameReply(TRUE, m)} ELSE RenameNotices(p, m, r)]
    <3>1. told = RenameNotices(p, m, q)
      BY <1>4, <1>9, <2>3 DEF told
    <3>2. \A x \in told : \E c \in PeersPool[p].Channels : \E master :
            q \in Members(c) /\ x = PeerNamed(c, p, master, m)
      BY <1>9, <3>1 DEF RenameNotices
    <3>3. \A c \in PeersPool[q].Channels : p \in Members(c) \ {q} =>
            \E x \in told : x = PeerNamed(c, p, ChannelsPool[c].Master = p, m)
      BY <1>9, <3>1, BothSides DEF RenameNotices
    <3>4. \A c, master : /\ PeerNamed(c, p, master, m).type = "PeerNamed"
                         /\ PeerNamed(c, p, master, m).channel = c
                         /\ PeerNamed(c, p, master, m).peer = p
                         /\ PeerNamed(c, p, master, m).name = m
      BY DEF PeerNamed
    <3>5. ASSUME NEW x \in told
          PROVE  /\ x.type = "PeerNamed" /\ x.channel \in ChannelID /\ x.name # BlankName
                 /\ new[x.channel] = After(old[x.channel], x)
      <4>1. PICK c \in PeersPool[p].Channels : \E master :
              q \in Members(c) /\ x = PeerNamed(c, p, master, m)
        BY <3>2
      <4>2. c \in ChannelID /\ c \in PeersPool[q].Channels /\ p \in Members(c) \ {q}
        BY <1>9, <4>1, BothSides
      <4>3. x.type = "PeerNamed" /\ x.channel = c /\ x.peer = p /\ x.name = m
        BY <3>4, <4>1
      <4>4. After(old[c], x) = {WithPeer(e, p, m) : e \in old[c]}
        BY <4>3, Meanings
      <4>5. old[c] = {Room(c, q)} /\ new[c] = {WithPeer(Room(c, q), p, m)}
        BY <1>5, <1>7, <4>2
      <4>. QED  BY <1>1, <4>2, <4>3, <4>4, <4>5
    <3>6. \A x, y \in told : x.channel = y.channel => x = y
      <4>1. \A x \in told : \E c \in PeersPool[p].Channels :
              x = PeerNamed(c, p, ChannelsPool[c].Master = p, m)
        BY <3>1 DEF RenameNotices
      <4>. QED  BY <3>4, <4>1
    <3>7. ASSUME NEW k \in ChannelID, \A x \in told : x.channel # k  PROVE  new[k] = old[k]
      <4>1. k \in PeersPool[q].Channels => p \notin Members(k) \ {q}
        BY <3>3, <3>4, <3>7
      <4>. QED  BY <1>5, <1>6, <4>1
    <3>8. Batch(told, old, new)
      BY <2>1, <3>5, <3>6, <3>7, ChannelBatch DEF OfChannels
    <3>. QED  BY <3>8 DEF Tells, old, new, told
  <2>. QED  BY <1>1, <2>2, <2>3
<1>. QED  BY <1>8, <1>9

(* A channel is created: its creator is told of it.                        *)
LEMMA CreateTells ==
  ASSUME NEW kept, IInv, NEW p \in DOMAIN PeersPool, NEW n, NEW hide, NEW close,
         CreateChannel(p, n, hide, close), NEW q \in DOMAIN PeersPool
  PROVE  Tells(q, kept)
<1>1. PICK c : Creates(p, n, hide, close, c)
  BY CreateCreates
<1>2. /\ c \in ChannelID /\ c \notin DOMAIN ChannelsPool
      /\ ChannelsPool'[c].Name = n
      /\ PeersPool' = [PeersPool EXCEPT ![p].Channels = @ \cup {c}]
      /\ sent' = Only(p, Joined(TRUE, n, c, {}))
  BY <1>1 DEF Creates
<1>3. /\ Members(c)' = {p}
      /\ \A d \in DOMAIN ChannelsPool : ChannelsPool'[d] = ChannelsPool[d] /\ Members(d)' = Members(d)
      /\ \A r \in DOMAIN PeersPool : PeersPool'[r].Name = PeersPool[r].Name
  BY <1>1, CreatedChannel
<1>4. PeersPool'[q].Channels = IF q = p THEN PeersPool[q].Channels \cup {c} ELSE PeersPool[q].Channels
  <2>1. \A r \in DOMAIN PeersPool : DOMAIN PeersPool[r] = {"Name", "Channels"}
    BY DEF IInv, TypeOK, Peer
  <2>. QED  BY <1>2, <2>1
<1>5. p \in PeerID /\ q \in PeerID /\ c \notin PeersPool[q].Channels
  BY <1>2, BothSides
<1>6. \A d \in PeersPool[q].Channels :
        /\ ChannelsPool'[d].Name = ChannelsPool[d].Name
        /\ Members(d)' \ {q} = Members(d) \ {q}
        /\ \A r \in Members(d) \ {q} : PeersPool'[r].Name = PeersPool[r].Name
  BY <1>3, BothSides
<1>7. CASE q # p
  <2>1. \A k \in Topics : Account(q, kept)'[k] = Account(q, kept)[k]
    BY <1>3, <1>4, <1>6, <1>7, AccountSame
  <2>2. sent'[q] = {}
    BY <1>2, <1>5, <1>7 DEF Only, Nothing
  <2>. QED  BY <2>1, <2>2, NoBatch DEF Tells
<1>8. CASE q = p
  <2>. DEFINE old == Account(q, kept)  new == Account(q, kept)'  m == Joined(TRUE, n, c, {})
  <2>1. /\ old[Itself] = q
        /\ old[ItsName] = OwnName(q, kept)
        /\ \A k \in ChannelID : old[k] = IF k \in PeersPool[q].Channels THEN {Room(k, q)} ELSE {}
    BY AccountIs, Zenon
  <2>2. /\ new[Itself] = q
        /\ new[ItsName] = OwnName(q, kept)'
        /\ \A k \in ChannelID : new[k] = IF k \in PeersPool'[q].Channels THEN {Room(k, q)'} ELSE {}
    BY AccountBecomes, Zenon
  <2>3. \A d \in PeersPool[q].Channels : Room(d, q)' = Room(d, q)
    <3>1. ASSUME NEW d \in PeersPool[q].Channels  PROVE Room(d, q)' = Room(d, q)
      <4>1. /\ ChannelsPool'[d].Name = ChannelsPool[d].Name
            /\ Members(d)' \ {q} = Members(d) \ {q}
            /\ \A r \in Members(d) \ {q} : PeersPool'[r].Name = PeersPool[r].Name
        BY <1>6
      <4>. QED  BY <4>1, RoomSame
    <3>. QED  BY <3>1
  <2>4. sent'[q] = {m}
    BY <1>2, <1>5, <1>8 DEF Only, Nothing
  <2>5. m.type = "Joined" /\ m.channel = c /\ m.name = n /\ m.peers = {}
    BY DEF Joined
  <2>6. Room(c, q)' = [Name |-> n, Peers |-> PeersOf(m)]
    <3>1. Room(c, q)' = [Name |-> n, Peers |-> [r \in {} |-> <<PeersPool'[r].Name>>]]
      BY <1>2, <1>3, <1>8 DEF Room
    <3>2. PeersOf(m) = [r \in {} |-> <<PeersPool'[r].Name>>]
      BY <2>5 DEF PeersOf
    <3>. QED  BY <3>1, <3>2
  <2>. HIDE DEF m, old, new
  <2>7. Topic(m) = c /\ After(old[c], m) = {[Name |-> n, Peers |-> PeersOf(m)]}
    BY <2>5, Meanings
  <2>8. new[c] = {Room(c, q)'} /\ old[c] = {}
    <3>1. c \in ChannelID /\ c \in PeersPool'[q].Channels /\ c \notin PeersPool[q].Channels
      BY <1>2, <1>4, <1>5, <1>8
    <3>2. old[c] = IF c \in PeersPool[q].Channels THEN {Room(c, q)} ELSE {}
      BY <2>1, <3>1, Zenon
    <3>3. new[c] = IF c \in PeersPool'[q].Channels THEN {Room(c, q)'} ELSE {}
      BY <2>2, <3>1, Zenon
    <3>. QED  BY <3>1, <3>2, <3>3
  <2>9. Fitting(old, m)
    BY <1>2, <2>5, <2>8 DEF Fitting
  <2>10. \A k \in Topics : k # c => new[k] = old[k]
    <3>1. new[Itself] = old[Itself] /\ new[ItsName] = old[ItsName]
      BY <1>3, <2>1, <2>2 DEF OwnName
    <3>2. \A k \in ChannelID : k # c => new[k] = old[k]
      BY <1>4, <1>8, <2>1, <2>2, <2>3
    <3>. QED  BY <3>1, <3>2 DEF Topics
  <2>11. Batch({m}, old, new)
    BY <1>2, <2>5, <2>6, <2>7, <2>8, <2>9, <2>10, ChannelsAreTopics, OneBatch
  <2>. QED  BY <2>4, <2>11 DEF Tells, old, new
<1>. QED  BY <1>7, <1>8

(* The roster names each member once.                                      *)
LEMMA RosterRead ==
  ASSUME NEW m, NEW c, m.peers = Roster(c)
  PROVE  PeersOf(m) = [i \in Members(c) |-> <<PeersPool[i].Name>>]
<1>1. {e.id : e \in Roster(c)} = Members(c)
  <2>1. ASSUME NEW e \in Roster(c)  PROVE e.id \in Members(c)
    BY <2>1 DEF Roster
  <2>2. ASSUME NEW i \in Members(c)  PROVE \E e \in Roster(c) : e.id = i
    <3>. DEFINE e == [id |-> i, master |-> i = ChannelsPool[c].Master, name |-> PeersPool[i].Name]
    <3>1. e \in Roster(c)
      BY Zenon DEF Roster
    <3>. QED  BY <3>1
  <2>. QED  BY <2>1, <2>2
<1>2. \A e \in Roster(c) : e.name = PeersPool[e.id].Name
  BY DEF Roster
<1>3. \A i \in Members(c) : (CHOOSE e \in Roster(c) : e.id = i).name = PeersPool[i].Name
  <2>1. ASSUME NEW i \in Members(c)  PROVE (CHOOSE e \in Roster(c) : e.id = i).name = PeersPool[i].Name
    <3>1. \E e \in Roster(c) : e.id = i
      BY <1>1
    <3>. QED  BY <1>2, <3>1
  <2>. QED  BY <2>1
<1>. QED  BY <1>1, <1>3 DEF PeersOf

(* Someone enters a channel: it gets the roster, the others hear of it.    *)
LEMMA EnterTells ==
  ASSUME NEW kept, IInv, NEW p \in DOMAIN PeersPool, NEW n, EnterChannel(p, n), NEW q \in DOMAIN PeersPool
  PROVE  Tells(q, kept)
<1>0. PICK c : c = ChannelNames[n]
  OBVIOUS
<1>1. /\ c \in DOMAIN ChannelsPool /\ n \in DOMAIN ChannelNames /\ p \notin Members(c)
      /\ \A d \in DOMAIN ChannelsPool :
           /\ Members(d)' = IF d = c THEN Members(d) \cup {p} ELSE Members(d)
           /\ ChannelsPool'[d].Name = ChannelsPool[d].Name
      /\ \A r \in DOMAIN PeersPool : PeersPool'[r].Name = PeersPool[r].Name
  BY <1>0, EnterChannels
<1>2. /\ PeersPool' = [PeersPool EXCEPT ![p].Channels = @ \cup {c}]
      /\ sent' = [r \in PeerID |->
              IF r = p THEN {Joined(FALSE, n, c, Roster(c))}
              ELSE IF r \in Members(c) THEN {PeerNamed(c, p, FALSE, PeersPool[p].Name)}
              ELSE {}]
  BY <1>0 DEF EnterChannel
<1>3. c \in ChannelID /\ ChannelsPool[c].Name = n
  BY <1>0, <1>1 DEF IInv, TypeOK, NamesIndexChannels
<1>4. PeersPool'[q].Channels = IF q = p THEN PeersPool[q].Channels \cup {c} ELSE PeersPool[q].Channels
  <2>1. \A r \in DOMAIN PeersPool : DOMAIN PeersPool[r] = {"Name", "Channels"}
    BY DEF IInv, TypeOK, Peer
  <2>. QED  BY <1>2, <2>1
<1>5. p \in PeerID /\ q \in PeerID /\ PeersPool[p].Name # BlankName
  BY BothSides DEF EnterChannel, MayJoin
<1>. DEFINE old == Account(q, kept)  new == Account(q, kept)'
<1>6. /\ old[Itself] = q
      /\ old[ItsName] = OwnName(q, kept)
      /\ \A k \in ChannelID : old[k] = IF k \in PeersPool[q].Channels THEN {Room(k, q)} ELSE {}
  BY AccountIs, Zenon
<1>7. /\ new[Itself] = q
      /\ new[ItsName] = OwnName(q, kept)'
      /\ \A k \in ChannelID : new[k] = IF k \in PeersPool'[q].Channels THEN {Room(k, q)'} ELSE {}
  BY AccountBecomes, Zenon
<1>. HIDE DEF old, new
<1>8. new[Itself] = old[Itself] /\ new[ItsName] = old[ItsName]
  BY <1>1, <1>6, <1>7 DEF OwnName
<1>9. \A d \in PeersPool[q].Channels : d # c => Room(d, q)' = Room(d, q)
  <2>1. ASSUME NEW d \in PeersPool[q].Channels, d # c  PROVE Room(d, q)' = Room(d, q)
    <3>1. /\ ChannelsPool'[d].Name = ChannelsPool[d].Name
          /\ Members(d)' \ {q} = Members(d) \ {q}
          /\ \A r \in Members(d) \ {q} : PeersPool'[r].Name = PeersPool[r].Name
      BY <1>1, <2>1, BothSides
    <3>. QED  BY <3>1, RoomSame
  <2>. QED  BY <2>1
<1>10. \A k \in Topics : k # c => new[k] = old[k]
  <2>1. \A k \in ChannelID : k # c => new[k] = old[k]
    BY <1>4, <1>6, <1>7, <1>9
  <2>. QED  BY <1>8, <2>1 DEF Topics
<1>14. /\ old[c] = IF c \in PeersPool[q].Channels THEN {Room(c, q)} ELSE {}
       /\ new[c] = IF c \in PeersPool'[q].Channels THEN {Room(c, q)'} ELSE {}
  BY <1>3, <1>6, <1>7, Zenon
<1>11. CASE q = p
  <2>. DEFINE m == Joined(FALSE, n, c, Roster(c))
  <2>1. sent'[q] = {m}
    BY <1>2, <1>5, <1>11
  <2>2. m.type = "Joined" /\ m.channel = c /\ m.name = n /\ m.peers = Roster(c)
    BY DEF Joined
  <2>. HIDE DEF m
  <2>3. Room(c, q)' = [Name |-> n, Peers |-> PeersOf(m)]
    <3>1. PeersOf(m) = [r \in Members(c) |-> <<PeersPool[r].Name>>]
      BY <2>2, RosterRead
    <3>2. /\ ChannelsPool'[c].Name = n
          /\ Members(c)' \ {q} = Members(c)
          /\ \A r \in Members(c) : PeersPool'[r].Name = PeersPool[r].Name
      <4>1. Members(c) \subseteq DOMAIN PeersPool
        BY <1>1, OpenChannel
      <4>2. Members(c)' = Members(c) \cup {p} /\ ChannelsPool'[c].Name = n
        BY <1>1, <1>3
      <4>3. Members(c)' \ {q} = Members(c)
        BY <1>1, <1>11, <4>2
      <4>4. \A r \in Members(c) : PeersPool'[r].Name = PeersPool[r].Name
        BY <1>1, <4>1
      <4>. QED  BY <4>2, <4>3, <4>4
    <3>3. Room(c, q)' = [Name |-> ChannelsPool'[c].Name,
                         Peers |-> [r \in Members(c)' \ {q} |-> <<PeersPool'[r].Name>>]]
      BY DEF Room
    <3>. QED  BY <3>1, <3>2, <3>3
  <2>4. Topic(m) = c /\ After(old[c], m) = {[Name |-> n, Peers |-> PeersOf(m)]}
    BY <2>2, Meanings
  <2>5. new[c] = {Room(c, q)'} /\ old[c] = {}
    <3>1. c \notin PeersPool[q].Channels /\ c \in PeersPool'[q].Channels
      BY <1>1, <1>4, <1>11, BothSides
    <3>. QED  BY <1>14, <3>1
  <2>6. Fitting(old, m)
    BY <1>3, <2>2, <2>5 DEF Fitting
  <2>7. Batch({m}, old, new)
    BY <1>3, <1>10, <2>2, <2>3, <2>4, <2>5, <2>6, ChannelsAreTopics, OneBatch
  <2>. QED  BY <2>1, <2>7 DEF Tells, old, new
<1>12. CASE q # p /\ q \in Members(c)
  <2>. DEFINE x == PeersPool[p].Name  m == PeerNamed(c, p, FALSE, x)
  <2>1. sent'[q] = {m}
    BY <1>2, <1>5, <1>12
  <2>2. m.type = "PeerNamed" /\ m.channel = c /\ m.name = x /\ m.peer = p
    BY DEF PeerNamed
  <2>. HIDE DEF m
  <2>3. Room(c, q)' = WithPeer(Room(c, q), p, x)
    <3>1. Members(c) \subseteq DOMAIN PeersPool
      BY <1>1, OpenChannel
    <3>2. Members(c)' = Members(c) \cup {p} /\ ChannelsPool'[c].Name = ChannelsPool[c].Name
      BY <1>1
    <3>3. Members(c)' \ {q} = (Members(c) \ {q}) \cup {p}
      BY <1>12, <3>2
    <3>4. \A r \in Members(c) \ {q} : r # p => PeersPool'[r].Name = PeersPool[r].Name
      BY <1>1, <3>1
    <3>5. PeersPool'[p].Name = x
      BY <1>1
    <3>. QED  BY <3>2, <3>3, <3>4, <3>5, RoomGains
  <2>4. x # BlankName
    BY <1>5
  <2>. HIDE DEF x
  <2>5. Topic(m) = c /\ After(old[c], m) = {WithPeer(e, p, x) : e \in old[c]}
    BY <2>2, Meanings
  <2>6. new[c] = {Room(c, q)'} /\ old[c] = {Room(c, q)}
    <3>1. c \in PeersPool[q].Channels /\ c \in PeersPool'[q].Channels
      BY <1>1, <1>4, <1>12, BothSides
    <3>. QED  BY <1>14, <3>1
  <2>7. Fitting(old, m)
    BY <1>3, <2>2, <2>4 DEF Fitting
  <2>8. After(old[c], m) = new[c]
    BY <2>3, <2>5, <2>6
  <2>9. Batch({m}, old, new)
    BY <1>3, <1>10, <2>2, <2>5, <2>7, <2>8, ChannelsAreTopics, OneBatch
  <2>. QED  BY <2>1, <2>9 DEF Tells, old, new
<1>13. CASE q # p /\ q \notin Members(c)
  <2>1. sent'[q] = {}
    BY <1>2, <1>5, <1>13
  <2>2. new[c] = old[c]
    <3>1. c \notin PeersPool[q].Channels /\ c \notin PeersPool'[q].Channels
      BY <1>1, <1>4, <1>13, BothSides
    <3>. QED  BY <1>14, <3>1
  <2>3. \A k \in Topics : new[k] = old[k]
    BY <1>10, <2>2
  <2>. QED  BY <2>1, <2>3, NoBatch DEF Tells, old, new
<1>. QED  BY <1>11, <1>12, <1>13

(* A departure changes what q knows of no channel but those departed from  *)
(* of which q is a member.                                                 *)
LEMMA DepartureElsewhere ==
  ASSUME NEW kept, IInv, IInv', NEW p, NEW cs, Departs(p, cs),
         NEW q \in DOMAIN PeersPool, q \in DOMAIN PeersPool',
         NEW k \in ChannelID, k \notin cs \/ k \notin PeersPool[q].Channels
  PROVE  Account(q, kept)'[k] = Account(q, kept)[k]
<1>1. k \in DOMAIN ChannelsPool' <=> k \in DOMAIN ChannelsPool /\ k \notin ClosedBy(p, cs)
  BY DepartureChannels
<1>2. ASSUME k \in DOMAIN ChannelsPool'
      PROVE  /\ Members(k)' = IF k \in cs THEN Members(k) \ {p} ELSE Members(k)
             /\ ChannelsPool'[k].Name = ChannelsPool[k].Name
             /\ Members(k)' \subseteq DOMAIN PeersPool'
  <2>1. Members(k)' \subseteq DOMAIN PeersPool'
    BY <1>2 DEF IInv, MembershipSymmetric
  <2>. QED  BY <1>2, <2>1, DepartureChannels
<1>3. /\ k \in PeersPool[q].Channels <=> k \in DOMAIN ChannelsPool /\ q \in Members(k)
      /\ k \in PeersPool'[q].Channels <=> k \in DOMAIN ChannelsPool' /\ q \in Members(k)'
  BY BothSides, BothSidesAfter
<1>4. k \in PeersPool'[q].Channels <=> k \in PeersPool[q].Channels
  BY <1>1, <1>2, <1>3 DEF ClosedBy
<1>5. ASSUME k \in PeersPool[q].Channels  PROVE Room(k, q)' = Room(k, q)
  <2>1. /\ ChannelsPool'[k].Name = ChannelsPool[k].Name
        /\ Members(k)' = Members(k)
        /\ Members(k) \subseteq DOMAIN PeersPool'
    BY <1>2, <1>3, <1>4, <1>5
  <2>2. \A r \in Members(k) \ {q} : PeersPool'[r].Name = PeersPool[r].Name
    BY <2>1 DEF Departs
  <2>. QED  BY <2>1, <2>2, RoomSame
<1>6. Account(q, kept)[k] = IF k \in PeersPool[q].Channels THEN {Room(k, q)} ELSE {}
  BY AccountIs, Zenon
<1>7. Account(q, kept)'[k] = IF k \in PeersPool'[q].Channels THEN {Room(k, q)'} ELSE {}
  BY AccountBecomes, Zenon
<1>. QED  BY <1>4, <1>5, <1>6, <1>7

(* Its name and its id stay.                                               *)
LEMMA DepartureItself ==
  ASSUME NEW kept, NEW p, NEW cs, Departs(p, cs), NEW q \in DOMAIN PeersPool, q \in DOMAIN PeersPool'
  PROVE  /\ Account(q, kept)'[Itself] = Account(q, kept)[Itself]
         /\ Account(q, kept)'[ItsName] = Account(q, kept)[ItsName]
<1>1. PeersPool'[q].Name = PeersPool[q].Name
  BY DEF Departs
<1>2. Account(q, kept)[Itself] = q /\ Account(q, kept)[ItsName] = OwnName(q, kept)
  BY AccountIs, Zenon
<1>3. Account(q, kept)'[Itself] = q /\ Account(q, kept)'[ItsName] = OwnName(q, kept)'
  BY AccountBecomes, Zenon
<1>. QED  BY <1>1, <1>2, <1>3 DEF OwnName

(* Those left behind learn of it, channel by channel.                      *)
LEMMA DepartureTells ==
  ASSUME NEW kept, IInv, IInv', NEW p, NEW cs, Departs(p, cs),
         NEW q \in DOMAIN PeersPool, q \in DOMAIN PeersPool', q # p
  PROVE  Tells(q, kept)
<1>. DEFINE old == Account(q, kept)  new == Account(q, kept)'
            Told(k) == IF Closes(p, k) THEN Dropped(k) ELSE PeerLeft(k, p)
<1>1. cs \subseteq DOMAIN ChannelsPool /\ cs \subseteq ChannelID /\ q \in PeerID
  BY BothSides DEF Departs, IInv, TypeOK
<1>2. sent'[q] = {Told(k) : k \in {d \in cs : q \in Members(d)}}
  BY <1>1 DEF Departs, DepartureNotices
<1>3. ASSUME NEW k \in cs, q \in Members(k)
      PROVE  /\ Told(k).type \in {"Dropped", "PeerLeft"} /\ Told(k).channel = k
             /\ new[k] = After(old[k], Told(k))
  <2>1. k \in PeersPool[q].Channels /\ k \in ChannelID /\ k \in DOMAIN ChannelsPool
    BY <1>1, <1>3, BothSides
  <2>2. old[k] = IF k \in PeersPool[q].Channels THEN {Room(k, q)} ELSE {}
    BY <2>1, AccountIs, Zenon
  <2>3. new[k] = IF k \in PeersPool'[q].Channels THEN {Room(k, q)'} ELSE {}
    BY <2>1, AccountBecomes, Zenon
  <2>4. k \in DOMAIN ChannelsPool' <=> ~ Closes(p, k)
    BY <1>3, <2>1, DepartureChannels DEF ClosedBy
  <2>5. k \in PeersPool'[q].Channels <=> k \in DOMAIN ChannelsPool' /\ q \in Members(k)'
    BY BothSidesAfter
  <2>. HIDE DEF old, new
  <2>6. CASE Closes(p, k)
    <3>. DEFINE m == Dropped(k)
    <3>1. m.type = "Dropped" /\ m.channel = k
      BY DEF Dropped
    <3>2. Told(k) = m
      BY <2>6
    <3>. HIDE DEF m
    <3>3. After(old[k], m) = {}
      BY <3>1, Meanings
    <3>. QED  BY <2>3, <2>4, <2>5, <2>6, <3>1, <3>2, <3>3
  <2>7. CASE ~ Closes(p, k)
    <3>. DEFINE m == PeerLeft(k, p)
    <3>1. m.type = "PeerLeft" /\ m.channel = k /\ m.peer = p
      BY DEF PeerLeft
    <3>2. Told(k) = m
      BY <2>7
    <3>. HIDE DEF m
    <3>3. After(old[k], m) = {WithoutPeer(e, p) : e \in old[k]}
      BY <3>1, Meanings
    <3>4. /\ Members(k)' = Members(k) \ {p}
          /\ ChannelsPool'[k].Name = ChannelsPool[k].Name
      BY <1>3, <2>4, <2>7, DepartureChannels
    <3>5. Members(k)' \subseteq DOMAIN PeersPool'
      BY <2>4, <2>7 DEF IInv, MembershipSymmetric
    <3>6. \A r \in (Members(k) \ {q}) \ {p} : PeersPool'[r].Name = PeersPool[r].Name
      BY <3>4, <3>5 DEF Departs
    <3>7. Members(k)' \ {q} = (Members(k) \ {q}) \ {p}
      BY <3>4
    <3>8. Room(k, q)' = WithoutPeer(Room(k, q), p)
      BY <3>4, <3>6, <3>7, RoomLoses
    <3>9. k \in PeersPool'[q].Channels
      BY <1>3, <2>4, <2>5, <2>7, <3>4
    <3>10. After(old[k], m) = new[k]
      BY <2>1, <2>2, <2>3, <3>3, <3>8, <3>9
    <3>. QED  BY <3>1, <3>2, <3>10
  <2>. QED  BY <2>6, <2>7
<1>4. \A k \in ChannelID : (k \notin cs \/ q \notin Members(k)) => new[k] = old[k]
  <2>1. ASSUME NEW k \in ChannelID, k \notin cs \/ q \notin Members(k)  PROVE new[k] = old[k]
    <3>1. k \notin cs \/ k \notin PeersPool[q].Channels
      BY <1>1, <2>1, BothSides
    <3>. QED  BY <3>1, DepartureElsewhere
  <2>. QED  BY <2>1
<1>5. new[Itself] = old[Itself] /\ new[ItsName] = old[ItsName]
  BY DepartureItself
<1>. HIDE DEF old, new, Told
<1>6. \A m \in sent'[q] : /\ m.type \in OfChannels
                          /\ m.channel \in ChannelID
                          /\ new[m.channel] = After(old[m.channel], m)
                          /\ m.type = "Joined" => old[m.channel] = {}
                          /\ m.type = "PeerNamed" => m.name # BlankName
  <2>1. ASSUME NEW m \in sent'[q]
        PROVE  /\ m.type \in {"Dropped", "PeerLeft"}
               /\ m.channel \in ChannelID
               /\ new[m.channel] = After(old[m.channel], m)
    <3>1. PICK k \in cs : q \in Members(k) /\ m = Told(k)
      BY <1>2
    <3>. QED  BY <1>1, <1>3, <3>1
  <2>. QED  BY <2>1 DEF OfChannels
<1>7. \A l, m \in sent'[q] : l.channel = m.channel => l = m
  BY <1>2, <1>3
<1>8. \A k \in ChannelID : (\A m \in sent'[q] : m.channel # k) => new[k] = old[k]
  <2>1. ASSUME NEW k \in ChannelID, \A m \in sent'[q] : m.channel # k  PROVE new[k] = old[k]
    <3>1. k \notin cs \/ q \notin Members(k)
      BY <1>2, <1>3, <2>1
    <3>. QED  BY <1>4, <3>1
  <2>. QED  BY <2>1
<1>9. Batch(sent'[q], old, new)
  BY <1>5, <1>6, <1>7, <1>8, ChannelBatch
<1>. QED  BY <1>9 DEF Tells, old, new

(* Who asked to leave is told it has lost the channel.                     *)
LEMMA LeaveTells ==
  ASSUME NEW kept, IInv, NEW p \in DOMAIN PeersPool, NEW c, LeaveChannel(p, c), NEW q \in DOMAIN PeersPool
  PROVE  Tells(q, kept)
<1>1. Departs(p, {c}) /\ sent'[p] = {Dropped(c)} /\ IInv'
  BY LeaveDeparts, LeaveStep
<1>2. DOMAIN PeersPool' = DOMAIN PeersPool
  BY DEF LeaveChannel
<1>3. CASE q # p
  BY <1>1, <1>2, <1>3, DepartureTells
<1>4. CASE q = p
  <2>. DEFINE old == Account(q, kept)  new == Account(q, kept)'  m == Dropped(c)
  <2>1. \A k \in ChannelID : k # c => new[k] = old[k]
    <3>1. ASSUME NEW k \in ChannelID, k # c  PROVE new[k] = old[k]
      <4>1. k \notin {c}
        BY <3>1
      <4>. QED  BY <1>1, <1>2, <4>1, DepartureElsewhere
    <3>. QED  BY <3>1
  <2>2. new[Itself] = old[Itself] /\ new[ItsName] = old[ItsName]
    BY <1>1, <1>2, DepartureItself
  <2>3. c \in ChannelID
    BY DEF LeaveChannel, IInv, TypeOK
  <2>4. new[c] = IF c \in PeersPool'[q].Channels THEN {Room(c, q)'} ELSE {}
    BY <2>3, AccountBecomes, Zenon
  <2>5. c \notin PeersPool'[q].Channels
    <3>1. \A r \in DOMAIN PeersPool : DOMAIN PeersPool[r] = {"Name", "Channels"}
      BY DEF IInv, TypeOK, Peer
    <3>. QED  BY <1>4, <3>1 DEF LeaveChannel
  <2>6. m.type = "Dropped" /\ m.channel = c /\ sent'[q] = {m}
    BY <1>1, <1>4 DEF Dropped
  <2>. HIDE DEF old, new, m
  <2>7. Topic(m) = c /\ After(old[c], m) = {}
    BY <2>6, Meanings
  <2>8. Fitting(old, m)
    BY <2>3, <2>6 DEF Fitting, OfChannels
  <2>9. \A k \in Topics : k # c => new[k] = old[k]
    BY <2>1, <2>2 DEF Topics
  <2>10. Batch({m}, old, new)
    BY <2>3, <2>4, <2>5, <2>6, <2>7, <2>8, <2>9, ChannelsAreTopics, OneBatch
  <2>. QED  BY <2>6, <2>10 DEF Tells, old, new
<1>. QED  BY <1>3, <1>4

-----------------------------------------------------------------------------
(* What a client writes after its handshake.                               *)
IsRequest(r) == r.type # "Hello" /\ (r.type = "Join" => r.name \in ChannelName)

(* Whatever the server makes of a request, it keeps its own order and      *)
(* tells every peer what changes for it.                                   *)
LEMMA ServeTells ==
  ASSUME IInv, NamesStay, NEW p \in DOMAIN PeersPool, NEW r, IsRequest(r), Serve(p, r)
  PROVE  /\ IInv'
         /\ DOMAIN PeersPool' = DOMAIN PeersPool
         /\ \A q \in DOMAIN PeersPool : \A kept : Tells(q, kept)
<1>1. CASE SetName(p, r.name)
  <2>1. DOMAIN PeersPool' = DOMAIN PeersPool
    BY <1>1 DEF SetName
  <2>. QED  BY <1>1, <2>1, SetNameStep, SetNameTells
<1>2. CASE DenyNameChange(p, r.name) \/ DenyChannelJoin(p, r.name)
  <2>1. DOMAIN PeersPool' = DOMAIN PeersPool
    BY <1>2 DEF DenyNameChange, DenyChannelJoin
  <2>2. Replies(p)
    BY <1>2 DEF Replies
  <2>. QED  BY <1>2, <2>1, <2>2, ReplyStep, DenialsTell
<1>3. CASE /\ r.type = "Join"
           /\ CreateChannel(p, r.name, "HideFromList" \in r.flags, "CloseOnLeave" \in r.flags)
  <2>1. PICK hide \in BOOLEAN, close \in BOOLEAN : CreateChannel(p, r.name, hide, close)
    <3>1. ("HideFromList" \in r.flags) \in BOOLEAN /\ ("CloseOnLeave" \in r.flags) \in BOOLEAN
      OBVIOUS
    <3>. QED  BY <1>3, <3>1, Zenon
  <2>2. DOMAIN PeersPool' = DOMAIN PeersPool
    BY <2>1 DEF CreateChannel
  <2>3. r.name \in ChannelName
    BY <1>3 DEF IsRequest
  <2>. QED  BY <2>1, <2>2, <2>3, CreateStep, CreateTells
<1>4. CASE EnterChannel(p, r.name)
  <2>1. DOMAIN PeersPool' = DOMAIN PeersPool
    BY <1>4 DEF EnterChannel
  <2>. QED  BY <1>4, <2>1, EnterStep, EnterTells
<1>5. CASE LeaveChannel(p, r.channel)
  <2>1. DOMAIN PeersPool' = DOMAIN PeersPool
    BY <1>5 DEF LeaveChannel
  <2>. QED  BY <1>5, <2>1, LeaveStep, LeaveTells
<1>6. CASE SendToChannel(p, r.channel)
  <2>1. DOMAIN PeersPool' = DOMAIN PeersPool
    BY <1>6 DEF SendToChannel
  <2>2. Replies(p)
    BY <1>6 DEF Replies
  <2>. QED  BY <1>6, <2>1, <2>2, ReplyStep, SendingTells
<1>7. CASE Ignore(p, r)
  <2>1. UNCHANGED <<PeersPool, ChannelsPool, ChannelNames>> /\ DOMAIN sent' = PeerID
    BY <1>7 DEF Ignore, Nothing
  <2>2. IInv'
    BY <2>1, MembershipUntouched DEF IInv, TypeOK
  <2>. QED  BY <1>7, <2>1, <2>2, IgnoringTells
<1>. QED  BY <1>1, <1>2, <1>3, <1>4, <1>5, <1>6, <1>7 DEF Serve

-----------------------------------------------------------------------------
(* The wires.                                                              *)

(* A session the server has not yet heard of: its handshake is all it has  *)
(* written, and nothing has come back.                                     *)
Unheard(s) ==
  /\ toServer[s] = <<Hello>>
  /\ toClient[s] = <<>>
  /\ Open(s) => \E left \in Leftovers : client[s] = NewSession(left)
  /\ \A p \in DOMAIN link : link[p] # s

(* The streams of a session.                                               *)
Streams(s) ==
  /\ IsSession(client[s])
  /\ IsVector(toServer[s])
  /\ IsVector(toClient[s])
  /\ \A i \in DOMAIN toServer[s] : toServer[s][i] = Hello \/ IsRequest(toServer[s][i])
  /\ Hello \in Range(toServer[s]) => Unheard(s)

(* An open client that reads its stream to the end knows what the server   *)
(* says of the peer it is behind, with the name kept from before it had    *)
(* one.                                                                    *)
Follows(s) ==
  Open(s) =>
    /\ Sane(client[s])
    /\ \E v, kept :
         /\ Stages(client[s], toClient[s], v)
         /\ \A p \in DOMAIN link : link[p] = s => v[Len(toClient[s])] = Account(p, kept)

(* Each allocated peer has a session behind it, and no other peer has.     *)
Links ==
  /\ DOMAIN link = DOMAIN PeersPool
  /\ \A p \in DOMAIN link : link[p] \in Session
  /\ \A p, q \in DOMAIN link : link[p] = link[q] => p = q

(* There is one client and one pair of streams for each session.           *)
OnePerSession ==
  /\ DOMAIN client = Session
  /\ DOMAIN toServer = Session
  /\ DOMAIN toClient = Session

(* The inductive invariant of the system.                                  *)
SystemInv == IInv /\ Links /\ OnePerSession /\ \A s \in Session : Streams(s) /\ Follows(s)

(* A new session is sane, and with nothing on its way it knows what it     *)
(* knows.                                                                  *)
LEMMA Fresh ==
  ASSUME NEW left
  PROVE  LET cl == NewSession(left)
         IN  Sane(cl) /\ \E v : Stages(cl, <<>>, v) /\ v[Len(<<>>)] = Picture(cl)
<1>. DEFINE cl == NewSession(left)  v == [i \in 0 .. 0 |-> Picture(cl)]
<1>1. IsSession(cl) /\ cl.Channels = <<>>
  BY DEF NewSession, IsSession
<1>2. Sane(cl)
  BY <1>1 DEF Sane, IsVector
<1>. HIDE DEF cl
<1>3. Stages(cl, <<>>, v) /\ v[Len(<<>>)] = Picture(cl)
  BY DEF Stages
<1>. QED  BY <1>2, <1>3 DEF cl

(* It holds when nobody has been heard of.                                 *)
LEMMA SystemInitInvariant == SystemInit => SystemInv
<1>. SUFFICES ASSUME SystemInit  PROVE SystemInv
  OBVIOUS
<1>1. IInv
  BY InitInvariant DEF SystemInit
<1>2. Links /\ OnePerSession
  BY DEF SystemInit, Init, Links, OnePerSession
<1>3. ASSUME NEW s \in Session  PROVE Streams(s)
  <2>1. /\ \E left \in Leftovers : client[s] = NewSession(left)
        /\ toServer[s] = <<Hello>> /\ toClient[s] = <<>>
        /\ DOMAIN link = {}
    BY DEF SystemInit
  <2>2. IsVector(<<Hello>>) /\ IsVector(<<>>)
    BY DEF IsVector, Range
  <2>3. IsSession(client[s])
    BY <2>1 DEF NewSession, IsSession
  <2>4. Unheard(s)
    BY <2>1 DEF Unheard
  <2>5. \A i \in DOMAIN <<Hello>> : <<Hello>>[i] = Hello
    OBVIOUS
  <2>. QED  BY <2>1, <2>2, <2>3, <2>4, <2>5 DEF Streams
<1>4. ASSUME NEW s \in Session  PROVE Follows(s)
  <2>1. /\ \E left \in Leftovers : client[s] = NewSession(left)
        /\ toClient[s] = <<>> /\ DOMAIN link = {}
    BY DEF SystemInit
  <2>2. Sane(client[s]) /\ \E v : Stages(client[s], toClient[s], v)
    BY <2>1, Fresh
  <2>. QED  BY <2>1, <2>2 DEF Follows
<1>. QED  BY <1>1, <1>2, <1>3, <1>4 DEF SystemInv

-----------------------------------------------------------------------------
(* What a step of the server does to the streams to the clients.           *)

(* Deliver appends what a handler wrote to the streams, in some order.     *)
LEMMA Delivered ==
  ASSUME Deliver, NEW s \in Session
  PROVE  /\ DOMAIN toClient' = Session
         /\ \/ WrittenTo(s) = {} /\ toClient'[s] = toClient[s]
            \/ /\ WrittenTo(s) # {}
               /\ \E news \in SetToSeqs(WrittenTo(s)) : toClient'[s] = toClient[s] \o news
<1>. DEFINE told == {t \in Session : WrittenTo(t) # {}}
<1>1. \E news : /\ \A t \in told : news[t] \in SetToSeqs(WrittenTo(t))
                /\ toClient' = [t \in Session |->
                                  IF t \in told THEN toClient[t] \o news[t] ELSE toClient[t]]
  BY Zenon DEF Deliver
<1>2. PICK news : /\ \A t \in told : news[t] \in SetToSeqs(WrittenTo(t))
                  /\ toClient' = [t \in Session |->
                                    IF t \in told THEN toClient[t] \o news[t] ELSE toClient[t]]
  BY <1>1
<1>3. s \in told <=> WrittenTo(s) # {}
  OBVIOUS
<1>. HIDE DEF told
<1>. QED  BY <1>2, <1>3

(* Nothing comes to who has no peer or has closed its end.                 *)
LEMMA Undelivered ==
  ASSUME Deliver, NEW s \in Session, ~ Open(s) \/ \A p \in DOMAIN link' : link'[p] # s
  PROVE  toClient'[s] = toClient[s]
<1>1. WrittenTo(s) = {}
  BY DEF WrittenTo
<1>. QED  BY <1>1, Delivered

(* An open client goes on following the server when it is sent what leads  *)
(* from the old account of its peer to the new one.                        *)
LEMMA DeliveredFollows ==
  ASSUME Deliver, NEW s \in Session, Open(s), IsVector(toClient[s]), Sane(client[s]),
         client' = client, NEW kept, NEW v, Stages(client[s], toClient[s], v),
         NEW p \in DOMAIN link', link'[p] = s, \A q \in DOMAIN link' : link'[q] = s => q = p,
         Batch(sent'[p], v[Len(toClient[s])], Account(p, kept)')
  PROVE  IsVector(toClient'[s]) /\ Follows(s)'
<1>. DEFINE ms == toClient[s]  new == Account(p, kept)'
<1>1. WrittenTo(s) = sent'[p]
  BY DEF WrittenTo
<1>2. IsPicture(new)
  BY AccountBecomes, Zenon
<1>3. ASSUME NEW w, Stages(client[s], toClient'[s], w), w[Len(toClient'[s])] = new
      PROVE  Follows(s)'
  <2>1. Stages(client'[s], toClient'[s], w)
    BY <1>3
  <2>2. \A q \in DOMAIN link' : link'[q] = s => w[Len(toClient'[s])] = Account(q, kept)'
    <3>1. ASSUME NEW q \in DOMAIN link', link'[q] = s  PROVE w[Len(toClient'[s])] = Account(q, kept)'
      <4>1. q = p
        BY <3>1
      <4>. QED  BY <1>3, <4>1
    <3>. QED  BY <3>1
  <2>3. Sane(client'[s])
    OBVIOUS
  <2>. QED  BY <2>1, <2>2, <2>3, Zenon DEF Follows
<1>. HIDE DEF new
<1>4. CASE WrittenTo(s) = {} /\ toClient'[s] = toClient[s]
  <2>1. Batch({}, v[Len(ms)], new)
    BY <1>1, <1>4 DEF new
  <2>2. \A k \in Topics : new[k] = v[Len(ms)][k]
    BY <2>1 DEF Batch
  <2>3. IsPicture(v[Len(ms)])
    BY StagesArePictures
  <2>4. new = v[Len(ms)]
    BY <1>2, <2>2, <2>3 DEF IsPicture
  <2>. QED  BY <1>3, <1>4, <2>4
<1>5. CASE \E news \in SetToSeqs(WrittenTo(s)) : toClient'[s] = toClient[s] \o news
  <2>1. PICK news \in SetToSeqs(sent'[p]) : toClient'[s] = ms \o news
    BY <1>1, <1>5
  <2>2. Batch(sent'[p], v[Len(ms)], new)
    BY DEF new
  <2>3. /\ IsVector(ms \o news)
        /\ \E w : Stages(client[s], ms \o news, w) /\ w[Len(ms \o news)] = new
    BY <1>2, <2>2, StagesMore
  <2>. QED  BY <1>3, <2>1, <2>3
<1>. QED  BY <1>4, <1>5, Delivered

(* What one session has is left alone.                                     *)
Untouched(s) ==
  client'[s] = client[s] /\ toServer'[s] = toServer[s] /\ toClient'[s] = toClient[s]

(* A step of a client leaves the server's invariant alone.                 *)
LEMMA Accounted ==
  ASSUME UNCHANGED vars
  PROVE  IInv <=> IInv'
  BY DEF vars, IInv, TypeOK, MembershipSymmetric, MembersDistinct, MasterPresent,
         NamesIndexChannels, Members

(* It leaves its accounts alone too.                                       *)
LEMMA SameAccounts ==
  ASSUME UNCHANGED vars, NEW p, NEW kept
  PROVE  Account(p, kept)' = Account(p, kept)
  BY DEF vars, Account, OwnName, Room, Members

(* The client of a session takes a step of its own: the server and the     *)
(* other sessions are as before.                                           *)
LEMMA ClientStep ==
  ASSUME SystemInv, NEW s \in Session, UNCHANGED <<vars, link>>,
         DOMAIN client' = Session, DOMAIN toServer' = Session, DOMAIN toClient' = Session,
         \A t \in Session : t # s => Untouched(t),
         Streams(s)', Follows(s)'
  PROVE  SystemInv'
<1>1. IInv'
  BY Accounted DEF SystemInv
<1>2. Links' /\ OnePerSession'
  BY DEF SystemInv, Links, OnePerSession, vars
<1>3. ASSUME NEW t \in Session, t # s  PROVE Streams(t)' /\ Follows(t)'
  <2>1. Streams(t) /\ Follows(t) /\ Untouched(t)
    BY <1>3 DEF SystemInv
  <2>2. Streams(t)'
    BY <2>1 DEF Untouched, Streams, Unheard, Open
  <2>3. Follows(t)'
    <3>1. Open(t)' <=> Open(t)
      BY <2>1 DEF Untouched, Open
    <3>2. ASSUME Open(t)
          PROVE /\ Sane(client'[t])
                /\ \E v, kept :
                     /\ Stages(client'[t], toClient'[t], v)
                     /\ \A p \in DOMAIN link' :
                          link'[p] = t => v[Len(toClient'[t])] = Account(p, kept)'
      <4>1. PICK v, kept : /\ Stages(client[t], toClient[t], v)
                           /\ \A p \in DOMAIN link : link[p] = t => v[Len(toClient[t])] = Account(p, kept)
        BY <2>1, <3>2 DEF Follows
      <4>2. Stages(client'[t], toClient'[t], v)
        BY <2>1, <4>1 DEF Untouched
      <4>3. \A p \in DOMAIN link' : link'[p] = t => v[Len(toClient'[t])] = Account(p, kept)'
        BY <2>1, <4>1, SameAccounts DEF Untouched
      <4>4. Sane(client'[t])
        BY <2>1, <3>2 DEF Untouched, Follows
      <4>. QED  BY <4>2, <4>3, <4>4
    <3>. QED  BY <3>1, <3>2, Zenon DEF Follows
  <2>. QED  BY <2>2, <2>3
<1>. QED  BY <1>1, <1>2, <1>3 DEF SystemInv

(* The client knows what it knew, and so does its reading.                 *)
LEMMA SameFollows ==
  ASSUME SystemInv, NEW s \in Session, UNCHANGED <<vars, link>>, toClient'[s] = toClient[s],
         Open(s)' => Open(s) /\ Sane(client'[s]) /\ Picture(client'[s]) = Picture(client[s])
  PROVE  Follows(s)'
<1>1. ASSUME Open(s)'
      PROVE /\ Sane(client'[s])
            /\ \E v, kept :
                 /\ Stages(client'[s], toClient'[s], v)
                 /\ \A p \in DOMAIN link' :
                      link'[p] = s => v[Len(toClient'[s])] = Account(p, kept)'
  <2>1. PICK v, kept :
          /\ Stages(client[s], toClient[s], v)
          /\ \A p \in DOMAIN link : link[p] = s => v[Len(toClient[s])] = Account(p, kept)
    BY <1>1 DEF SystemInv, Follows
  <2>2. Stages(client'[s], toClient'[s], v)
    BY <1>1, <2>1 DEF Stages
  <2>3. \A p \in DOMAIN link' : link'[p] = s => v[Len(toClient'[s])] = Account(p, kept)'
    BY <2>1, SameAccounts
  <2>. QED  BY <1>1, <2>2, <2>3
<1>. QED  BY <1>1, Zenon DEF Follows

(* A client asks for something: it has been heard of, or it could not.     *)
LEMMA AskStep ==
  ASSUME SystemInv, NEW s \in Session, Ask(s)
  PROVE  SystemInv'
<1>1. /\ TcpUsable(client[s])
      /\ \E r \in {q \in Requests(s) : q.type \in Asks} :
           toServer' = [toServer EXCEPT ![s] = Append(@, r)]
      /\ UNCHANGED <<vars, link>> /\ client' = client /\ toClient' = toClient
  BY DEF Ask
<1>2. PICK r : /\ IsRequest(r)
               /\ toServer' = [toServer EXCEPT ![s] = Append(@, r)]
  <2>1. \A r \in Requests(s) : IsRequest(r)
    <3>1. ASSUME NEW r \in Requests(s)
          PROVE  r.type # "Hello" /\ (r.type = "Join" => r.name \in ChannelName)
      BY DEF Requests
    <3>. QED  BY <3>1 DEF IsRequest
  <2>. QED  BY <1>1, <2>1
<1>3. Streams(s)
  BY DEF SystemInv
<1>4. /\ toServer'[s] = Append(toServer[s], r)
      /\ \A t \in Session : t # s => toServer'[t] = toServer[t]
      /\ DOMAIN toServer' = Session
  BY <1>2 DEF SystemInv, OnePerSession
<1>5. Hello \notin Range(toServer[s])
  <2>1. Open(s) /\ \A left : client[s] # NewSession(left)
    BY <1>1 DEF TcpUsable, NewSession, Open
  <2>. QED  BY <1>3, <2>1 DEF Streams, Unheard
<1>6. /\ IsVector(toServer'[s])
      /\ \A i \in DOMAIN toServer'[s] : toServer'[s][i] \in Range(toServer[s]) \cup {r}
  <2>. DEFINE x == toServer[s]  S == Range(x) \cup {r}
  <2>1. x \in Seq(S) /\ r \in S
    BY <1>3, SeqMonotonic DEF Streams, IsVector
  <2>. HIDE DEF S, x
  <2>2. Append(x, r) \in Seq(S)
    BY <2>1, AppendProperties
  <2>3. \A y \in Seq(S) : \A i \in DOMAIN y : y[i] \in S
    OBVIOUS
  <2>4. IsVector(Append(x, r)) 
    BY <2>2, SeqOfRange DEF IsVector
  <2>. QED  BY <1>4, <2>2, <2>3, <2>4 DEF S, x
<1>7. \A m \in Range(toServer[s]) : m = Hello \/ IsRequest(m)
  BY <1>3 DEF Streams, Range
<1>8. Hello \notin Range(toServer'[s]) /\ \A i \in DOMAIN toServer'[s] : IsRequest(toServer'[s][i])
  <2>1. \A i \in DOMAIN toServer'[s] : IsRequest(toServer'[s][i]) /\ toServer'[s][i] # Hello
    <3>1. r # Hello
      BY <1>2 DEF IsRequest, Hello
    <3>. QED  BY <1>2, <1>5, <1>6, <1>7, <3>1
  <2>. QED  BY <2>1 DEF Range
<1>9. Streams(s)'
  BY <1>1, <1>3, <1>6, <1>8 DEF Streams
<1>10. Follows(s)'
  <2>1. Open(s)' => Open(s) /\ Sane(client'[s]) /\ Picture(client'[s]) = Picture(client[s])
    BY <1>1 DEF SystemInv, Follows, Open
  <2>. QED  BY <1>1, <2>1, SameFollows
<1>11. /\ \A t \in Session : t # s => Untouched(t)
       /\ DOMAIN client' = Session /\ DOMAIN toClient' = Session
  BY <1>1, <1>4 DEF Untouched, SystemInv, OnePerSession
<1>. QED  BY <1>1, <1>4, <1>9, <1>10, <1>11, ClientStep

(* Selecting a channel changes nothing the client knows.                   *)
LEMMA SelectStep ==
  ASSUME SystemInv, NEW s \in Session, Select(s)
  PROVE  SystemInv'
<1>1. /\ client[s].Channels # <<>>
      /\ \E c : client' = [client EXCEPT ![s].SelectedChannel = c]
      /\ UNCHANGED <<vars, link>> /\ toServer' = toServer /\ toClient' = toClient
  <2>1. Range(client[s].Channels) # {}
    BY DEF Select
  <2>2. Range(<<>>) = {}
    BY DEF Range
  <2>3. client[s].Channels # <<>>
    BY <2>1, <2>2
  <2>. QED  BY <2>3 DEF Select
<1>2. PICK c : client' = [client EXCEPT ![s].SelectedChannel = c]
  BY <1>1
<1>3. Streams(s) /\ Follows(s) /\ IsSession(client[s])
  BY DEF SystemInv, Streams
<1>4. /\ client'[s] = [client[s] EXCEPT !.SelectedChannel = c]
      /\ \A t \in Session : t # s => client'[t] = client[t]
      /\ DOMAIN client' = Session
  BY <1>2 DEF SystemInv, OnePerSession
<1>5. /\ IsSession(client'[s])
      /\ client'[s].ConnectState = client[s].ConnectState
      /\ client'[s].Channels = client[s].Channels
      /\ client'[s].PeerID = client[s].PeerID /\ client'[s].Name = client[s].Name
  BY <1>3, <1>4 DEF IsSession
<1>6. Open(s)' <=> Open(s)
  BY <1>5 DEF Open
<1>7. Streams(s)'
  <2>1. Open(s) => Hello \notin Range(toServer[s])
    <3>1. ASSUME NEW left, client[s] = NewSession(left)  PROVE FALSE
      BY <1>1, <3>1 DEF NewSession
    <3>. QED  BY <1>3, <3>1 DEF Streams, Unheard
  <2>. QED  BY <1>1, <1>3, <1>5, <1>6, <2>1 DEF Streams, Unheard
<1>8. Follows(s)'
  <2>1. ASSUME Open(s)  PROVE Sane(client'[s]) /\ Picture(client'[s]) = Picture(client[s])
    <3>1. Sane(client'[s]) /\ \A k : Entry(client'[s], k) = Entry(client[s], k)
      <4>1. Sane(client[s])
        BY <1>3, <2>1 DEF Follows
      <4>. QED  BY <1>5, <4>1, KnowsSame
    <3>2. \A k \in Topics : Knows(client'[s], k) = Knows(client[s], k)
      BY <1>5, <3>1 DEF Knows
    <3>. QED  BY <3>1, <3>2 DEF Picture
  <2>. QED  BY <1>1, <1>6, <2>1, SameFollows
<1>9. /\ \A t \in Session : t # s => Untouched(t)
      /\ DOMAIN toServer' = Session /\ DOMAIN toClient' = Session
  BY <1>1, <1>4 DEF Untouched, SystemInv, OnePerSession
<1>. QED  BY <1>1, <1>4, <1>7, <1>8, <1>9, ClientStep

(* A client reads a message.                                               *)
LEMMA ReceiveStep ==
  ASSUME SystemInv, NEW s \in Session, Receive(s)
  PROVE  SystemInv'
<1>1. /\ Open(s) /\ toClient[s] # <<>>
      /\ client' = [client EXCEPT ![s] = HandleTCP(@, Head(toClient[s]))]
      /\ toClient' = [toClient EXCEPT ![s] = Tail(@)]
      /\ UNCHANGED <<vars, link>> /\ toServer' = toServer
  BY DEF Receive
<1>2. Streams(s) /\ Follows(s) /\ IsVector(toClient[s])
  BY DEF SystemInv, Streams
<1>3. /\ client'[s] = HandleTCP(client[s], Head(toClient[s]))
      /\ toClient'[s] = Tail(toClient[s])
      /\ \A t \in Session : t # s => Untouched(t)
      /\ DOMAIN client' = Session /\ DOMAIN toClient' = Session /\ DOMAIN toServer' = Session
  BY <1>1 DEF SystemInv, OnePerSession, Untouched
<1>4. PICK v, kept :
        /\ Stages(client[s], toClient[s], v)
        /\ \A p \in DOMAIN link : link[p] = s => v[Len(toClient[s])] = Account(p, kept)
  BY <1>1, <1>2 DEF Follows
<1>5. /\ Sane(client'[s])
      /\ IsVector(toClient'[s])
      /\ \E w : Stages(client'[s], toClient'[s], w) /\ w[Len(toClient'[s])] = v[Len(toClient[s])]
  <2>1. Sane(client[s])
    BY <1>1, <1>2 DEF Follows
  <2>. QED  BY <1>1, <1>2, <1>3, <1>4, <2>1, StagesRead
<1>6. PICK w : Stages(client'[s], toClient'[s], w) /\ w[Len(toClient'[s])] = v[Len(toClient[s])]
  BY <1>5
<1>7. Follows(s)'
  <2>1. \A p \in DOMAIN link' : link'[p] = s => w[Len(toClient'[s])] = Account(p, kept)'
    BY <1>1, <1>4, <1>6, SameAccounts
  <2>. QED  BY <1>5, <1>6, <2>1, Zenon DEF Follows
<1>8. Streams(s)'
  <2>1. Hello \notin Range(toServer[s])
    BY <1>1, <1>2 DEF Streams, Unheard
  <2>2. IsSession(client'[s])
    BY <1>5 DEF Sane
  <2>. QED  BY <1>1, <1>2, <1>5, <2>1, <2>2 DEF Streams
<1>. QED  BY <1>1, <1>3, <1>7, <1>8, ClientStep

(* A client that has closed its end need follow no more.                   *)
LEMMA DisconnectStep ==
  ASSUME SystemInv, NEW s \in Session, Disconnect(s)
  PROVE  SystemInv'
<1>1. /\ client' = [client EXCEPT ![s] = Disconnected(@)]
      /\ toClient' = [toClient EXCEPT ![s] = <<>>]
      /\ UNCHANGED <<vars, link>> /\ toServer' = toServer
  BY DEF Disconnect
<1>2. Streams(s)
  BY DEF SystemInv
<1>3. /\ client'[s] = Disconnected(client[s])
      /\ toClient'[s] = <<>>
      /\ \A t \in Session : t # s => Untouched(t)
      /\ DOMAIN client' = Session /\ DOMAIN toClient' = Session /\ DOMAIN toServer' = Session
  BY <1>1 DEF SystemInv, OnePerSession, Untouched
<1>4. IsSession(client'[s]) /\ ~ Open(s)'
  BY <1>2, <1>3 DEF Streams, IsSession, Disconnected, Open
<1>5. IsVector(toClient'[s])
  BY <1>3 DEF IsVector
<1>6. Streams(s)'
  BY <1>1, <1>2, <1>3, <1>4, <1>5 DEF Streams, Unheard
<1>7. Follows(s)'
  BY <1>4 DEF Follows
<1>. QED  BY <1>1, <1>3, <1>6, <1>7, ClientStep

(* The rest of a vector is one, with nothing new in it.                    *)
LEMMA TailIs ==
  ASSUME NEW x, IsVector(x), x # <<>>
  PROVE  IsVector(Tail(x)) /\ Range(Tail(x)) \subseteq Range(x)
<1>. DEFINE S == Range(x)
<1>1. x \in Seq(S)
  BY DEF IsVector
<1>. HIDE DEF S
<1>2. Tail(x) \in Seq(S)
  BY <1>1, HeadTailProperties
<1>3. IsVector(Tail(x))
  BY <1>2, SeqOfRange DEF IsVector
<1>4. \A y \in Seq(S) : \A i \in DOMAIN y : y[i] \in S
  OBVIOUS
<1>5. Range(Tail(x)) \subseteq S
  BY <1>2, <1>4 DEF Range
<1>. QED  BY <1>3, <1>5 DEF S

(* The server has read some of what a session wrote, and its handshake     *)
(* before it is behind a peer.                                             *)
Consumed(s) ==
  /\ IsVector(toServer'[s])
  /\ Range(toServer'[s]) \subseteq Range(toServer[s])
  /\ Hello \in Range(toServer'[s]) =>
       toServer'[s] = toServer[s] /\ \A p \in DOMAIN link' : link'[p] # s

(* What is written to the peer an open client is behind is what it needs.  *)
Served(s) ==
  \A p \in DOMAIN link' : link'[p] = s /\ Open(s) =>
    \E v, kept : /\ Stages(client[s], toClient[s], v)
                 /\ Batch(sent'[p], v[Len(toClient[s])], Account(p, kept)')

(* The server takes a step, and Deliver sends what it wrote.               *)
LEMMA ServerStep ==
  ASSUME SystemInv, IInv', Links', Deliver, client' = client, DOMAIN toServer' = Session,
         \A s \in Session : Consumed(s) /\ Served(s)
  PROVE  SystemInv'
<1>1. OnePerSession'
  <2>1. CASE Session = {}
    BY <2>1 DEF SystemInv, OnePerSession, Deliver
  <2>2. CASE Session # {}
    BY <2>2, Delivered DEF SystemInv, OnePerSession
  <2>. QED  BY <2>1, <2>2
<1>2. ASSUME NEW s \in Session  PROVE IsVector(toClient'[s]) /\ Follows(s)'
  <2>1. Streams(s) /\ Follows(s) /\ IsVector(toClient[s])
    BY DEF SystemInv, Streams
  <2>2. CASE Open(s) /\ \E p \in DOMAIN link' : link'[p] = s
    <3>1. PICK p \in DOMAIN link' : link'[p] = s
      BY <2>2
    <3>2. \A q \in DOMAIN link' : link'[q] = s => q = p
      BY <3>1 DEF Links
    <3>3. PICK v, kept :
            /\ Stages(client[s], toClient[s], v)
            /\ Batch(sent'[p], v[Len(toClient[s])], Account(p, kept)')
      BY <2>2, <3>1, Zenon DEF Served
    <3>4. Sane(client[s])
      BY <2>1, <2>2 DEF Follows
    <3>. QED  BY <2>1, <2>2, <3>1, <3>2, <3>3, <3>4, DeliveredFollows
  <2>3. CASE ~ Open(s) \/ \A p \in DOMAIN link' : link'[p] # s
    <3>1. toClient'[s] = toClient[s]
      BY <2>3, Undelivered
    <3>2. Open(s)' <=> Open(s)
      BY DEF Open
    <3>3. CASE ~ Open(s)
      BY <2>1, <3>1, <3>2, <3>3 DEF Follows
    <3>4. CASE Open(s)
      <4>1. PICK v : Stages(client[s], toClient[s], v)
        BY <2>1, <3>4 DEF Follows
      <4>2. Stages(client'[s], toClient'[s], v) /\ Sane(client'[s])
        BY <2>1, <3>1, <3>4, <4>1 DEF Follows
      <4>3. \A p \in DOMAIN link' : link'[p] # s
        BY <2>3, <3>4
      <4>4. Follows(s)'
        BY <4>2, <4>3, Zenon DEF Follows
      <4>. QED  BY <2>1, <3>1, <4>4
    <3>. QED  BY <3>3, <3>4
  <2>. QED  BY <2>2, <2>3
<1>3. ASSUME NEW s \in Session  PROVE Streams(s)'
  <2>1. Streams(s) /\ Consumed(s)
    BY DEF SystemInv
  <2>2. \A m \in Range(toServer[s]) : m = Hello \/ IsRequest(m)
    BY <2>1 DEF Streams, Range
  <2>3. \A i \in DOMAIN toServer'[s] : toServer'[s][i] \in Range(toServer'[s])
    BY DEF Range
  <2>4. \A i \in DOMAIN toServer'[s] : toServer'[s][i] = Hello \/ IsRequest(toServer'[s][i])
    BY <2>1, <2>2, <2>3 DEF Consumed
  <2>5. ASSUME Hello \in Range(toServer'[s])  PROVE Unheard(s)'
    <3>1. toServer'[s] = toServer[s] /\ \A p \in DOMAIN link' : link'[p] # s
      BY <2>1, <2>5 DEF Consumed
    <3>2. Unheard(s)
      BY <2>1, <2>5, <3>1 DEF Streams
    <3>3. toClient'[s] = toClient[s]
      BY <3>1, Undelivered
    <3>4. Open(s)' <=> Open(s)
      BY DEF Open
    <3>. QED  BY <3>1, <3>2, <3>3, <3>4 DEF Unheard
  <2>6. IsSession(client'[s]) /\ IsVector(toServer'[s]) /\ IsVector(toClient'[s])
    BY <1>2, <2>1 DEF Streams, Consumed
  <2>. QED  BY <2>4, <2>5, <2>6, Zenon DEF Streams
<1>. QED  BY <1>1, <1>2, <1>3 DEF SystemInv

(* What is in flight and what is written now lead to the new account.      *)
LEMMA ServedOn ==
  ASSUME SystemInv, NEW s \in Session,
         \A p \in DOMAIN link' : link'[p] = s =>
           p \in DOMAIN link /\ link[p] = s /\ \A kept : Tells(p, kept)
  PROVE  Served(s)
<1>1. ASSUME NEW p \in DOMAIN link', link'[p] = s, Open(s)
      PROVE  \E v, kept : /\ Stages(client[s], toClient[s], v)
                          /\ Batch(sent'[p], v[Len(toClient[s])], Account(p, kept)')
  <2>1. p \in DOMAIN link /\ link[p] = s /\ \A kept : Tells(p, kept)
    BY <1>1
  <2>2. PICK v, kept :
          /\ Stages(client[s], toClient[s], v)
          /\ \A q \in DOMAIN link : link[q] = s => v[Len(toClient[s])] = Account(q, kept)
    BY <1>1 DEF SystemInv, Follows
  <2>3. v[Len(toClient[s])] = Account(p, kept)
    BY <2>1, <2>2
  <2>4. Batch(sent'[p], v[Len(toClient[s])], Account(p, kept)')
    BY <2>1, <2>3 DEF Tells
  <2>. QED  BY <2>2, <2>4
<1>. QED  BY <1>1, Zenon DEF Served

(* A request is handled.                                                   *)
LEMMA HandleStep ==
  ASSUME SystemInv, NamesStay, NEW p \in DOMAIN PeersPool, Handle(p)
  PROVE  SystemInv'
<1>1. PICK s \in Session : s = link[p]
  BY DEF SystemInv, Links
<1>2. /\ toServer[s] # <<>>
      /\ Serve(p, Head(toServer[s]))
      /\ toServer' = [toServer EXCEPT ![s] = Tail(@)]
      /\ client' = client /\ link' = link
      /\ Deliver
  BY <1>1 DEF Handle
<1>3. Streams(s) /\ p \in DOMAIN link /\ DOMAIN link = DOMAIN PeersPool
  BY DEF SystemInv, Links
<1>4. Hello \notin Range(toServer[s])
  BY <1>1, <1>3 DEF Streams, Unheard
<1>5. IsRequest(Head(toServer[s]))
  <2>1. toServer[s] \in Seq(Range(toServer[s]))
    BY <1>3 DEF Streams, IsVector
  <2>2. Head(toServer[s]) = toServer[s][1] /\ 1 \in DOMAIN toServer[s]
    BY <1>2, <2>1
  <2>. QED  BY <1>3, <1>4, <2>2 DEF Streams, Range
<1>6. /\ IInv'
      /\ DOMAIN PeersPool' = DOMAIN PeersPool
      /\ \A q \in DOMAIN PeersPool : \A kept : Tells(q, kept)
  <2>1. PICK r : r = Head(toServer[s])
    OBVIOUS
  <2>. QED  BY <1>2, <1>5, <2>1, ServeTells DEF SystemInv
<1>7. Links'
  BY <1>2, <1>6 DEF SystemInv, Links
<1>8. DOMAIN toServer' = Session
  BY <1>2 DEF SystemInv, OnePerSession
<1>9. ASSUME NEW t \in Session  PROVE Consumed(t)
  <2>1. Streams(t)
    BY DEF SystemInv
  <2>2. CASE t = s
    <3>1. toServer'[t] = Tail(toServer[t])
      BY <1>2, <2>2 DEF SystemInv, OnePerSession
    <3>. QED  BY <1>2, <1>4, <2>1, <2>2, <3>1, TailIs DEF Streams, Consumed
  <2>3. CASE t # s
    <3>1. toServer'[t] = toServer[t]
      BY <1>2, <2>3 DEF SystemInv, OnePerSession
    <3>. QED  BY <1>2, <2>1, <3>1 DEF Streams, Unheard, Consumed
  <2>. QED  BY <2>2, <2>3
<1>10. ASSUME NEW t \in Session  PROVE Served(t)
  BY <1>2, <1>3, <1>6, ServedOn
<1>. QED  BY <1>2, <1>6, <1>7, <1>8, <1>9, <1>10, ServerStep

(* A peer is lost: its session has no peer any more, the others hear of    *)
(* it.                                                                     *)
LEMMA LoseStep ==
  ASSUME SystemInv, NEW p \in DOMAIN PeersPool, Lose(p)
  PROVE  SystemInv'
<1>1. PICK s \in Session : s = link[p]
  BY DEF SystemInv, Links
<1>2. /\ DropPeer(p)
      /\ link' = [q \in DOMAIN link \ {p} |-> link[q]]
      /\ toServer' = [toServer EXCEPT ![s] = <<>>]
      /\ client' = client
      /\ Deliver
  BY <1>1 DEF Lose, Restrict
<1>3. IInv /\ p \in DOMAIN link /\ DOMAIN link = DOMAIN PeersPool
  BY DEF SystemInv, Links
<1>4. Departs(p, PeersPool[p].Channels) /\ IInv'
  BY <1>2, <1>3, DropDeparts, DropStep
<1>5. DOMAIN PeersPool' = DOMAIN PeersPool \ {p}
  BY <1>2 DEF DropPeer
<1>6. \A q \in DOMAIN PeersPool' : \A kept : Tells(q, kept)
  <2>1. ASSUME NEW q \in DOMAIN PeersPool', NEW kept  PROVE Tells(q, kept)
    <3>1. q \in DOMAIN PeersPool /\ q # p
      BY <1>5
    <3>2. PICK cs : Departs(p, cs)
      BY <1>4
    <3>. QED  BY <1>3, <1>4, <3>1, <3>2, DepartureTells
  <2>. QED  BY <2>1
<1>7. Links'
  BY <1>2, <1>3, <1>5 DEF SystemInv, Links
<1>8. DOMAIN toServer' = Session
  BY <1>2 DEF SystemInv, OnePerSession
<1>9. ASSUME NEW t \in Session  PROVE Consumed(t)
  <2>1. Streams(t)
    BY DEF SystemInv
  <2>2. CASE t = s
    <3>1. toServer'[t] = <<>>
      BY <1>2, <2>2 DEF SystemInv, OnePerSession
    <3>2. IsVector(<<>>) /\ Range(<<>>) = {}
      BY DEF IsVector, Range
    <3>. QED  BY <3>1, <3>2 DEF Consumed
  <2>3. CASE t # s
    <3>1. toServer'[t] = toServer[t]
      BY <1>2, <2>3 DEF SystemInv, OnePerSession
    <3>. QED  BY <1>2, <2>1, <3>1 DEF Streams, Unheard, Consumed
  <2>. QED  BY <2>2, <2>3
<1>10. ASSUME NEW t \in Session  PROVE Served(t)
  <2>1. \A q \in DOMAIN link' : link'[q] = t =>
          q \in DOMAIN link /\ link[q] = t /\ \A kept : Tells(q, kept)
    BY <1>2, <1>3, <1>5, <1>6
  <2>. QED  BY <2>1, ServedOn
<1>. QED  BY <1>2, <1>4, <1>7, <1>8, <1>9, <1>10, ServerStep

(* A newcomer is behind its peer from now on.                              *)
LEMMA WelcomeStep ==
  ASSUME SystemInv, NEW s \in Session, Hello \in Range(toServer[s]),
         toServer' = [toServer EXCEPT ![s] = Tail(@)],
         NEW p \in PeerID, Connect(p),
         link' = [q \in DOMAIN link \cup {p} |-> IF q = p THEN s ELSE link[q]],
         Deliver, client' = client
  PROVE  SystemInv'
<1>1. Streams(s) /\ Unheard(s)
  BY DEF SystemInv, Streams
<1>2. IInv' /\ DOMAIN link = DOMAIN PeersPool
  BY ConnectStep DEF SystemInv, Links
<1>3. p \notin DOMAIN PeersPool /\ DOMAIN PeersPool' = DOMAIN PeersPool \cup {p}
  BY DEF Connect, LowestFree
<1>4. /\ DOMAIN link' = DOMAIN link \cup {p}
      /\ link'[p] = s
      /\ \A q \in DOMAIN link : link'[q] = link[q]
  BY <1>2, <1>3
<1>5. Links'
  <2>1. \A q \in DOMAIN link : link[q] # s
    BY <1>1 DEF Unheard
  <2>. QED  BY <1>2, <1>3, <1>4, <2>1 DEF SystemInv, Links
<1>6. /\ \A q \in DOMAIN PeersPool : \A kept : Tells(q, kept)
      /\ \A left : Batch(sent'[p], Picture(NewSession(left)), Account(p, left.Name)')
  <2>1. ASSUME NEW kept, NEW left, left.Name = kept
        PROVE  /\ \A q \in DOMAIN PeersPool : Tells(q, kept)
               /\ Batch(sent'[p], Picture(NewSession(left)), Account(p, kept)')
    BY <2>1, ConnectTells DEF SystemInv
  <2>2. ASSUME NEW kept  PROVE \E left : left.Name = kept
    <3>1. [Name |-> kept].Name = kept
      OBVIOUS
    <3>. QED  BY <3>1
  <2>. QED  BY <2>1, <2>2
<1>7. DOMAIN toServer' = Session
  BY DEF SystemInv, OnePerSession
<1>8. ASSUME NEW t \in Session  PROVE Consumed(t)
  <2>1. Streams(t)
    BY DEF SystemInv
  <2>2. CASE t = s
    <3>1. toServer'[t] = <<>>
      BY <1>1, <2>2 DEF SystemInv, OnePerSession, Unheard
    <3>2. IsVector(<<>>) /\ Range(<<>>) = {}
      BY DEF IsVector, Range
    <3>. QED  BY <3>1, <3>2 DEF Consumed
  <2>3. CASE t # s
    <3>1. toServer'[t] = toServer[t]
      BY <2>3 DEF SystemInv, OnePerSession
    <3>2. Hello \in Range(toServer[t]) => \A q \in DOMAIN link' : link'[q] # t
      BY <1>4, <2>1, <2>3 DEF Streams, Unheard
    <3>. QED  BY <2>1, <3>1, <3>2 DEF Streams, Consumed
  <2>. QED  BY <2>2, <2>3
<1>9. ASSUME NEW t \in Session  PROVE Served(t)
  <2>1. CASE t = s
    <3>1. \A q \in DOMAIN link' : link'[q] = s => q = p
      BY <1>1, <1>4 DEF Unheard
    <3>2. ASSUME Open(s)
          PROVE \E v, kept : /\ Stages(client[s], toClient[s], v)
                             /\ Batch(sent'[p], v[Len(toClient[s])], Account(p, kept)')
      <4>1. PICK left \in Leftovers : client[s] = NewSession(left) /\ toClient[s] = <<>>
        BY <1>1, <3>2 DEF Unheard
      <4>2. PICK v : Stages(client[s], <<>>, v) /\ v[Len(<<>>)] = Picture(NewSession(left))
        BY <4>1, Fresh
      <4>. QED  BY <1>6, <4>1, <4>2
    <3>3. ASSUME NEW q \in DOMAIN link', link'[q] = s, Open(s)
          PROVE \E v, kept : /\ Stages(client[s], toClient[s], v)
                             /\ Batch(sent'[q], v[Len(toClient[s])], Account(q, kept)')
      <4>1. q = p
        BY <3>1, <3>3
      <4>. QED  BY <3>2, <3>3, <4>1
    <3>. QED  BY <2>1, <3>3, Zenon DEF Served
  <2>2. CASE t # s
    <3>1. \A q \in DOMAIN link' : link'[q] = t =>
            q \in DOMAIN link /\ link[q] = t /\ \A kept : Tells(q, kept)
      BY <1>2, <1>4, <1>6, <2>2
    <3>. QED  BY <3>1, ServedOn
  <2>. QED  BY <2>1, <2>2
<1>. QED  BY <1>2, <1>5, <1>7, <1>8, <1>9, ServerStep

(* A refused client learns nothing it did not know.                        *)
LEMMA RefuseStep ==
  ASSUME SystemInv, NEW s \in Session, Hello \in Range(toServer[s]),
         toServer' = [toServer EXCEPT ![s] = Tail(@)],
         toClient' = [toClient EXCEPT ![s] = Append(@, ConnectDenied)],
         UNCHANGED <<vars, link>>, client' = client
  PROVE  SystemInv'
<1>1. Streams(s) /\ Unheard(s)
  BY DEF SystemInv, Streams
<1>2. /\ toServer'[s] = <<>>
      /\ toClient'[s] = <<ConnectDenied>>
      /\ \A t \in Session : t # s => Untouched(t)
      /\ DOMAIN client' = Session /\ DOMAIN toClient' = Session /\ DOMAIN toServer' = Session
  BY <1>1 DEF SystemInv, OnePerSession, Untouched, Unheard
<1>3. IsVector(<<>>) /\ Range(<<>>) = {} /\ IsVector(<<ConnectDenied>>)
  BY DEF IsVector, Range
<1>4. Streams(s)'
  <2>1. IsSession(client'[s]) /\ IsVector(toServer'[s]) /\ IsVector(toClient'[s])
    BY <1>1, <1>2, <1>3 DEF Streams
  <2>2. DOMAIN toServer'[s] = {}
    BY <1>2
  <2>3. Hello \notin Range(toServer'[s])
    BY <1>2, <1>3
  <2>. QED  BY <2>1, <2>2, <2>3, Zenon DEF Streams
<1>5. Follows(s)'
  <2>. DEFINE cl == client[s]  m == ConnectDenied
              v == [i \in 0 .. 1 |-> IF i = 0 THEN Picture(cl) ELSE Read(Picture(cl), m)]
  <2>1. client'[s] = cl /\ (Open(s)' => Open(s))
    BY DEF Open
  <2>2. Open(s) => Sane(cl)
    BY <1>1, Fresh DEF Unheard
  <2>3. Fitting(Picture(cl), m)
    BY DEF Fitting, OfChannels, ConnectDenied
  <2>. HIDE DEF cl, m
  <2>4. Stages(cl, <<m>>, v)
    BY <2>3 DEF Stages
  <2>5. \A p \in DOMAIN link' : link'[p] # s
    BY <1>1 DEF Unheard
  <2>. QED  BY <1>2, <2>1, <2>2, <2>4, <2>5 DEF Follows, m
<1>. QED  BY <1>2, <1>4, <1>5, ClientStep

(* A handshake is read.                                                    *)
LEMMA AcceptStep ==
  ASSUME SystemInv, NEW s \in Session, Accept(s)
  PROVE  SystemInv'
<1>1. /\ Hello \in Range(toServer[s])
      /\ toServer' = [toServer EXCEPT ![s] = Tail(@)]
      /\ client' = client
  BY DEF Accept
<1>2. \/ /\ \E p \in PeerID :
              /\ Connect(p)
              /\ link' = [q \in DOMAIN link \cup {p} |-> IF q = p THEN s ELSE link[q]]
         /\ Deliver
      \/ /\ toClient' = [toClient EXCEPT ![s] = Append(@, ConnectDenied)]
         /\ UNCHANGED <<vars, link>>
  BY Zenon DEF Accept
<1>. QED  BY <1>1, <1>2, WelcomeStep, RefuseStep

(* Every step keeps the invariant.                                         *)
LEMMA SystemStep ==
  ASSUME NamesStay
  PROVE  SystemInv /\ [SystemNext]_<<vars, wires>> => SystemInv'
<1>. SUFFICES ASSUME SystemInv, [SystemNext]_<<vars, wires>>  PROVE SystemInv'
  OBVIOUS
<1>1. ASSUME NEW s \in Session, Ask(s) \/ Select(s) \/ Receive(s) \/ Disconnect(s) \/ Accept(s)
      PROVE  SystemInv'
  BY <1>1, AskStep, SelectStep, ReceiveStep, DisconnectStep, AcceptStep
<1>2. ASSUME NEW p \in DOMAIN PeersPool, Handle(p) \/ Lose(p)  PROVE SystemInv'
  BY <1>2, HandleStep, LoseStep
<1>3. CASE UNCHANGED <<vars, wires>>
  <2>1. IInv'
    BY <1>3, Accounted DEF SystemInv
  <2>2. Links' /\ OnePerSession'
    BY <1>3 DEF SystemInv, Links, OnePerSession, vars, wires
  <2>3. ASSUME NEW s \in Session  PROVE Streams(s)' /\ Follows(s)'
    <3>1. Untouched(s) /\ UNCHANGED <<vars, link>> /\ (Open(s)' <=> Open(s))
      BY <1>3 DEF wires, Untouched, Open
    <3>2. Streams(s)'
      BY <3>1 DEF SystemInv, Untouched, Streams, Unheard
    <3>3. Follows(s)'
      BY <3>1, SameFollows DEF SystemInv, Untouched, Follows
    <3>. QED  BY <3>2, <3>3
  <2>. QED  BY <2>1, <2>2, <2>3 DEF SystemInv
<1>. QED  BY <1>1, <1>2, <1>3 DEF SystemNext

(* It always holds.                                                        *)
LEMMA SystemInvariance ==
  ASSUME NamesStay
  PROVE  SystemSpec => []SystemInv
  BY SystemInitInvariant, SystemStep, PTL DEF SystemSpec

(* A client that knows what the server says of p sees what the server sees. *)
LEMMA ViewsAgree ==
  ASSUME IInv, NEW p \in DOMAIN PeersPool, NEW kept, NEW cl, Sane(cl), Picture(cl) = Account(p, kept)
  PROVE  cl.PeerID = p /\ cl.Name = OwnName(p, kept) /\ ClientView(cl) = ServerView(p)
<1>. DEFINE cs == PeersPool[p].Channels
<1>1. \A k \in Topics : Knows(cl, k) = Account(p, kept)[k]
  <2>1. \A k \in Topics : Picture(cl)[k] = Knows(cl, k)
    BY DEF Picture
  <2>. QED  BY <2>1
<1>2. cl.PeerID = p /\ cl.Name = OwnName(p, kept)
  <2>1. Knows(cl, Itself) = p /\ Knows(cl, ItsName) = OwnName(p, kept)
    BY <1>1, AccountIs, ChannelsAreTopics
  <2>. QED  BY <2>1, ChannelsAreTopics DEF Knows
<1>3. \A k \in ChannelID : Entry(cl, k) = IF k \in cs THEN {Room(k, p)} ELSE {}
  <2>1. ASSUME NEW k \in ChannelID  PROVE Entry(cl, k) = IF k \in cs THEN {Room(k, p)} ELSE {}
    <3>1. k \in Topics /\ k # Itself /\ k # ItsName
      BY ChannelsAreTopics
    <3>2. Account(p, kept)[k] = IF k \in cs THEN {Room(k, p)} ELSE {}
      BY AccountIs, Zenon
    <3>3. Knows(cl, k) = Entry(cl, k)
      BY <3>1 DEF Knows
    <3>. QED  BY <1>1, <3>1, <3>2, <3>3
  <2>. QED  BY <2>1
<1>4. cs \subseteq ChannelID
  BY BothSides
<1>. HIDE DEF cs
<1>5. {ch.ID : ch \in Range(cl.Channels)} = cs
  <2>1. ASSUME NEW i \in DOMAIN cl.Channels  PROVE cl.Channels[i].ID \in cs
    <3>1. cl.Channels[i].ID \in ChannelID
      BY DEF Sane, IsChannel
    <3>2. Entry(cl, cl.Channels[i].ID) = {Seen(cl.Channels[i])}
      BY EntryAt
    <3>3. Entry(cl, cl.Channels[i].ID) # {}
      BY <3>2
    <3>. QED  BY <1>3, <3>1, <3>3
  <2>2. ASSUME NEW c \in cs  PROVE \E ch \in Range(cl.Channels) : ch.ID = c
    <3>1. Entry(cl, c) # {}
      BY <1>3, <1>4
    <3>. QED  BY <3>1 DEF Entry
  <2>. QED  BY <2>1, <2>2 DEF Range
<1>6. ASSUME NEW c \in cs
      PROVE  /\ ChannelOf(cl, c).Name = ChannelsPool[c].Name
             /\ ChannelOf(cl, c).Peers = [q \in Members(c) \ {p} |-> <<PeersPool[q].Name>>]
  <2>1. Entry(cl, c) = {Room(c, p)}
    BY <1>3, <1>4
  <2>2. PICK i : i = Position(cl, c)
    OBVIOUS
  <2>3. i \in DOMAIN cl.Channels /\ cl.Channels[i].ID = c
    <3>1. IsVector(cl.Channels)
      BY DEF Sane
    <3>2. ~ \A j \in DOMAIN cl.Channels : cl.Channels[j].ID # c
      BY <2>1, EntryNone
    <3>. QED  BY <2>2, <3>1, <3>2, PositionIs
  <2>4. Seen(cl.Channels[i]) = Room(c, p)
    BY <2>1, <2>3, EntryAt
  <2>. QED  BY <2>2, <2>4 DEF ChannelOf, Seen, Room
<1>7. ClientView(cl) = ServerView(p)
  <2>1. ClientView(cl) = [c \in cs |-> [Name |-> ChannelOf(cl, c).Name,
                                        Peers |-> ChannelOf(cl, c).Peers]]
    BY <1>5, Zenon DEF ClientView
  <2>2. ServerView(p) = [c \in cs |-> [Name |-> ChannelsPool[c].Name,
                                       Peers |-> [q \in Members(c) \ {p} |-> <<PeersPool[q].Name>>]]]
    BY DEF ServerView, cs
  <2>. QED  BY <1>6, <2>1, <2>2
<1>. QED  BY <1>2, <1>7

(* However requests, notices and departures interleave, a client that      *)
(* reads all that is on its way knows its id, its channels and who is in   *)
(* them under which name as the server does, and its own name once the     *)
(* server has one for it: HandleTCP of client/RedRelayClient.cpp undoes    *)
(* what the server's handlers wrote, even if they wrote several messages   *)
(* at once.  A NameSet callback must leave a name: without one the client  *)
(* takes a notice for another one.                                         *)
THEOREM ClientsDoConverge ==
  ASSUME BlankName \notin NameRewrites
  PROVE  SystemSpec => []ClientsConverge
<1>. NamesStay
  BY DEF NamesStay
<1>1. SystemInv => ClientsConverge
  <2>. SUFFICES ASSUME SystemInv, NEW p \in Live
                PROVE  /\ Caught(p).PeerID = p
                       /\ PeersPool[p].Name # BlankName => Caught(p).Name = PeersPool[p].Name
                       /\ ClientView(Caught(p)) = ServerView(p)
    BY DEF ClientsConverge
  <2>1. p \in DOMAIN link /\ p \in DOMAIN PeersPool
    BY DEF Live, SystemInv, Links
  <2>2. PICK s \in Session : s = link[p]
    BY <2>1 DEF SystemInv, Links
  <2>3. Open(s) /\ Streams(s) /\ Follows(s)
    BY <2>2 DEF Live, SystemInv
  <2>4. PICK v, kept : Stages(client[s], toClient[s], v) /\ v[Len(toClient[s])] = Account(p, kept)
    BY <2>1, <2>2, <2>3 DEF Follows
  <2>5. PICK cl : cl = HandleAll(client[s], toClient[s])
    OBVIOUS
  <2>6. Sane(cl) /\ Picture(cl) = Account(p, kept)
    <3>1. Sane(client[s]) /\ IsVector(toClient[s])
      BY <2>3 DEF Follows, Streams
    <3>. QED  BY <2>4, <2>5, <3>1, StagesHandled
  <2>7. Caught(p) = cl
    BY <2>2, <2>5 DEF Caught
  <2>. QED  BY <2>1, <2>6, <2>7, ViewsAgree DEF SystemInv, OwnName
<1>. QED  BY <1>1, SystemInvariance, PTL

(* A client that reads a channel message has the channel and its sender in *)
(* its vector, whoever was renamed, entered or left while it travelled.    *)
THEOREM SendersAreKnown ==
  ASSUME BlankName \notin NameRewrites
  PROVE  SystemSpec => []SendersKnown
<1>. NamesStay
  BY DEF NamesStay
<1>1. SystemInv => SendersKnown
  <2>. SUFFICES ASSUME SystemInv, NEW s \in Session, Open(s), toClient[s] # <<>>,
                       Head(toClient[s]).type = "ChannelMessage"
                PROVE  LET m == Head(toClient[s])
                       IN  /\ HasChannel(client[s], m.channel)
                           /\ m.peer \in DOMAIN ChannelOf(client[s], m.channel).Peers
    BY DEF SendersKnown
  <2>1. PICK m : m = Head(toClient[s])
    OBVIOUS
  <2>2. PICK v : Stages(client[s], toClient[s], v)
    BY DEF SystemInv, Follows
  <2>3. Sane(client[s]) /\ IsVector(toClient[s])
    BY DEF SystemInv, Follows, Streams
  <2>4. v[0] = Picture(client[s]) /\ Fitting(v[0], m)
    <3>1. toClient[s] \in Seq(Range(toClient[s])) /\ Len(toClient[s]) \in Nat \ {0}
      BY <2>3 DEF IsVector
    <3>2. m = toClient[s][1] /\ 1 \in 1 .. Len(toClient[s]) /\ 1 - 1 = 0
      BY <2>1, <3>1
    <3>. QED  BY <2>2, <3>2 DEF Stages
  <2>5. m.channel \in ChannelID /\ \E e \in Entry(client[s], m.channel) : m.peer \in DOMAIN e.Peers
    <3>1. m.channel \in ChannelID /\ \E e \in v[0][m.channel] : m.peer \in DOMAIN e.Peers
      BY <2>1, <2>4 DEF Fitting
    <3>2. v[0][m.channel] = Entry(client[s], m.channel)
      BY <2>4, <3>1, ChannelsAreTopics DEF Picture, Knows
    <3>. QED  BY <3>1, <3>2
  <2>6. PICK i : i = Position(client[s], m.channel)
    OBVIOUS
  <2>7. i \in DOMAIN client[s].Channels /\ client[s].Channels[i].ID = m.channel /\ i # 0
    <3>1. ~ \A j \in DOMAIN client[s].Channels : client[s].Channels[j].ID # m.channel
      BY <2>5, EntryNone
    <3>2. IsVector(client[s].Channels)
      BY <2>3 DEF Sane
    <3>. QED  BY <2>6, <3>1, <3>2, PositionIs
  <2>8. Entry(client[s], m.channel) = {Seen(client[s].Channels[i])}
    BY <2>3, <2>7, EntryAt
  <2>9. m.peer \in DOMAIN client[s].Channels[i].Peers
    BY <2>5, <2>8 DEF Seen
  <2>. QED  BY <2>1, <2>6, <2>7, <2>9 DEF HasChannel, ChannelOf
<1>. QED  BY <1>1, SystemInvariance, PTL
=============================================================================
