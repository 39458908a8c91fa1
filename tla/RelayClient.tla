---------------------------- MODULE RelayClient ----------------------------
(***************************************************************************)
(* The client library's view of the relay (client/RedRelayClient.cpp): the *)
(* record one session keeps, and how each message of the server changes    *)
(* it.  Pure operators; RelaySystem connects them to a server.             *)
(*                                                                         *)
(* The queue of events for the application is left out.  A channel's Peers *)
(* vector is a function from ids to the names of their entries, in the     *)
(* order of the vector: every lookup is by id and finds the first entry.   *)
(***************************************************************************)
EXTENDS Names, Naturals, SequencesExt

NoMaster == 65535          \* what GetMasterID returns when no master is known
NoChannel == 65535         \* "use SelectedChannel" in the calls that send

(* A session whose connect request is on its way: Connect() and the first  *)
(* part of Update().  Neither touches the id, the name and the selected    *)
(* channel that the client's last session left behind.                     *)
NewSession(left) ==
  [ConnectState |-> "RequestingTcp", PeerID |-> left.PeerID, Name |-> left.Name,
   Channels |-> <<>>, SelectedChannel |-> left.SelectedChannel]

(* Where the channel with this id is in the client's vector, 0 if nowhere. *)
Position(cl, id) == SelectInSeq(cl.Channels, LAMBDA ch : ch.ID = id)

HasChannel(cl, id) == Position(cl, id) # 0
ChannelOf(cl, id) == cl.Channels[Position(cl, id)]

(* The requests of the public interface are dropped before the server has  *)
(* welcomed the client.                                                    *)
TcpUsable(cl) == cl.ConnectState \in {"RequestingUdp", "Established"}

-----------------------------------------------------------------------------
(* HandleTCP, message by message.                                          *)

OnConnected(cl, m) == [cl EXCEPT !.PeerID = m.peer, !.ConnectState = "RequestingUdp"]

(* A denial closes the socket and leaves ConnectState alone.               *)
OnConnectDenied(cl, m) == cl

(* A reply without a name is too short: an error, whatever it says.        *)
OnNameReply(cl, m) == IF m.ok /\ m.name # BlankName THEN [cl EXCEPT !.Name = m.name] ELSE cl

(* The byte the server fills with "created" is read as the flags.  Alone   *)
(* in the channel, the client takes itself for the master.                 *)
OnJoined(cl, m) ==
  LET masters == {e \in m.peers : e.master}
  IN  [cl EXCEPT
         !.Channels = Append(@,
            [ID |-> m.channel, Name |-> m.name, Flags |-> IF m.created THEN 1 ELSE 0,
             Master |-> IF m.peers = {} THEN cl.PeerID
                        ELSE IF masters = {} THEN NoMaster
                        ELSE (CHOOSE e \in masters : TRUE).id,
             Peers |-> [i \in {e.id : e \in m.peers} |-> <<(CHOOSE e \in m.peers : e.id = i).name>>]]),
         !.SelectedChannel = m.channel]

(* Leaving or losing a channel selects the one before it in the vector, if *)
(* there is one, whatever was selected.                                    *)
OnDropped(cl, m) ==
  LET i == Position(cl, m.channel)
  IN  IF i = 0 THEN cl
      ELSE [cl EXCEPT !.Channels = RemoveAt(@, i),
                      !.SelectedChannel = IF i > 1 THEN cl.Channels[i - 1].ID ELSE @]

(* Mutant: the peer's entry is kept, only the mastership is noted.         *)
OnPeerLeftKept(cl, m) ==
  LET i == Position(cl, m.channel)
  IN  IF i = 0 THEN cl
      ELSE [cl EXCEPT !.Channels[i].Master = IF @ = m.peer THEN NoMaster ELSE @]

(* The first entry of q is erased from the vector.                         *)
FirstErased(peers, q) ==
  IF Len(peers[q]) > 1 THEN [peers EXCEPT ![q] = Tail(@)]
  ELSE [r \in DOMAIN peers \ {q} |-> peers[r]]

OnPeerLeft(cl, m) ==
  LET i == Position(cl, m.channel)
  IN  IF i = 0 \/ m.peer \notin DOMAIN cl.Channels[i].Peers THEN cl
      ELSE [cl EXCEPT
              !.Channels[i].Master = IF @ = m.peer THEN NoMaster ELSE @,
              !.Channels[i].Peers = FirstErased(@, m.peer)]

(* The first entry of q gets the name n.                                   *)
FirstRenamed(peers, q, n) == [peers EXCEPT ![q] = <<n>> \o Tail(@)]

(* A new entry at the end of the vector.                                   *)
Pushed(peers, q, n) ==
  [r \in DOMAIN peers \cup {q} |->
     IF r # q THEN peers[r] ELSE IF q \in DOMAIN peers THEN Append(peers[q], n) ELSE <<n>>]

(* Mutant: newcomers are not added.                                        *)
OnPeerRenamed(cl, m) ==
  LET i == Position(cl, m.channel)
  IN  IF i = 0 \/ m.peer \notin DOMAIN cl.Channels[i].Peers THEN cl
      ELSE [cl EXCEPT !.Channels[i].Peers = FirstRenamed(@, m.peer, m.name)]

(* A newcomer or a new name.  The mastership in the message is read only   *)
(* when there is no name in it; a known peer that loses its name otherwise *)
(* is pushed a second time.                                                *)
OnPeerNamed(cl, m) ==
  LET i == Position(cl, m.channel)
      known == i # 0 /\ m.peer \in DOMAIN cl.Channels[i].Peers
  IN  IF i = 0 THEN cl
      ELSE IF known /\ m.name = BlankName /\ m.master THEN [cl EXCEPT !.Channels[i].Master = m.peer]
      ELSE [cl EXCEPT !.Channels[i].Peers =
              IF known /\ m.name # BlankName THEN FirstRenamed(@, m.peer, m.name)
                                             ELSE Pushed(@, m.peer, m.name)]

(* The other messages only become events.                                  *)
HandleTCP(cl, m) ==
  CASE m.type = "Connected"     -> OnConnected(cl, m)
    [] m.type = "ConnectDenied" -> OnConnectDenied(cl, m)
    [] m.type = "NameReply"     -> OnNameReply(cl, m)
    [] m.type = "Joined"        -> OnJoined(cl, m)
    [] m.type = "Dropped"       -> OnDropped(cl, m)
    [] m.type = "PeerLeft"      -> OnPeerLeft(cl, m)
    [] m.type = "PeerNamed"     -> OnPeerNamed(cl, m)
    [] OTHER                    -> cl

(* Disconnect() forgets the channels, but not the name, the id or the      *)
(* selected channel.                                                       *)
Disconnected(cl) == [cl EXCEPT !.ConnectState = "Disconnected", !.Channels = <<>>]

(* Update() handles every message that has arrived.                        *)
HandleAll(cl, msgs) ==
  LET after[n \in 0 .. Len(msgs)] == IF n = 0 THEN cl ELSE HandleTCP(after[n - 1], msgs[n])
  IN  after[Len(msgs)]
=============================================================================
