--------------------------- MODULE ChannelService ---------------------------
(***************************************************************************)
(* What the relay promises about channels, without ids, names, limits or   *)
(* packets: named rooms that exist only while somebody is in them, each    *)
(* with an owner among its members.  RelayServer implements this           *)
(* specification (see RoomsView there).                                    *)
(***************************************************************************)
EXTENDS FiniteSets

CONSTANTS
  Member,    \* who may be in a room
  RoomName   \* what a room may be called

VARIABLE
  rooms      \* the open rooms: a function from their names to their state

Room == [members : SUBSET Member, owner : Member, hidden : BOOLEAN, closing : BOOLEAN]

(* Every open room has a well-formed state.                                *)
RoomsTyped ==
  /\ DOMAIN rooms \subseteq RoomName
  /\ \A r \in DOMAIN rooms : rooms[r] \in Room

Init == rooms = [r \in {} |-> {}]

-----------------------------------------------------------------------------
(* m opens room r and owns it; "closing" rooms end when the owner leaves.  *)
Open(m, r, hidden, closing) ==
  /\ r \in RoomName \ DOMAIN rooms
  /\ rooms' = [s \in DOMAIN rooms \cup {r} |->
                 IF s = r
                 THEN [members |-> {m}, owner |-> m, hidden |-> hidden, closing |-> closing]
                 ELSE rooms[s]]

Enter(m, r) ==
  /\ r \in DOMAIN rooms
  /\ m \notin rooms[r].members
  /\ rooms' = [rooms EXCEPT ![r].members = @ \cup {m}]

(* A room ends when m was its last member, or its owner and it is closing. *)
Ends(m, r) ==
  \/ rooms[r].members = {m}
  \/ rooms[r].closing /\ rooms[r].owner = m

(* The states room r may have once m is out: an owner who leaves is        *)
(* succeeded by one of those who stay.                                     *)
LeftBy(m, r) ==
  LET staying == rooms[r].members \ {m}
  IN  {[rooms[r] EXCEPT !.members = staying, !.owner = o] :
         o \in IF rooms[r].owner = m THEN staying ELSE {rooms[r].owner}}

(* m leaves the rooms rs, all at once.                                     *)
Depart(m, rs) ==
  /\ \A r \in rs : r \in DOMAIN rooms /\ m \in rooms[r].members
  /\ DOMAIN rooms' = DOMAIN rooms \ {r \in rs : Ends(m, r)}
  /\ \A r \in DOMAIN rooms' :
       rooms'[r] \in IF r \in rs THEN LeftBy(m, r) ELSE {rooms[r]}
  /\ rooms' = [r \in DOMAIN rooms' |-> rooms'[r]]

RoomsOf(m) == {r \in DOMAIN rooms : m \in rooms[r].members}

Next ==
  \E m \in Member :
    \/ \E r \in RoomName, hidden, closing \in BOOLEAN : Open(m, r, hidden, closing)
    \/ \E r \in RoomName : Enter(m, r)
    \/ \E r \in RoomsOf(m) : Depart(m, {r})
    \/ Depart(m, RoomsOf(m))

Spec == Init /\ [][Next]_rooms
=============================================================================
