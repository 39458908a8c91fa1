------------------------------ MODULE Framing ------------------------------
(***************************************************************************)
(* How bytes become messages.  One direction of one TCP connection: the    *)
(* writer puts type and length before each message, the network hands the  *)
(* bytes on in pieces of any size, and the reader cuts them into messages  *)
(* in a buffer: the server's Peer (server/Channel.cpp) in ReceiveTcp, or   *)
(* the client's PacketReader in Update.                                    *)
(*                                                                         *)
(* Everything is stated in terms of the number of values of a byte, 256 in *)
(* the code: 254, 65535 and 65536 are Base - 2, Base * Base - 1 and        *)
(* Base * Base.                                                            *)
(***************************************************************************)
EXTENDS Integers, Sequences

CONSTANTS
  Base,             \* how many values a byte has
  InitialCapacity,  \* the size of a new PacketReader's buffer
  ToServer,         \* what clients may write
  ToClient,         \* what the server may write
  MaxMessages       \* bound: how many messages are written

Byte == 0 .. Base - 1

Marker == Base - 2       \* a length of two bytes follows
LongMarker == Base - 1   \* a length of four bytes follows

Capacity == Base * Base  \* Peer::buffer

(* The first length that two bytes are not used for, and what a reader     *)
(* takes for the length as long as the header is incomplete.               *)
Wide == Base * Base - 1

(* A message that is written from scratch, or one that the server relays   *)
(* in a channel or to a single peer.                                       *)
Message == [via : {"packet", "channel", "peer"}, type : Byte, size : Nat]

ASSUME BaseAssumption == Base \in Nat /\ Base > 3

(* The server ignores messages to relay that are too short, and can only   *)
(* have received those that fit in its buffer.                             *)
ASSUME MessagesAssumption ==
  /\ InitialCapacity \in Nat \ {0}
  /\ MaxMessages \in Nat
  /\ ToServer \cup ToClient \subseteq Message
  /\ \A m \in ToServer : m.via = "packet"
  /\ \A m \in ToClient :
       /\ m.via = "channel" => m.size \in 3 .. Capacity - 4
       /\ m.via = "peer" => m.size \in 5 .. Capacity - 4

VARIABLES
  side,        \* who reads: "server" or "client"
  written,     \* what was written, and whether all of it went out
  stream,      \* bytes on their way
  buffer,      \* the reader's buffer, as far as it has been filled
  capacity,    \* the buffer's size
  begin,       \* Peer::buffbegin, PacketReader::packetbegin
  packetsize,  \* Peer::packetsize, PacketReader::received
  reading,     \* the reader is taking messages out of what it has received
  handed,      \* the messages handed to HandleTCP
  torn,        \* less was left of a piece than the last header had (history)
  status       \* "open"; "dropped"; "undefined": memory that is nobody's was read

vars == <<side, written, stream, buffer, capacity, begin, packetsize, reading, handed, torn, status>>

-----------------------------------------------------------------------------
(* Writing.                                                                *)

(* Mutant: the marker itself is used as a length.                          *)
SizeBytesMarker(n, long) ==
  IF n <= Marker THEN <<n>> ELSE <<Marker, n % Base, n \div Base>>

SizeBytes(n, long) ==
  IF n < Marker THEN <<n>>
  ELSE IF n < Wide THEN <<Marker, n % Base, n \div Base>>
  ELSE <<long, n % Base, (n \div Base) % Base, (n \div (Base * Base)) % Base,
         (n \div (Base * Base * Base)) % Base>>

(* RelayPacket::GetPacket announces four bytes with the marker of two; the *)
(* headers that HandleTCP puts before a relayed message do not.            *)
LongForm(m) == IF m.via = "packet" THEN Marker ELSE LongMarker

(* Contents that tell each position from its neighbours.                   *)
Body(m) == [i \in 1 .. m.size |-> (i + m.type) % Base]

Sender == <<1, 0>>   \* the id of the peer that sent a relayed message

(* What the reader is to get: subchannel and channel, the sender, the data.*)
Contents(m) ==
  CASE m.via = "packet"  -> Body(m)
    [] m.via = "channel" -> SubSeq(Body(m), 1, 3) \o Sender \o SubSeq(Body(m), 4, m.size)
    [] m.via = "peer"    -> SubSeq(Body(m), 1, 3) \o Sender \o SubSeq(Body(m), 6, m.size)

Framed(type, contents, long) == <<type>> \o SizeBytes(Len(contents), long) \o contents

Encoded(m) == Framed(m.type, Contents(m), LongForm(m))

-----------------------------------------------------------------------------
(* Reading: MessageSize, SizeOffset and MessageReady, which both readers   *)
(* have alike, on the bytes from begin on.  Sums near the largest length   *)
(* of four bytes wrap around in the code; none is written here.            *)

SizeOffset(w) ==
  IF Len(w) < 2 THEN 0 ELSE IF w[2] < Marker THEN 1 ELSE IF w[2] = Marker THEN 3 ELSE 5

MessageSize(w) ==
  IF Len(w) > 1 /\ w[2] < Marker THEN w[2]
  ELSE IF Len(w) > 3 /\ w[2] = Marker THEN w[3] + Base * w[4]
  ELSE IF Len(w) > 5 THEN w[3] + Base * w[4] + Base * Base * w[5] + Base * Base * Base * w[6]
  ELSE Wide

(* Mutant: waits for a byte more than the message has.                     *)
MessageReadyLate(w) == MessageSize(w) + SizeOffset(w) + 1 < Len(w)

MessageReady(w) == MessageSize(w) + SizeOffset(w) < Len(w)

Taken(w) == 1 + SizeOffset(w) + MessageSize(w)

(* n bytes at a position.  Behind the buffer there is at most one, which   *)
(* nobody looks at: with more, status is "undefined".                      *)
Window(at, n) ==
  IF at + n <= Len(buffer) THEN SubSeq(buffer, at + 1, at + n) ELSE [i \in 1 .. n |-> 0]

Here == Window(begin, packetsize)

-----------------------------------------------------------------------------
Init ==
  /\ side \in {"server", "client"}
  /\ written = <<>>
  /\ stream = <<>>
  /\ buffer = <<>>
  /\ capacity = IF side = "server" THEN Capacity ELSE InitialCapacity
  /\ begin = 0
  /\ packetsize = 0
  /\ reading = FALSE
  /\ handed = <<>>
  /\ torn = FALSE
  /\ status = "open"

(* Bound: nothing is written behind a message that did not go out whole or *)
(* needs four bytes for its length, since no property speaks of it.        *)
Readable == \A i \in DOMAIN written : written[i].whole /\ Len(Contents(written[i].message)) < Wide

Send(m, bytes, whole) ==
  /\ status = "open"
  /\ Len(written) < MaxMessages
  /\ Readable
  /\ m \in IF side = "server" THEN ToServer ELSE ToClient
  /\ written' = Append(written, [message |-> m, whole |-> whole])
  /\ stream' = stream \o bytes
  /\ UNCHANGED <<side, buffer, capacity, begin, packetsize, reading, handed, torn, status>>

Write(m) == Send(m, Encoded(m), TRUE)

(* The client's socket does not block: when it takes only a part, the rest *)
(* is tried again at once, and given up when it is still full.             *)
WritePart(m) ==
  /\ side = "server"
  /\ \E k \in 1 .. Len(Encoded(m)) - 1 : Send(m, SubSeq(Encoded(m), 1, k), FALSE)

(* The client's buffer grows when it is full.                              *)
CheckBounds ==
  IF side = "client" /\ packetsize = capacity THEN 2 * capacity ELSE capacity

(* Mutant: what is in the buffer already is forgotten.                     *)
RoomWhole == CheckBounds

Room == CheckBounds - packetsize

Receive(k) ==
  /\ status = "open"
  /\ ~reading
  /\ k \in 1 .. Len(stream)
  /\ k <= Room
  /\ capacity' = CheckBounds
  /\ buffer' = buffer \o SubSeq(stream, 1, k)
  /\ stream' = SubSeq(stream, k + 1, Len(stream))
  /\ packetsize' = packetsize + k
  /\ reading' = TRUE
  /\ UNCHANGED <<side, written, begin, handed, torn, status>>

(* The server's does not: no room is left to receive anything, and that    *)
(* looks like the end of the stream.                                       *)
Overflow ==
  /\ status = "open"
  /\ ~reading
  /\ side = "server"
  /\ packetsize = capacity
  /\ stream # <<>>
  /\ status' = "dropped"
  /\ UNCHANGED <<side, written, stream, buffer, capacity, begin, packetsize, reading, handed, torn>>

-----------------------------------------------------------------------------
(* One message is handed over.  packetsize is reduced first, so that begin *)
(* moves on by what the header says when only the rest counts as received. *)

Rest == packetsize - Taken(Here)

(* Mutant: begin moves on by what packetsize was reduced by, plus one.     *)
NextBeginOver == begin + Taken(Window(begin, Rest)) + 1

NextBegin == begin + Taken(Window(begin, Rest))

(* Mutant: the size of the header is forgotten.                            *)
NextMessageNoOffset == [type |-> Here[1], body |-> SubSeq(Here, 3, 2 + MessageSize(Here))]

NextMessage ==
  [type |-> Here[1],
   body |-> SubSeq(Here, SizeOffset(Here) + 2, Taken(Here))]

Beyond == NextBegin + Rest > Len(buffer)

HandOver ==
  /\ status = "open"
  /\ reading
  /\ MessageReady(Here)
  /\ handed' = Append(handed, NextMessage)
  /\ packetsize' = Rest
  /\ torn' = (torn \/ Rest \in 1 .. SizeOffset(Here))
  /\ status' = IF Beyond /\ Rest > 1 THEN "undefined" ELSE status
  /\ UNCHANGED <<side, written, stream, capacity, reading>>

(* ReceiveTcp.                                                             *)
HandleNext ==
  /\ side = "server"
  /\ HandOver
  /\ begin' = NextBegin
  /\ UNCHANGED buffer

(* Mutant: what is left stays where it is.                                 *)
CompactedNever == SubSeq(buffer, 1, packetsize)

(* memmove, unless begin is beyond the buffer.                             *)
Compacted ==
  IF begin \in 1 .. Capacity - 1 THEN Here ELSE SubSeq(buffer, 1, packetsize)

(* Update and NextPacket, which moves the rest to the front as soon as it  *)
(* is no whole message: from behind the buffer, it brings any byte.        *)
NextPacket ==
  /\ side = "client"
  /\ HandOver
  /\ IF MessageReady(Window(NextBegin, Rest))
     THEN begin' = NextBegin /\ UNCHANGED buffer
     ELSE /\ begin' = 0
          /\ IF Beyond THEN buffer' \in [1 .. Rest -> Byte]
             ELSE buffer' = Window(NextBegin, Rest)

EndRead ==
  /\ status = "open"
  /\ reading
  /\ ~MessageReady(Here)
  /\ reading' = FALSE
  /\ buffer' = IF side = "server" THEN Compacted ELSE buffer
  /\ begin' = 0
  /\ UNCHANGED <<side, written, stream, capacity, packetsize, handed, torn, status>>

-----------------------------------------------------------------------------
Reader == (\E k \in 1 .. Len(stream) : Receive(k)) \/ Overflow \/ HandleNext \/ NextPacket \/ EndRead

Next ==
  \/ \E m \in ToServer \cup ToClient : Write(m) \/ WritePart(m)
  \/ \E k \in 1 .. Len(stream) : Receive(k)
  \/ Overflow
  \/ HandleNext
  \/ NextPacket
  \/ EndRead

(* The reader goes on as long as there is something to read or to take out.*)
Spec == Init /\ [][Next]_vars /\ WF_vars(Reader)

-----------------------------------------------------------------------------
(* Properties.                                                             *)

(* Messages, bytes and counters are what they are meant to be, and the     *)
(* reader never receives more than its buffer has room for.                *)
TypeOK ==
  /\ side \in {"server", "client"}
  /\ written \in Seq([message : ToServer \cup ToClient, whole : BOOLEAN])
  /\ stream \in Seq(Byte)
  /\ buffer \in Seq(Byte)
  /\ capacity \in Nat
  /\ side = "server" => capacity = Capacity
  /\ begin \in Nat
  /\ packetsize \in Nat
  /\ packetsize <= Len(buffer)
  /\ Len(buffer) <= capacity
  /\ reading \in BOOLEAN
  /\ handed \in Seq([type : Byte, body : Seq(Byte)])
  /\ torn \in BOOLEAN
  /\ status \in {"open", "dropped", "undefined"}

(* The first n messages went out whole, need no four-byte length, and fit  *)
(* in the reader's buffer.                                                 *)
Sound(n) ==
  \A i \in 1 .. n :
    LET m == written[i].message
    IN  /\ written[i].whole
        /\ Len(Contents(m)) < Wide
        /\ side = "server" => Len(Encoded(m)) <= Capacity

Lowest(i, j) == IF i < j THEN i ELSE j

(* However the network cuts the stream, sound messages are handed over as  *)
(* they were written, in order, none twice and none left out: as long as   *)
(* no piece left less than the last header had.                            *)
HandedAsWritten ==
  ~torn => \A i \in DOMAIN handed : Sound(Lowest(i, Len(written))) =>
    /\ i <= Len(written)
    /\ LET m == written[i].message
       IN  handed[i] = [type |-> m.type, body |-> Contents(m)]

(* Even then, unless memory that is nobody's was read, only the first byte *)
(* of a message is lost, and with it the type: lengths and contents stay.  *)
ContentsKept ==
  status # "undefined" => \A i \in DOMAIN handed : Sound(Lowest(i, Len(written))) =>
    i <= Len(written) /\ handed[i].body = Contents(written[i].message)

(* No reader looks beyond what it has received, unless a piece ended so.   *)
WithinBuffer ==
  /\ ~torn => status # "undefined"
  /\ ~torn /\ packetsize # 0 => begin + packetsize <= Len(buffer)

(* A peer whose messages all fit is not taken for gone.                    *)
DroppedForCause == status = "dropped" => ~Sound(Len(written))

(* Sound messages are all handed over in the end, whether or not more      *)
(* comes behind them.                                                      *)
AllHandedOver ==
  \A n \in 1 .. MaxMessages :
    Len(written) >= n /\ Sound(n) ~> (Len(handed) >= n \/ status = "undefined")

(* "transmit data packets through TCP or UDP" (README.md:2): whole packets *)
(* that need no four-byte length arrive as they were written.              *)
PacketsIntact ==
  \A i \in DOMAIN handed : Sound(Lowest(i, Len(written))) =>
    /\ i <= Len(written)
    /\ LET m == written[i].message
       IN  handed[i] = [type |-> m.type, body |-> Contents(m)]
=============================================================================
