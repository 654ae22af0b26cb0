----------------------------- MODULE MqttStream -----------------------------
(***************************************************************************)
(* Bytes under the MQTT client: sendPacket, readPacket and decodePacket of *)
(* MQTTClient-C/src/MQTTClient.c on the network of a port (NetworkRead and *)
(* NetworkWrite of ohos, linux_read and linux_write, FreeRTOS_read and     *)
(* FreeRTOS_write).  The network takes and gives what it is asked for in   *)
(* pieces, or the time of the call is up between two of them.              *)
(*                                                                         *)
(* A step is one call of recv or send.  MqttClient takes the result of a   *)
(* whole readPacket for a step, and its packets for whole.                 *)
(***************************************************************************)
EXTENDS Naturals, Integers, Sequences

CONSTANTS
  Port,        \* ports of the image
  Base,        \* values of the seven bits of a length byte (128 in the code)
  Remaining,   \* remaining lengths of the packets of the broker
  OwnLength,   \* lengths of the packets of the client
  ReadBufSize, \* readbuf_size
  MaxIn,       \* bound of the model: packets of the broker
  MaxOut,      \* bound of the model: packets of the client
  MaxCut       \* bound of the model: reads whose time is up within a packet

VARIABLES
  port,
  pc,          \* where the thread is: "idle", or in one of its calls
  expired,     \* whether the timer of the call has expired
  packets,     \* remaining lengths of the packets the broker has sent
  arrived,     \* bytes of them the socket holds or has given
  taken,       \* bytes of them the client has taken
  open,        \* whether the broker is there
  bytes,       \* bytes taken by this call of the network
  rem_len, count,  \* value and len of decodePacket
  result,      \* what readPacket or sendPacket has returned
  length, sent,    \* the packet under way and what sendPacket counts of it
  wire,        \* history: bytes sent of it, by their place in buf
  types,       \* history: packets readPacket has returned, by the byte they began at
  starts, torn,\* history: the byte this packet began at; a read was cut within a packet
  outs, cuts   \* history: packets of the client, reads that were cut within a packet

link == <<packets, arrived, open>>
reader == <<taken, bytes, rem_len, count, types, starts, torn, cuts>>
writer == <<length, sent, wire, outs>>
vars == <<port, pc, expired, link, reader, result, writer>>

(***************************************************************************)
(* The bytes of the broker.                                                *)
(***************************************************************************)

\* MQTTPacket_encode: the bytes of a length, lowest first; the others have the high bit.
Encode[n \in Nat] ==
  IF n < Base THEN <<n>> ELSE <<(n % Base) + Base>> \o Encode[n \div Base]
\* A header, the length and as many bytes.  To a client that takes them for a length byte, a
\* header and the bytes of the body are any that have no high bit.
Bytes(n) == <<1>> \o Encode[n] \o [i \in 1 .. n |-> 0]
Stream[k \in Nat] == IF k = 0 THEN <<>> ELSE Stream[k - 1] \o Bytes(packets[k])
Wire == Stream[Len(packets)]
\* The bytes at which packets begin, counted from 0.
Boundary == {Len(Stream[k]) : k \in 0 .. Len(packets)}

Init ==
  /\ port \in Port /\ pc = "idle" /\ expired = FALSE
  /\ packets = <<>> /\ arrived = 0 /\ open = TRUE
  /\ taken = 0 /\ bytes = 0 /\ rem_len = 0 /\ count = 0 /\ result = 0
  /\ length = 0 /\ sent = 0 /\ wire = <<>> /\ outs = 0
  /\ types = <<>> /\ starts = 0 /\ torn = FALSE /\ cuts = 0

(***************************************************************************)
(* The network of the port: what a step of one call of it may come to, a   *)
(* recv that gives n bytes, or the end of the call with n as its result.   *)
(***************************************************************************)

Ready == arrived - taken
MayCut == taken \in Boundary \/ cuts < MaxCut
Few(n) == {1, n} \ {0}
Gives(len) ==
  LET most == IF Ready < len - bytes THEN Ready ELSE len - bytes
  IN [ended : {FALSE}, n : Few(most)]
Ends(results) == [ended : {TRUE}, n : results]

\* NetworkRead and linux_read: a connection the peer has closed reads as 0 bytes, and what
\* was taken before is not counted.
NetworkRead(len) ==
  IF Ready > 0 THEN Gives(len) ELSE Ends(IF ~open THEN {0, -1} ELSE IF MayCut THEN {bytes} ELSE {})

\* FreeRTOS_read: the time is up after any piece, and a closed connection is an error.
FreeRTOS_read(len) ==
  (IF Ready > 0 THEN Gives(len) ELSE Ends(IF open THEN {} ELSE {-1}))
    \union Ends(IF bytes < len /\ open /\ MayCut THEN {bytes} ELSE {})

Read(len) == IF port = "FreeRTOS" THEN FreeRTOS_read(len) ELSE NetworkRead(len)

(***************************************************************************)
(* readPacket.                                                             *)
(***************************************************************************)

Returns(rc) ==
  /\ pc' = "idle" /\ result' = rc /\ bytes' = 0
  /\ UNCHANGED <<port, link, writer>>
Continues(where) == pc' = where /\ UNCHANGED <<port, link, writer, result, starts, types, torn, cuts>>
\* A call of the network that ends short: an error, or the time is up within a packet.
Cut ==
  /\ torn' = (torn \/ taken \notin Boundary)
  /\ cuts' = IF open /\ taken \notin Boundary THEN cuts + 1 ELSE cuts

BeginRead ==
  /\ pc = "idle" /\ Continues("header") /\ UNCHANGED expired
  /\ bytes' = 0 /\ rem_len' = 0 /\ count' = 0 /\ UNCHANGED taken

\* The first byte; without one the result is that of the network.
ReadHeader ==
  /\ pc = "header"
  /\ LET Take(k) == /\ pc' = "length" /\ taken' = taken + 1 /\ bytes' = 0 /\ starts' = taken
                     /\ UNCHANGED <<port, link, writer, result, types, torn, cuts, rem_len, count>>
         Stop(rc) == Returns(rc) /\ Cut /\ UNCHANGED <<taken, rem_len, count, types, starts>>
     IN  \E r \in Read(1) : IF r.ended THEN Stop(r.n) ELSE Take(r.n)
  /\ UNCHANGED expired

\* decodePacket takes the length byte by byte, four at most; that it could not is not told,
\* and what it has of the value stands.
decodePacket ==
  /\ pc = "length"
  /\ LET Take(k) ==
           /\ taken' = taken + 1 /\ count' = count + 1
           /\ rem_len' = rem_len + (Wire[taken + 1] % Base) * Base ^ count
           /\ Continues(IF Wire[taken + 1] < Base THEN "size"
                        ELSE IF count = 3 THEN "size" ELSE "length")
           /\ UNCHANGED bytes
         Stop(rc) == /\ pc' = "size" /\ Cut
                     /\ UNCHANGED <<port, link, writer, result, types, starts, taken, bytes, rem_len, count>>
     IN  \E r \in Read(1) : IF r.ended THEN Stop(r.n) ELSE Take(r.n)
  /\ UNCHANGED expired

\* What readbuf holds of the packet before its body.
Head1 == 1 + Len(Encode[rem_len])

\* A packet that does not fit is BUFFER_OVERFLOW, and its body stays in the stream.
Size ==
  /\ pc = "size" /\ UNCHANGED expired
  /\ \/ /\ rem_len > ReadBufSize - Head1 /\ Returns(-2)
        /\ UNCHANGED <<taken, rem_len, count, types, starts, torn, cuts>>
     \/ /\ rem_len <= ReadBufSize - Head1 /\ Continues("body")
        /\ UNCHANGED <<taken, bytes, rem_len, count>>

\* The rest; if it is not all there the result is 0, as when there is no packet.
ReadBody ==
  /\ pc = "body" /\ bytes < rem_len
  /\ LET Take(k) == /\ Continues("body") /\ taken' = taken + k /\ bytes' = bytes + k
                     /\ UNCHANGED <<rem_len, count>>
         Stop(rc) == Returns(0) /\ Cut /\ UNCHANGED <<taken, rem_len, count, types, starts>>
     IN  \E r \in Read(rem_len) : IF r.ended THEN Stop(r.n) ELSE Take(r.n)
  /\ UNCHANGED expired

Packet ==
  /\ pc = "body" /\ bytes = rem_len
  /\ Returns(1) /\ types' = Append(types, starts)
  /\ UNCHANGED <<expired, taken, rem_len, count, starts, torn, cuts>>

\* After a negative result cycle() ends the session: nothing more is read.
readPacket ==
  \/ result >= 0 /\ Len(types) < MaxIn /\ BeginRead
  \/ ReadHeader \/ decodePacket \/ Size \/ ReadBody \/ Packet

(***************************************************************************)
(* sendPacket.                                                             *)
(***************************************************************************)

BeginSend ==
  /\ pc = "idle" /\ result >= 0 /\ outs < MaxOut /\ outs' = outs + 1
  /\ length' \in OwnLength /\ sent' = 0 /\ wire' = <<>>
  /\ pc' = "send" /\ UNCHANGED <<port, expired, link, reader, result>>

From(start, k) == [i \in 1 .. k |-> start + i]
Writes(k, late) ==
  /\ sent' = sent + k /\ wire' = wire \o From(sent, k) /\ expired' = late
  /\ UNCHANGED <<port, pc, link, reader, result, length, outs>>
Sent(rc) ==
  /\ pc' = "idle" /\ result' = rc /\ length' = 0 /\ sent' = 0 /\ wire' = <<>>
  /\ expired' = FALSE /\ UNCHANGED <<port, link, reader, outs>>

\* NetworkWrite and linux_write: one call of send, which takes what it has room for.
NetworkWrite(len) == \E k \in Few(len) : Writes(k, expired)
\* FreeRTOS_write goes on until all is sent or the time is up.
FreeRTOS_write(len) == Writes(len, expired) \/ \E k \in {0} \union Few(len) : Writes(k, TRUE)

\* A piece: the rest is asked for with the length of the whole packet.
Write ==
  /\ pc = "send" /\ sent < length /\ ~expired
  /\ IF port = "FreeRTOS" THEN FreeRTOS_write(length) ELSE NetworkWrite(length)
WriteFails == pc = "send" /\ sent < length /\ ~expired /\ Sent(-1)

\* SUCCESS only if all of the packet, and no more, is counted.
EndSend ==
  /\ pc = "send" /\ (sent >= length \/ expired)
  /\ Sent(IF sent = length THEN 0 ELSE -1)

sendPacket == BeginSend \/ Write \/ WriteFails \/ EndSend

(***************************************************************************)
(* The broker, the network and the clock.                                  *)
(***************************************************************************)

BrokerSends ==
  /\ open /\ Len(packets) < MaxIn
  /\ \E n \in Remaining : packets' = Append(packets, n)
  /\ UNCHANGED <<port, pc, expired, arrived, open, reader, result, writer>>

Arrive ==
  /\ arrived < Len(Wire)
  /\ arrived' \in {arrived + 1, Len(Wire)}
  /\ UNCHANGED <<port, pc, expired, packets, open, reader, result, writer>>

Close ==
  /\ open /\ open' = FALSE
  /\ UNCHANGED <<port, pc, expired, packets, arrived, reader, result, writer>>

Expire ==
  /\ pc = "send" /\ ~expired /\ expired' = TRUE
  /\ UNCHANGED <<port, pc, link, reader, result, writer>>

Next == readPacket \/ sendPacket \/ BrokerSends \/ Arrive \/ Close \/ Expire

Spec == Init /\ [][Next]_vars

(***************************************************************************)
(* Properties.                                                             *)
(***************************************************************************)

\* Types: the call under way and what it counts.
TypeOK ==
  /\ port \in Port /\ pc \in {"idle", "header", "length", "size", "body", "send"}
  /\ expired \in BOOLEAN /\ open \in BOOLEAN /\ torn \in BOOLEAN
  /\ packets \in Seq(Remaining) /\ taken <= arrived /\ arrived <= Len(Wire)
  /\ count \in 0 .. 4 /\ rem_len \in Nat /\ bytes \in 0 .. rem_len
  /\ result \in {-2, -1, 0, 1} /\ length \in OwnLength \union {0} /\ outs \in 0 .. MaxOut

\* As long as no time-out has fallen within a packet, the packets readPacket returns are
\* those of the broker, one by one: each begins where the one before it ended.
InFrames ==
  ~torn => /\ \A i \in 1 .. Len(types) : types[i] = Len(Stream[i - 1])
           /\ pc = "idle" /\ result >= 0 => taken \in Boundary
\* The same whatever the times of the pieces.  It does not hold: a packet that arrives in
\* pieces further apart than the time of a call is read from its middle.
InFramesAlways == \A i \in 1 .. Len(types) : types[i] \in Boundary

\* What is read of a packet fits the buffer, and nothing of a body is taken that does not.
FitsReadBuf == pc = "body" => Head1 + rem_len <= ReadBufSize

\* A packet sendPacket reports as sent is on the wire from its first byte to its last, once,
\* with nothing behind it.
SentIsSent == [][pc = "send" /\ pc' = "idle" /\ result' = 0 => wire = From(0, length)]_vars
\* What is on the wire is the packet or part of it.  It does not hold: after a piece the
\* rest is asked for with the length of the whole.
NothingBehind == pc = "send" => Len(wire) <= length
=============================================================================
