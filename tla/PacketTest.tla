---------------------------- MODULE PacketTest ----------------------------
(***************************************************************************)
(* The test program of the packet library (MQTTPacket/test/test1.c): it    *)
(* writes a packet into a buffer, reads it back and compares.  Here the    *)
(* packets and the room in the buffer are chosen from sets, and so are the *)
(* values of the length field.                                             *)
(***************************************************************************)
EXTENDS MqttPacket

CONSTANTS
  Strings,     \* strings, NoString among them
  Ids,         \* packet identifiers
  Payloads,
  Lengths,     \* values of the remaining length
  Slack        \* how much larger or smaller than the packet the buffer is

VARIABLES phase, packet, room, written, parsed

vars == <<phase, packet, room, written, parsed>>

None == [kind |-> "none"]

Init ==
  /\ phase = "choose" /\ packet = None /\ room = 0
  /\ written = Refused /\ parsed = [rc |-> 0]

Text == Strings \ {NoString}

Wills ==
  {[willFlag |-> FALSE, willQos |-> 0, willRetained |-> FALSE,
    willTopic |-> NoString, willMessage |-> NoString]}
  \union [willFlag : {TRUE}, willQos : 0 .. 2, willRetained : BOOLEAN,
          willTopic : Text, willMessage : Text]

\* What a program may put into MQTTPacket_connectData, as far as MQTT allows it.
Connects ==
  {c @@ w : c \in {d \in [kind : {"connect"}, version : {3, 4}, clientID : Text,
                          keepAlive : Ids, cleansession : BOOLEAN,
                          username : Strings, password : Strings] :
                     d.username = NoString => d.password = NoString},
            w \in Wills}

Publishes ==
  [kind : {"publish"}, dup : BOOLEAN, qos : 0 .. 2, retained : BOOLEAN,
   id : Ids, topic : Text, payload : Payloads]

Filters == UNION {[1 .. n -> Text] : n \in 1 .. 2}

Others ==
  [kind : {"connack"}, code : 0 .. 5, sessionPresent : BOOLEAN]
  \union [kind : {"ack"}, type : {PUBACK, PUBREC, PUBREL, PUBCOMP}, dup : BOOLEAN, id : Ids]
  \union {[kind |-> "subscribe", dup |-> d, id |-> i, filters |-> f, qoss |-> [k \in 1 .. Len(f) |-> q]] :
            d \in BOOLEAN, i \in Ids, f \in Filters, q \in 0 .. 2}
  \union [kind : {"unsubscribe"}, dup : BOOLEAN, id : Ids, filters : Filters]
  \union [kind : {"suback"}, id : Ids, granted : UNION {[1 .. n -> {0, 1, 2, 128}] : n \in 1 .. 2}]
  \union [kind : {"unsuback"}, id : Ids]
  \union [kind : {"zero"}, type : {PINGREQ, DISCONNECT}]

\* The call that writes the packet.
Serialize(p, n) ==
  CASE p.kind = "connect" -> SerializeConnect(p, n)
    [] p.kind = "publish" -> SerializePublish(p, n)
    [] p.kind = "connack" -> SerializeConnack(p.code, p.sessionPresent, n)
    [] p.kind = "ack" -> SerializeAck(p.type, p.dup, p.id, n)
    [] p.kind = "subscribe" -> SerializeSubscribe(p, n)
    [] p.kind = "unsubscribe" -> SerializeUnsubscribe(p, n)
    [] p.kind = "suback" -> SerializeSuback(p.id, p.granted, n)
    [] p.kind = "unsuback" -> SerializeUnsuback(p.id, n)
    [] p.kind = "zero" -> SerializeZero(p.type, n)

\* The call that reads it; for PINGREQ and DISCONNECT there is none.
Deserialize(p, buf) ==
  CASE p.kind = "connect" -> DeserializeConnect(buf)
    [] p.kind = "publish" -> DeserializePublish(buf)
    [] p.kind = "connack" -> DeserializeConnack(buf)
    [] p.kind = "ack" -> DeserializeAck(buf)
    [] p.kind = "subscribe" -> DeserializeSubscribe(buf)
    [] p.kind = "unsubscribe" -> DeserializeUnsubscribe(buf)
    [] p.kind = "suback" -> DeserializeSuback(buf, 2)
    [] p.kind = "unsuback" -> DeserializeUnsuback(buf)
    [] p.kind = "zero" -> [rc |-> 1, type |-> TypeBits(Head(buf))]

Enough == 1000

Write ==
  /\ phase = "choose"
  /\ \E p \in Connects \union Publishes \union Others : \E n \in Slack :
       LET size == Serialize(p, Enough).rc
       IN  /\ packet' = p /\ room' = size + n
           /\ written' = Serialize(p, size + n)
  /\ phase' = "written"
  /\ UNCHANGED parsed

Read ==
  /\ phase = "written" /\ written.rc > 0
  /\ parsed' = Deserialize(packet, written.buf)
  /\ phase' = "read"
  /\ UNCHANGED <<packet, room, written>>

\* The length field alone.
ChooseLength ==
  /\ phase = "choose"
  /\ \E n \in Lengths : packet' = [kind |-> "length", length |-> n]
  /\ phase' = "length"
  /\ UNCHANGED <<room, written, parsed>>

Next == Write \/ Read \/ ChooseLength

Spec == Init /\ [][Next]_vars

(***************************************************************************)
(* Properties.                                                             *)
(***************************************************************************)

TypeOK ==
  /\ phase \in {"choose", "written", "read", "length"} /\ room \in Nat
  /\ written.rc = BufferTooShort \/ written.rc = Len(written.buf)
  /\ \A i \in 1 .. Len(written.buf) : written.buf[i] \in 0 .. 255

\* The fields that a CONNECT does not carry or that its reader does not store: the
\* version, and the identifier of a QoS 0 message.
Carried(p) ==
  CASE p.kind = "connect" -> DOMAIN p \ {"kind", "version"}
    [] p.kind = "publish" /\ p.qos = 0 -> DOMAIN p \ {"kind", "id"}
    [] OTHER -> DOMAIN p \ {"kind"}

Field(p, f) == IF p.kind = "connect" /\ f \in {"willTopic", "willMessage"} /\ ~p.willFlag
               THEN NoString ELSE p[f]

\* A user name or password of no bytes is written and then refused by the reader.
Readable(p) == p.kind = "connect" => p.username # <<>> /\ p.password # <<>>

\* The asserts of test1.c: what one side writes the other accepts, and every field
\* comes back as it was given.
RoundTrip ==
  phase = "read" /\ Readable(packet) =>
    /\ parsed.rc = 1
    /\ \A f \in Carried(packet) : parsed[f] = Field(packet, f)

\* "buflen: the length in bytes of the supplied buffer": no packet of a client is
\* written past it, and one is refused at most one byte too early.
FitsBuffer ==
  phase \in {"written", "read"} /\ packet.kind \notin {"connack", "suback", "unsuback"} =>
    IF written.rc > 0 THEN written.rc <= room
    ELSE room <= Serialize(packet, Enough).rc

\* The length field is read back, however long, and the room computed for a packet is
\* never less than the packet, at the boundaries between one, two, three and four bytes.
LengthField ==
  phase = "length" =>
    LET n == packet.length
    IN  /\ Decode(Encode(n) \o <<0>>) = [len |-> Len(Encode(n)), value |-> n]
        /\ PacketLen(n) - (1 + Len(Encode(n)) + n) \in {0, 1}
=============================================================================
