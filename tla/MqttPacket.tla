---------------------------- MODULE MqttPacket ----------------------------
(***************************************************************************)
(* The packets of the MQTT library (paho_mqtt/MQTTPacket/src) as sequences *)
(* of bytes.  A function that serializes returns [rc, buf]: buf is what it *)
(* wrote.  One that deserializes returns [rc] and the fields it has set.   *)
(* A string is a sequence of bytes, NoString is the null pointer.          *)
(***************************************************************************)
EXTENDS Integers, Sequences, SequencesExt, TLC

\* enum msgTypes.
CONNECT == 1
CONNACK == 2
PUBLISH == 3
PUBACK == 4
PUBREC == 5
PUBREL == 6
PUBCOMP == 7
SUBSCRIBE == 8
SUBACK == 9
UNSUBSCRIBE == 10
UNSUBACK == 11
PINGREQ == 12
PINGRESP == 13
DISCONNECT == 14

BufferTooShort == -2
NoString == <<-1>>

Flag(b) == IF b THEN 1 ELSE 0
Bit(byte, i) == (byte \div 2^i) % 2 = 1

\* MQTTHeader.
Header(type, dup, qos, retain) == 16 * type + 8 * Flag(dup) + 2 * qos + Flag(retain)
TypeBits(byte) == byte \div 16
QosBits(byte) == (byte \div 2) % 4

(***************************************************************************)
(* The remaining length.                                                   *)
(***************************************************************************)

Encode(length) ==
  LET digits[n \in Nat] == IF n < 128 THEN <<n>>
                           ELSE <<128 + (n % 128)>> \o digits[n \div 128]
  IN  digits[length]

MaxLengthBytes == 4

Digit(buf, i) == (buf[i] % 128) * 128^(i - 1)

\* The value of the first n length bytes.
Value(buf, n) ==
  LET value[i \in 0 .. MaxLengthBytes] == IF i = 0 THEN 0 ELSE value[i - 1] + Digit(buf, i)
  IN  value[n]

\* The length read from the start of buf, and the bytes it took: one more than the
\* four there may be when the fourth is not the last.
Decode(buf) ==
  LET last == {i \in 1 .. MaxLengthBytes : /\ i <= Len(buf) /\ buf[i] < 128
                                           /\ \A j \in 1 .. i - 1 : buf[j] >= 128}
      n == IF last = {} THEN MaxLengthBytes ELSE CHOOSE i \in last : TRUE
  IN  [len |-> IF last = {} THEN n + 1 ELSE n, value |-> Value(buf, n)]

\* MQTTPacket_len: the header byte is counted before the comparisons.
PacketLen(rem) ==
  1 + rem + (IF rem + 1 < 128 THEN 1 ELSE IF rem + 1 < 16384 THEN 2
             ELSE IF rem + 1 < 2097151 THEN 3 ELSE 4)

(***************************************************************************)
(* Integers and strings.                                                   *)
(***************************************************************************)

Int2(n) == <<(n \div 256) % 256, n % 256>>
ReadInt(s) == 256 * s[1] + s[2]
Drop(s, n) == SubSeq(s, n + 1, Len(s))

StrLen(s) == IF s = NoString THEN 0 ELSE Len(s)
WriteString(s) == IF s = NoString THEN Int2(0) ELSE Int2(Len(s)) \o s

\* readMQTTLenString on what is left of the packet: the string, and what is left then.
ReadString(s) ==
  IF Len(s) > 1 /\ ReadInt(s) <= Len(s) - 2
  THEN [ok |-> TRUE, string |-> SubSeq(s, 3, 2 + ReadInt(s)), rest |-> Drop(s, 2 + ReadInt(s))]
  ELSE [ok |-> FALSE, string |-> NoString, rest |-> Drop(s, IF Len(s) > 1 THEN 2 ELSE 0)]

(***************************************************************************)
(* Writing a packet.                                                       *)
(***************************************************************************)

Refused == [rc |-> BufferTooShort, buf |-> <<>>]
Written(bytes) == [rc |-> Len(bytes), buf |-> bytes]
Packet(header, rem, body) == Written(<<header>> \o Encode(rem) \o body)

ConnectLength(c) ==
  (IF c.version = 3 THEN 12 ELSE 10)
  + StrLen(c.clientID) + 2
  + (IF c.willFlag THEN StrLen(c.willTopic) + 2 + StrLen(c.willMessage) + 2 ELSE 0)
  + (IF c.username # NoString THEN StrLen(c.username) + 2 ELSE 0)
  + (IF c.password # NoString THEN StrLen(c.password) + 2 ELSE 0)

Protocol(version) ==
  IF version = 4 THEN <<77, 81, 84, 84>> ELSE <<77, 81, 73, 115, 100, 112>>

ConnectFlags(c) ==
  128 * Flag(c.username # NoString) + 64 * Flag(c.password # NoString)
  + (IF c.willFlag THEN 32 * Flag(c.willRetained) + 8 * c.willQos + 4 ELSE 0)
  + 2 * Flag(c.cleansession)

SerializeConnect(c, buflen) ==
  IF PacketLen(ConnectLength(c)) > buflen THEN Refused
  ELSE Packet(Header(CONNECT, FALSE, 0, FALSE), ConnectLength(c),
              WriteString(Protocol(c.version))
              \o <<IF c.version = 4 THEN 4 ELSE 3, ConnectFlags(c)>>
              \o Int2(c.keepAlive) \o WriteString(c.clientID)
              \o (IF c.willFlag THEN WriteString(c.willTopic) \o WriteString(c.willMessage) ELSE <<>>)
              \o (IF c.username # NoString THEN WriteString(c.username) ELSE <<>>)
              \o (IF c.password # NoString THEN WriteString(c.password) ELSE <<>>))

PublishLength(qos, topic, payload) ==
  2 + StrLen(topic) + Len(payload) + (IF qos > 0 THEN 2 ELSE 0)

SerializePublish(p, buflen) ==
  LET rem == PublishLength(p.qos, p.topic, p.payload)
  IN  IF PacketLen(rem) > buflen THEN Refused
      ELSE Packet(Header(PUBLISH, p.dup, p.qos, p.retained), rem,
                  WriteString(p.topic) \o (IF p.qos > 0 THEN Int2(p.id) ELSE <<>>) \o p.payload)

\* MQTTSerialize_ack, which puback, pubrel and pubcomp call.
SerializeAck(type, dup, id, buflen) ==
  IF buflen < 4 THEN Refused
  ELSE Packet(Header(type, dup, IF type = PUBREL THEN 1 ELSE 0, FALSE), 2, Int2(id))

SubscribeLength(filters) == 2 + FoldLeft(LAMBDA n, f : n + 2 + StrLen(f) + 1, 0, filters)

SerializeSubscribe(s, buflen) ==
  IF PacketLen(SubscribeLength(s.filters)) > buflen THEN Refused
  ELSE Packet(Header(SUBSCRIBE, s.dup, 1, FALSE), SubscribeLength(s.filters),
              Int2(s.id) \o FoldLeft(LAMBDA b, i : b \o WriteString(s.filters[i]) \o <<s.qoss[i]>>,
                                     <<>>, [i \in 1 .. Len(s.filters) |-> i]))

UnsubscribeLength(filters) == 2 + FoldLeft(LAMBDA n, f : n + 2 + StrLen(f), 0, filters)

SerializeUnsubscribe(s, buflen) ==
  IF PacketLen(UnsubscribeLength(s.filters)) > buflen THEN Refused
  ELSE Packet(Header(UNSUBSCRIBE, s.dup, 1, FALSE), UnsubscribeLength(s.filters),
              Int2(s.id) \o FoldLeft(LAMBDA b, f : b \o WriteString(f), <<>>, s.filters))

\* MQTTSerialize_zero, which disconnect and pingreq call.
SerializeZero(type, buflen) ==
  IF buflen < 2 THEN Refused ELSE Packet(Header(type, FALSE, 0, FALSE), 0, <<>>)

\* The packets of a server: the room asked for is less than what they write.
SerializeConnack(code, sessionPresent, buflen) ==
  IF buflen < 2 THEN Refused
  ELSE Packet(Header(CONNACK, FALSE, 0, FALSE), 2, <<Flag(sessionPresent), code>>)

SerializeSuback(id, granted, buflen) ==
  IF buflen < 2 + Len(granted) THEN Refused
  ELSE Packet(Header(SUBACK, FALSE, 0, FALSE), 2 + Len(granted), Int2(id) \o granted)

SerializeUnsuback(id, buflen) ==
  IF buflen < 2 THEN Refused
  ELSE Packet(Header(UNSUBACK, FALSE, 0, FALSE), 2, Int2(id))

(***************************************************************************)
(* Reading a packet.  The bytes after the length field, up to the length   *)
(* it states:                                                              *)
(***************************************************************************)

Body(buf) == LET d == Decode(Tail(buf)) IN SubSeq(buf, 2 + d.len, 1 + d.len + d.value)
Is(buf, type) == TypeBits(Head(buf)) = type

CheckVersion(protocol, version) ==
  /\ version \in {3, 4}
  /\ IsPrefix(protocol, Protocol(version)) \/ IsPrefix(Protocol(version), protocol)

\* The fields a CONNECT carries; the version is not stored.
DeserializeConnect(buf) ==
  LET protocol == ReadString(Body(buf))
      version == protocol.rest[1]
      flags == protocol.rest[2]
      id == ReadString(Drop(protocol.rest, 4))
      will(s) == IF Bit(flags, 2) THEN ReadString(s) ELSE [ok |-> TRUE, string |-> NoString, rest |-> s]
      \* A string behind its flag, of at least one byte.
      login(s, i) == IF ~Bit(flags, i) THEN [ok |-> TRUE, string |-> NoString, rest |-> s]
                     ELSE IF Len(s) < 3 THEN [ok |-> FALSE, string |-> NoString, rest |-> s]
                     ELSE ReadString(s)
      topic == will(id.rest)
      message == will(topic.rest)
      user == login(message.rest, 7)
      pass == login(user.rest, 6)
  IN  IF /\ Is(buf, CONNECT) /\ protocol.ok /\ CheckVersion(protocol.string, version)
         /\ id.ok /\ topic.ok /\ message.ok /\ user.ok /\ pass.ok
         /\ Bit(flags, 6) => Bit(flags, 7)
      THEN [rc |-> 1, cleansession |-> Bit(flags, 1), keepAlive |-> ReadInt(SubSeq(protocol.rest, 3, 4)),
            clientID |-> id.string, willFlag |-> Bit(flags, 2),
            willQos |-> (flags \div 8) % 4, willRetained |-> Bit(flags, 5),
            willTopic |-> topic.string, willMessage |-> message.string,
            username |-> user.string, password |-> pass.string]
      ELSE [rc |-> 0]

\* Past the type, what is too short leaves the number of bytes of the length field in
\* rc, here and in the four functions below.
DeserializeConnack(buf) ==
  IF ~Is(buf, CONNACK) THEN [rc |-> 0]
  ELSE IF Len(Body(buf)) < 2 THEN [rc |-> Decode(Tail(buf)).len]
  ELSE [rc |-> 1, sessionPresent |-> Bit(Body(buf)[1], 0), code |-> Body(buf)[2]]

DeserializePublish(buf) ==
  IF ~Is(buf, PUBLISH) THEN [rc |-> 0]
  ELSE LET topic == ReadString(Body(buf))
           h == Head(buf)
       IN  IF ~topic.ok THEN [rc |-> Decode(Tail(buf)).len]
           ELSE [rc |-> 1, dup |-> Bit(h, 3), qos |-> QosBits(h), retained |-> Bit(h, 0),
                 topic |-> topic.string,
                 id |-> IF QosBits(h) > 0 THEN ReadInt(topic.rest) ELSE 0,
                 payload |-> IF QosBits(h) > 0 THEN Drop(topic.rest, 2) ELSE topic.rest]

DeserializeAck(buf) ==
  [type |-> TypeBits(Head(buf)), dup |-> Bit(Head(buf), 3)]
  @@ IF Len(Body(buf)) < 2 THEN [rc |-> Decode(Tail(buf)).len]
     ELSE [rc |-> 1, id |-> ReadInt(Body(buf))]

\* The code maxcount + 1 is still stored.
DeserializeSuback(buf, maxcount) ==
  IF ~Is(buf, SUBACK) THEN [rc |-> 0]
  ELSE IF Len(Body(buf)) < 2 THEN [rc |-> Decode(Tail(buf)).len]
  ELSE LET granted == Drop(Body(buf), 2)
       IN  IF Len(granted) > maxcount + 1
           THEN [rc |-> -1, id |-> ReadInt(Body(buf)), granted |-> SubSeq(granted, 1, maxcount + 1)]
           ELSE [rc |-> 1, id |-> ReadInt(Body(buf)), granted |-> granted]

DeserializeUnsuback(buf) ==
  LET ack == DeserializeAck(buf)
  IN  [ack EXCEPT !.rc = IF ack.type = UNSUBACK THEN 1 ELSE ack.rc]

\* The filters of what is left, with the byte of the quality of service behind each
\* when there is one.
ReadFilters(s, extra) ==
  LET read[n \in 0 .. Len(s)] ==      \* from the last n bytes
        IF n = 0 THEN [ok |-> TRUE, filters |-> <<>>, qoss |-> <<>>]
        ELSE LET f == ReadString(Drop(s, Len(s) - n))
                 left == Len(f.rest) - extra
             IN  IF ~f.ok \/ left < 0 THEN [ok |-> FALSE, filters |-> <<>>, qoss |-> <<>>]
                 ELSE [ok |-> read[left].ok,
                       filters |-> <<f.string>> \o read[left].filters,
                       qoss |-> SubSeq(f.rest, 1, extra) \o read[left].qoss]
  IN  read[Len(s)]

DeserializeSubscribe(buf) ==
  IF ~Is(buf, SUBSCRIBE) THEN [rc |-> -1]
  ELSE LET fs == ReadFilters(Drop(Body(buf), 2), 1)
       IN  [rc |-> IF fs.ok THEN 1 ELSE Decode(Tail(buf)).len, dup |-> Bit(Head(buf), 3),
            id |-> ReadInt(Body(buf)), filters |-> fs.filters, qoss |-> fs.qoss]

DeserializeUnsubscribe(buf) ==
  IF ~Is(buf, UNSUBSCRIBE) THEN [rc |-> 0]
  ELSE LET fs == ReadFilters(Drop(Body(buf), 2), 0)
       IN  [rc |-> IF fs.ok THEN 1 ELSE Decode(Tail(buf)).len, dup |-> Bit(Head(buf), 3),
            id |-> ReadInt(Body(buf)), filters |-> fs.filters]
=============================================================================
