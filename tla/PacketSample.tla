--------------------------- MODULE PacketSample ---------------------------
(***************************************************************************)
(* The sample clients of the packet library (MQTTPacket/samples): they     *)
(* ping, or subscribe and publish, over a socket that blocks, over one     *)
(* that does not, and over a serial line that takes and gives part of what *)
(* it is asked for.  The reader of the non-blocking ones goes on where it  *)
(* was; the one buffer is used both ways.                                  *)
(*                                                                         *)
(* A step of a client is one call of its transport, or of the reader that  *)
(* blocks.                                                                 *)
(***************************************************************************)
EXTENDS MqttPacket, FiniteSets

CONSTANTS
  BufLen,       \* sizeof(buf)
  MaxBegun,     \* bound of the model: packets of the client
  MaxSent       \* bound of the model: packets of the server

VARIABLES
  prog,         \* the program of the image
  pc, toStop,
  buf,          \* the bytes written to the buffer so far
  from, howmany,\* what is left to send, over a serial line
  trp,          \* MQTTTransport of the reader that does not block
  incoming, outgoing,   \* the bytes on their way to the client and to the server
  begun, got,   \* history: packets of the client, and of these the ones the server has
  sent, read,   \* history: packets of the server, and of these the ones the client has
  torn          \* history: a reader has given up, or a recv timed out, inside a packet

sampleVars == <<prog, pc, toStop, buf, from, howmany, trp>>
wireVars == <<incoming, outgoing, begun, got, sent, read, torn>>
vars == <<sampleVars, wireVars>>

Init ==
  /\ prog = "none" /\ pc = "choose" /\ toStop = FALSE
  /\ buf = <<>> /\ from = 0 /\ howmany = 0
  /\ trp = [state |-> 0, len |-> 0, rem |-> 0, mult |-> 1]
  /\ incoming = <<>> /\ outgoing = <<>>
  /\ begun = <<>> /\ got = <<>> /\ sent = <<>> /\ read = <<>> /\ torn = FALSE

PubSub == {"pub0sub1", "pub0sub1_nb", "serial_pub0sub1"}
Pinging == {"ping", "ping_nb", "serial_ping"}
Serial == {"serial_pub0sub1", "serial_ping"}
Programs == PubSub \union Pinging \union {"qos0pub"}

\* The program of the image, with its connection open.
Choose ==
  /\ pc = "choose"
  /\ prog' \in Programs
  /\ pc' = "connect"
  /\ UNCHANGED <<toStop, buf, from, howmany, trp, wireVars>>

(***************************************************************************)
(* Packets of the samples.                                                 *)
(***************************************************************************)

ConnectData ==
  [version |-> 4, clientID |-> <<109, 101>>, keepAlive |-> 20, cleansession |-> TRUE,
   willFlag |-> FALSE, username |-> <<1>>, password |-> <<2>>]
ConnectPacket == SerializeConnect(ConnectData, BufLen).buf
SubscribePacket ==
  SerializeSubscribe([dup |-> FALSE, id |-> 1, filters |-> <<(<<115>>)>>, qoss |-> <<0>>], BufLen).buf
PublishPacket ==
  SerializePublish([dup |-> FALSE, qos |-> 0, retained |-> FALSE, id |-> 0,
                    topic |-> <<112>>, payload |-> <<1, 2, 3>>], BufLen).buf
PingPacket == SerializeZero(PINGREQ, BufLen).buf
DisconnectPacket == SerializeZero(DISCONNECT, BufLen).buf

(***************************************************************************)
(* Sending.                                                                *)
(***************************************************************************)

\* bytes written at offset off of the buffer.
Into(off, bytes) ==
  SubSeq(buf, 1, off) \o bytes
  \o (IF Len(buf) > off + Len(bytes) THEN Drop(buf, off + Len(bytes)) ELSE <<>>)

\* transport_sendPacketBuffer of a socket writes everything;
\* transport_sendPacketBuffernb_start only notes where the packet is.
Begin(packet, sending, next) ==
  /\ Len(begun) < MaxBegun
  /\ buf' = Into(0, packet) /\ begun' = Append(begun, packet)
  /\ IF prog \in Serial
     THEN from' = 0 /\ howmany' = Len(packet) /\ pc' = sending /\ UNCHANGED outgoing
     ELSE outgoing' = outgoing \o packet /\ pc' = next /\ UNCHANGED <<from, howmany>>
  /\ UNCHANGED <<prog, toStop, trp, incoming, got, sent, read, torn>>

After == [sendConnect |-> "connack", sendSubscribe |-> "suback", publishing |-> "loop",
          sendPing |-> "pong", sendDisconnect |-> "closed"]

\* What a transport takes or gives when n bytes are asked for.
Part(n) == {n, IF n > 1 THEN n \div 2 ELSE n}

\* transport_sendPacketBuffernb.
Send ==
  /\ pc \in DOMAIN After
  /\ \E n \in Part(howmany) :
       /\ outgoing' = outgoing \o SubSeq(buf, from + 1, from + n)
       /\ from' = from + n /\ howmany' = howmany - n
       /\ pc' = IF n = howmany THEN After[pc] ELSE pc
  /\ UNCHANGED <<prog, toStop, buf, trp, incoming, begun, got, sent, read, torn>>

\* An error of the line: the subscription is tried again, a CONNECT is given up.
SendFails ==
  /\ pc \in DOMAIN After \ {"sendSubscribe"}
  /\ pc' = IF pc = "sendConnect" THEN "connack" ELSE "closed"
  /\ UNCHANGED <<prog, toStop, buf, from, howmany, trp, wireVars>>

(***************************************************************************)
(* What the programs do with a packet.                                     *)
(***************************************************************************)

Waiting == pc \in {"connack", "suback", "pong"} \/ (pc = "loop" /\ prog \in PubSub)

\* The lengths of the whole packets that s begins with: one or none.
Whole(s) ==
  {n \in 2 .. Len(s) :
     \E k \in 1 .. 2 :
       /\ k < Len(s) /\ s[k + 1] < 128 /\ \A j \in 2 .. k : s[j] >= 128
       /\ n = 1 + k + Value(Tail(s), k)}

\* The result of the reader: a type, or -1 for an error, which is an empty packet here.
Result(p) == IF p = <<>> THEN -1 ELSE TypeBits(Head(p))

\* Whether the answer in p says yes: connack_rc or granted_qos is 0.  They are locals that
\* were not initialised, and a packet too short to hold a code leaves them as they were.
Yes(p) ==
  LET answer == CASE Result(p) = CONNACK -> DeserializeConnack(p)
                  [] Result(p) = SUBACK -> DeserializeSuback(p, 1)
                  [] OTHER -> [rc |-> 0]
  IN  CASE "code" \in DOMAIN answer -> {answer.code = 0}
        [] "granted" \in DOMAIN answer -> {answer.granted = <<0>>}
        [] OTHER -> BOOLEAN

\* The next place of each program after a packet it has waited for.
ping(p, yes) ==
  CASE pc = "connack" -> IF Result(p) = CONNACK /\ yes THEN "loop" ELSE "closed"
    [] pc = "pong" -> IF Result(p) = PINGRESP THEN "loop" ELSE "closed"

pub0sub1(p, yes) ==
  CASE pc = "connack" -> IF Result(p) = CONNACK /\ yes THEN "subscribe" ELSE "closed"
    [] pc = "suback" -> IF Result(p) = SUBACK /\ yes THEN "loop" ELSE "closed"
    [] pc = "loop" -> "publish"         \* whatever the reader has returned

ping_nb(p, yes) ==
  CASE Result(p) = -1 -> "closed"
    [] pc = "connack" /\ Result(p) = CONNACK -> IF yes THEN "loop" ELSE "closed"
    [] pc = "pong" /\ Result(p) = PINGRESP -> "loop"
    [] OTHER -> pc

\* CONNACK is read with the reader that blocks; an error in the loop is not looked at.
pub0sub1_nb(p, yes) ==
  CASE pc = "connack" -> IF Result(p) = CONNACK /\ yes THEN "subscribe" ELSE "closed"
    [] pc = "suback" /\ Result(p) = -1 -> "closed"
    [] pc = "suback" /\ Result(p) = SUBACK -> IF yes THEN "loop" ELSE "closed"
    [] pc = "loop" /\ Result(p) = PUBLISH -> "publish"
    [] OTHER -> pc

serial_ping(p, yes) ==
  CASE Result(p) = -1 -> "closed"
    [] pc = "connack" /\ Result(p) = CONNACK -> IF yes THEN "loop" ELSE "closed"
    [] pc = "pong" /\ Result(p) = PINGRESP -> "loop"
    [] OTHER -> pc

serial_pub0sub1(p, yes) ==
  CASE Result(p) = -1 -> "closed"
    [] pc = "connack" /\ Result(p) = CONNACK -> IF yes THEN "subscribe" ELSE "closed"
    [] pc = "suback" /\ Result(p) = SUBACK -> IF yes THEN "loop" ELSE "closed"
    [] pc = "loop" /\ Result(p) = PUBLISH -> "publish"
    [] OTHER -> pc

Handled(p, yes) ==
  CASE prog = "ping" -> ping(p, yes)
    [] prog = "pub0sub1" -> pub0sub1(p, yes)
    [] prog = "ping_nb" -> ping_nb(p, yes)
    [] prog = "pub0sub1_nb" -> pub0sub1_nb(p, yes)
    [] prog = "serial_ping" -> serial_ping(p, yes)
    [] prog = "serial_pub0sub1" -> serial_pub0sub1(p, yes)

(***************************************************************************)
(* The reader that goes on where it was: one action per call of getfn.     *)
(***************************************************************************)

Blocks == prog \in {"ping", "pub0sub1"} \/ (prog = "pub0sub1_nb" /\ pc = "connack")
Resumes == Waiting /\ ~Blocks /\ ~torn      \* what follows a torn packet is not modelled

Deliver(p, tears) ==
  /\ read' = IF p = <<>> THEN read ELSE Append(read, p)
  /\ \E yes \in Yes(p) : pc' = Handled(p, yes)
  /\ torn' = tears

ReadHeader ==
  /\ Resumes /\ trp.state = 0 /\ incoming # <<>>
  /\ buf' = Into(0, <<Head(incoming)>>) /\ incoming' = Tail(incoming)
  /\ trp' = [trp EXCEPT !.state = 1, !.len = 0]
  /\ UNCHANGED <<prog, pc, toStop, from, howmany, outgoing, begun, got, sent, read, torn>>

\* MQTTPacket_decodenb, one byte, and what follows its last one.
ReadLength ==
  /\ Resumes /\ trp.state = 1 /\ incoming # <<>>
  /\ incoming' = Tail(incoming)
  /\ LET c == Head(incoming)
         base == IF trp.len = 0 THEN [trp EXCEPT !.mult = 1, !.rem = 0] ELSE trp
         next == [base EXCEPT !.len = @ + 1, !.rem = @ + (c % 128) * base.mult, !.mult = @ * 128]
         len == 1 + Len(Encode(next.rem))
     IN  IF c >= 128 /\ next.len < MaxLengthBytes
         THEN trp' = next /\ UNCHANGED <<buf, pc, read, torn>>
         ELSE /\ buf' = IF c >= 128 THEN buf ELSE Into(1, Encode(next.rem))
              /\ CASE c >= 128 \/ next.rem + len > BufLen ->
                        trp' = [next EXCEPT !.state = 0] /\ Deliver(<<>>, TRUE)
                   [] next.rem = 0 ->
                        trp' = [next EXCEPT !.state = 0, !.len = len] /\ Deliver(SubSeq(buf', 1, len), FALSE)
                   [] OTHER -> trp' = [next EXCEPT !.state = 2, !.len = len] /\ UNCHANGED <<pc, read, torn>>
  /\ UNCHANGED <<prog, toStop, from, howmany, outgoing, begun, got, sent>>

\* Mutant: the reader starts anew when only a part has come.
ReadRestAnew ==
  /\ Resumes /\ trp.state = 2
  /\ \E n \in Part(trp.rem) :
       /\ n <= Len(incoming)
       /\ buf' = Into(trp.len, SubSeq(incoming, 1, n)) /\ incoming' = Drop(incoming, n)
       /\ trp' = [trp EXCEPT !.state = 0, !.rem = @ - n, !.len = @ + n]
       /\ IF n = trp.rem THEN Deliver(SubSeq(buf', 1, trp.len + n), FALSE) ELSE UNCHANGED <<pc, read, torn>>
  /\ UNCHANGED <<prog, toStop, from, howmany, outgoing, begun, got, sent>>

ReadRest ==
  /\ Resumes /\ trp.state = 2
  /\ \E n \in Part(trp.rem) :
       /\ n <= Len(incoming)
       /\ buf' = Into(trp.len, SubSeq(incoming, 1, n)) /\ incoming' = Drop(incoming, n)
       /\ IF n = trp.rem
          THEN trp' = [trp EXCEPT !.state = 0, !.rem = 0, !.len = @ + n]
               /\ Deliver(SubSeq(buf', 1, trp.len + n), FALSE)
          ELSE trp' = [trp EXCEPT !.rem = @ - n, !.len = @ + n] /\ UNCHANGED <<pc, read, torn>>
  /\ UNCHANGED <<prog, toStop, from, howmany, outgoing, begun, got, sent>>

(***************************************************************************)
(* The reader that blocks, with a time-out of one second in every recv;    *)
(* one action per call.                                                    *)
(***************************************************************************)

\* The length bytes that MQTTPacket_decode may have got from s: all there are, or those
\* before a recv that gives up.
LengthBytes(s) ==
  {k \in 0 .. MaxLengthBytes : k < Len(s) /\ \A j \in 2 .. k : s[j] >= 128}

\* What it makes of the bytes s: how many it takes, what it writes to the buffer, and the
\* packet it returns, with an empty one for an error.  recv may give up before the header,
\* inside the length or inside the rest, and may give less of the rest than it is asked
\* for.  The result of MQTTPacket_decode is not looked at: the reader goes on with the length
\* it has by then.
Outcomes(s) ==
  LET outcome(k, n) ==
        LET rem == Value(Tail(s), k)
            head == <<Head(s)>> \o Encode(rem)
            all == head \o SubSeq(s, k + 2, k + 1 + n)
        IN  IF rem + Len(head) > BufLen THEN [taken |-> k + 1, written |-> head, packet |-> <<>>]
            ELSE [taken |-> k + 1 + n, written |-> all, packet |-> IF n = rem THEN all ELSE <<>>]
  IN  {[taken |-> 0, written |-> <<>>, packet |-> <<>>]}
      \union UNION {LET rem == Value(Tail(s), k)
                    IN  {outcome(k, n) : n \in {i \in {0, rem \div 2, rem} : k + 1 + i <= Len(s)}}
                    : k \in LengthBytes(s)}

\* It has torn what it took, unless that was nothing or the packet.
MQTTPacket_read ==
  /\ Waiting /\ Blocks /\ ~torn
  /\ \E r \in Outcomes(incoming) :
       /\ incoming' = Drop(incoming, r.taken) /\ buf' = Into(0, r.written)
       /\ Deliver(r.packet, r.taken > 0 /\ r.packet # SubSeq(incoming, 1, r.taken))
  /\ UNCHANGED <<prog, toStop, from, howmany, trp, outgoing, begun, got, sent>>

(***************************************************************************)
(* The main functions.                                                     *)
(***************************************************************************)

Connect == pc = "connect" /\ prog # "qos0pub" /\ Begin(ConnectPacket, "sendConnect", "connack")
Subscribe == pc = "subscribe" /\ Begin(SubscribePacket, "sendSubscribe", "suback")
Publish == pc = "publish" /\ Begin(PublishPacket, "publishing", "loop")
Ping == pc = "loop" /\ prog \in Pinging /\ Begin(PingPacket, "sendPing", "pong")

\* The signal.
cfinish ==
  /\ pc \notin {"choose", "closed"} /\ ~toStop
  /\ toStop' = TRUE
  /\ UNCHANGED <<prog, pc, buf, from, howmany, trp, wireVars>>

\* The loops end, also with a packet half sent.
Finish ==
  /\ toStop
  /\ \/ pc = "loop"
     \/ pc = "pong" /\ ~Blocks
     \/ pc \in {"publishing", "sendPing"}
  /\ Begin(DisconnectPacket, "sendDisconnect", "closed")

\* Three packets in one buffer, sent at once; no answer is awaited.
qos0pub ==
  /\ pc = "connect" /\ prog = "qos0pub"
  /\ buf' = ConnectPacket \o PublishPacket \o DisconnectPacket
  /\ outgoing' = outgoing \o buf'
  /\ begun' = <<ConnectPacket, PublishPacket, DisconnectPacket>>
  /\ pc' = "closed"
  /\ UNCHANGED <<prog, toStop, from, howmany, trp, incoming, got, sent, read, torn>>

sample ==
  \/ Choose \/ Connect \/ qos0pub \/ Subscribe \/ Publish \/ Ping \/ Finish
  \/ Send \/ SendFails \/ ReadHeader \/ ReadLength \/ ReadRest \/ MQTTPacket_read

(***************************************************************************)
(* The server.                                                             *)
(***************************************************************************)

Reply(p) ==
  CASE TypeBits(Head(p)) = CONNECT -> {SerializeConnack(c, FALSE, BufLen).buf : c \in {0, 5}}
    [] TypeBits(Head(p)) = SUBSCRIBE -> {SerializeSuback(1, <<q>>, BufLen).buf : q \in {0, 128}}
    [] TypeBits(Head(p)) = PINGREQ -> {<<16 * PINGRESP, 0>>}
    [] OTHER -> {<<>>}

\* It takes a packet when it has all of it, and answers.
ServerReads ==
  /\ \E n \in Whole(outgoing) :
       LET p == SubSeq(outgoing, 1, n)
       IN  /\ outgoing' = Drop(outgoing, n) /\ got' = Append(got, p)
           /\ \E r \in Reply(p) :
                /\ incoming' = incoming \o r
                /\ sent' = IF r = <<>> THEN sent ELSE Append(sent, r)
  /\ UNCHANGED <<sampleVars, begun, read, torn>>

\* A message for the subscriber: a short one, one that needs two length bytes, and one
\* that is too large for the buffer.
ServerPublishes ==
  /\ \E p \in ToSet(sent) : TypeBits(Head(p)) = SUBACK
  /\ Len(sent) < MaxSent
  /\ \E n \in {1, 130, 140} :
       LET p == SerializePublish([dup |-> FALSE, qos |-> 0, retained |-> FALSE, id |-> 0,
                                  topic |-> <<115>>, payload |-> [i \in 1 .. n |-> Len(sent)]], 200).buf
       IN  incoming' = incoming \o p /\ sent' = Append(sent, p)
  /\ UNCHANGED <<sampleVars, outgoing, begun, got, read, torn>>

Next == sample \/ cfinish \/ ServerReads \/ ServerPublishes

(***************************************************************************)
(* Properties.                                                             *)
(***************************************************************************)

TypeOK ==
  /\ Len(buf) <= BufLen /\ from + howmany <= BufLen
  /\ trp.state \in 0 .. 2 /\ trp.len \in 0 .. BufLen
  /\ pc \in {"choose", "connect", "connack", "subscribe", "suback", "loop", "publish", "pong",
             "closed"} \union DOMAIN After

\* However the bytes arrive, the packets come out of the reader whole and in order, until
\* it gives up inside one that is too large, or a recv that blocks times out inside one:
\* then MQTTPacket_read may also return a packet the server has not sent.
FramesKept == ~torn => IsPrefix(read, sent)

\* However the line takes the bytes, and though the buffer is also read into, the server
\* gets the packets as they were written, until a stop leaves one half sent.
SendsWhole == ~toStop => IsPrefix(got, begun)

\* The next message is answered by a client that goes on.
MessageAnswered ==
  \A n \in 1 .. MaxSent :
    Len(sent) >= n ~> Len(read) >= n \/ toStop \/ torn \/ pc = "closed" \/ Len(begun) = MaxBegun
=============================================================================
