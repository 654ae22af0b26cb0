------------------------ MODULE MqttCppClientProofs ------------------------
(***************************************************************************)
(* Safety of the C++ client for any filters, scripts, sizes of the tables  *)
(* and number of troubles: a message of QoS 2 is delivered once, what is   *)
(* acknowledged has been delivered or given up openly, and what the calls  *)
(* tell the application is so.                                             *)
(*                                                                         *)
(* waitfor compares packet types only, and the identifiers of the server   *)
(* start again with each of its sessions.  What makes that enough is that  *)
(* one exchange at most is under way and none when a call begins, that a   *)
(* failed call ends the session, and that client and server begin anew, or *)
(* go on, together.                                                        *)
(***************************************************************************)
EXTENDS MqttCppClient, FiniteSetTheorems, TLAPS

(***************************************************************************)
(* The invariant: types.                                                   *)
(***************************************************************************)

Steps == [name : STRING, arg : Nat, filter : Filter]
ClientKinds == {"CONNECT", "PUBLISH", "PUBREL", "SUBSCRIBE", "UNSUBSCRIBE", "PUBACK", "PUBREC",
                "PUBCOMP", "PINGREQ", "DISCONNECT", "TERMINATE"}
ServerKinds == {"CONNACK", "PUBACK", "PUBREC", "PUBCOMP", "SUBACK", "UNSUBACK", "PUBLISH",
                "PUBREL", "PINGRESP"}
Kinds == {"none"} \union ClientKinds \union ServerKinds
Packets == [type : Kinds, id : Nat, qos : 0 .. 2, what : Nat \union Filter]

\* The packets under way and those the server keeps.
Elements(q) == {q[i] : i \in 1 .. Len(q)}
Sending == Elements(net.toServer)
Coming == Elements(net.toClient)
Keeping == Elements(server.pending)

Yields == {"yield", "await", "arrive", "stay"}
Publishes == {"publish", "resend"}
Requests == {"subscribe", "unsubscribe"}
Exchanges == Publishes \union Requests
Talks == Exchanges \union ConnectCalls

IsMessage(n) == n \in 1 .. Len(seen.delivered)
FromClient(p) ==
  /\ p.type \in ClientKinds
  /\ p.type = "PUBLISH" => p.what \in Nat
  /\ p.type \in {"SUBSCRIBE", "UNSUBSCRIBE"} => p.what \in Filter
  /\ p.type \in {"PUBACK", "PUBREC"} => IsMessage(p.what) /\ p.id <= server.nextId
FromServer(p) ==
  /\ p.type \in ServerKinds
  /\ p.type = "PUBLISH" => IsMessage(p.what) /\ p.qos = seen.delivered[p.what].qos
  /\ p.type = "PUBREL" \/ (p.type = "PUBLISH" /\ p.qos > 0) => p.id <= server.nextId
Kept(p) == FromServer(p) /\ (p.type = "PUBREL" \/ (p.type = "PUBLISH" /\ p.qos > 0))

PublishOf(p) == p.type = "PUBLISH" /\ p.qos \in {1, 2} /\ p.what \in Nat
\* What each kind of call waits for.
CallTypes ==
  /\ call # Idle => call.name # "none"
  /\ call.name \in Yields => call.want = "none" /\ call.state = "waiting"
  /\ call.name \in ConnectCalls => call.want = "CONNACK"
  /\ call.name \in Publishes => PublishOf(call.packet)
                                /\ call.want = IF call.packet.qos = 1 THEN "PUBACK" ELSE "PUBCOMP"
  /\ call.name = "subscribe" => call.want = "SUBACK" /\ call.packet.type = "SUBSCRIBE"
                                /\ call.packet.what \in Filter /\ call.arg \in {1, 2}
  /\ call.name = "unsubscribe" => call.want = "UNSUBACK" /\ call.packet.type = "UNSUBSCRIBE"
                                  /\ call.packet.what \in Filter

CallRecords == [name : {"none"} \union Yields \union Talks,
                state : {"none", "waiting", "answered", "failed"}, want : Kinds,
                packet : Packets, arg : Nat, answer : Packets]
ClientRecords ==
  [isconnected : BOOLEAN, cleansession : BOOLEAN, ping_outstanding : BOOLEAN,
   handlers : [Filter -> 0 .. 2], nextId : 0 .. MaxPacketId, inflight : Packets,
   incoming : SUBSET Nat, due : SUBSET {"sent", "received", "ping"}]
NetRecords == [state : {"up", "dead", "closed"}, toServer : Seq(Packets), toClient : Seq(Packets)]
ServerRecords == [up : BOOLEAN, clean : BOOLEAN, subs : SUBSET Filter, received : SUBSET Nat,
                  pending : Seq(Packets), nextId : Nat]
SeenRecords ==
  [accepted : SUBSET Nat, confirmed : SUBSET Nat, delivered : Seq([qos : 0 .. 2, times : Nat]),
   dropped : SUBSET Nat, left : SUBSET Nat, again : SUBSET Nat]
Types ==
  /\ script \in Seq(Steps) /\ call \in CallRecords /\ client \in ClientRecords
  /\ net \in NetRecords /\ server \in ServerRecords /\ seen \in SeenRecords
  /\ troubles \in 0 .. MaxTroubles

Bounded ==
  /\ IsFiniteSet(client.incoming) /\ Cardinality(client.incoming) <= MaxIncoming
  /\ Cardinality({f \in Filter : client.handlers[f] # 0}) <= MaxHandlers

TypeInv ==
  /\ Types /\ Bounded /\ CallTypes
  /\ \A p \in Sending : FromClient(p)
  /\ \A p \in Coming : FromServer(p)
  /\ \A p \in Keeping : Kept(p)
  /\ client.inflight = NoPacket \/ PublishOf(client.inflight)
  /\ \A n \in seen.dropped : IsMessage(n)

(***************************************************************************)
(* The invariant: the rest of the script, and what it finds.               *)
(***************************************************************************)

NoneUnderWay == net.toServer = <<>> /\ net.toClient = <<>>
NextIs(s, names) == s # <<>> /\ Head(s).name \in names

\* Each connect comes after an open, each open after a close, each close after the end of a
\* session.
OrderAfter(s, i) ==
  /\ s[i].name \in ConnectCalls => s[i - 1].name = "open"
  /\ s[i].name = "open" => s[i - 1].name = "close"
  /\ s[i].name = "close" => s[i - 1].name \in {"disconnect", "await"}
InOrderFrom2(s) == \A i \in 2 .. Len(s) : OrderAfter(s, i)
OrderAtHead ==
  /\ NextIs(script, ConnectCalls) =>
       call = Idle /\ ~client.isconnected /\ ~server.up /\ NoneUnderWay
  /\ NextIs(script, {"open"}) =>
       call = Idle /\ ~client.isconnected /\ NoneUnderWay /\ net.state = "closed"
  /\ NextIs(script, {"close"}) => call.name = "await" \/ (call = Idle /\ ~client.isconnected)

\* A session that was kept is not taken up again after a clean one.
NoneAfterClean(s) ==
  \A i, j \in 1 .. Len(s) :
    i < j /\ Connects(s, i) /\ Connects(s, j) => ~(s[i].arg = 1 /\ s[j].arg = 0)
CleanFromNow(s) == \A i \in 1 .. Len(s) : Connects(s, i) => s[i].arg = 1

Rest(s) == s \in Seq(Steps) /\ Arguments(s) /\ KeptOnce(s) /\ InOrderFrom2(s)
ScriptInv ==
  /\ Rest(script) /\ OrderAtHead
  /\ ~client.cleansession \/ ~server.clean => NoneAfterClean(script)
  /\ ~server.clean /\ client.cleansession => CleanFromNow(script)

(***************************************************************************)
(* The invariant: the connection.                                          *)
(***************************************************************************)

Flag == IF client.cleansession THEN 1 ELSE 0
Refused(p) == p.type = "CONNACK" /\ p.what = 0

\* A CONNECT comes first; the server is not up before it.
ConnectFirst ==
  \A i \in 1 .. Len(net.toServer) :
    net.toServer[i].type = "CONNECT" =>
      /\ i = 1 /\ ~server.up /\ net.toClient = <<>>
      /\ net.toServer[i].what = Flag
      /\ \A p \in Sending : p.type \notin {"PUBACK", "PUBREC", "PUBCOMP"}

\* The connection has ended, and nothing of it is under way: so it is behind a header byte.
Lost == net.state # "up" /\ NoneUnderWay

ConnectionInv ==
  /\ ConnectFirst
  /\ server.up => server.clean = client.cleansession
  /\ client.isconnected => server.up \/ Lost
  /\ client.isconnected => call.name \notin ConnectCalls \union {"resend"}
  /\ \A p \in Sending : p.type = "DISCONNECT" => ~client.isconnected /\ call.name \notin Talks
  \* Only a server that is up says anything but a refusal.
  /\ call.name \in Talks /\ ~server.up =>
       /\ \A p \in Coming : Refused(p)
       /\ call.state = "answered" => Refused(call.answer) \/ Lost

(***************************************************************************)
(* The invariant: the exchange under way.                                  *)
(***************************************************************************)

\* A packet of the client that the server answers for a call, and an answer.
Asks(p) == p.type \in {"PUBREL", "SUBSCRIBE", "UNSUBSCRIBE"} \/ (p.type = "PUBLISH" /\ p.qos > 0)
Answers(p) == p.type \in {"PUBACK", "PUBREC", "PUBCOMP", "SUBACK", "UNSUBACK"}
Asked == {i \in 1 .. Len(net.toServer) : Asks(net.toServer[i])}
Replied == {i \in 1 .. Len(net.toClient) : Answers(net.toClient[i])}

OneExchange ==
  /\ \A i, j \in Asked : i = j
  /\ \A i, j \in Replied : i = j
  /\ Asked = {} \/ Replied = {}

\* None is under way between the calls of a connected client, while it connects and once a
\* call has its answer.
Settled ==
  \/ client.isconnected /\ call.name \notin Exchanges
  \/ call.name \in ConnectCalls
  \/ call.state = "answered"
QuietWhenSettled == Settled => Asked = {} /\ Replied = {}

\* The question is the one of the call, at a stage of it.
AsksFor(p) ==
  \/ p.type \in {"PUBLISH", "SUBSCRIBE", "UNSUBSCRIBE"} /\ p = call.packet
  \/ /\ p.type = "PUBREL" /\ call.name \in Publishes /\ p.id = call.packet.id
     /\ call.packet.qos = 2 /\ call.packet.what \in seen.accepted
\* The answer is to the call, and what it says is so; but for an identifier that has not come.
AnswersTo(p) ==
  \/ /\ p.type \in {"PUBACK", "PUBREC", "PUBCOMP"} /\ call.name \in Publishes
     /\ p.id = call.packet.id \/ Lost
     /\ p.type = "PUBACK" <=> call.packet.qos = 1
     /\ call.packet.what \in seen.accepted
     /\ p.type = "PUBCOMP" => call.packet.id \notin server.received
  \/ p.type = "SUBACK" /\ call.name = "subscribe"
  \/ p.type = "UNSUBACK" /\ call.name = "unsubscribe"

ExchangeInv ==
  /\ OneExchange /\ QuietWhenSettled
  /\ call.name \in Exchanges =>
       /\ \A p \in Sending : Asks(p) => AsksFor(p)
       /\ \A p \in Coming : Answers(p) => AnswersTo(p)
       /\ call.state = "answered" => call.answer.type = call.want /\ AnswersTo(call.answer)
  /\ call.name \in ConnectCalls /\ call.state = "answered" => call.answer.type = "CONNACK"

\* The publish that is kept for another time.
InflightInv ==
  /\ client.isconnected /\ call.name \notin Publishes => client.inflight = NoPacket \/ Lost
  /\ call.name \in Publishes => client.inflight \in {NoPacket, call.packet} \/ Lost
  /\ call.name = "resend" \/ (call.name = "publish" /\ ~client.cleansession)
       => client.inflight = call.packet
  /\ ~client.cleansession =>
       \A p \in Sending : p.type = "PUBLISH" /\ p.qos > 0 => p = client.inflight

\* The server remembers no publish but the one under way, and that it has accepted.
Current == IF call.name \in Publishes THEN call.packet ELSE client.inflight
KeptSession == ~server.clean /\ ~client.cleansession
Remembering ==
  \/ KeptSession
  \/ /\ server.up /\ server.clean
     /\ client.isconnected \/ call.name \in Publishes \union ConnectCalls
ReceivedInv ==
  Remembering =>
    /\ \A id \in server.received :
         Current.id = id /\ Current.qos = 2 /\ Current.what \in seen.accepted
    /\ client.isconnected /\ call.name \notin Publishes => server.received = {}

\* The subscriptions of a clean session have their handlers, but for the one under way.
Handled == {f \in Filter : client.handlers[f] # 0}
Unsubscribed ==
  \/ \E p \in Sending : p.type = "SUBSCRIBE"
  \/ \E p \in Coming : p.type = "SUBACK" /\ p.what = 0
  \/ call.state = "answered" /\ call.answer.what = 0
Removed == call.state = "answered" \/ \E p \in Coming : p.type = "UNSUBACK"
SubsInv ==
  /\ server.up /\ server.clean /\ call.name \in ConnectCalls \union {"resend"} => server.subs = {}
  /\ server.up /\ server.clean /\ client.isconnected =>
       /\ call.name # "subscribe" => server.subs \subseteq Handled
       /\ call.name = "subscribe" =>
            /\ server.subs \subseteq Handled \union {call.packet.what}
            /\ Unsubscribed => server.subs \subseteq Handled
       /\ call.name = "unsubscribe" /\ Removed => call.packet.what \notin server.subs

(***************************************************************************)
(* The invariant: the messages of the server.                              *)
(***************************************************************************)

Numbered(p) == p.type = "PUBLISH" /\ p.qos > 0
Times(p) == seen.delivered[p.what].times
GivenUp(p) == p.what \in seen.dropped \/ p.id \in seen.left

\* Identifiers stand for messages, and each is on its way once.
NumberInv ==
  /\ \A p, q \in Coming \union Keeping : Numbered(p) /\ Numbered(q) => (p.id = q.id <=> p.what = q.what)
  /\ \A i, j \in 1 .. Len(net.toClient) :
       Numbered(net.toClient[i]) /\ Numbered(net.toClient[j]) /\ net.toClient[i].id = net.toClient[j].id
         => i = j
  /\ \A i, j \in 1 .. Len(server.pending) : server.pending[i].id = server.pending[j].id => i = j
  /\ \A id \in client.incoming : id <= server.nextId \/ id \in seen.left

\* A release comes after the message, which is not sent again.
ReleaseInv ==
  \A i \in 1 .. Len(net.toClient) : net.toClient[i].type = "PUBREL" =>
    /\ \A j \in 1 .. Len(net.toClient) :
         Numbered(net.toClient[j]) /\ net.toClient[j].id = net.toClient[i].id => j < i
    /\ \A p \in Keeping : Numbered(p) => p.id # net.toClient[i].id

\* A message that may still be read has not been delivered, or its identifier is in the
\* table or was taken out of it for another; and one whose identifier is in the table has been, or is given up.
Undelivered(p) == Times(p) = 0 \/ p.id \in client.incoming \/ p.what \in seen.again
Accounted(p) == p.id \in client.incoming => Times(p) >= 1 \/ GivenUp(p)
DeliveryInv ==
  /\ \A p \in Coming : Numbered(p) /\ p.qos = 2 =>
       /\ Undelivered(p) /\ Accounted(p)
       /\ client.cleansession => Times(p) = 0
  /\ KeptSession => \A p \in Keeping : Numbered(p) /\ p.qos = 2 => Undelivered(p) /\ Accounted(p)
  /\ DeliveredOnce
  /\ \A p \in Sending : p.type \in {"PUBACK", "PUBREC"} => Times(p) >= 1 \/ GivenUp(p)

IInv ==
  /\ TypeInv /\ ScriptInv /\ ConnectionInv
  /\ ExchangeInv /\ InflightInv /\ ReceivedInv /\ ConfirmedAccepted /\ SubsInv
  /\ NumberInv /\ ReleaseInv /\ DeliveryInv

(***************************************************************************)
(* What happens to a queue.                                                *)
(***************************************************************************)

\* Each element of a sequence is of its type.
LEMMA ElementType ==
  ASSUME NEW S, NEW s \in Seq(S), NEW i \in 1 .. Len(s)
  PROVE  s[i] \in S
OBVIOUS

\* The empty queue, ...
LEMMA EmptyEffect == <<>> \in Seq(Packets) /\ Len(<<>>) = 0 /\ Elements(<<>>) = {}
BY DEF Elements

\* ... a packet at the end of a queue, ...
LEMMA AppendEffect ==
  ASSUME NEW q \in Seq(Packets), NEW p \in Packets
  PROVE  /\ Append(q, p) \in Seq(Packets)
         /\ Len(q) \in Nat
         /\ Len(Append(q, p)) = Len(q) + 1
         /\ Append(q, p)[Len(q) + 1] = p
         /\ \A i \in 1 .. Len(q) : Append(q, p)[i] = q[i]
         /\ Elements(Append(q, p)) = Elements(q) \union {p}
<1>1. /\ Append(q, p) \in Seq(Packets)
      /\ Len(q) \in Nat
      /\ Len(Append(q, p)) = Len(q) + 1
      /\ Append(q, p)[Len(q) + 1] = p
      /\ \A i \in 1 .. Len(q) : Append(q, p)[i] = q[i]
  OBVIOUS
<1> QED BY <1>1 DEF Elements

\* ... one taken from its beginning, ...
LEMMA TailEffect ==
  ASSUME NEW q \in Seq(Packets), q # <<>>
  PROVE  /\ Tail(q) \in Seq(Packets)
         /\ Len(q) \in Nat \ {0} /\ 1 \in 1 .. Len(q)
         /\ Head(q) = q[1] /\ Head(q) \in Packets
         /\ Len(Tail(q)) = Len(q) - 1
         /\ \A i \in 1 .. Len(Tail(q)) : i + 1 \in 1 .. Len(q) /\ Tail(q)[i] = q[i + 1]
         /\ Elements(Tail(q)) \subseteq Elements(q) /\ Head(q) \in Elements(q)
<1>1. /\ Tail(q) \in Seq(Packets)
      /\ Len(q) \in Nat \ {0} /\ 1 \in 1 .. Len(q)
      /\ Head(q) = q[1] /\ Head(q) \in Packets
      /\ Len(Tail(q)) = Len(q) - 1
      /\ \A i \in 1 .. Len(Tail(q)) : i + 1 \in 1 .. Len(q) /\ Tail(q)[i] = q[i + 1]
  OBVIOUS
<1> QED BY <1>1 DEF Elements

\* ... and several at the end.
LEMMA ConcatEffect ==
  ASSUME NEW q \in Seq(Packets), NEW r \in Seq(Packets)
  PROVE  /\ q \o r \in Seq(Packets)
         /\ Len(q) \in Nat /\ Len(r) \in Nat
         /\ Len(q \o r) = Len(q) + Len(r)
         /\ \A i \in 1 .. Len(q) : (q \o r)[i] = q[i]
         /\ \A i \in 1 .. Len(q \o r) : i > Len(q) => i - Len(q) \in 1 .. Len(r) /\ (q \o r)[i] = r[i - Len(q)]
         /\ Elements(q \o r) = Elements(q) \union Elements(r)
<1>1. /\ q \o r \in Seq(Packets)
      /\ Len(q) \in Nat /\ Len(r) \in Nat
      /\ Len(q \o r) = Len(q) + Len(r)
      /\ \A i \in 1 .. Len(q) : (q \o r)[i] = q[i]
      /\ \A i \in 1 .. Len(q \o r) : i > Len(q) => i - Len(q) \in 1 .. Len(r) /\ (q \o r)[i] = r[i - Len(q)]
      /\ \A i \in 1 .. Len(r) : (q \o r)[Len(q) + i] = r[i]
  OBVIOUS
<1>2. Elements(q \o r) \subseteq Elements(q) \union Elements(r)
  BY <1>1 DEF Elements
<1>3. Elements(q) \subseteq Elements(q \o r)
  BY <1>1 DEF Elements
<1>4. ASSUME NEW i \in 1 .. Len(r) PROVE r[i] \in Elements(q \o r)
  <2>1. Len(q) + i \in 1 .. Len(q \o r)
    BY <1>1
  <2> QED BY <1>1, <2>1 DEF Elements
<1>5. Elements(r) \subseteq Elements(q \o r)
  BY <1>4 DEF Elements
<1> QED BY <1>1, <1>2, <1>3, <1>5

(***************************************************************************)
(* What the operators of the client return.                                *)
(***************************************************************************)

Ping == Packet("PINGREQ", 0, 0, 0)

LEMMA PacketTypes ==
  /\ NoPacket \in Packets /\ Ping \in Packets
  /\ \A t \in Kinds, id \in Nat, qos \in 0 .. 2, what \in Nat \union Filter :
       Packet(t, id, qos, what) \in Packets
<1>1. \A t \in Kinds, id \in Nat, qos \in 0 .. 2, what \in Nat \union Filter :
        Packet(t, id, qos, what) \in Packets
  BY DEF Packet, Packets
<1>2. 0 \in Nat \union Filter /\ 0 \in 0 .. 2 /\ "none" \in Kinds /\ "PINGREQ" \in Kinds
  BY DEF Kinds, ClientKinds
<1> QED BY <1>1, <1>2 DEF NoPacket, Ping

\* What a packet put on the wire does to the network: nothing, when it goes nowhere.
OnItsWay(n, m, p) ==
  /\ n.state = "up" /\ m.state = "up"
  /\ m.toServer = Append(n.toServer, p) /\ m.toClient = n.toClient

LEMMA OnWireEffect ==
  ASSUME NEW n \in NetRecords, NEW p \in Packets
  PROVE  /\ OnWire(n, p) \in NetRecords
         /\ OnWire(n, p) = n \/ OnItsWay(n, OnWire(n, p), p)
         /\ n.state = "closed" => OnWire(n, p) = n
BY AppendEffect DEF OnWire, NetRecords, OnItsWay

\* A session goes on, ...
SameSession(c, d) ==
  /\ d.isconnected = c.isconnected /\ d.cleansession = c.cleansession
  /\ d.handlers = c.handlers /\ d.inflight = c.inflight /\ d.incoming = c.incoming

\* ... or ends.
EndedSession(c, d) ==
  /\ d.isconnected = FALSE /\ d.cleansession = c.cleansession
  /\ IF c.cleansession
     THEN d.handlers = NoHandlers /\ d.inflight = NoPacket /\ d.incoming = {}
     ELSE d.handlers = c.handlers /\ d.inflight = c.inflight /\ d.incoming = c.incoming

LEMMA CloseSessionEffect ==
  ASSUME NEW c \in ClientRecords
  PROVE  closeSession(c) \in ClientRecords /\ EndedSession(c, closeSession(c))
<1>1. NoHandlers \in [Filter -> 0 .. 2]
  BY DEF NoHandlers
<1> QED BY <1>1, PacketTypes DEF closeSession, cleanSession, ClientRecords, EndedSession

LEMMA SentEffect ==
  ASSUME NEW c \in ClientRecords
  PROVE  Sent(c) \in ClientRecords /\ SameSession(c, Sent(c))
BY DEF Sent, ClientRecords, SameSession

LEMMA KeepaliveEffect ==
  ASSUME NEW c \in ClientRecords, NEW n \in NetRecords
  PROVE  LET k == keepalive(c, n)
         IN  /\ k.ok \in BOOLEAN /\ k.client \in ClientRecords /\ k.net \in NetRecords
             /\ SameSession(c, k.client)
             /\ k.net = n \/ OnItsWay(n, k.net, Ping)
             /\ ~k.ok => k.net = n
<1> DEFINE idle == c.due \intersect {"sent", "received"} # {}
           pinged == [c EXCEPT !.ping_outstanding = TRUE, !.due = @ \ {"ping"}]
<1>1. pinged \in ClientRecords /\ SameSession(c, pinged)
  BY DEF ClientRecords, SameSession
<1>2. Sent(pinged) \in ClientRecords /\ SameSession(c, Sent(pinged))
  BY <1>1, SentEffect DEF SameSession
<1>3. SameSession(c, c)
  BY DEF SameSession
<1>4. /\ OnWire(n, Ping) \in NetRecords
      /\ OnWire(n, Ping) = n \/ OnItsWay(n, OnWire(n, Ping), Ping)
  BY OnWireEffect, PacketTypes
<1> HIDE DEF pinged
<1>5. keepalive(c, n) \in {[ok |-> FALSE, client |-> c, net |-> n],
                           [ok |-> TRUE, client |-> Sent(pinged), net |-> OnWire(n, Ping)],
                           [ok |-> TRUE, client |-> c, net |-> n]}
  BY DEF keepalive, pinged, Ping
<1> DEFINE k == keepalive(c, n)
<1>6. CASE k = [ok |-> FALSE, client |-> c, net |-> n]
  BY <1>3, <1>6
<1>7. CASE k = [ok |-> TRUE, client |-> Sent(pinged), net |-> OnWire(n, Ping)]
  BY <1>2, <1>4, <1>7
<1>8. CASE k = [ok |-> TRUE, client |-> c, net |-> n]
  BY <1>3, <1>8
<1> QED BY <1>5, <1>6, <1>7, <1>8

\* What a client does that a packet has failed.
LEMMA FailedEffect ==
  ASSUME NEW c \in ClientRecords
  PROVE  /\ Failed(c) \in ClientRecords
         /\ IF c.isconnected THEN EndedSession(c, Failed(c)) ELSE Failed(c) = c
BY CloseSessionEffect DEF Failed

(***************************************************************************)
(* Steps that leave the server and its messages alone.                     *)
(***************************************************************************)

Loses == net'.toServer = <<>> /\ net'.toClient \in {<<>>, net.toClient}
NetMoves(p) == net' = net \/ OnItsWay(net, net', p) \/ Loses

\* A packet that asks nothing disturbs no exchange.
LEMMA NetMovesEffect ==
  ASSUME Types, NEW p \in Packets, NetMoves(p)
  PROVE  /\ Sending' \subseteq Sending \union {p} /\ Coming' \subseteq Coming
         /\ net'.toClient \in {net.toClient, <<>>}
         /\ \A i \in 1 .. Len(net'.toServer) :
              \/ i \in 1 .. Len(net.toServer) /\ net'.toServer[i] = net.toServer[i]
              \/ i = Len(net.toServer) + 1 /\ net'.toServer[i] = p
         /\ \A i \in 1 .. Len(net'.toClient) :
              i \in 1 .. Len(net.toClient) /\ net'.toClient[i] = net.toClient[i]
         /\ ~Asks(p) => Asked' \subseteq Asked
         /\ Replied' \subseteq Replied
<1>1. net.toServer \in Seq(Packets) /\ net.toClient \in Seq(Packets)
  BY DEF Types, NetRecords
<1>2. CASE net' = net
  BY <1>2 DEF Sending, Coming, Asked, Replied
<1>3. CASE OnItsWay(net, net', p)
  <2>1. net'.toServer = Append(net.toServer, p) /\ net'.toClient = net.toClient
    BY <1>3 DEF OnItsWay
  <2> QED BY <1>1, <2>1, AppendEffect DEF Sending, Coming, Asked, Replied
<1>4. CASE Loses
  <2>1. net'.toServer = <<>> /\ net'.toClient \in {<<>>, net.toClient}
    BY <1>4 DEF Loses
  <2>2. Elements(net'.toClient) \subseteq Coming
    BY <2>1, EmptyEffect DEF Coming
  <2> QED BY <1>1, <2>1, <2>2, EmptyEffect DEF Sending, Coming, Asked, Replied
<1> QED BY <1>2, <1>3, <1>4 DEF NetMoves

Messages == NumberInv /\ ReleaseInv /\ DeliveryInv

MessagesStay ==
  /\ server'.pending = server.pending /\ server'.nextId = server.nextId
  /\ server'.clean = server.clean
  /\ seen'.delivered = seen.delivered /\ seen'.dropped = seen.dropped /\ seen'.left = seen.left
  /\ seen'.again = seen.again
  /\ net'.toClient \in {net.toClient, <<>>}
  /\ \A p \in Sending' : p.type \in {"PUBACK", "PUBREC"} => p \in Sending
  /\ \/ /\ client'.cleansession = client.cleansession
        /\ \/ client'.incoming = client.incoming
           \/ client.cleansession /\ client'.incoming = {}
     \/ /\ client'.incoming = client.incoming
        /\ net.toClient = <<>>
        /\ KeptSession' => KeptSession

LEMMA MessagesStayEffect == Messages /\ MessagesStay => Messages'
<1> SUFFICES ASSUME Messages, MessagesStay PROVE Messages'
  OBVIOUS
<1>1. Coming' \subseteq Coming /\ Keeping' = Keeping
  BY EmptyEffect DEF MessagesStay, Coming, Keeping
<1>2. client'.incoming \subseteq client.incoming
  BY DEF MessagesStay
<1>3. NumberInv'
  BY <1>1, <1>2, EmptyEffect DEF Messages, MessagesStay, NumberInv
<1>4. ReleaseInv'
  BY <1>1, EmptyEffect DEF Messages, MessagesStay, ReleaseInv
<1>5. DeliveredOnce'
  BY DEF Messages, MessagesStay, DeliveryInv, DeliveredOnce
<1>6. \A p \in Sending' : p.type \in {"PUBACK", "PUBREC"} => Times(p)' >= 1 \/ GivenUp(p)'
  BY DEF Messages, MessagesStay, DeliveryInv, Times, GivenUp
<1>7. \A p : Accounted(p) => Accounted(p)'
  BY <1>2 DEF MessagesStay, Accounted, Times, GivenUp
<1>8. ASSUME NEW p \in Coming', Numbered(p), p.qos = 2
      PROVE  Undelivered(p)' /\ Accounted(p)' /\ (client'.cleansession => Times(p)' = 0)
  <2>1. /\ net'.toClient = net.toClient /\ p \in Coming /\ net.toClient # <<>>
    BY <1>1, <1>8, EmptyEffect DEF MessagesStay, Coming
  <2>2. Undelivered(p) /\ Accounted(p) /\ (client.cleansession => Times(p) = 0)
    BY <1>8, <2>1 DEF Messages, DeliveryInv
  <2>3. Times(p)' = Times(p)
    BY DEF MessagesStay, Times
  <2> QED BY <1>7, <2>1, <2>2, <2>3 DEF MessagesStay, Undelivered
<1>9. ASSUME KeptSession', NEW p \in Keeping', Numbered(p), p.qos = 2
      PROVE  Undelivered(p)' /\ Accounted(p)'
  <2>1. KeptSession
    BY <1>9 DEF MessagesStay, KeptSession
  <2>2. Undelivered(p) /\ Accounted(p) /\ ~client.cleansession
    BY <1>1, <1>9, <2>1 DEF Messages, DeliveryInv, KeptSession
  <2>3. Times(p)' = Times(p) /\ client'.incoming = client.incoming /\ seen'.again = seen.again
    BY <2>2 DEF MessagesStay, Times
  <2> QED BY <1>7, <2>2, <2>3 DEF Undelivered
<1>10. DeliveryInv'
  BY <1>5, <1>6, <1>8, <1>9 DEF DeliveryInv
<1> QED BY <1>3, <1>4, <1>10 DEF Messages

(***************************************************************************)
(* The steps of a waiting call that read no packet, and a broken           *)
(* connection.                                                             *)
(***************************************************************************)

Unread == ReadFails \/ CycleIdle \/ ReadPart \/ TimeOut \/ Tick \/ Break

CallFailed == Waiting /\ call.name \notin Yields /\ call' = [call EXCEPT !.state = "failed"]
QuietStep ==
  /\ script' = script /\ server' = server /\ seen' = seen
  /\ SameSession(client, client') \/ (client.isconnected /\ EndedSession(client, client'))
  /\ call' = call \/ CallFailed
  /\ NetMoves(Ping)
  /\ Waiting \/ (call' = call /\ client' = client /\ net.state = "up" /\ Loses)
  /\ Lost => Lost'

LEMMA YieldingEffect == Yielding <=> call.name \in Yields
BY DEF Yielding, Yields

LEMMA TroubleEffect == Types /\ (Trouble \/ UNCHANGED troubles) => troubles' \in 0 .. MaxTroubles
BY CppClientAssumption DEF Types, Trouble

LEMMA UnreadEffect ==
  ASSUME Types, Unread
  PROVE  QuietStep /\ client' \in ClientRecords /\ net' \in NetRecords /\ troubles' \in 0 .. MaxTroubles
<1>1. /\ client \in ClientRecords /\ net \in NetRecords /\ call \in CallRecords
      /\ SameSession(client, client)
  BY DEF Types, SameSession
<1>2. <<>> \in Seq(Packets)
  BY EmptyEffect
<1>3. /\ Failed(client) \in ClientRecords
      /\ SameSession(client, Failed(client)) \/ (client.isconnected /\ EndedSession(client, Failed(client)))
  BY <1>1, FailedEffect
<1>4. CallFails /\ Waiting => call' = call \/ CallFailed
  BY YieldingEffect DEF CallFails, CallFailed
<1>5. Trouble \/ UNCHANGED troubles => troubles' \in 0 .. MaxTroubles
  BY TroubleEffect
<1>6. /\ net' = net \/ OnItsWay(net, net', Ping) \/ Loses => NetMoves(Ping)
      /\ net' = net \/ OnItsWay(net, net', Ping) => (Lost => Lost')
      /\ net.state = "up" => ~Lost
  BY DEF NetMoves, OnItsWay, Lost, NoneUnderWay
<1>7. CASE ReadFails
  <2>1. /\ Waiting /\ client' = Failed(client) /\ CallFails /\ net' = net
        /\ script' = script /\ server' = server /\ seen' = seen /\ troubles' = troubles
    BY <1>7 DEF ReadFails
  <2> QED BY <1>1, <1>3, <1>4, <1>5, <1>6, <2>1 DEF QuietStep
<1>8. CASE CycleIdle
  <2> DEFINE k == keepalive(client, net)
  <2>1. /\ k.ok \in BOOLEAN /\ k.client \in ClientRecords /\ k.net \in NetRecords
        /\ SameSession(client, k.client)
        /\ k.net = net \/ OnItsWay(net, k.net, Ping)
    BY <1>1, KeepaliveEffect
  <2> HIDE DEF k
  <2>2. /\ Waiting
        /\ IF k.ok THEN client' = k.client /\ net' = k.net /\ call' = call
           ELSE client' = Failed(client) /\ CallFails /\ net' = net
        /\ script' = script /\ server' = server /\ seen' = seen /\ troubles' = troubles
    BY <1>8 DEF CycleIdle, k
  <2>3. NetMoves(Ping) /\ net' \in NetRecords /\ (Lost => Lost')
    BY <1>1, <1>6, <2>1, <2>2
  <2>4. /\ client' \in ClientRecords
        /\ SameSession(client, client') \/ (client.isconnected /\ EndedSession(client, client'))
    BY <1>3, <2>1, <2>2
  <2> QED BY <1>4, <1>5, <2>2, <2>3, <2>4 DEF QuietStep
<1>9. CASE ReadPart
  <2>1. /\ Loses /\ net' \in NetRecords /\ Lost'
    BY <1>2, <1>9 DEF ReadPart, Ended, Loses, Lost, NoneUnderWay, NetRecords
  <2>2. /\ Waiting /\ client' = Failed(client) /\ call' = call
        /\ script' = script /\ server' = server /\ seen' = seen /\ Trouble
    BY <1>9 DEF ReadPart
  <2> QED BY <1>3, <1>5, <1>6, <2>1, <2>2 DEF QuietStep
<1>10. CASE TimeOut
  <2>1. /\ Waiting /\ ~Yielding
        /\ Trouble \/ UNCHANGED troubles
        /\ call' = [call EXCEPT !.state = "failed"]
        /\ script' = script /\ client' = client /\ net' = net /\ server' = server /\ seen' = seen
    BY <1>10 DEF TimeOut
  <2> QED BY <1>1, <1>5, <1>6, <2>1, YieldingEffect DEF QuietStep, CallFailed
<1>11. CASE Tick
  <2>1. /\ Waiting
        /\ Trouble \/ UNCHANGED troubles
        /\ script' = script /\ call' = call /\ net' = net /\ server' = server /\ seen' = seen
    BY <1>11 DEF Tick
  <2>2. client' \in ClientRecords /\ SameSession(client, client')
    BY <1>1, <1>11 DEF Tick, ClientRecords, SameSession
  <2> QED BY <1>1, <1>5, <1>6, <2>1, <2>2 DEF QuietStep
<1>12. CASE Break
  <2>1. /\ net.state = "up" /\ Trouble /\ script' = script /\ call' = call /\ client' = client
        /\ server' = server /\ seen' = seen
        /\ \/ net' = [state |-> "dead", toServer |-> <<>>, toClient |-> <<>>]
           \/ net' = [net EXCEPT !.state = "closed", !.toServer = <<>>]
    BY <1>12 DEF Break
  <2>2. CASE net' = [state |-> "dead", toServer |-> <<>>, toClient |-> <<>>]
    <3>1. Loses /\ net' \in NetRecords
      BY <1>2, <2>2 DEF Loses, NetRecords
    <3> QED BY <1>1, <1>5, <1>6, <2>1, <3>1 DEF QuietStep
  <2>3. CASE net' = [net EXCEPT !.state = "closed", !.toServer = <<>>]
    <3>1. Loses /\ net' \in NetRecords
      BY <1>1, <1>2, <2>3 DEF Loses, NetRecords
    <3> QED BY <1>1, <1>5, <1>6, <2>1, <3>1 DEF QuietStep
  <2> QED BY <2>1, <2>2, <2>3
<1> QED BY <1>7, <1>8, <1>9, <1>10, <1>11, <1>12 DEF Unread

LEMMA NoHandlersEffect ==
  /\ {f \in Filter : NoHandlers[f] # 0} = {}
  /\ IsFiniteSet({}) /\ Cardinality({}) = 0
BY FS_EmptySet DEF NoHandlers

\* The types after a session that goes on or ends.
LEMMA SessionTypes ==
  ASSUME TypeInv, SameSession(client, client') \/ EndedSession(client, client')
  PROVE  Bounded' /\ (client'.inflight = NoPacket \/ PublishOf(client'.inflight))
<1>1. CASE SameSession(client, client')
  BY <1>1 DEF TypeInv, Bounded, SameSession
<1>2. CASE EndedSession(client, client') /\ client.cleansession
  <2>1. client'.handlers = NoHandlers /\ client'.inflight = NoPacket /\ client'.incoming = {}
    BY <1>2 DEF EndedSession
  <2>2. {f \in Filter : client'.handlers[f] # 0} = {}
    BY <2>1, NoHandlersEffect
  <2>3. IsFiniteSet(client'.incoming) /\ Cardinality(client'.incoming) = 0
    BY <2>1, NoHandlersEffect
  <2>4. Cardinality({f \in Filter : client'.handlers[f] # 0}) = 0
    BY <2>2, NoHandlersEffect, Zenon
  <2>5. 0 <= MaxHandlers /\ 0 <= MaxIncoming
    BY CppClientAssumption
  <2> QED BY <2>1, <2>3, <2>4, <2>5 DEF Bounded
<1>3. CASE EndedSession(client, client') /\ ~client.cleansession
  BY <1>3 DEF TypeInv, Bounded, EndedSession
<1> QED BY <1>1, <1>2, <1>3

\* A session goes on, and the publish that is kept may be let go.
GoesOn(c, d) ==
  /\ c.isconnected /\ d.isconnected /\ d.cleansession = c.cleansession
  /\ d.handlers = c.handlers /\ d.incoming = c.incoming
  /\ d.inflight \in {c.inflight, NoPacket}

LEMMA GoesOnTypes ==
  ASSUME TypeInv, GoesOn(client, client')
  PROVE  Bounded' /\ (client'.inflight = NoPacket \/ PublishOf(client'.inflight))
BY DEF TypeInv, Bounded, GoesOn

\* Packets of the server's messages keep their type when no more messages are.
LEMMA PacketsStay ==
  ASSUME TypeInv, server'.nextId = server.nextId, seen'.delivered = seen.delivered
  PROVE  /\ \A p : FromClient(p) => FromClient(p)'
         /\ \A p : FromServer(p) => FromServer(p)'
         /\ \A p : Kept(p) => Kept(p)'
BY DEF FromClient, FromServer, Kept, IsMessage

\* The rest of the script is in order as long as nothing is called.
LEMMA ScriptStays ==
  ASSUME ScriptInv, script' = script, server'.clean = server.clean,
         client'.cleansession = client.cleansession, OrderAtHead'
  PROVE  ScriptInv'
BY DEF ScriptInv

LEMMA QuietKeeps ==
  ASSUME IInv, QuietStep, client' \in ClientRecords, net' \in NetRecords, troubles' \in 0 .. MaxTroubles
  PROVE  IInv'
<1>1. /\ TypeInv /\ ScriptInv /\ ConnectionInv
      /\ ExchangeInv /\ InflightInv /\ ReceivedInv /\ ConfirmedAccepted /\ SubsInv
      /\ Messages /\ Types /\ CallTypes
  BY DEF IInv, Messages, TypeInv
<1>2. QuietStep /\ client' \in ClientRecords /\ net' \in NetRecords /\ troubles' \in 0 .. MaxTroubles
  OBVIOUS
<1>3. /\ script' = script /\ server' = server /\ seen' = seen
      /\ SameSession(client, client') \/ (client.isconnected /\ EndedSession(client, client'))
      /\ call' = call \/ CallFailed
      /\ NetMoves(Ping)
      /\ Waiting \/ (call' = call /\ client' = client /\ net.state = "up" /\ Loses)
      /\ Lost => Lost'
  BY <1>2 DEF QuietStep
<1>4. /\ Ping \in Packets /\ ~Asks(Ping) /\ Ping.type = "PINGREQ" /\ FromClient(Ping)
  BY PacketTypes DEF Asks, Ping, Packet, FromClient, ClientKinds
<1>5. /\ Sending' \subseteq Sending \union {Ping} /\ Coming' \subseteq Coming
      /\ net'.toClient \in {net.toClient, <<>>}
      /\ \A i \in 1 .. Len(net'.toServer) :
           \/ i \in 1 .. Len(net.toServer) /\ net'.toServer[i] = net.toServer[i]
           \/ i = Len(net.toServer) + 1 /\ net'.toServer[i] = Ping
      /\ Asked' \subseteq Asked /\ Replied' \subseteq Replied
  BY <1>1, <1>3, <1>4, NetMovesEffect
<1>6. client'.cleansession = client.cleansession
  BY <1>3 DEF SameSession, EndedSession
<1>7. /\ call'.name = call.name /\ call'.packet = call.packet /\ call'.answer = call.answer
      /\ call'.want = call.want /\ call'.arg = call.arg /\ call' \in CallRecords
      /\ call' = call \/ call'.state = "failed"
  BY <1>1, <1>3 DEF CallFailed, CallRecords, Types
<1>8. client'.isconnected => client.isconnected /\ SameSession(client, client')
  BY <1>3 DEF SameSession, EndedSession
<1>9. TypeInv'
  <2>1. Types'
    BY <1>1, <1>2, <1>3, <1>7 DEF Types
  <2>2. Bounded' /\ (client'.inflight = NoPacket \/ PublishOf(client'.inflight))
    BY <1>1, <1>3, SessionTypes
  <2>3. CallTypes'
    BY <1>1, <1>3, <1>7 DEF CallTypes, CallFailed, Waiting, Idle
  <2>4. /\ \A p \in Sending' : FromClient(p)'
        /\ \A p \in Coming' : FromServer(p)'
        /\ \A p \in Keeping' : Kept(p)'
        /\ \A n \in seen'.dropped : IsMessage(n)'
    BY <1>1, <1>3, <1>4, <1>5, PacketsStay DEF TypeInv, Keeping, IsMessage
  <2> QED BY <2>1, <2>2, <2>3, <2>4 DEF TypeInv
<1>10. ScriptInv'
  <2>1. OrderAtHead'
    <3>1. CASE Waiting
      BY <1>1, <1>3, <1>7, <3>1 DEF ScriptInv, OrderAtHead, NextIs, Waiting, Idle
    <3>2. CASE call' = call /\ client' = client /\ net.state = "up" /\ Loses
      BY <1>1, <1>3, <3>2 DEF ScriptInv, OrderAtHead, NextIs, Loses, NoneUnderWay
    <3> QED BY <1>3, <3>1, <3>2
  <2> QED BY <1>1, <1>3, <1>6, <2>1, ScriptStays
<1>11. ConnectionInv'
  <2>1. ConnectFirst'
    BY <1>1, <1>3, <1>4, <1>5, <1>6 DEF ConnectionInv, ConnectFirst, Flag
  <2> QED BY <1>1, <1>3, <1>4, <1>5, <1>6, <1>7, <1>8, <2>1 DEF ConnectionInv, SameSession
<1>12. ExchangeInv'
  <2>1. OneExchange'
    BY <1>1, <1>5 DEF ExchangeInv, OneExchange
  <2>2. Settled' => Settled
    BY <1>7, <1>8 DEF Settled
  <2>3. \A p : AsksFor(p) => AsksFor(p)'
    BY <1>3, <1>7 DEF AsksFor
  <2>4. \A p : AnswersTo(p) => AnswersTo(p)'
    BY <1>3, <1>7 DEF AnswersTo
  <2> QED BY <1>1, <1>4, <1>5, <1>7, <2>1, <2>2, <2>3, <2>4 DEF ExchangeInv, QuietWhenSettled
<1>13. InflightInv'
  <2>1. ~client.cleansession \/ ~client.isconnected => client'.inflight = client.inflight
    BY <1>3 DEF SameSession, EndedSession
  <2>2. client'.inflight \in {client.inflight, NoPacket}
    BY <1>3 DEF SameSession, EndedSession
  <2>3. call.name = "resend" => ~client.isconnected
    BY <1>1 DEF ConnectionInv
  <2>4. client'.isconnected /\ call'.name \notin Publishes => client'.inflight = NoPacket \/ Lost'
    BY <1>1, <1>3, <1>7, <1>8 DEF InflightInv, SameSession
  <2>5. call'.name \in Publishes => client'.inflight \in {NoPacket, call'.packet} \/ Lost'
    BY <1>1, <1>3, <1>7, <2>2 DEF InflightInv
  <2>6. call'.name = "resend" \/ (call'.name = "publish" /\ ~client'.cleansession)
          => client'.inflight = call'.packet
    BY <1>1, <1>6, <1>7, <2>1, <2>3 DEF InflightInv
  <2>7. ASSUME ~client'.cleansession, NEW p \in Sending', p.type = "PUBLISH", p.qos > 0
        PROVE  p = client'.inflight
    BY <1>1, <1>4, <1>5, <1>6, <2>1, <2>7 DEF InflightInv
  <2> QED BY <2>4, <2>5, <2>6, <2>7 DEF InflightInv
<1>14. ReceivedInv'
  <2>1. Remembering' => Remembering
    BY <1>3, <1>6, <1>7, <1>8 DEF Remembering, KeptSession
  <2>2. Remembering' => Current' = Current
    <3>1. ~client.cleansession \/ ~client.isconnected \/ client'.isconnected => client'.inflight = client.inflight
      BY <1>3 DEF SameSession, EndedSession
    <3>2. call.name \in ConnectCalls => ~client.isconnected
      BY <1>1 DEF ConnectionInv
    <3> QED BY <1>3, <1>6, <1>7, <3>1, <3>2 DEF Remembering, KeptSession, Current
  <2> QED BY <1>1, <1>3, <1>7, <1>8, <2>1, <2>2 DEF ReceivedInv
<1>15. ConfirmedAccepted'
  BY <1>1, <1>3 DEF ConfirmedAccepted
<1>16. SubsInv'
  <2>1. client'.isconnected => Handled' = Handled
    BY <1>8 DEF Handled, SameSession
  <2>2. Unsubscribed' => Unsubscribed
    BY <1>4, <1>5, <1>7 DEF Unsubscribed
  <2>3. Removed' => Removed
    BY <1>5, <1>7 DEF Removed
  <2> QED BY <1>1, <1>3, <1>7, <1>8, <2>1, <2>2, <2>3 DEF SubsInv
<1>17. Messages'
  <2>1. MessagesStay
    BY <1>3, <1>4, <1>5 DEF MessagesStay, SameSession, EndedSession
  <2> QED BY <1>1, <2>1, MessagesStayEffect
<1> QED BY <1>9, <1>10, <1>11, <1>12, <1>13, <1>14, <1>15, <1>16, <1>17 DEF IInv, Messages

LEMMA UnreadKeeps == IInv /\ Unread => IInv'
BY UnreadEffect, QuietKeeps DEF IInv, TypeInv

(***************************************************************************)
(* The ends of the calls.                                                  *)
(***************************************************************************)

\* A step of the script is taken, ...
LEMMA RestTail ==
  ASSUME NEW s, Rest(s), s # <<>>
  PROVE  /\ Head(s) \in Steps /\ Rest(Tail(s))
         /\ NextIs(Tail(s), ConnectCalls) => Head(s).name = "open"
         /\ NextIs(Tail(s), {"open"}) => Head(s).name = "close"
         /\ NextIs(Tail(s), {"close"}) => Head(s).name \in {"disconnect", "await"}
         /\ NoneAfterClean(s) => NoneAfterClean(Tail(s))
         /\ CleanFromNow(s) => CleanFromNow(Tail(s))
<1> DEFINE t == Tail(s)
<1>1. /\ s \in Seq(Steps) /\ t \in Seq(Steps)
      /\ Len(s) \in Nat \ {0} /\ 1 \in 1 .. Len(s)
      /\ Head(s) = s[1] /\ s[1] \in Steps
      /\ Len(t) = Len(s) - 1
      /\ \A i \in 1 .. Len(t) : i + 1 \in 1 .. Len(s) /\ t[i] = s[i + 1]
      /\ t # <<>> => Head(t) = t[1] /\ Len(s) \in Nat /\ Len(s) >= 2 /\ 1 \in 1 .. Len(t)
  BY DEF Rest
<1> HIDE DEF t
<1>2. Arguments(t)
  BY <1>1 DEF Rest, Arguments
<1>3. \A i \in 1 .. Len(t) : Connects(t, i) => Connects(s, i + 1)
  BY <1>1 DEF Connects
<1>4. KeptOnce(t)
  <2> SUFFICES ASSUME NEW i \in 1 .. Len(t), NEW j \in 1 .. Len(t), NEW k \in 1 .. Len(t),
                      i < j, j < k, Connects(t, i), Connects(t, j), Connects(t, k)
               PROVE  ~(t[i].arg = 0 /\ t[j].arg = 1 /\ t[k].arg = 0)
    BY DEF KeptOnce
  <2>1. /\ i + 1 \in 1 .. Len(s) /\ j + 1 \in 1 .. Len(s) /\ k + 1 \in 1 .. Len(s)
        /\ Connects(s, i + 1) /\ Connects(s, j + 1) /\ Connects(s, k + 1)
        /\ i + 1 < j + 1 /\ j + 1 < k + 1
    BY <1>1, <1>3
  <2>2. ~(s[i + 1].arg = 0 /\ s[j + 1].arg = 1 /\ s[k + 1].arg = 0)
    BY <2>1 DEF Rest, KeptOnce
  <2> QED BY <1>1, <2>2
<1>5. ASSUME NEW i \in 2 .. Len(t) PROVE OrderAfter(t, i)
  <2>1. OrderAfter(s, i + 1) /\ (i + 1) - 1 = i
    BY <1>1 DEF Rest, InOrderFrom2
  <2>2. t[i] = s[i + 1] /\ t[i - 1] = s[i]
    BY <1>1
  <2> QED BY <2>1, <2>2 DEF OrderAfter
<1>6. ASSUME t # <<>> PROVE Head(t) = s[2] /\ OrderAfter(s, 2) /\ 2 - 1 = 1
  BY <1>1, <1>6 DEF Rest, InOrderFrom2
<1>7. /\ NextIs(t, ConnectCalls) => Head(s).name = "open"
      /\ NextIs(t, {"open"}) => Head(s).name = "close"
      /\ NextIs(t, {"close"}) => Head(s).name \in {"disconnect", "await"}
  BY <1>1, <1>6 DEF NextIs, OrderAfter
<1>8. NoneAfterClean(s) => NoneAfterClean(t)
  BY <1>1, <1>3, SMTT(30) DEF NoneAfterClean
<1>9. CleanFromNow(s) => CleanFromNow(t)
  BY <1>1, <1>3 DEF CleanFromNow
<1> QED BY <1>1, <1>2, <1>4, <1>5, <1>7, <1>8, <1>9 DEF Rest, InOrderFrom2, t

\* ... or the script is left.
LEMMA ScriptLeft ==
  script' = <<>> => ScriptInv' /\ script' \in Seq(Steps)
<1> SUFFICES ASSUME script' = <<>> PROVE ScriptInv' /\ script' \in Seq(Steps)
  OBVIOUS
<1>1. Len(script') = 0 /\ 1 .. Len(script') = {} /\ 2 .. Len(script') = {}
      /\ script' \in Seq(Steps)
  OBVIOUS
<1>2. Rest(script') /\ NoneAfterClean(script') /\ CleanFromNow(script')
  BY <1>1 DEF Rest, InOrderFrom2, Arguments, KeptOnce, NoneAfterClean, CleanFromNow
<1>3. OrderAtHead'
  BY DEF OrderAtHead, NextIs
<1> QED BY <1>1, <1>2, <1>3 DEF ScriptInv

\* A handler is set or removed.
LEMMA SetHandlerEffect ==
  ASSUME Types, Bounded, NEW f \in Filter, NEW h \in 0 .. 2, h = 0 \/ HasSlot(client, f),
         client' = setMessageHandler(client, f, h)
  PROVE  /\ client' \in ClientRecords /\ Bounded'
         /\ Handled' = IF h = 0 THEN Handled \ {f} ELSE Handled \union {f}
         /\ client'.isconnected = client.isconnected /\ client'.cleansession = client.cleansession
         /\ client'.inflight = client.inflight /\ client'.incoming = client.incoming
<1>1. /\ client' \in ClientRecords
      /\ client'.handlers = [client.handlers EXCEPT ![f] = h]
      /\ client'.isconnected = client.isconnected /\ client'.cleansession = client.cleansession
      /\ client'.inflight = client.inflight /\ client'.incoming = client.incoming
  BY DEF Types, ClientRecords, setMessageHandler
<1>2. Handled' = IF h = 0 THEN Handled \ {f} ELSE Handled \union {f}
  BY <1>1 DEF Handled, Types, ClientRecords
<1>3. IsFiniteSet(Handled) /\ Handled \subseteq Filter /\ Cardinality(Handled) \in Nat
  <2>1. Handled \subseteq Filter
    BY DEF Handled
  <2> QED BY <2>1, CppClientAssumption, FS_Subset, FS_CardinalityType
<1>4. Cardinality(Handled) <= MaxHandlers
  BY DEF Bounded, Handled
<1>5. Cardinality(Handled') <= MaxHandlers
  <2>1. CASE h = 0
    <3>1. Handled' \subseteq Handled
      BY <1>2, <2>1
    <3>2. Cardinality(Handled') <= Cardinality(Handled) /\ Cardinality(Handled') \in Nat
      BY <1>3, <3>1, FS_Subset, FS_CardinalityType
    <3> QED BY <1>3, <1>4, <3>2, CppClientAssumption
  <2>2. CASE h # 0 /\ f \in Handled
    <3>1. Handled' = Handled
      BY <1>2, <2>2
    <3> QED BY <1>4, <3>1
  <2>3. CASE h # 0 /\ f \notin Handled
    <3>1. Handled' = Handled \union {f}
      BY <1>2, <2>3
    <3>2. Cardinality(Handled) < MaxHandlers
      BY <2>3 DEF HasSlot, Handled
    <3>3. Cardinality(Handled') = Cardinality(Handled) + 1
      BY <1>3, <2>3, <3>1, FS_AddElement
    <3> QED BY <1>3, <3>2, <3>3, CppClientAssumption
  <2> QED BY <2>1, <2>2, <2>3
<1>6. Bounded'
  BY <1>1, <1>5 DEF Bounded, Handled
<1> QED BY <1>1, <1>2, <1>6

\* What is left to show of a call that returns.
ReturnsWell ==
  /\ call.name # "none" /\ call' = Idle
  /\ net' = net /\ server' = server /\ troubles' = troubles
  /\ seen' \in SeenRecords /\ seen'.delivered = seen.delivered /\ seen'.dropped = seen.dropped
  /\ seen'.left = seen.left /\ seen'.again = seen.again
  /\ seen'.accepted = seen.accepted /\ seen'.confirmed \subseteq seen.accepted
  /\ client' \in ClientRecords /\ Bounded'
  /\ client'.inflight = NoPacket \/ PublishOf(client'.inflight)
  /\ client'.cleansession = client.cleansession
  /\ client'.incoming = client.incoming \/ (client.cleansession /\ client'.incoming = {})
  /\ script' \in Seq(Steps) /\ ScriptInv'
  /\ client'.isconnected =>
       /\ call.name \in Talks \/ client.isconnected
       /\ server.up \/ Lost
       /\ Asked = {} /\ Replied = {} /\ (client'.inflight = NoPacket \/ Lost)
       /\ server.up /\ server.clean => server.subs \subseteq Handled'
  /\ ~client.cleansession =>
       \A p \in Sending : p.type = "PUBLISH" /\ p.qos > 0 => p = client'.inflight
  /\ client'.isconnected /\ (KeptSession \/ (server.up /\ server.clean)) => server.received = {}
  /\ KeptSession => \A id \in server.received : /\ client'.inflight.id = id /\ client'.inflight.qos = 2
                                                /\ client'.inflight.what \in seen.accepted

LEMMA ReturnKeeps == IInv /\ ReturnsWell => IInv'
<1> SUFFICES ASSUME IInv, ReturnsWell PROVE IInv'
  OBVIOUS
<1>1. /\ TypeInv /\ ConnectionInv /\ ExchangeInv /\ Messages /\ Types
  BY DEF IInv, Messages, TypeInv
<1>2. /\ call'.name = "none" /\ call'.state = "none" /\ call' = Idle /\ call' \in CallRecords
      /\ net' = net /\ server' = server
  BY PacketTypes DEF ReturnsWell, Idle, CallRecords, Kinds
<1>3. Sending' = Sending /\ Coming' = Coming /\ Keeping' = Keeping /\ Asked' = Asked /\ Replied' = Replied
  BY <1>2 DEF Sending, Coming, Keeping, Asked, Replied
<1>4. TypeInv'
  <2>1. Types'
    BY <1>1, <1>2 DEF Types, ReturnsWell
  <2>2. CallTypes'
    BY <1>2 DEF CallTypes, Yields, Talks, Exchanges, Publishes, Requests, ConnectCalls
  <2>3. /\ \A p \in Sending' : FromClient(p)'
        /\ \A p \in Coming' : FromServer(p)'
        /\ \A p \in Keeping' : Kept(p)'
        /\ \A n \in seen'.dropped : IsMessage(n)'
    BY <1>1, <1>2, <1>3, PacketsStay DEF TypeInv, ReturnsWell, IsMessage
  <2> QED BY <2>1, <2>2, <2>3 DEF TypeInv, ReturnsWell
<1>5. ConnectionInv'
  <2>1. call'.name \notin Talks /\ call'.name \notin ConnectCalls \union {"resend"}
    BY <1>2 DEF Talks, Exchanges, Publishes, Requests, ConnectCalls
  <2>2. ConnectFirst'
    BY <1>1, <1>2, <1>3 DEF ConnectionInv, ConnectFirst, Flag, ReturnsWell
  <2> QED BY <1>1, <1>2, <1>3, <2>1, <2>2 DEF ConnectionInv, ReturnsWell, Lost, NoneUnderWay
<1>6. ExchangeInv'
  <2>1. call'.name \notin Exchanges /\ call'.name \notin ConnectCalls /\ call'.state # "answered"
    BY <1>2 DEF Exchanges, Publishes, Requests, ConnectCalls
  <2> QED BY <1>1, <1>3, <2>1
          DEF ExchangeInv, OneExchange, QuietWhenSettled, Settled, ReturnsWell
<1>7. InflightInv'
  BY <1>2, <1>3 DEF InflightInv, ReturnsWell, Publishes, Lost, NoneUnderWay
<1>8. ReceivedInv'
  BY <1>2 DEF ReceivedInv, Remembering, Current, KeptSession, ReturnsWell, Publishes, ConnectCalls
<1>9. ConfirmedAccepted'
  BY DEF ConfirmedAccepted, ReturnsWell
<1>10. SubsInv'
  BY <1>2 DEF SubsInv, ReturnsWell, ConnectCalls
<1>11. Messages'
  <2>1. MessagesStay
    BY <1>2, <1>3 DEF MessagesStay, ReturnsWell
  <2> QED BY <1>1, <2>1, MessagesStayEffect
<1>12. ScriptInv'
  BY DEF ReturnsWell
<1> QED BY <1>4, <1>5, <1>6, <1>7, <1>8, <1>9, <1>10, <1>11, <1>12 DEF IInv, Messages

LEMMA ScriptReturns ==
  ASSUME ScriptInv, call.name # "none", call' = Idle, script' = script, server' = server,
         client'.cleansession = client.cleansession,
         call.name = "await" => ~client'.isconnected
  PROVE  ScriptInv'
<1>1. call # Idle
  BY DEF Idle
<1>2. OrderAtHead'
  BY <1>1 DEF ScriptInv, OrderAtHead, NextIs
<1> QED BY <1>2, ScriptStays

\* A queue in which nothing is asked holds no publish to be answered.
LEMMA NothingAsked ==
  Asked = {} => \A p \in Sending : ~Asks(p)
BY DEF Asked, Sending, Elements

LEMMA EndYieldKeeps == IInv /\ EndYield => IInv'
<1> SUFFICES ASSUME IInv, EndYield PROVE IInv'
  OBVIOUS
<1>1. /\ TypeInv /\ ScriptInv /\ ConnectionInv /\ ExchangeInv /\ InflightInv /\ ReceivedInv
      /\ ConfirmedAccepted /\ SubsInv /\ Types
  BY DEF IInv, TypeInv
<1>2. /\ call.name \in Yields /\ call' = Idle
      /\ call.name = "await" => ~client.isconnected
      /\ script' = script /\ client' = client /\ net' = net /\ server' = server /\ seen' = seen
      /\ troubles' = troubles
  BY YieldingEffect DEF EndYield, Returns
<1>3. /\ call.name # "none" /\ call.name \notin Exchanges /\ call.name \notin ConnectCalls
      /\ call.name \notin Publishes /\ call.name # "subscribe"
  BY <1>2 DEF Yields, Exchanges, Publishes, Requests, ConnectCalls
<1>4. ScriptInv'
  BY <1>1, <1>2, <1>3, ScriptReturns
<1>5. client.isconnected => /\ server.up \/ Lost
                            /\ Asked = {} /\ Replied = {} /\ (client.inflight = NoPacket \/ Lost)
  BY <1>1, <1>3 DEF ConnectionInv, ExchangeInv, QuietWhenSettled, Settled, InflightInv
<1>6. client.isconnected /\ server.up /\ server.clean => server.subs \subseteq Handled'
  BY <1>1, <1>2, <1>3 DEF SubsInv, Handled
<1>7. /\ client.isconnected /\ (KeptSession \/ (server.up /\ server.clean)) => server.received = {}
      /\ KeptSession => \A id \in server.received : /\ client.inflight.id = id /\ client.inflight.qos = 2
                                                    /\ client.inflight.what \in seen.accepted
  BY <1>1, <1>3 DEF ReceivedInv, Remembering, Current
<1>8. Bounded'
  BY <1>1, <1>2 DEF TypeInv, Bounded
<1>9. seen.confirmed \subseteq seen.accepted
  BY <1>1 DEF ConfirmedAccepted
<1>10. ReturnsWell
  BY <1>1, <1>2, <1>3, <1>4, <1>5, <1>6, <1>7, <1>8, <1>9 DEF ReturnsWell, TypeInv, Types, InflightInv
<1> QED BY <1>10, ReturnKeeps

LEMMA EndPublishKeeps == IInv /\ EndPublish => IInv'
<1> SUFFICES ASSUME IInv, EndPublish PROVE IInv'
  OBVIOUS
<1>1. /\ TypeInv /\ ScriptInv /\ ConnectionInv /\ ExchangeInv /\ InflightInv /\ ReceivedInv
      /\ ConfirmedAccepted /\ SubsInv /\ Types /\ CallTypes
  BY DEF IInv, TypeInv
<1>2. /\ call.name \in Publishes /\ call' = Idle /\ call.state \in {"answered", "failed"}
      /\ net' = net /\ server' = server /\ troubles' = troubles
  BY DEF EndPublish, Returns, Publishes
<1>3. /\ call.name # "none" /\ call.name \in Exchanges /\ call.name \in Talks
      /\ call.name \in {"publish", "resend"} /\ call.name # "await"
  BY <1>2 DEF Exchanges, Publishes, Talks
<1>4. CASE call.state = "answered"
  <2> DEFINE freed == [client EXCEPT !.inflight = IF @.id = Answer.id THEN NoPacket ELSE @]
  <2>1. /\ client' = IF call.name = "publish" THEN freed
                     ELSE [freed EXCEPT !.isconnected = TRUE, !.ping_outstanding = FALSE]
        /\ seen' = [seen EXCEPT !.confirmed = @ \union {call.packet.what}]
        /\ script' = script
    BY <1>4 DEF EndPublish, Answered
  <2>2. /\ freed \in ClientRecords
        /\ freed.inflight = IF client.inflight.id = Answer.id THEN NoPacket ELSE client.inflight
        /\ freed.cleansession = client.cleansession /\ freed.incoming = client.incoming
        /\ freed.handlers = client.handlers /\ freed.isconnected = client.isconnected
    BY <1>1, PacketTypes DEF Types, ClientRecords
  <2> HIDE DEF freed
  <2>3. /\ client' \in ClientRecords
        /\ client'.inflight = IF client.inflight.id = Answer.id THEN NoPacket ELSE client.inflight
        /\ client'.cleansession = client.cleansession /\ client'.incoming = client.incoming
        /\ client'.handlers = client.handlers
        /\ client'.isconnected => client.isconnected \/ call.name = "resend"
    BY <1>3, <2>1, <2>2 DEF ClientRecords
  <2>4. /\ Answer.type = call.want /\ AnswersTo(Answer) /\ Asked = {} /\ Replied = {}
    BY <1>1, <1>3, <1>4 DEF ExchangeInv, QuietWhenSettled, Settled, Answer
  <2>5. /\ Answer.id = call.packet.id \/ Lost
        /\ call.packet.what \in seen.accepted
        /\ Answer.type \in {"PUBACK", "PUBCOMP"}
        /\ call.packet.qos = 2 => call.packet.id \notin server.received
    BY <1>1, <1>3, <2>4 DEF AnswersTo, CallTypes, Publishes, PublishOf
  <2>6. server.up \/ Lost
    BY <1>1, <1>3, <1>4, <2>5 DEF ConnectionInv, Refused, Answer
  <2>7. /\ client'.inflight = NoPacket \/ Lost
        /\ client'.inflight = NoPacket \/ PublishOf(client'.inflight)
    BY <1>1, <1>2, <2>3, <2>5 DEF InflightInv, TypeInv
  <2>8. ScriptInv'
    BY <1>1, <1>2, <1>3, <2>1, <2>3, ScriptReturns
  <2>9. Handled' = Handled
    BY <2>3 DEF Handled
  <2>10. client'.isconnected /\ server.up /\ server.clean => server.subs \subseteq Handled'
    BY <1>1, <1>3, <2>3, <2>9 DEF SubsInv
  <2>11. Remembering => server.received = {}
    BY <1>1, <1>2, <2>5 DEF ReceivedInv, Current
  <2>12. KeptSession \/ (server.up /\ server.clean) => server.received = {}
    BY <1>2, <2>11 DEF Remembering
  <2>13. seen' \in SeenRecords /\ seen'.confirmed \subseteq seen.accepted
    BY <1>1, <2>1, <2>5 DEF Types, SeenRecords, ConfirmedAccepted
  <2>14. Bounded'
    BY <1>1, <2>3 DEF TypeInv, Bounded
  <2>15. \A p \in Sending : ~(p.type = "PUBLISH" /\ p.qos > 0)
    BY <2>4, NothingAsked DEF Asks
  <2>16. /\ seen'.delivered = seen.delivered /\ seen'.dropped = seen.dropped
         /\ seen'.left = seen.left /\ seen'.again = seen.again /\ seen'.accepted = seen.accepted
    BY <1>1, <2>1 DEF Types, SeenRecords
  <2>17. ReturnsWell
    BY <1>1, <1>2, <1>3, <2>1, <2>3, <2>4, <2>6, <2>7, <2>8, <2>10, <2>12, <2>13, <2>14, <2>15, <2>16
    DEF ReturnsWell, Types
  <2> QED BY <2>17, ReturnKeeps
<1>5. CASE call.state = "failed"
  <2>1. /\ client' = closeSession(client) /\ seen' = seen
        /\ script' = IF call.name = "publish" THEN Unawaited(script, call.packet.qos) ELSE script
    BY <1>5 DEF EndPublish, Answered
  <2>2. client' \in ClientRecords /\ EndedSession(client, client')
    BY <1>1, <2>1, CloseSessionEffect DEF Types
  <2>3. Bounded' /\ (client'.inflight = NoPacket \/ PublishOf(client'.inflight))
    BY <1>1, <2>2, SessionTypes
  <2>4. ScriptInv' /\ script' \in Seq(Steps)
    <3>1. CASE script' = script
      BY <1>1, <1>2, <1>3, <2>2, <3>1, ScriptReturns DEF EndedSession, Types
    <3>2. CASE script # <<>> /\ Head(script).name = "arrive" /\ script' = Tail(script)
      <4>1. /\ ~NextIs(script', ConnectCalls) /\ ~NextIs(script', {"open"})
            /\ ~NextIs(script', {"close"}) /\ Rest(script')
            /\ NoneAfterClean(script) => NoneAfterClean(script')
            /\ CleanFromNow(script) => CleanFromNow(script')
        BY <1>1, <3>2, RestTail DEF ScriptInv
      <4>2. OrderAtHead'
        BY <4>1 DEF OrderAtHead
      <4> QED BY <1>1, <1>2, <2>2, <4>1, <4>2 DEF ScriptInv, Rest, EndedSession
    <3> QED BY <2>1, <3>1, <3>2 DEF Unawaited
  <2>5. ~client.cleansession => client'.inflight = call.packet /\ client.inflight = call.packet
    BY <1>1, <1>3, <2>2 DEF EndedSession, InflightInv
  <2>6. ~client.cleansession =>
          \A p \in Sending : p.type = "PUBLISH" /\ p.qos > 0 => p = client'.inflight
    BY <1>1, <2>5 DEF InflightInv
  <2>7. KeptSession => \A id \in server.received :
          /\ client'.inflight.id = id /\ client'.inflight.qos = 2
          /\ client'.inflight.what \in seen.accepted
    BY <1>1, <1>2, <2>5 DEF ReceivedInv, Remembering, Current, KeptSession
  <2>8. ReturnsWell
    BY <1>1, <1>2, <1>3, <2>1, <2>2, <2>3, <2>4, <2>6, <2>7
    DEF ReturnsWell, Types, EndedSession, ConfirmedAccepted
  <2> QED BY <2>8, ReturnKeeps
<1> QED BY <1>2, <1>4, <1>5

LEMMA EndRequestKeeps == IInv /\ EndRequest => IInv'
<1> SUFFICES ASSUME IInv, EndRequest PROVE IInv'
  OBVIOUS
<1>1. /\ TypeInv /\ ScriptInv /\ ConnectionInv /\ ExchangeInv /\ InflightInv /\ ReceivedInv
      /\ ConfirmedAccepted /\ SubsInv /\ Types /\ CallTypes /\ Bounded
  BY DEF IInv, TypeInv
<1>2. /\ call.name \in Requests /\ call' = Idle /\ call.state \in {"answered", "failed"}
      /\ script' = script /\ net' = net /\ server' = server /\ seen' = seen /\ troubles' = troubles
  BY DEF EndRequest, Returns, Requests
<1>3. /\ call.name # "none" /\ call.name \in Exchanges /\ call.name \in Talks
      /\ call.name \in {"subscribe", "unsubscribe"} /\ call.name # "await"
      /\ call.name \notin Publishes /\ call.packet.what \in Filter
  BY <1>1, <1>2 DEF Exchanges, Publishes, Requests, Talks, CallTypes
\* Whether or not the session goes on.
<1>4. ASSUME client' \in ClientRecords, SameSession(client, client') \/ EndedSession(client, client')
             \/ (\E h \in 0 .. 2 : /\ h = 0 \/ HasSlot(client, call.packet.what)
                                   /\ client' = setMessageHandler(client, call.packet.what, h)),
             client'.isconnected /\ server.up /\ server.clean => server.subs \subseteq Handled',
             client'.isconnected => call.state = "answered"
      PROVE  IInv'
  <2>1. CASE EndedSession(client, client')
    <3>1. Bounded' /\ (client'.inflight = NoPacket \/ PublishOf(client'.inflight))
      BY <1>1, <2>1, SessionTypes
    <3>2. ScriptInv'
      BY <1>1, <1>2, <1>3, <2>1, ScriptReturns DEF EndedSession
    <3>3. ~client.cleansession =>
            \A p \in Sending : p.type = "PUBLISH" /\ p.qos > 0 => p = client'.inflight
      BY <1>1, <2>1 DEF InflightInv, EndedSession
    <3>4. KeptSession => \A id \in server.received :
            /\ client'.inflight.id = id /\ client'.inflight.qos = 2
            /\ client'.inflight.what \in seen.accepted
      BY <1>1, <1>3, <2>1 DEF ReceivedInv, Remembering, Current, KeptSession, EndedSession
    <3>5. ReturnsWell
      BY <1>1, <1>2, <1>3, <1>4, <2>1, <3>1, <3>2, <3>3, <3>4
      DEF ReturnsWell, Types, EndedSession, ConfirmedAccepted
    <3> QED BY <3>5, ReturnKeeps
  <2>2. CASE ~EndedSession(client, client')
    <3>1. /\ client'.isconnected = client.isconnected /\ client'.cleansession = client.cleansession
          /\ client'.inflight = client.inflight /\ client'.incoming = client.incoming /\ Bounded'
      <4>1. CASE SameSession(client, client')
        BY <1>1, <4>1 DEF SameSession, Bounded
      <4>2. ASSUME NEW h \in 0 .. 2, h = 0 \/ HasSlot(client, call.packet.what),
                   client' = setMessageHandler(client, call.packet.what, h)
            PROVE  /\ client'.isconnected = client.isconnected /\ client'.cleansession = client.cleansession
                   /\ client'.inflight = client.inflight /\ client'.incoming = client.incoming /\ Bounded'
        BY <1>1, <1>3, <4>2, SetHandlerEffect
      <4> QED BY <1>4, <2>2, <4>1, <4>2
    <3>2. ScriptInv'
      BY <1>1, <1>2, <1>3, <3>1, ScriptReturns
    <3>3. client'.isconnected =>
            /\ server.up \/ Lost
            /\ Asked = {} /\ Replied = {} /\ (client'.inflight = NoPacket \/ Lost)
      BY <1>1, <1>3, <1>4, <3>1 DEF ConnectionInv, ExchangeInv, QuietWhenSettled, Settled, InflightInv
    <3>4. /\ client'.isconnected /\ (KeptSession \/ (server.up /\ server.clean)) => server.received = {}
          /\ KeptSession => \A id \in server.received :
               /\ client'.inflight.id = id /\ client'.inflight.qos = 2
               /\ client'.inflight.what \in seen.accepted
      BY <1>1, <1>3, <3>1 DEF ReceivedInv, Remembering, Current
    <3>5. ReturnsWell
      BY <1>1, <1>2, <1>3, <1>4, <3>1, <3>2, <3>3, <3>4
      DEF ReturnsWell, Types, ConfirmedAccepted, InflightInv, TypeInv
    <3> QED BY <3>5, ReturnKeeps
  <2> QED BY <2>1, <2>2
<1>5. CASE call.state = "failed"
  <2>1. client' = closeSession(client)
    BY <1>5 DEF EndRequest, Answered
  <2>2. client' \in ClientRecords /\ EndedSession(client, client')
    BY <1>1, <2>1, CloseSessionEffect DEF Types
  <2> QED BY <1>4, <2>2 DEF EndedSession
<1>6. CASE call.state = "answered" /\ call.name = "unsubscribe"
  <2>1. client' = setMessageHandler(client, call.packet.what, 0)
    BY <1>6 DEF EndRequest, Answered
  <2>2. /\ client' \in ClientRecords /\ Handled' = Handled \ {call.packet.what}
        /\ client'.isconnected = client.isconnected
    BY <1>1, <1>3, <2>1, SetHandlerEffect
  <2>3. client'.isconnected /\ server.up /\ server.clean => server.subs \subseteq Handled'
    BY <1>1, <1>6, <2>2 DEF SubsInv, Removed
  <2> QED BY <1>4, <1>6, <2>1, <2>2, <2>3
<1>7. CASE call.state = "answered" /\ call.name = "subscribe" /\ Answer.what = 0
  <2>1. client' = client
    BY <1>7 DEF EndRequest, Answered
  <2>2. client.isconnected /\ server.up /\ server.clean => server.subs \subseteq Handled'
    BY <1>1, <1>7, <2>1 DEF SubsInv, Unsubscribed, Answer, Handled
  <2> QED BY <1>1, <1>4, <1>7, <2>1, <2>2 DEF SameSession, Types
<1>8. CASE /\ call.state = "answered" /\ call.name = "subscribe" /\ Answer.what # 0
           /\ HasSlot(client, call.packet.what)
  <2>1. client' = setMessageHandler(client, call.packet.what, call.arg) /\ call.arg \in {1, 2}
    BY <1>1, <1>8 DEF EndRequest, Answered, CallTypes
  <2>2. /\ client' \in ClientRecords /\ Handled' = Handled \union {call.packet.what}
        /\ client'.isconnected = client.isconnected
    BY <1>1, <1>3, <1>8, <2>1, SetHandlerEffect
  <2>3. client'.isconnected /\ server.up /\ server.clean => server.subs \subseteq Handled'
    BY <1>1, <1>8, <2>2 DEF SubsInv
  <2> QED BY <1>4, <1>8, <2>1, <2>2, <2>3
<1>9. CASE /\ call.state = "answered" /\ call.name = "subscribe" /\ Answer.what # 0
           /\ ~HasSlot(client, call.packet.what)
  <2>1. client' = closeSession(client)
    BY <1>9 DEF EndRequest, Answered
  <2>2. client' \in ClientRecords /\ EndedSession(client, client')
    BY <1>1, <2>1, CloseSessionEffect DEF Types
  <2> QED BY <1>4, <2>2 DEF EndedSession
<1> QED BY <1>2, <1>3, <1>5, <1>6, <1>7, <1>8, <1>9

\* connect returns, ...
LEMMA EndConnectReturns ==
  ASSUME IInv, EndConnect, call' = Idle
  PROVE  IInv'
<1>1. /\ TypeInv /\ ScriptInv /\ ConnectionInv /\ ExchangeInv /\ InflightInv /\ ReceivedInv
      /\ ConfirmedAccepted /\ SubsInv /\ Types /\ CallTypes /\ Bounded
  BY DEF IInv, TypeInv
<1>2. /\ call.name \in ConnectCalls /\ server' = server /\ seen' = seen /\ troubles' = troubles
  BY DEF EndConnect, ConnectCalls
<1>3. /\ call.name # "none" /\ call.name \notin Exchanges /\ call.name \in Talks
      /\ call.name # "await" /\ call.name \notin Publishes /\ ~client.isconnected
      /\ Asked = {} /\ Replied = {}
  BY <1>1, <1>2 DEF Exchanges, Publishes, Requests, Talks, ConnectCalls, ConnectionInv,
                    ExchangeInv, QuietWhenSettled, Settled
<1>4. CASE client.inflight = NoPacket
  <2> DEFINE ok == Answered /\ Answer.what = 1
  <2>1. /\ client' = IF ok THEN [client EXCEPT !.isconnected = TRUE, !.ping_outstanding = FALSE]
                     ELSE client
        /\ script' \in {script, <<>>} /\ net' = net
    BY <1>4 DEF EndConnect
  <2>2. /\ client' \in ClientRecords
        /\ client'.handlers = client.handlers /\ client'.incoming = client.incoming
        /\ client'.inflight = client.inflight /\ client'.cleansession = client.cleansession
        /\ client'.isconnected => ok
    BY <1>1, <1>3, <2>1 DEF Types, ClientRecords
  <2>3. client'.isconnected => server.up \/ Lost
    BY <1>1, <1>3, <2>2 DEF ConnectionInv, Refused, Answered, Answer
  <2>4. client'.isconnected /\ server.up /\ server.clean => server.subs \subseteq Handled'
    BY <1>1, <1>2 DEF SubsInv
  <2>5. ScriptInv' /\ script' \in Seq(Steps)
    BY <1>1, <1>2, <1>3, <2>1, <2>2, ScriptLeft, ScriptReturns DEF Types
  <2>6. Bounded'
    BY <1>1, <2>2 DEF Bounded
  <2>7. KeptSession \/ (server.up /\ server.clean) => server.received = {}
    BY <1>1, <1>2, <1>3, <1>4 DEF ReceivedInv, Remembering, Current, NoPacket, Packet
  <2>8. ReturnsWell
    BY <1>1, <1>2, <1>3, <1>4, <2>1, <2>2, <2>3, <2>4, <2>5, <2>6, <2>7
    DEF ReturnsWell, Types, ConfirmedAccepted, InflightInv
  <2> QED BY <2>8, ReturnKeeps
<1>5. CASE client.inflight # NoPacket
  <2>1. client' = closeSession(client) /\ script' = script /\ net' = net
    <3>1. CanSend => call' # Idle
      BY <1>5 DEF EndConnect, Wait, Idle
    <3> QED BY <1>5, <3>1 DEF EndConnect
  <2>2. client' \in ClientRecords /\ EndedSession(client, client')
    BY <1>1, <2>1, CloseSessionEffect DEF Types
  <2>3. Bounded' /\ (client'.inflight = NoPacket \/ PublishOf(client'.inflight))
    BY <1>1, <2>2, SessionTypes
  <2>4. ScriptInv'
    BY <1>1, <1>2, <1>3, <2>1, <2>2, ScriptReturns DEF EndedSession
  <2>5. ~client.cleansession => \A p \in Sending : p.type = "PUBLISH" /\ p.qos > 0 => p = client'.inflight
    BY <1>1, <2>2 DEF InflightInv, EndedSession
  <2>6. KeptSession => \A id \in server.received :
          /\ client'.inflight.id = id /\ client'.inflight.qos = 2
          /\ client'.inflight.what \in seen.accepted
    BY <1>1, <1>3, <2>2 DEF ReceivedInv, Remembering, Current, KeptSession, EndedSession
  <2>7. ReturnsWell
    BY <1>1, <1>2, <1>3, <2>1, <2>2, <2>3, <2>4, <2>5, <2>6
    DEF ReturnsWell, Types, EndedSession, ConfirmedAccepted
  <2> QED BY <2>7, ReturnKeeps
<1> QED BY <1>4, <1>5

(***************************************************************************)
(* The calls that ask.                                                     *)
(***************************************************************************)

\* What is left to show of a call that begins to wait for the answer to a packet.
AsksWell(q) ==
  /\ call' \in CallRecords /\ CallTypes' /\ call'.name \in Exchanges /\ call'.state = "waiting"
  /\ call'.packet = q /\ q \in Packets /\ q.type \in {"PUBLISH", "SUBSCRIBE", "UNSUBSCRIBE"}
  /\ FromClient(q)
  /\ net' \in NetRecords
  /\ net' = net \/ OnItsWay(net, net', q)
  /\ server' = server /\ seen' = seen /\ troubles' = troubles
  /\ client' \in ClientRecords
  /\ client'.isconnected = client.isconnected /\ client'.cleansession = client.cleansession
  /\ client'.handlers = client.handlers /\ client'.incoming = client.incoming
  /\ script' \in Seq(Steps) /\ ScriptInv'
  /\ Asked = {} /\ Replied = {}
  /\ \A p \in Sending : p.type # "DISCONNECT"
  /\ ~server.up => \A p \in Coming : Refused(p)
  /\ client'.inflight = NoPacket \/ PublishOf(client'.inflight)
  /\ call'.name = "resend" => client'.inflight = q /\ ~client.isconnected
  /\ call'.name = "publish" => IF client.cleansession THEN client'.inflight = NoPacket \/ Lost
                               ELSE client'.inflight = q
  /\ call'.name \in Requests => (client'.inflight = NoPacket \/ Lost) /\ q.type # "PUBLISH"
  /\ ReceivedInv'
  /\ server.up /\ server.clean /\ call'.name = "resend" => server.subs = {}
  /\ server.up /\ server.clean /\ client.isconnected => server.subs \subseteq Handled

LEMMA AskKeeps ==
  ASSUME IInv, NEW q, AsksWell(q)
  PROVE  IInv'
<1>1. /\ TypeInv /\ ConnectionInv /\ ExchangeInv /\ InflightInv /\ SubsInv /\ Messages /\ Types
      /\ ConfirmedAccepted
  BY DEF IInv, Messages, TypeInv
<1>2. /\ q \in Packets /\ NetMoves(q)
      /\ server' = server /\ seen' = seen
      /\ call'.name \in Exchanges /\ call'.state = "waiting" /\ call'.packet = q
      /\ call'.name \in Talks /\ call'.name \notin ConnectCalls
      /\ q.type \in {"PUBLISH", "SUBSCRIBE", "UNSUBSCRIBE"}
      /\ Lost => Lost'
  BY DEF AsksWell, NetMoves, OnItsWay, Lost, NoneUnderWay, Talks, Exchanges, Publishes, Requests,
         ConnectCalls
<1>3. /\ Sending' \subseteq Sending \union {q} /\ Coming' \subseteq Coming
      /\ net'.toClient \in {net.toClient, <<>>}
      /\ \A i \in 1 .. Len(net'.toServer) :
           \/ i \in 1 .. Len(net.toServer) /\ net'.toServer[i] = net.toServer[i]
           \/ i = Len(net.toServer) + 1 /\ net'.toServer[i] = q
      /\ Replied' \subseteq Replied
  BY <1>1, <1>2, NetMovesEffect
<1>4. Replied' = {} /\ \A p \in Coming' : ~Answers(p)
  <2>1. \A p \in Coming : ~Answers(p)
    BY DEF AsksWell, Replied, Coming, Elements
  <2> QED BY <1>3, <2>1 DEF AsksWell
<1>5. \A i \in Asked' : i = Len(net.toServer) + 1
  BY <1>3 DEF AsksWell, Asked
<1>6. \A p \in Sending' : Asks(p) => p = q
  BY <1>3, NothingAsked DEF AsksWell
<1>7. TypeInv'
  <2>1. Bounded'
    BY <1>1 DEF AsksWell, Bounded, TypeInv
  <2>2. Types'
    BY <1>1 DEF AsksWell, Types
  <2>3. /\ \A p \in Sending' : FromClient(p)'
        /\ \A p \in Coming' : FromServer(p)'
        /\ \A p \in Keeping' : Kept(p)'
        /\ \A n \in seen'.dropped : IsMessage(n)'
    BY <1>1, <1>2, <1>3, PacketsStay DEF TypeInv, AsksWell, Keeping, IsMessage
  <2> QED BY <2>1, <2>2, <2>3 DEF TypeInv, AsksWell
<1>8. ConnectionInv'
  <2>1. ConnectFirst'
    BY <1>1, <1>2, <1>3 DEF ConnectionInv, ConnectFirst, Flag, AsksWell
  <2> QED BY <1>1, <1>2, <1>3, <2>1 DEF ConnectionInv, AsksWell
<1>9. ExchangeInv'
  <2>1. OneExchange'
    BY <1>4, <1>5 DEF OneExchange
  <2>2. ~Settled'
    BY <1>2 DEF Settled
  <2>3. AsksFor(q)'
    BY <1>2 DEF AsksFor
  <2> QED BY <1>2, <1>4, <1>6, <2>1, <2>2, <2>3 DEF ExchangeInv, QuietWhenSettled
<1>10. InflightInv'
  <2>1. ~client.cleansession => \A p \in Sending' : p.type = "PUBLISH" /\ p.qos > 0 => p = client'.inflight
    BY <1>2, <1>6 DEF AsksWell, Asks, Exchanges, Publishes, Requests
  <2> QED BY <1>2, <2>1 DEF InflightInv, AsksWell, Exchanges, Publishes, Requests
<1>11. SubsInv'
  <2>1. Handled' = Handled
    BY DEF AsksWell, Handled
  <2>2. ~Removed'
    BY <1>2, <1>4 DEF Removed, Answers
  <2> QED BY <1>1, <1>2, <2>1, <2>2 DEF SubsInv, AsksWell
<1>12. Messages'
  <2>1. MessagesStay
    BY <1>2, <1>3 DEF MessagesStay, AsksWell
  <2> QED BY <1>1, <2>1, MessagesStayEffect
<1>13. ConfirmedAccepted' /\ ScriptInv' /\ ReceivedInv'
  BY <1>1, <1>2 DEF ConfirmedAccepted, AsksWell
<1> QED BY <1>7, <1>8, <1>9, <1>10, <1>11, <1>12, <1>13 DEF IInv, Messages

\* ... or sends the publish that is kept.
LEMMA EndConnectResends ==
  ASSUME IInv, EndConnect, call' # Idle
  PROVE  IInv'
<1> DEFINE q == client.inflight
<1>1. /\ TypeInv /\ ScriptInv /\ ConnectionInv /\ ExchangeInv /\ InflightInv /\ ReceivedInv
      /\ SubsInv /\ Types
  BY DEF IInv, TypeInv
<1>2. /\ call.name \in ConnectCalls /\ call.state \in {"answered", "failed"}
      /\ server' = server /\ seen' = seen /\ troubles' = troubles
      /\ client' = Sent(client) /\ net' = OnWire(net, q) /\ script' = script
      /\ Wait("resend", IF q.qos = 1 THEN "PUBACK" ELSE "PUBCOMP", q, 0)
      /\ q # NoPacket
  BY DEF EndConnect, ConnectCalls, Returns
<1>3. /\ q \in Packets /\ PublishOf(q) /\ FromClient(q)
  BY <1>1, <1>2 DEF TypeInv, Types, ClientRecords, PublishOf, FromClient, ClientKinds
<1>4. /\ call' = [name |-> "resend", state |-> "waiting",
                  want |-> IF q.qos = 1 THEN "PUBACK" ELSE "PUBCOMP", packet |-> q, arg |-> 0,
                  answer |-> NoPacket]
  BY <1>2 DEF Wait
<1>5. call' \in CallRecords
  BY <1>3, <1>4, PacketTypes
  DEF CallRecords, Kinds, ClientKinds, ServerKinds, Talks, Exchanges, Publishes
<1>6. CallTypes'
  BY <1>3, <1>4 DEF CallTypes, Yields, ConnectCalls, Publishes
<1>7. /\ ~client.isconnected /\ Asked = {} /\ Replied = {} /\ call.name \in Talks
      /\ call.name \notin Publishes /\ call # Idle /\ call.name # "await"
  BY <1>1, <1>2 DEF ConnectionInv, ExchangeInv, QuietWhenSettled, Settled, Talks, Exchanges,
                    Publishes, ConnectCalls, Idle
<1>8. client' \in ClientRecords /\ SameSession(client, client')
  BY <1>1, <1>2, SentEffect DEF Types
<1>9. net' \in NetRecords /\ (net' = net \/ OnItsWay(net, net', q))
  BY <1>1, <1>2, <1>3, OnWireEffect DEF Types
<1>10. ScriptInv' /\ script' \in Seq(Steps)
  <2>1. OrderAtHead'
    BY <1>1, <1>2, <1>7 DEF ScriptInv, OrderAtHead, NextIs
  <2> QED BY <1>1, <1>2, <1>8, <2>1, ScriptStays DEF Types, SameSession
<1>11. ReceivedInv'
  BY <1>1, <1>2, <1>4, <1>7, <1>8
  DEF ReceivedInv, Remembering, Current, KeptSession, SameSession, Publishes
<1>12. /\ \A p \in Sending : p.type # "DISCONNECT"
       /\ ~server.up => \A p \in Coming : Refused(p)
  BY <1>1, <1>7 DEF ConnectionInv
<1>13. server.up /\ server.clean => server.subs = {}
  BY <1>1, <1>2 DEF SubsInv
<1>14. /\ call'.name = "resend" /\ call'.state = "waiting" /\ call'.packet = q
       /\ call'.name \in Exchanges /\ call'.name \notin Requests /\ q.type = "PUBLISH"
  BY <1>3, <1>4 DEF Exchanges, Publishes, Requests, PublishOf
<1>15. AsksWell(q)
  BY <1>2, <1>3, <1>5, <1>6, <1>7, <1>8, <1>9, <1>10, <1>11, <1>12, <1>13, <1>14
  DEF AsksWell, SameSession
<1> QED BY <1>15, AskKeeps

LEMMA EndConnectKeeps == IInv /\ EndConnect => IInv'
BY EndConnectReturns, EndConnectResends

(***************************************************************************)
(* The calls that ask nothing.                                             *)
(***************************************************************************)

\* What is left to show of a step of the application that begins or makes such a call.
StaysWell(p) ==
  /\ call.name \notin Talks /\ call'.name \notin Talks /\ call'.state # "answered"
  /\ call' \in CallRecords /\ CallTypes'
  /\ p \in Packets /\ FromClient(p) /\ ~Asks(p)
  /\ p.type \notin {"CONNECT", "PUBACK", "PUBREC", "PUBCOMP"}
  /\ p.type = "DISCONNECT" => ~client'.isconnected
  /\ NetMoves(p) /\ net' \in NetRecords
  /\ server' = server \/ (server' = [server EXCEPT !.up = FALSE] /\ ~client'.isconnected)
  /\ seen' = seen /\ troubles' \in 0 .. MaxTroubles
  /\ client' \in ClientRecords /\ Bounded' /\ client'.cleansession = client.cleansession
  /\ client'.inflight = NoPacket \/ PublishOf(client'.inflight)
  /\ client'.isconnected => /\ client.isconnected /\ client'.inflight \in {client.inflight, NoPacket}
                            /\ client'.handlers = client.handlers /\ (Lost => Lost')
  /\ client.cleansession \/ client'.inflight = client.inflight \/ client.isconnected
  /\ client'.incoming = client.incoming \/ (client.cleansession /\ client'.incoming = {})
  /\ ScriptInv' /\ script' \in Seq(Steps)

\* What holds of a connected client between two exchanges.
LEMMA ConnectedSettled ==
  ASSUME ConnectionInv, ExchangeInv, InflightInv, ReceivedInv, SubsInv,
         client.isconnected, call.name \notin Talks
  PROVE  /\ server.up \/ Lost
         /\ Asked = {} /\ Replied = {} /\ (client.inflight = NoPacket \/ Lost)
         /\ Remembering => server.received = {}
         /\ server.up /\ server.clean => server.subs \subseteq Handled
         /\ \A p \in Sending : p.type # "DISCONNECT"
<1>1. call.name \notin Exchanges /\ call.name \notin Publishes /\ call.name # "subscribe"
  BY DEF Talks, Exchanges, Publishes, Requests
<1>2. /\ server.up \/ Lost
      /\ Asked = {} /\ Replied = {} /\ (client.inflight = NoPacket \/ Lost)
  BY <1>1 DEF ConnectionInv, ExchangeInv, QuietWhenSettled, Settled, InflightInv
<1> QED BY <1>1, <1>2 DEF ConnectionInv, ReceivedInv, SubsInv

LEMMA StayKeeps ==
  ASSUME IInv, NEW p, StaysWell(p)
  PROVE  IInv'
<1>1. /\ TypeInv /\ ConnectionInv /\ ExchangeInv /\ InflightInv /\ ReceivedInv /\ SubsInv
      /\ Messages /\ Types /\ ConfirmedAccepted
  BY DEF IInv, Messages, TypeInv
<1>2. /\ call.name \notin Talks /\ call'.name \notin Talks /\ call'.state # "answered"
      /\ call.name \notin Publishes /\ call'.name \notin Publishes
      /\ call.name \notin Exchanges /\ call'.name \notin Exchanges
      /\ call'.name \notin ConnectCalls /\ call'.name \notin Requests
      /\ call'.name \notin {"publish", "resend", "subscribe", "unsubscribe"}
      /\ p \in Packets /\ ~Asks(p) /\ NetMoves(p) /\ seen' = seen
      /\ p.type \notin {"CONNECT", "PUBACK", "PUBREC", "PUBCOMP"}
      /\ client'.cleansession = client.cleansession
      /\ client'.isconnected => /\ client.isconnected /\ client'.inflight \in {client.inflight, NoPacket}
                                /\ client'.handlers = client.handlers /\ (Lost => Lost')
  BY DEF StaysWell, Talks, Exchanges, Publishes, Requests
<1>3. /\ Sending' \subseteq Sending \union {p} /\ Coming' \subseteq Coming
      /\ net'.toClient \in {net.toClient, <<>>}
      /\ \A i \in 1 .. Len(net'.toServer) :
           \/ i \in 1 .. Len(net.toServer) /\ net'.toServer[i] = net.toServer[i]
           \/ i = Len(net.toServer) + 1 /\ net'.toServer[i] = p
      /\ Asked' \subseteq Asked /\ Replied' \subseteq Replied
  BY <1>1, <1>2, NetMovesEffect
<1>4. /\ server' \in ServerRecords
      /\ server'.pending = server.pending /\ server'.nextId = server.nextId
      /\ server'.clean = server.clean /\ server'.subs = server.subs
      /\ server'.received = server.received
      /\ server'.up => server.up
      /\ client'.isconnected => server'.up = server.up
  BY <1>1 DEF StaysWell, Types, ServerRecords
<1>5. client'.isconnected => /\ server.up \/ Lost'
                             /\ Asked = {} /\ Replied = {} /\ (client'.inflight = NoPacket \/ Lost')
  BY <1>1, <1>2, ConnectedSettled DEF StaysWell
<1>6. TypeInv'
  <2>1. Types'
    BY <1>1, <1>4 DEF StaysWell, Types
  <2>2. /\ \A m \in Sending' : FromClient(m)'
        /\ \A m \in Coming' : FromServer(m)'
        /\ \A m \in Keeping' : Kept(m)'
        /\ \A n \in seen'.dropped : IsMessage(n)'
    BY <1>1, <1>2, <1>3, <1>4, PacketsStay DEF TypeInv, StaysWell, Keeping, IsMessage
  <2> QED BY <2>1, <2>2 DEF TypeInv, StaysWell
<1>7. ConnectionInv'
  <2>1. ConnectFirst'
    <3> SUFFICES ASSUME NEW i \in 1 .. Len(net'.toServer), net'.toServer[i].type = "CONNECT"
                 PROVE  /\ i = 1 /\ ~server'.up /\ net'.toClient = <<>>
                        /\ net'.toServer[i].what = Flag'
                        /\ \A m \in Sending' : m.type \notin {"PUBACK", "PUBREC", "PUBCOMP"}
      BY DEF ConnectFirst
    <3>1. i \in 1 .. Len(net.toServer) /\ net'.toServer[i] = net.toServer[i]
      BY <1>3 DEF StaysWell
    <3>2. /\ i = 1 /\ ~server.up /\ net.toClient = <<>> /\ net.toServer[i].what = Flag
          /\ \A m \in Sending : m.type \notin {"PUBACK", "PUBREC", "PUBCOMP"}
      BY <1>1, <3>1 DEF ConnectionInv, ConnectFirst
    <3>3. net'.toClient = <<>> /\ Flag' = Flag
      BY <1>2, <1>3, <3>2 DEF Flag
    <3> QED BY <1>2, <1>3, <1>4, <3>1, <3>2, <3>3
  <2>2. \A m \in Sending' : m.type = "DISCONNECT" => ~client'.isconnected
    BY <1>1, <1>2, <1>3 DEF StaysWell, ConnectionInv
  <2> QED BY <1>1, <1>2, <1>4, <1>5, <2>1, <2>2 DEF ConnectionInv
<1>8. ExchangeInv'
  <2>1. OneExchange'
    BY <1>1, <1>3 DEF ExchangeInv, OneExchange
  <2>2. Settled' => Asked = {} /\ Replied = {}
    BY <1>2, <1>5 DEF Settled
  <2> QED BY <1>2, <1>3, <2>1, <2>2 DEF ExchangeInv, QuietWhenSettled
<1>9. InflightInv'
  <2>1. ASSUME ~client.cleansession, NEW m \in Sending', m.type = "PUBLISH", m.qos > 0
        PROVE  m = client'.inflight
    <3>1. m \in Sending /\ Asks(m)
      BY <1>2, <1>3, <2>1 DEF Asks
    <3>2. ~client.isconnected
      BY <1>1, <1>2, <3>1, ConnectedSettled, NothingAsked
    <3> QED BY <1>1, <2>1, <3>1, <3>2 DEF StaysWell, InflightInv
  <2> QED BY <1>2, <1>5, <2>1 DEF InflightInv
<1>10. ReceivedInv'
  <2>1. Remembering' => Remembering
    BY <1>2, <1>4 DEF Remembering, KeptSession, StaysWell
  <2>2. CASE client.isconnected
    <3>1. Remembering => server.received = {}
      BY <1>1, <1>2, <2>2, ConnectedSettled
    <3> QED BY <1>4, <2>1, <3>1 DEF ReceivedInv
  <2>3. CASE ~client.isconnected
    <3>1. Remembering' => KeptSession
      BY <1>2, <1>4, <2>3 DEF Remembering, KeptSession, StaysWell
    <3>2. KeptSession => client'.inflight = client.inflight
      BY <2>3 DEF StaysWell, KeptSession
    <3>3. Current' = client'.inflight /\ Current = client.inflight
      BY <1>2 DEF Current
    <3> QED BY <1>1, <1>2, <1>4, <2>1, <3>1, <3>2, <3>3 DEF ReceivedInv
  <2> QED BY <2>2, <2>3
<1>11. SubsInv'
  <2>1. client'.isconnected => Handled' = Handled
    BY <1>2 DEF Handled
  <2>2. client.isconnected /\ server.up /\ server.clean => server.subs \subseteq Handled
    BY <1>1, <1>2, ConnectedSettled
  <2> QED BY <1>2, <1>4, <2>1, <2>2 DEF SubsInv
<1>12. Messages'
  <2>1. MessagesStay
    BY <1>2, <1>3, <1>4 DEF MessagesStay, StaysWell
  <2> QED BY <1>1, <2>1, MessagesStayEffect
<1>13. ConfirmedAccepted' /\ ScriptInv'
  BY <1>1, <1>2 DEF ConfirmedAccepted, StaysWell
<1> QED BY <1>6, <1>7, <1>8, <1>9, <1>10, <1>11, <1>12, <1>13 DEF IInv, Messages

(***************************************************************************)
(* The script and its calls.                                               *)
(***************************************************************************)

LEMMA CallsEffect ==
  ASSUME IInv, NEW name, Calls(name)
  PROVE  /\ call = Idle /\ script # <<>> /\ Head(script).name = name /\ Rest(script)
         /\ call.name = "none" /\ call.name \notin Talks /\ call.state = "none"
         /\ Argument \in Nat /\ ArgumentFilter \in Filter
         /\ name = "publish" => Argument \in 0 .. 2
         /\ name = "subscribe" => Argument \in {1, 2}
         /\ name \in ConnectCalls => Argument \in {0, 1}
         /\ Idle \in CallRecords /\ (call' = Idle => CallTypes')
<1>1. call = Idle /\ script # <<>> /\ Head(script).name = name /\ Rest(script)
  BY DEF IInv, ScriptInv, Calls
<1>2. call.name = "none" /\ call.name \notin Talks /\ call.state = "none"
  BY <1>1 DEF Idle, Talks, Exchanges, Publishes, Requests, ConnectCalls
<1>3. 1 \in 1 .. Len(script) /\ Head(script) = script[1]
  BY <1>1 DEF Rest
<1>4. /\ Argument \in Nat /\ ArgumentFilter \in Filter
      /\ name = "publish" => Argument <= 2
      /\ name = "subscribe" => Argument \in {1, 2}
      /\ name \in ConnectCalls => Argument \in {0, 1}
  BY <1>1, <1>3 DEF Rest, Arguments, Argument, ArgumentFilter
<1>5. Idle \in CallRecords
  BY PacketTypes DEF Idle, CallRecords, Kinds
<1>6. call' = Idle => CallTypes'
  BY DEF CallTypes, Idle, Yields, Talks, Exchanges, Publishes, Requests, ConnectCalls
<1> QED BY <1>1, <1>2, <1>4, <1>5, <1>6

LEMMA CallsScript ==
  ASSUME ScriptInv, NEW name, Calls(name), NEW n,
         script' \in {Tail(script), Unawaited(Tail(script), n)},
         server'.clean = server.clean, client'.cleansession = client.cleansession,
         name = "open" => /\ call' = Idle /\ ~client'.isconnected /\ ~server'.up
                          /\ net'.toServer = <<>> /\ net'.toClient = <<>>,
         name = "close" => /\ call' = Idle /\ ~client'.isconnected
                           /\ net'.toServer = <<>> /\ net'.toClient = <<>> /\ net'.state = "closed",
         name = "disconnect" => call' = Idle /\ ~client'.isconnected,
         name = "await" => call'.name = "await"
  PROVE  ScriptInv' /\ script' \in Seq(Steps)
<1>1. Rest(script) /\ script # <<>> /\ Head(script).name = name
  BY DEF Calls, ScriptInv
<1>2. CASE script' = Tail(script)
  <2>1. /\ Rest(script')
        /\ NextIs(script', ConnectCalls) => name = "open"
        /\ NextIs(script', {"open"}) => name = "close"
        /\ NextIs(script', {"close"}) => name \in {"disconnect", "await"}
        /\ NoneAfterClean(script) => NoneAfterClean(script')
        /\ CleanFromNow(script) => CleanFromNow(script')
    BY <1>1, <1>2, RestTail
  <2>2. OrderAtHead'
    BY <2>1 DEF OrderAtHead, NoneUnderWay
  <2> QED BY <2>1, <2>2 DEF ScriptInv, Rest
<1>3. CASE script' # Tail(script)
  <2> DEFINE t == Tail(script)
  <2>1. t # <<>> /\ Head(t).name = "arrive" /\ script' = Tail(t)
    BY <1>3 DEF Unawaited
  <2>2. /\ Rest(t)
        /\ NoneAfterClean(script) => NoneAfterClean(t)
        /\ CleanFromNow(script) => CleanFromNow(t)
    BY <1>1, RestTail
  <2> HIDE DEF t
  <2>3. /\ Rest(script')
        /\ ~NextIs(script', ConnectCalls) /\ ~NextIs(script', {"open"}) /\ ~NextIs(script', {"close"})
        /\ NoneAfterClean(t) => NoneAfterClean(script')
        /\ CleanFromNow(t) => CleanFromNow(script')
    BY <2>1, <2>2, RestTail
  <2>4. OrderAtHead'
    BY <2>3 DEF OrderAtHead
  <2> QED BY <2>2, <2>3, <2>4 DEF ScriptInv, Rest
<1> QED BY <1>2, <1>3

LEMMA SameBounded == ASSUME TypeInv, client' = client PROVE Bounded'
BY DEF TypeInv, Bounded

LEMMA OpenKeeps == IInv /\ Open => IInv'
<1> SUFFICES ASSUME IInv, Open PROVE IInv'
  OBVIOUS
<1>1. TypeInv /\ Types /\ ScriptInv
  BY DEF IInv, TypeInv
<1>2. /\ Calls("open") /\ script' = Tail(script)
      /\ server' = [server EXCEPT !.up = FALSE]
      /\ call' = call /\ client' = client /\ seen' = seen
  BY DEF Open, Proceed
<1>3. /\ call = Idle /\ call.name \notin Talks /\ Idle \in CallRecords /\ CallTypes'
      /\ call'.state # "answered"
  BY <1>2, CallsEffect
<1>4. ~client.isconnected /\ net.toServer = <<>> /\ net.toClient = <<>>
  BY <1>1, <1>2 DEF ScriptInv, OrderAtHead, NextIs, Calls, NoneUnderWay
<1>5. /\ net' \in NetRecords /\ net'.toServer = <<>> /\ net'.toClient = <<>> /\ NetMoves(Ping)
      /\ troubles' \in 0 .. MaxTroubles
  <2>1. CASE net' = [state |-> "up", toServer |-> <<>>, toClient |-> <<>>] /\ UNCHANGED troubles
    BY <1>1, <2>1, EmptyEffect DEF NetRecords, NetMoves, Loses, Types
  <2>2. CASE Trouble /\ UNCHANGED net
    BY <1>1, <1>4, <2>2, TroubleEffect DEF NetMoves, Types
  <2> QED BY <2>1, <2>2 DEF Open
<1>6. /\ Ping \in Packets /\ ~Asks(Ping) /\ Ping.type = "PINGREQ" /\ FromClient(Ping)
  BY PacketTypes DEF Asks, Ping, Packet, FromClient, ClientKinds
<1>7. ScriptInv' /\ script' \in Seq(Steps)
  <2>1. server'.clean = server.clean /\ ~server'.up
    BY <1>1, <1>2 DEF Types, ServerRecords
  <2> QED BY <1>1, <1>2, <1>3, <1>4, <1>5, <2>1, CallsScript
<1>8. StaysWell(Ping)
  BY <1>1, <1>2, <1>3, <1>4, <1>5, <1>6, <1>7, SameBounded DEF StaysWell, TypeInv, Types
<1> QED BY <1>8, StayKeeps

LEMMA CloseKeeps == IInv /\ Close => IInv'
<1> SUFFICES ASSUME IInv, Close PROVE IInv'
  OBVIOUS
<1>1. TypeInv /\ Types /\ ScriptInv
  BY DEF IInv, TypeInv
<1>2. /\ Calls("close") /\ script' = Tail(script)
      /\ net' = [state |-> "closed", toServer |-> <<>>, toClient |-> <<>>]
      /\ call' = call /\ client' = client /\ server' = server /\ seen' = seen /\ troubles' = troubles
  BY DEF Close, Proceed
<1>3. /\ call = Idle /\ call.name \notin Talks /\ Idle \in CallRecords /\ CallTypes'
      /\ call'.state # "answered" /\ call.name = "none"
  BY <1>2, CallsEffect
<1>4. ~client.isconnected
  BY <1>1, <1>2, <1>3 DEF ScriptInv, OrderAtHead, NextIs, Calls
<1>5. /\ net' \in NetRecords /\ net'.toServer = <<>> /\ net'.toClient = <<>> /\ NetMoves(Ping)
      /\ net'.state = "closed"
  BY <1>1, <1>2, EmptyEffect DEF NetRecords, NetMoves, Loses
<1>6. /\ Ping \in Packets /\ ~Asks(Ping) /\ Ping.type = "PINGREQ" /\ FromClient(Ping)
  BY PacketTypes DEF Asks, Ping, Packet, FromClient, ClientKinds
<1>7. ScriptInv' /\ script' \in Seq(Steps)
  BY <1>1, <1>2, <1>3, <1>4, <1>5, CallsScript
<1>8. StaysWell(Ping)
  BY <1>1, <1>2, <1>3, <1>4, <1>5, <1>6, <1>7, SameBounded DEF StaysWell, TypeInv, Types
<1> QED BY <1>8, StayKeeps

LEMMA YieldKeeps == IInv /\ Yield => IInv'
<1> SUFFICES ASSUME IInv, Yield PROVE IInv'
  OBVIOUS
<1>1. TypeInv /\ Types /\ ScriptInv
  BY DEF IInv, TypeInv
<1>2. PICK name \in Yields : Calls(name) /\ Wait(name, "none", NoPacket, Argument)
  BY DEF Yield, Yields
<1>3. /\ script' = Tail(script) /\ client' = client /\ net' = net /\ server' = server
      /\ seen' = seen /\ troubles' = troubles
  BY DEF Yield, Proceed
<1>4. call.name \notin Talks /\ Argument \in Nat
  BY <1>2, CallsEffect
<1>5. /\ call'.name = name /\ call'.state = "waiting" /\ call'.want = "none"
      /\ call' \in CallRecords
  BY <1>2, <1>4, PacketTypes DEF Wait, CallRecords, Kinds
<1>6. call'.name \notin Talks
  BY <1>5 DEF Yields, Talks, Exchanges, Publishes, Requests, ConnectCalls
<1>7. CallTypes'
  BY <1>5, <1>6 DEF CallTypes, Yields, Talks, Exchanges, Publishes, Requests, Idle
<1>8. /\ Ping \in Packets /\ ~Asks(Ping) /\ Ping.type = "PINGREQ" /\ FromClient(Ping)
  BY PacketTypes DEF Asks, Ping, Packet, FromClient, ClientKinds
<1>9. ScriptInv' /\ script' \in Seq(Steps)
  BY <1>1, <1>2, <1>3, <1>5, CallsScript DEF Yields
<1>10. StaysWell(Ping)
  BY <1>1, <1>3, <1>4, <1>5, <1>6, <1>7, <1>8, <1>9, SameBounded
  DEF StaysWell, TypeInv, Types, NetMoves, Lost, NoneUnderWay
<1> QED BY <1>10, StayKeeps

\* What the client sends that nothing answers, or the client does not wait for.
LEMMA PlainPackets ==
  ASSUME NEW type \in {"DISCONNECT", "TERMINATE"}
  PROVE  LET p == Packet(type, 0, 0, 0)
         IN  p \in Packets /\ FromClient(p) /\ ~Asks(p) /\ p.type = type
<1>1. type \in Kinds /\ 0 \in Nat \union Filter /\ 0 \in 0 .. 2
  BY DEF Kinds, ClientKinds
<1>2. Packet(type, 0, 0, 0) \in Packets
  BY <1>1, PacketTypes
<1> QED BY <1>2 DEF Packet, FromClient, ClientKinds, Asks

LEMMA DisconnectKeeps == IInv /\ Disconnect => IInv'
<1> SUFFICES ASSUME IInv, Disconnect PROVE IInv'
  OBVIOUS
<1> DEFINE p == Packet("DISCONNECT", 0, 0, 0)
<1>1. TypeInv /\ Types /\ ScriptInv
  BY DEF IInv, TypeInv
<1>2. /\ Calls("disconnect") /\ script' = Tail(script)
      /\ client' = closeSession(client)
      /\ net' = IF CanSend THEN OnWire(net, p) ELSE net
      /\ call' = call /\ server' = server /\ seen' = seen /\ troubles' = troubles
  BY DEF Disconnect, Proceed
<1>3. /\ call = Idle /\ call.name \notin Talks /\ Idle \in CallRecords /\ CallTypes'
      /\ call'.state # "answered"
  BY <1>2, CallsEffect
<1>4. client' \in ClientRecords /\ EndedSession(client, client')
  BY <1>1, <1>2, CloseSessionEffect DEF Types
<1>5. Bounded' /\ (client'.inflight = NoPacket \/ PublishOf(client'.inflight))
  BY <1>1, <1>4, SessionTypes
<1>6. p \in Packets /\ FromClient(p) /\ ~Asks(p) /\ p.type = "DISCONNECT"
  BY PlainPackets
<1>7. net' \in NetRecords /\ NetMoves(p)
  BY <1>1, <1>2, <1>6, OnWireEffect DEF Types, NetMoves
<1>8. ~client'.isconnected /\ client'.cleansession = client.cleansession
  BY <1>4 DEF EndedSession
<1>9. ScriptInv' /\ script' \in Seq(Steps)
  BY <1>1, <1>2, <1>3, <1>8, CallsScript
<1>10. StaysWell(p)
  BY <1>1, <1>2, <1>3, <1>4, <1>5, <1>6, <1>7, <1>8, <1>9 DEF StaysWell, Types, EndedSession
<1> QED BY <1>10, StayKeeps

LEMMA TerminateKeeps == IInv /\ Terminate => IInv'
<1> SUFFICES ASSUME IInv, Terminate PROVE IInv'
  OBVIOUS
<1> DEFINE p == Packet("TERMINATE", 0, 0, 0)
           stored == [client EXCEPT !.inflight = IF client.cleansession THEN @ ELSE NoPacket]
<1>1. /\ TypeInv /\ Types /\ ScriptInv /\ ConnectionInv /\ ExchangeInv /\ InflightInv
      /\ ReceivedInv /\ SubsInv
  BY DEF IInv, TypeInv
<1>2. /\ Calls("terminate") /\ script' = Tail(script)
      /\ call' = call /\ server' = server /\ seen' = seen /\ troubles' = troubles
  BY DEF Terminate, Proceed
<1>3. /\ call = Idle /\ call.name \notin Talks /\ Idle \in CallRecords /\ CallTypes'
      /\ call'.state # "answered"
  BY <1>2, CallsEffect
<1>4. p \in Packets /\ FromClient(p) /\ ~Asks(p) /\ p.type = "TERMINATE"
  BY PlainPackets
<1>5. /\ client' \in ClientRecords
      /\ \/ GoesOn(client, client')
         \/ EndedSession(client, client')
         \/ ~client.isconnected /\ client' = client
      /\ net' \in NetRecords /\ NetMoves(p) /\ (Lost => Lost')
  <2>1. CASE client.isconnected /\ CanSend
    <3>1. client' = Sent(stored) /\ net' = OnWire(net, p)
      BY <2>1 DEF Terminate
    <3>2. stored \in ClientRecords /\ GoesOn(client, stored)
      BY <1>1, <2>1, PacketTypes DEF Types, ClientRecords, GoesOn
    <3> HIDE DEF stored
    <3>3. client' \in ClientRecords /\ GoesOn(client, client')
      BY <3>1, <3>2, SentEffect DEF SameSession, GoesOn
    <3>4. net' \in NetRecords /\ (net' = net \/ OnItsWay(net, net', p))
      BY <1>1, <1>4, <3>1, OnWireEffect DEF Types
    <3> QED BY <3>3, <3>4 DEF NetMoves, OnItsWay, Lost, NoneUnderWay
  <2>2. CASE ~(client.isconnected /\ CanSend)
    <3>1. client' = (IF client.isconnected THEN closeSession(client) ELSE client) /\ net' = net
      BY <2>2 DEF Terminate
    <3> QED BY <1>1, <3>1, CloseSessionEffect DEF Types, NetMoves, Lost, NoneUnderWay
  <2> QED BY <2>1, <2>2
<1>6. Bounded' /\ (client'.inflight = NoPacket \/ PublishOf(client'.inflight))
  BY <1>1, <1>5, SessionTypes, GoesOnTypes DEF SameSession
<1>7. client'.cleansession = client.cleansession
  BY <1>5 DEF GoesOn, EndedSession
<1>8. ScriptInv' /\ script' \in Seq(Steps)
  BY <1>1, <1>2, <1>3, <1>7, CallsScript
<1>9. StaysWell(p)
  BY <1>1, <1>2, <1>3, <1>4, <1>5, <1>6, <1>7, <1>8
  DEF StaysWell, Types, EndedSession, GoesOn
<1> QED BY <1>9, StayKeeps

LEMMA GetNextEffect ==
  ASSUME NEW c \in ClientRecords
  PROVE  getNext(c) \in 1 .. MaxPacketId /\ getNext(c) \in Nat
<1>1. c.nextId \in 0 .. MaxPacketId
  BY DEF ClientRecords
<1> QED BY <1>1, CppClientAssumption DEF getNext

LEMMA NumberTaken ==
  ASSUME NEW c \in ClientRecords
  PROVE  LET d == [c EXCEPT !.nextId = getNext(c)]
         IN  d \in ClientRecords /\ SameSession(c, d)
<1>1. getNext(c) \in 0 .. MaxPacketId
  BY GetNextEffect, CppClientAssumption
<1> QED BY <1>1 DEF ClientRecords, SameSession

\* A publish that is not sent or is not answered, ...
LEMMA PublishStays ==
  ASSUME IInv, Publish, ~(client.isconnected /\ CanSend) \/ Argument = 0
  PROVE  IInv'
<1> DEFINE id == IF Argument = 0 THEN 0 ELSE getNext(client)
           p == Packet("PUBLISH", id, Argument, Len(script))
           stored == [client EXCEPT !.nextId = IF Argument = 0 THEN @ ELSE id,
                        !.inflight = IF client.cleansession THEN @
                                     ELSE IF Argument = 0 THEN NoPacket ELSE p]
<1>1. /\ TypeInv /\ Types /\ ScriptInv /\ ConnectionInv /\ ExchangeInv /\ InflightInv
      /\ ReceivedInv /\ SubsInv
  BY DEF IInv, TypeInv
<1>2. /\ Calls("publish") /\ server' = server /\ seen' = seen /\ troubles' = troubles
      /\ script' \in {Tail(script), Unawaited(Tail(script), Argument)}
      /\ ~client.isconnected => client' = client /\ net' = net /\ call' = call
      /\ client.isconnected /\ ~CanSend => client' = closeSession(stored) /\ net' = net /\ call' = call
      /\ client.isconnected /\ CanSend =>
           client' = Sent(stored) /\ net' = OnWire(net, p) /\ call' = call
  BY DEF Publish
<1>3. /\ call = Idle /\ call.name \notin Talks /\ Idle \in CallRecords /\ call' = call /\ CallTypes'
      /\ call'.state # "answered" /\ Argument \in 0 .. 2
  BY <1>2, CallsEffect
<1>4. /\ p \in Packets /\ (Argument > 0 => PublishOf(p))
      /\ p.type = "PUBLISH" /\ p.qos = Argument /\ FromClient(p)
  <2>1. Len(script) \in Nat /\ id \in Nat /\ "PUBLISH" \in Kinds
    BY <1>1, <1>3, GetNextEffect DEF Types, Kinds, ClientKinds
  <2>2. p \in Packets
    BY <1>3, <2>1, PacketTypes
  <2>3. p.type = "PUBLISH" /\ p.qos = Argument /\ p.what = Len(script)
    BY DEF Packet
  <2> QED BY <1>3, <2>1, <2>2, <2>3 DEF PublishOf, FromClient, ClientKinds
<1> HIDE DEF p
<1>5. /\ stored \in ClientRecords
      /\ stored.isconnected = client.isconnected /\ stored.cleansession = client.cleansession
      /\ stored.handlers = client.handlers /\ stored.incoming = client.incoming
      /\ stored.inflight = IF client.cleansession THEN client.inflight
                           ELSE IF Argument = 0 THEN NoPacket ELSE p
  <2> DEFINE next == IF Argument = 0 THEN client.nextId ELSE id
             kept == IF client.cleansession THEN client.inflight
                     ELSE IF Argument = 0 THEN NoPacket ELSE p
  <2>1. client \in ClientRecords
    BY <1>1 DEF Types
  <2>2. kept \in Packets
    BY <1>4, <2>1, PacketTypes DEF ClientRecords
  <2>3. next \in 0 .. MaxPacketId
    BY <2>1, GetNextEffect, CppClientAssumption DEF ClientRecords
  <2>4. stored = [client EXCEPT !.nextId = next, !.inflight = kept]
    BY <2>1 DEF ClientRecords
  <2> HIDE DEF kept, next
  <2>5. /\ [client EXCEPT !.nextId = next, !.inflight = kept] \in ClientRecords
        /\ stored.isconnected = client.isconnected /\ stored.cleansession = client.cleansession
        /\ stored.handlers = client.handlers /\ stored.incoming = client.incoming
        /\ stored.inflight = kept
    BY <2>1, <2>2, <2>3, <2>4 DEF ClientRecords
  <2> QED BY <2>4, <2>5 DEF kept
<1> HIDE DEF stored
<1>6. CASE ~client.isconnected
  <2>1. /\ Ping \in Packets /\ ~Asks(Ping) /\ Ping.type = "PINGREQ" /\ FromClient(Ping)
    BY PacketTypes DEF Asks, Ping, Packet, FromClient, ClientKinds
  <2>2. ScriptInv' /\ script' \in Seq(Steps)
    BY <1>1, <1>2, <1>6, CallsScript
  <2>3. StaysWell(Ping)
    BY <1>1, <1>2, <1>3, <1>6, <2>1, <2>2, SameBounded DEF StaysWell, TypeInv, Types, NetMoves
  <2> QED BY <2>3, StayKeeps
<1>7. CASE client.isconnected /\ ~CanSend
  <2>1. client' \in ClientRecords /\ EndedSession(stored, client')
    BY <1>2, <1>5, <1>7, CloseSessionEffect
  <2>2. /\ ~client'.isconnected /\ client'.cleansession = client.cleansession
        /\ client'.incoming = client.incoming \/ (client.cleansession /\ client'.incoming = {})
    BY <1>5, <2>1 DEF EndedSession
  <2>3. Bounded' /\ (client'.inflight = NoPacket \/ PublishOf(client'.inflight))
    <3>1. CASE client.cleansession
      <4>1. EndedSession(client, client')
        BY <1>5, <2>1, <3>1 DEF EndedSession
      <4> QED BY <1>1, <4>1, SessionTypes
    <3>2. CASE ~client.cleansession
      BY <1>1, <1>3, <1>4, <1>5, <2>1, <3>2 DEF EndedSession, TypeInv, Bounded
    <3> QED BY <3>1, <3>2
  <2>4. /\ Ping \in Packets /\ ~Asks(Ping) /\ Ping.type = "PINGREQ" /\ FromClient(Ping)
    BY PacketTypes DEF Asks, Ping, Packet, FromClient, ClientKinds
  <2>5. ScriptInv' /\ script' \in Seq(Steps)
    BY <1>1, <1>2, <2>2, CallsScript
  <2>6. StaysWell(Ping)
    BY <1>1, <1>2, <1>3, <1>7, <2>1, <2>2, <2>3, <2>4, <2>5 DEF StaysWell, Types, NetMoves
  <2> QED BY <2>6, StayKeeps
<1>8. CASE client.isconnected /\ CanSend
  <2>1. Argument = 0
    BY <1>8
  <2>2. GoesOn(client, stored)
    BY <1>5, <1>8, <2>1 DEF GoesOn
  <2>3. client' \in ClientRecords /\ GoesOn(client, client')
    BY <1>2, <1>5, <1>8, <2>2, SentEffect DEF SameSession, GoesOn
  <2>4. net' \in NetRecords /\ NetMoves(p) /\ (Lost => Lost')
    <3>1. net' \in NetRecords /\ (net' = net \/ OnItsWay(net, net', p))
      BY <1>1, <1>2, <1>4, <1>8, OnWireEffect DEF Types
    <3> QED BY <3>1 DEF NetMoves, OnItsWay, Lost, NoneUnderWay
  <2>5. Bounded' /\ (client'.inflight = NoPacket \/ PublishOf(client'.inflight))
    BY <1>1, <2>3, GoesOnTypes
  <2>6. ScriptInv' /\ script' \in Seq(Steps)
    BY <1>1, <1>2, <2>3, CallsScript DEF GoesOn
  <2>7. ~Asks(p)
    BY <1>4, <2>1 DEF Asks
  <2>8. StaysWell(p)
    BY <1>1, <1>2, <1>3, <1>4, <1>8, <2>1, <2>3, <2>4, <2>5, <2>6, <2>7
    DEF StaysWell, Types, GoesOn
  <2> QED BY <2>8, StayKeeps
<1> QED BY <1>6, <1>7, <1>8

\* ... and one that waits for its answer.
LEMMA PublishAsks ==
  ASSUME IInv, Publish, client.isconnected, CanSend, Argument # 0
  PROVE  IInv'
<1> DEFINE p == Packet("PUBLISH", getNext(client), Argument, Len(script))
           want == IF Argument = 1 THEN "PUBACK" ELSE "PUBCOMP"
           stored == [client EXCEPT !.nextId = getNext(client),
                        !.inflight = IF client.cleansession THEN @ ELSE p]
<1>1. /\ TypeInv /\ Types /\ ScriptInv /\ ConnectionInv /\ ExchangeInv /\ InflightInv
      /\ ReceivedInv /\ SubsInv
  BY DEF IInv, TypeInv
<1>2. /\ Calls("publish") /\ server' = server /\ seen' = seen /\ troubles' = troubles
      /\ script' = Tail(script) /\ net' = OnWire(net, p)
      /\ Wait("publish", want, p, 0)
      /\ client' = Sent(stored)
  BY Zenon DEF Publish
<1>3. call.name \notin Talks /\ Argument \in {1, 2}
  BY <1>2, CallsEffect
<1>4. p \in Packets /\ PublishOf(p) /\ FromClient(p) /\ p.qos = Argument /\ p.type = "PUBLISH"
  <2>1. Len(script) \in Nat /\ getNext(client) \in Nat /\ "PUBLISH" \in Kinds
    BY <1>1, GetNextEffect DEF Types, Kinds, ClientKinds
  <2>2. p \in Packets
    BY <1>3, <2>1, PacketTypes
  <2>3. p.type = "PUBLISH" /\ p.qos = Argument /\ p.what = Len(script)
    BY DEF Packet
  <2> QED BY <1>3, <2>1, <2>2, <2>3 DEF PublishOf, FromClient, ClientKinds
<1> HIDE DEF p
<1>5. /\ server.up \/ Lost
      /\ Asked = {} /\ Replied = {} /\ (client.inflight = NoPacket \/ Lost)
      /\ Remembering => server.received = {}
      /\ server.up /\ server.clean => server.subs \subseteq Handled
      /\ \A m \in Sending : m.type # "DISCONNECT"
  BY <1>1, <1>3, ConnectedSettled
<1>6. /\ stored \in ClientRecords
      /\ stored.isconnected = client.isconnected /\ stored.cleansession = client.cleansession
      /\ stored.handlers = client.handlers /\ stored.incoming = client.incoming
      /\ stored.inflight = IF client.cleansession THEN client.inflight ELSE p
  <2> DEFINE c == [client EXCEPT !.nextId = getNext(client)]
  <2>1. c \in ClientRecords /\ SameSession(client, c)
    BY <1>1, NumberTaken DEF Types
  <2>2. stored = [c EXCEPT !.inflight = IF client.cleansession THEN client.inflight ELSE p]
    BY <1>1 DEF Types, ClientRecords
  <2> HIDE DEF c, stored
  <2> QED BY <1>4, <1>5, <2>1, <2>2 DEF ClientRecords, SameSession
<1> HIDE DEF stored
<1>7. /\ client' \in ClientRecords /\ SameSession(stored, client')
  BY <1>2, <1>6, SentEffect
<1>8. net' \in NetRecords /\ (net' = net \/ OnItsWay(net, net', p))
  BY <1>1, <1>2, <1>4, OnWireEffect DEF Types
<1>9. /\ call'.name = "publish" /\ call'.state = "waiting" /\ call'.packet = p
      /\ call'.want = want /\ call' \in CallRecords
  BY <1>2, <1>4, PacketTypes
  DEF Wait, CallRecords, Kinds, ClientKinds, ServerKinds, Talks, Exchanges, Publishes
<1>10. /\ call'.name \in Exchanges /\ call'.name \notin Requests /\ call'.name \in Publishes
       /\ call'.name \notin Yields \union ConnectCalls
  BY <1>9 DEF Exchanges, Publishes, Requests, Yields, ConnectCalls
<1>11. CallTypes'
  BY <1>3, <1>4, <1>9, <1>10 DEF CallTypes
<1>12. ScriptInv' /\ script' \in Seq(Steps)
  BY <1>1, <1>2, <1>6, <1>7, CallsScript DEF SameSession
<1>13. ReceivedInv'
  <2>1. Remembering' => Remembering
    BY <1>2, <1>5, <1>6, <1>7 DEF Remembering, KeptSession, SameSession
  <2> QED BY <1>2, <1>5, <2>1 DEF ReceivedInv
<1>14. AsksWell(p)
  <2>1. client'.inflight = NoPacket \/ PublishOf(client'.inflight)
    BY <1>1, <1>4, <1>6, <1>7 DEF TypeInv, SameSession
  <2>2. ~server.up => \A m \in Coming : Refused(m)
    BY <1>5, EmptyEffect DEF Lost, NoneUnderWay, Coming
  <2> QED BY <1>2, <1>4, <1>5, <1>6, <1>7, <1>8, <1>9, <1>10, <1>11, <1>12, <1>13, <2>1, <2>2
          DEF AsksWell, SameSession
<1> QED BY <1>14, AskKeeps

LEMMA PublishKeeps == IInv /\ Publish => IInv'
BY PublishStays, PublishAsks

\* The questions of subscribe and unsubscribe, ...
LEMMA RequestFails ==
  ASSUME IInv, NEW name \in Requests, NEW type, NEW ack, Request(name, type, ack),
         ~(client.isconnected /\ CanSend)
  PROVE  IInv'
<1> DEFINE c == [client EXCEPT !.nextId = getNext(client)]
<1>1. /\ TypeInv /\ Types /\ ScriptInv
  BY DEF IInv, TypeInv
<1>2. /\ Calls(name) /\ script' = Tail(script) /\ server' = server /\ seen' = seen
      /\ troubles' = troubles /\ net' = net /\ call' = call
      /\ client' \in {closeSession(client), closeSession(c)}
  BY DEF Request, Packet, Proceed
<1>3. /\ call = Idle /\ call.name \notin Talks /\ Idle \in CallRecords /\ CallTypes'
      /\ call'.state # "answered"
  BY <1>2, CallsEffect
<1>4. c \in ClientRecords /\ SameSession(client, c)
  BY <1>1, NumberTaken DEF Types
<1> HIDE DEF c
<1>5. client' \in ClientRecords /\ EndedSession(client, client')
  <2>1. client \in ClientRecords
    BY <1>1 DEF Types
  <2>2. closeSession(c) \in ClientRecords /\ EndedSession(client, closeSession(c))
    BY <1>4, CloseSessionEffect DEF EndedSession, SameSession
  <2> QED BY <1>2, <2>1, <2>2, CloseSessionEffect
<1>6. Bounded' /\ (client'.inflight = NoPacket \/ PublishOf(client'.inflight))
  BY <1>1, <1>5, SessionTypes
<1>7. /\ Ping \in Packets /\ ~Asks(Ping) /\ Ping.type = "PINGREQ" /\ FromClient(Ping)
  BY PacketTypes DEF Asks, Ping, Packet, FromClient, ClientKinds
<1>8. ScriptInv' /\ script' \in Seq(Steps)
  BY <1>1, <1>2, <1>5, CallsScript DEF EndedSession, Requests
<1>9. StaysWell(Ping)
  BY <1>1, <1>2, <1>3, <1>5, <1>6, <1>7, <1>8 DEF StaysWell, Types, NetMoves, EndedSession
<1> QED BY <1>9, StayKeeps

LEMMA RequestAsks ==
  ASSUME IInv, NEW name, NEW type, NEW ack, Request(name, type, ack),
         client.isconnected, CanSend,
         \/ name = "subscribe" /\ type = "SUBSCRIBE" /\ ack = "SUBACK"
         \/ name = "unsubscribe" /\ type = "UNSUBSCRIBE" /\ ack = "UNSUBACK"
  PROVE  IInv'
<1> DEFINE p == Packet(type, getNext(client), 0, ArgumentFilter)
           c == [client EXCEPT !.nextId = getNext(client)]
<1>1. /\ TypeInv /\ Types /\ ScriptInv /\ ConnectionInv /\ ExchangeInv /\ InflightInv
      /\ ReceivedInv /\ SubsInv
  BY DEF IInv, TypeInv
<1>2. /\ Calls(name) /\ script' = Tail(script) /\ server' = server /\ seen' = seen
      /\ troubles' = troubles /\ net' = OnWire(net, p) /\ Wait(name, ack, p, Argument)
      /\ client' = Sent(c)
  BY DEF Request, Packet, Proceed
<1>3. /\ call.name \notin Talks /\ ArgumentFilter \in Filter /\ Argument \in Nat
      /\ name = "subscribe" => Argument \in {1, 2}
  BY <1>2, CallsEffect
<1>4. /\ p \in Packets /\ p.type = type /\ p.what = ArgumentFilter /\ ~PublishOf(p)
      /\ p.type \in {"SUBSCRIBE", "UNSUBSCRIBE"} /\ FromClient(p)
  <2>1. getNext(client) \in Nat /\ type \in Kinds
    BY <1>1, GetNextEffect DEF Types, Kinds, ClientKinds
  <2>2. p \in Packets
    <3>1. ArgumentFilter \in Nat \union Filter /\ 0 \in 0 .. 2
      BY <1>3
    <3> QED BY <2>1, <3>1, PacketTypes
  <2>3. p.type = type /\ p.what = ArgumentFilter
    BY DEF Packet
  <2> QED BY <1>3, <2>2, <2>3 DEF PublishOf, FromClient, ClientKinds
<1> HIDE DEF p
<1>5. /\ server.up \/ Lost
      /\ Asked = {} /\ Replied = {} /\ (client.inflight = NoPacket \/ Lost)
      /\ Remembering => server.received = {}
      /\ server.up /\ server.clean => server.subs \subseteq Handled
      /\ \A m \in Sending : m.type # "DISCONNECT"
  BY <1>1, <1>3, ConnectedSettled
<1>6. c \in ClientRecords /\ SameSession(client, c)
  BY <1>1, NumberTaken DEF Types
<1> HIDE DEF c
<1>7. /\ client' \in ClientRecords /\ SameSession(client, client')
  BY <1>2, <1>6, SentEffect DEF SameSession
<1>8. net' \in NetRecords /\ (net' = net \/ OnItsWay(net, net', p))
  BY <1>1, <1>2, <1>4, OnWireEffect DEF Types
<1>9. /\ call'.name = name /\ call'.state = "waiting" /\ call'.packet = p
      /\ call'.want = ack /\ call'.arg = Argument /\ call' \in CallRecords
  BY <1>2, <1>3, <1>4, PacketTypes
  DEF Wait, CallRecords, Kinds, ClientKinds, ServerKinds, Talks, Exchanges, Requests
<1>10. /\ call'.name \in Exchanges /\ call'.name \in Requests /\ call'.name \notin Publishes
       /\ call'.name \notin Yields \union ConnectCalls /\ call'.name \notin {"publish", "resend"}
  BY <1>9 DEF Exchanges, Publishes, Requests, Yields, ConnectCalls
<1>11. CallTypes'
  BY <1>3, <1>4, <1>9, <1>10 DEF CallTypes
<1>12. ScriptInv' /\ script' \in Seq(Steps)
  BY <1>1, <1>2, <1>7, CallsScript DEF SameSession
<1>13. ReceivedInv'
  <2>1. Remembering' => Remembering
    BY <1>2, <1>5, <1>7 DEF Remembering, KeptSession, SameSession
  <2> QED BY <1>2, <1>5, <2>1 DEF ReceivedInv
<1>14. AsksWell(p)
  <2>1. client'.inflight = NoPacket \/ PublishOf(client'.inflight)
    BY <1>1, <1>7 DEF TypeInv, SameSession
  <2>2. ~server.up => \A m \in Coming : Refused(m)
    BY <1>5, EmptyEffect DEF Lost, NoneUnderWay, Coming
  <2> QED BY <1>2, <1>4, <1>5, <1>7, <1>8, <1>9, <1>10, <1>11, <1>12, <1>13, <2>1, <2>2
          DEF AsksWell, SameSession
<1> QED BY <1>14, AskKeeps

LEMMA RequestsKeep == IInv /\ (Subscribe \/ Unsubscribe) => IInv'
BY RequestFails, RequestAsks DEF Subscribe, Unsubscribe, Requests

\* What a connect finds in the rest of the script: a session is kept only once.
LEMMA ConnectScript ==
  ASSUME ScriptInv, NEW name \in ConnectCalls, Calls(name), Argument \in {0, 1},
         script' \in {Tail(script), <<>>}, server' = server,
         client'.cleansession = (Argument = 1)
  PROVE  ScriptInv' /\ script' \in Seq(Steps) /\ (KeptSession' => KeptSession)
<1> DEFINE t == Tail(script)
<1>1. /\ Rest(script) /\ script # <<>> /\ Head(script).name \in ConnectCalls
      /\ 1 \in 1 .. Len(script) /\ Connects(script, 1) /\ script[1].arg = Argument
      /\ \A i \in 1 .. Len(t) : i + 1 \in 1 .. Len(script) /\ t[i] = script[i + 1] /\ i + 1 > 1
  BY DEF Calls, ScriptInv, Rest, Connects, Argument
<1>2. /\ Rest(t)
      /\ ~NextIs(t, ConnectCalls) /\ ~NextIs(t, {"open"}) /\ ~NextIs(t, {"close"})
      /\ NoneAfterClean(script) => NoneAfterClean(t)
      /\ CleanFromNow(script) => CleanFromNow(t)
  BY <1>1, RestTail DEF ConnectCalls
<1>3. \A i \in 1 .. Len(t) : Connects(t, i) => Connects(script, i + 1) /\ t[i].arg \in {0, 1}
  BY <1>1, <1>2 DEF Connects, Rest, Arguments
<1> HIDE DEF t
<1>4. ASSUME Argument = 0 PROVE NoneAfterClean(t)
  <2> SUFFICES ASSUME NEW i \in 1 .. Len(t), NEW j \in 1 .. Len(t), i < j,
                      Connects(t, i), Connects(t, j)
               PROVE  ~(t[i].arg = 1 /\ t[j].arg = 0)
    BY DEF NoneAfterClean
  <2>1. /\ i + 1 \in 1 .. Len(script) /\ j + 1 \in 1 .. Len(script)
        /\ Connects(script, i + 1) /\ Connects(script, j + 1)
        /\ 1 < i + 1 /\ i + 1 < j + 1
    BY <1>1, <1>3
  <2>2. ~(script[i + 1].arg = 1 /\ script[j + 1].arg = 0)
    BY <1>1, <1>4, <2>1 DEF Rest, KeptOnce
  <2> QED BY <1>1, <2>2
<1>5. ASSUME Argument = 1, NoneAfterClean(script) PROVE CleanFromNow(t)
  <2> SUFFICES ASSUME NEW i \in 1 .. Len(t), Connects(t, i)
               PROVE  t[i].arg = 1
    BY DEF CleanFromNow
  <2>1. i + 1 \in 1 .. Len(script) /\ 1 < i + 1 /\ Connects(script, i + 1)
    BY <1>1, <1>3
  <2>2. script[i + 1].arg # 0
    BY <1>1, <1>5, <2>1 DEF NoneAfterClean
  <2> QED BY <1>1, <1>3, <2>2
<1>6. KeptSession' => KeptSession
  BY <1>1 DEF ScriptInv, KeptSession, CleanFromNow
<1>7. CASE script' = t
  <2>1. OrderAtHead'
    BY <1>2, <1>7 DEF OrderAtHead
  <2>2. ~client'.cleansession \/ ~server'.clean => NoneAfterClean(script')
    BY <1>2, <1>4, <1>7 DEF ScriptInv
  <2>3. ~server'.clean /\ client'.cleansession => CleanFromNow(script')
    BY <1>5, <1>7 DEF ScriptInv
  <2> QED BY <1>2, <1>6, <1>7, <2>1, <2>2, <2>3 DEF ScriptInv, Rest
<1>8. CASE script' = <<>>
  BY <1>6, <1>8, ScriptLeft
<1> QED BY <1>7, <1>8 DEF t

LEMMA ConnectKeeps == IInv /\ Connect => IInv'
<1> SUFFICES ASSUME IInv, Connect PROVE IInv'
  OBVIOUS
<1> DEFINE p == Packet("CONNECT", 0, 0, Argument)
<1>1. /\ TypeInv /\ Types /\ ScriptInv /\ ConnectionInv /\ ReceivedInv /\ ConfirmedAccepted
      /\ Messages /\ Bounded
  BY DEF IInv, TypeInv, Messages
<1>2. PICK name \in ConnectCalls :
        /\ Calls(name)
        /\ IF ~client.isconnected /\ CanSend
           THEN /\ client' = [client EXCEPT !.cleansession = (Argument = 1), !.due = {}]
                /\ net' = OnWire(net, p) /\ Wait(name, "CONNACK", NoPacket, 0) /\ Proceed
           ELSE /\ client' = IF client.isconnected THEN client
                             ELSE [client EXCEPT !.cleansession = (Argument = 1)]
                /\ script' = IF name = "connect!" THEN <<>> ELSE Tail(script)
                /\ net' = net /\ call' = call
  BY DEF Connect, ConnectCalls
<1>3. /\ call = Idle /\ call.name \notin Talks /\ Idle \in CallRecords /\ Argument \in {0, 1}
      /\ call.name = "none" /\ call.state = "none" /\ (call' = Idle => CallTypes')
  BY <1>2, CallsEffect
<1>4. ~client.isconnected /\ ~server.up /\ net.toServer = <<>> /\ net.toClient = <<>>
  BY <1>1, <1>2 DEF ScriptInv, OrderAtHead, NextIs, Calls, NoneUnderWay
<1>5. server' = server /\ seen' = seen /\ troubles' = troubles
  BY DEF Connect
<1>6. /\ client' \in ClientRecords /\ ~client'.isconnected
      /\ client'.cleansession = (Argument = 1)
      /\ client'.handlers = client.handlers /\ client'.incoming = client.incoming
      /\ client'.inflight = client.inflight
  <2> DEFINE clean == (Argument = 1)
  <2>1. \/ client' = [client EXCEPT !.cleansession = clean, !.due = {}]
        \/ client' = [client EXCEPT !.cleansession = clean]
    BY <1>2, <1>4
  <2>2. client \in ClientRecords /\ clean \in BOOLEAN
    BY <1>1 DEF Types
  <2> HIDE DEF clean
  <2>3. /\ client' \in ClientRecords /\ client'.isconnected = client.isconnected
        /\ client'.cleansession = clean
        /\ client'.handlers = client.handlers /\ client'.incoming = client.incoming
        /\ client'.inflight = client.inflight
    BY <2>1, <2>2 DEF ClientRecords
  <2> QED BY <1>4, <2>3 DEF clean
<1>7. p \in Packets /\ p.type = "CONNECT" /\ p.what = Argument /\ FromClient(p)
  <2>1. "CONNECT" \in Kinds /\ Argument \in Nat \union Filter /\ 0 \in 0 .. 2
    BY <1>3 DEF Kinds, ClientKinds
  <2>2. p \in Packets
    BY <2>1, PacketTypes
  <2>3. p.type = "CONNECT" /\ p.what = Argument
    BY DEF Packet
  <2> QED BY <2>2, <2>3 DEF FromClient, ClientKinds
<1>8. /\ net' \in NetRecords /\ net'.toClient = <<>>
      /\ Len(net'.toServer) \in {0, 1} /\ (Len(net'.toServer) = 1 => net'.toServer[1] = p)
  <2>1. CASE net' = net
    BY <1>1, <1>4, <2>1 DEF Types
  <2>2. CASE net' = OnWire(net, p)
    <3>1. net' \in NetRecords /\ (net' = net \/ OnItsWay(net, net', p))
      BY <1>1, <1>7, <2>2, OnWireEffect DEF Types
    <3>2. CASE OnItsWay(net, net', p)
      BY <1>4, <1>7, <3>1, <3>2 DEF OnItsWay
    <3> QED BY <2>1, <3>1, <3>2
  <2> QED BY <1>2, <2>1, <2>2
<1> HIDE DEF p
<1>9. /\ Coming' = {} /\ \A m \in Sending' : m = p
      /\ Asked' = {} /\ Replied' = {} /\ Len(net'.toClient) = 0
  BY <1>7, <1>8 DEF Coming, Sending, Elements, Asked, Replied, Asks
<1>10. \/ call' = Idle
       \/ call' = [name |-> name, state |-> "waiting", want |-> "CONNACK", packet |-> NoPacket,
                   arg |-> 0, answer |-> NoPacket]
  BY <1>2, <1>3 DEF Wait
<1>11. /\ call' \in CallRecords /\ CallTypes' /\ call'.state # "answered"
       /\ call'.name \notin Exchanges /\ call'.name \notin Publishes
  <2>1. CASE call' = Idle
    BY <1>3, <2>1 DEF Talks, Exchanges
  <2>2. CASE call' = [name |-> name, state |-> "waiting", want |-> "CONNACK", packet |-> NoPacket,
                      arg |-> 0, answer |-> NoPacket]
    <3>1. /\ call'.name \in ConnectCalls /\ call'.want = "CONNACK" /\ call'.state = "waiting"
          /\ call' \in CallRecords
      BY <2>2, PacketTypes DEF CallRecords, Kinds, ServerKinds, Talks, ConnectCalls
    <3>2. call'.name \notin Yields \union Exchanges
      BY <3>1 DEF ConnectCalls, Yields, Exchanges, Publishes, Requests
    <3>3. CallTypes'
      BY <3>1, <3>2 DEF CallTypes, Exchanges, Publishes, Requests, ConnectCalls
    <3> QED BY <3>1, <3>2, <3>3 DEF Exchanges
  <2> QED BY <1>10, <2>1, <2>2
<1>12. ScriptInv' /\ script' \in Seq(Steps) /\ (KeptSession' => KeptSession)
  <2>1. script' \in {Tail(script), <<>>}
    BY <1>2 DEF Proceed
  <2> QED BY <1>1, <1>2, <1>3, <1>5, <1>6, <2>1, ConnectScript
<1>13. TypeInv'
  <2>1. /\ \A m \in Sending' : FromClient(m)'
        /\ \A m \in Coming' : FromServer(m)'
        /\ \A m \in Keeping' : Kept(m)'
        /\ \A n \in seen'.dropped : IsMessage(n)'
    BY <1>1, <1>5, <1>7, <1>9, PacketsStay DEF TypeInv, Keeping, IsMessage
  <2> QED BY <1>1, <1>5, <1>6, <1>8, <1>11, <1>12, <2>1 DEF TypeInv, Types, Bounded
<1>14. ConnectionInv'
  <2>1. ConnectFirst'
    <3>1. Flag' = Argument
      BY <1>3, <1>6 DEF Flag
    <3>2. ASSUME NEW n, n \in {0, 1} PROVE \A i \in 1 .. n : i = 1 /\ n = 1
      BY <3>2
    <3>3. \A i \in 1 .. Len(net'.toServer) : i = 1 /\ net'.toServer[i] = p
      BY <1>8, <3>2
    <3> QED BY <1>4, <1>5, <1>7, <1>8, <1>9, <3>1, <3>3 DEF ConnectFirst
  <2> QED BY <1>4, <1>5, <1>6, <1>7, <1>9, <1>11, <2>1 DEF ConnectionInv
<1>15. ExchangeInv'
  BY <1>9, <1>11 DEF ExchangeInv, OneExchange, QuietWhenSettled
<1>16. InflightInv'
  BY <1>6, <1>7, <1>9, <1>11 DEF InflightInv, Publishes
<1>17. ReceivedInv'
  <2>1. Remembering' => KeptSession
    BY <1>4, <1>5, <1>12 DEF Remembering
  <2>2. call.name \notin Publishes
    BY <1>3 DEF Talks, Exchanges
  <2>3. Current' = Current
    BY <1>6, <1>11, <2>2 DEF Current
  <2> QED BY <1>1, <1>5, <1>6, <2>1, <2>3 DEF ReceivedInv, Remembering
<1>18. ConfirmedAccepted' /\ SubsInv'
  BY <1>1, <1>4, <1>5, <1>6 DEF ConfirmedAccepted, SubsInv
<1>19. Messages'
  <2>1. MessagesStay
    BY <1>4, <1>5, <1>6, <1>7, <1>8, <1>9, <1>12 DEF MessagesStay
  <2> QED BY <1>1, <2>1, MessagesStayEffect
<1> QED BY <1>12, <1>13, <1>14, <1>15, <1>16, <1>17, <1>18, <1>19 DEF IInv, Messages

LEMMA CallingKeeps == IInv /\ Calling => IInv'
BY OpenKeeps, CloseKeeps, ConnectKeeps, PublishKeeps, TerminateKeeps, RequestsKeep,
   DisconnectKeeps, YieldKeeps DEF Calling

(***************************************************************************)
(* The packet that is read.                                                *)
(***************************************************************************)

\* What the table of identifiers becomes.
Enters(p) == p.type = "PUBLISH" /\ p.qos = 2 /\ Delivers(client, p)
TableAfter(p, incoming) ==
  \/ Enters(p) /\ incoming = client.incoming \union {p.id}
  \/ p.type = "PUBREL" /\ incoming = client.incoming \ {p.id}
  \/ ~Enters(p) /\ incoming = client.incoming

LEMMA TakeEffect ==
  ASSUME TypeInv, NEW p \in Packets, NEW answered \in BOOLEAN
  PROVE  LET c == Take(client, p, answered)
         IN  /\ c \in ClientRecords
             /\ c.isconnected = client.isconnected /\ c.cleansession = client.cleansession
             /\ c.handlers = client.handlers /\ c.inflight = client.inflight
             /\ TableAfter(p, c.incoming)
             /\ IsFiniteSet(c.incoming) /\ Cardinality(c.incoming) <= MaxIncoming
<1> DEFINE c == Take(client, p, answered)
           read == [client EXCEPT !.due = @ \ {"received"}]
<1>1. client \in ClientRecords /\ p.id \in Nat /\ Bounded
  BY DEF TypeInv, Types, Packets
<1>2. /\ read \in ClientRecords
      /\ read.isconnected = client.isconnected /\ read.cleansession = client.cleansession
      /\ read.handlers = client.handlers /\ read.inflight = client.inflight
      /\ read.incoming = client.incoming
  BY <1>1 DEF ClientRecords
<1>3. c = CASE p.type = "PINGRESP" -> [read EXCEPT !.ping_outstanding = FALSE]
            [] Enters(p) -> [read EXCEPT !.incoming = read.incoming \union {p.id}]
            [] p.type = "PUBREL" /\ answered -> [read EXCEPT !.incoming = read.incoming \ {p.id}]
            [] OTHER -> read
  BY DEF Take, Enters
<1> HIDE DEF read, c
<1>4. CASE p.type = "PINGRESP"
  <2>1. c = [read EXCEPT !.ping_outstanding = FALSE] /\ ~Enters(p)
    BY <1>3, <1>4 DEF Enters
  <2>2. /\ c \in ClientRecords
        /\ c.isconnected = client.isconnected /\ c.cleansession = client.cleansession
        /\ c.handlers = client.handlers /\ c.inflight = client.inflight
        /\ c.incoming = client.incoming
    BY <1>2, <2>1 DEF ClientRecords
  <2> QED BY <1>1, <2>1, <2>2 DEF TableAfter, Bounded, c
<1>5. CASE Enters(p)
  <2>1. p.type = "PUBLISH" /\ p.id \notin client.incoming /\ Cardinality(client.incoming) < MaxIncoming
    BY <1>5 DEF Enters, Delivers, isQoS2msgidFree, Room
  <2>2. c = [read EXCEPT !.incoming = read.incoming \union {p.id}]
    BY <1>3, <1>5, <2>1
  <2>3. /\ c \in ClientRecords
        /\ c.isconnected = client.isconnected /\ c.cleansession = client.cleansession
        /\ c.handlers = client.handlers /\ c.inflight = client.inflight
        /\ c.incoming = client.incoming \union {p.id}
    BY <1>1, <1>2, <2>2 DEF ClientRecords
  <2>4. /\ IsFiniteSet(c.incoming) /\ Cardinality(c.incoming) = Cardinality(client.incoming) + 1
        /\ Cardinality(client.incoming) \in Nat
    BY <1>1, <2>1, <2>3, FS_AddElement, FS_CardinalityType DEF Bounded
  <2> QED BY <1>5, <2>1, <2>3, <2>4, CppClientAssumption DEF TableAfter, c
<1>6. CASE p.type = "PUBREL" /\ answered
  <2>1. c = [read EXCEPT !.incoming = read.incoming \ {p.id}]
    BY <1>3, <1>6 DEF Enters
  <2>2. /\ c \in ClientRecords
        /\ c.isconnected = client.isconnected /\ c.cleansession = client.cleansession
        /\ c.handlers = client.handlers /\ c.inflight = client.inflight
        /\ c.incoming = client.incoming \ {p.id}
    BY <1>1, <1>2, <2>1 DEF ClientRecords
  <2>3. /\ IsFiniteSet(c.incoming) /\ Cardinality(c.incoming) <= Cardinality(client.incoming)
        /\ Cardinality(client.incoming) \in Nat /\ Cardinality(c.incoming) \in Nat
    BY <1>1, <2>2, FS_Subset, FS_CardinalityType DEF Bounded
  <2>4. Cardinality(client.incoming) <= MaxIncoming /\ MaxIncoming \in Nat
    BY <1>1, CppClientAssumption DEF Bounded
  <2>5. Cardinality(c.incoming) <= MaxIncoming
    BY <2>3, <2>4
  <2> QED BY <1>6, <2>2, <2>3, <2>5 DEF TableAfter, c
<1>7. CASE p.type # "PINGRESP" /\ ~Enters(p) /\ ~(p.type = "PUBREL" /\ answered)
  <2>1. c = read
    BY <1>3, <1>7
  <2> QED BY <1>1, <1>2, <1>7, <2>1 DEF TableAfter, Bounded, c
<1> QED BY <1>4, <1>5, <1>6, <1>7

LEMMA ReplyEffect ==
  ASSUME NEW p \in Packets
  PROVE  LET r == Reply(p)
         IN  /\ r \in Packets
             /\ r # NoPacket => /\ r.id = p.id /\ r.what = p.what /\ r.qos = 0
                                /\ \/ p.type = "PUBLISH" /\ p.qos = 1 /\ r.type = "PUBACK"
                                   \/ p.type = "PUBLISH" /\ p.qos = 2 /\ r.type = "PUBREC"
                                   \/ p.type = "PUBREC" /\ r.type = "PUBREL"
                                   \/ p.type = "PUBREL" /\ r.type = "PUBCOMP"
<1> DEFINE R(t) == Packet(t, p.id, 0, p.what)
<1>1. \A t \in {"PUBACK", "PUBREC", "PUBREL", "PUBCOMP"} :
        R(t) \in Packets /\ R(t).type = t /\ R(t).id = p.id /\ R(t).what = p.what /\ R(t).qos = 0
  BY DEF Packet, Packets, Kinds, ClientKinds
<1>2. NoPacket \in Packets
  BY PacketTypes
<1> HIDE DEF R
<1>3. \/ p.type = "PUBLISH" /\ p.qos = 1 /\ Reply(p) = R("PUBACK")
      \/ p.type = "PUBLISH" /\ p.qos = 2 /\ Reply(p) = R("PUBREC")
      \/ p.type = "PUBREC" /\ Reply(p) = R("PUBREL")
      \/ p.type = "PUBREL" /\ Reply(p) = R("PUBCOMP")
      \/ Reply(p) = NoPacket
  BY DEF Reply, R
<1> QED BY <1>1, <1>2, <1>3

\* Behind what was on its way to the server come the reply and a ping, if anything.
Behind(r) ==
  \A i \in 1 .. Len(net'.toServer) :
    \/ i \in 1 .. Len(net.toServer) /\ net'.toServer[i] = net.toServer[i]
    \/ i > Len(net.toServer) /\ net'.toServer[i] = Ping
    \/ i = Len(net.toServer) + 1 /\ net'.toServer[i] = r /\ r # NoPacket

\* What a packet that is concluded makes of the client and of the call.
Concluded(p) ==
  /\ client' \in ClientRecords /\ Bounded' /\ client'.cleansession = client.cleansession
  /\ client'.isconnected => /\ client.isconnected /\ client'.inflight = client.inflight
                            /\ client'.handlers = client.handlers
  /\ (client.cleansession /\ client.isconnected) \/ client'.inflight = client.inflight
  /\ client'.inflight \in {client.inflight, NoPacket}
  /\ \/ call' = call
     \/ CallFailed
     \/ p.type = call.want /\ call' = [call EXCEPT !.state = "answered", !.answer = p]

\* What reading a packet does.
PacketRead(p) ==
  /\ p = Head(net.toClient) /\ Waiting /\ net.toClient # <<>>
  /\ script' = script /\ server' = server /\ troubles' = troubles
  /\ net' \in NetRecords /\ net'.toClient = Tail(net.toClient) /\ Behind(Reply(p))
  /\ Concluded(p)
  /\ TableAfter(p, client'.incoming) \/ (client.cleansession /\ client'.incoming = {})
  /\ deliverMessage(p)

\* The reply and a ping behind it.
LEMMA BehindEffect ==
  ASSUME Types, NEW r \in Packets, NEW n \in NetRecords, net' \in NetRecords,
         \/ n.toServer = net.toServer
         \/ r # NoPacket /\ n.toServer = Append(net.toServer, r),
         net'.toServer = n.toServer \/ net'.toServer = Append(n.toServer, Ping)
  PROVE  Behind(r)
<1>1. /\ net.toServer \in Seq(Packets) /\ n.toServer \in Seq(Packets) /\ Ping \in Packets
      /\ Len(net.toServer) \in Nat /\ Len(n.toServer) \in Nat
  BY PacketTypes DEF Types, NetRecords
<1>2. /\ Len(n.toServer) \in {Len(net.toServer), Len(net.toServer) + 1}
      /\ \A i \in 1 .. Len(n.toServer) :
           \/ i \in 1 .. Len(net.toServer) /\ n.toServer[i] = net.toServer[i]
           \/ i = Len(net.toServer) + 1 /\ n.toServer[i] = r /\ r # NoPacket
  BY <1>1, AppendEffect
<1>3. \A i \in 1 .. Len(net'.toServer) :
        \/ i \in 1 .. Len(n.toServer) /\ net'.toServer[i] = n.toServer[i]
        \/ i = Len(n.toServer) + 1 /\ net'.toServer[i] = Ping
  BY <1>1, AppendEffect, SMTT(30)
<1> QED BY <1>1, <1>2, <1>3 DEF Behind

\* The end of a cycle that has taken a packet and has another for the call, on a network of
\* which something is left or nothing.
LEMMA ConcludeEffect ==
  ASSUME TypeInv, Waiting, NEW t \in Packets, NEW p \in Packets, NEW answered \in BOOLEAN,
         NEW n \in NetRecords, Conclude(p, Take(client, t, answered), n)
  PROVE  LET taken == Take(client, t, answered)
         IN  /\ Concluded(p) /\ TableAfter(t, taken.incoming)
             /\ client'.incoming = taken.incoming \/ (client.cleansession /\ client'.incoming = {})
             /\ net' \in NetRecords /\ net'.toClient = n.toClient
             /\ n.state # "up" => net' = n
             /\ n.toServer = net.toServer => Behind(Reply(p))
<1> DEFINE r == Reply(p)
           taken == Take(client, t, answered)
           k == IF r = NoPacket THEN keepalive(taken, n)
                ELSE IF n.state # "closed" THEN keepalive(Sent(taken), OnWire(n, r))
                ELSE [ok |-> FALSE, client |-> taken, net |-> n]
<1>1. /\ net' = k.net
      /\ IF k.ok
         THEN /\ client' = k.client
              /\ call' = IF p.type = call.want
                         THEN [call EXCEPT !.state = "answered", !.answer = p]
                         ELSE call
         ELSE client' = Failed(k.client) /\ CallFails
  BY DEF Conclude
<1>2. Types
  BY DEF TypeInv
<1>3. r \in Packets
  BY ReplyEffect
<1>4. /\ taken \in ClientRecords
      /\ taken.isconnected = client.isconnected /\ taken.cleansession = client.cleansession
      /\ taken.handlers = client.handlers /\ taken.inflight = client.inflight
      /\ TableAfter(t, taken.incoming)
      /\ IsFiniteSet(taken.incoming) /\ Cardinality(taken.incoming) <= MaxIncoming
  BY TakeEffect
<1> HIDE DEF taken, r
\* What the keep alive is given, and what it makes of it.
<1>5. PICK c \in ClientRecords, m \in NetRecords :
        /\ SameSession(taken, c)
        /\ m = n \/ (r # NoPacket /\ OnItsWay(n, m, r))
        /\ k = keepalive(c, m) \/ k = [ok |-> FALSE, client |-> c, net |-> m]
  <2>1. SameSession(taken, taken)
    BY DEF SameSession
  <2>2. CASE r = NoPacket
    BY <1>4, <2>1, <2>2
  <2>3. CASE r # NoPacket /\ n.state # "closed"
    <3>1. Sent(taken) \in ClientRecords /\ SameSession(taken, Sent(taken))
      BY <1>4, SentEffect
    <3>2. OnWire(n, r) \in NetRecords /\ (OnWire(n, r) = n \/ OnItsWay(n, OnWire(n, r), r))
      BY <1>3, OnWireEffect
    <3>3. k = keepalive(Sent(taken), OnWire(n, r))
      BY <2>3
    <3> QED BY <2>3, <3>1, <3>2, <3>3
  <2>4. CASE r # NoPacket /\ n.state = "closed"
    BY <1>4, <2>1, <2>4
  <2> QED BY <2>2, <2>3, <2>4
<1> HIDE DEF k
<1>6. /\ k.ok \in BOOLEAN /\ k.client \in ClientRecords /\ k.net \in NetRecords
      /\ SameSession(c, k.client)
      /\ k.net = m \/ OnItsWay(m, k.net, Ping)
  <2>1. SameSession(c, c)
    BY DEF SameSession
  <2>2. CASE k = keepalive(c, m)
    BY <2>2, KeepaliveEffect
  <2>3. CASE k = [ok |-> FALSE, client |-> c, net |-> m]
    BY <2>1, <2>3
  <2> QED BY <1>5, <2>2, <2>3
<1>7. /\ net' \in NetRecords /\ net'.toClient = n.toClient
      /\ n.state # "up" => net' = n
      /\ net'.toServer = m.toServer \/ net'.toServer = Append(m.toServer, Ping)
      /\ m.toServer = n.toServer \/ (r # NoPacket /\ m.toServer = Append(n.toServer, r))
  BY <1>1, <1>5, <1>6 DEF OnItsWay
<1>8. n.toServer = net.toServer => Behind(r)
  BY <1>2, <1>3, <1>7, BehindEffect
<1>9. SameSession(taken, k.client)
  BY <1>5, <1>6 DEF SameSession
<1>10. /\ client' \in ClientRecords
       /\ SameSession(taken, client') \/ (taken.isconnected /\ EndedSession(taken, client'))
  <2>1. CASE k.ok
    BY <1>1, <1>6, <1>9, <2>1
  <2>2. CASE ~k.ok
    <3>1. /\ Failed(k.client) \in ClientRecords
          /\ IF k.client.isconnected THEN EndedSession(k.client, Failed(k.client))
             ELSE Failed(k.client) = k.client
      BY <1>6, FailedEffect
    <3> QED BY <1>1, <1>9, <2>2, <3>1 DEF SameSession, EndedSession
  <2> QED BY <1>6, <2>1, <2>2
<1>11. /\ client'.cleansession = client.cleansession
       /\ client'.isconnected => /\ client.isconnected /\ client'.inflight = client.inflight
                                 /\ client'.handlers = client.handlers
       /\ (client.cleansession /\ client.isconnected) \/ client'.inflight = client.inflight
       /\ client'.inflight \in {client.inflight, NoPacket}
       /\ client'.incoming = taken.incoming \/ (client.cleansession /\ client'.incoming = {})
       /\ client'.handlers \in {client.handlers, NoHandlers}
  BY <1>4, <1>10 DEF SameSession, EndedSession
<1>12. Bounded'
  <2>1. IsFiniteSet(client'.incoming) /\ Cardinality(client'.incoming) <= MaxIncoming
    <3>1. CASE client'.incoming = taken.incoming
      BY <1>4, <3>1
    <3>2. CASE client'.incoming = {}
      BY <3>2, NoHandlersEffect, CppClientAssumption
    <3> QED BY <1>11, <3>1, <3>2
  <2>2. Cardinality({f \in Filter : client'.handlers[f] # 0}) <= MaxHandlers
    <3>1. CASE client'.handlers = client.handlers
      BY <3>1 DEF TypeInv, Bounded
    <3>2. CASE client'.handlers = NoHandlers
      <4>1. {f \in Filter : client'.handlers[f] # 0} = {}
        BY <3>2, NoHandlersEffect
      <4>2. Cardinality({f \in Filter : client'.handlers[f] # 0}) = 0
        BY <4>1, NoHandlersEffect, Zenon
      <4> QED BY <4>2, CppClientAssumption
    <3> QED BY <1>11, <3>1, <3>2
  <2> QED BY <2>1, <2>2 DEF Bounded
<1>13. \/ call' = call
       \/ CallFailed
       \/ p.type = call.want /\ call' = [call EXCEPT !.state = "answered", !.answer = p]
  BY <1>1, <1>6, YieldingEffect DEF CallFails, CallFailed
<1>14. Concluded(p)
  BY <1>10, <1>11, <1>12, <1>13 DEF Concluded
<1> QED BY <1>4, <1>7, <1>8, <1>11, <1>14 DEF taken, r

LEMMA CycleEffect ==
  ASSUME TypeInv, CyclePacket
  PROVE  PacketRead(Head(net.toClient))
<1> DEFINE p == Head(net.toClient)
           n == [net EXCEPT !.toClient = Tail(@)]
           taken == Take(client, p, CanReply(p, net))
<1>1. /\ Waiting /\ net.toClient # <<>> /\ deliverMessage(p) /\ Conclude(p, taken, n)
      /\ script' = script /\ server' = server /\ troubles' = troubles
  BY DEF CyclePacket
<1>2. net \in NetRecords /\ net.toClient \in Seq(Packets)
  BY DEF TypeInv, Types, NetRecords
<1>3. p \in Packets /\ Tail(net.toClient) \in Seq(Packets)
  BY <1>1, <1>2, TailEffect
<1>4. n \in NetRecords /\ n.toServer = net.toServer /\ n.toClient = Tail(net.toClient)
  BY <1>2, <1>3 DEF NetRecords
<1>5. CanReply(p, net) \in BOOLEAN
  BY DEF CanReply
<1> HIDE DEF p, n
<1>6. /\ Concluded(p) /\ TableAfter(p, taken.incoming)
      /\ client'.incoming = taken.incoming \/ (client.cleansession /\ client'.incoming = {})
      /\ net' \in NetRecords /\ net'.toClient = n.toClient /\ Behind(Reply(p))
  BY <1>1, <1>3, <1>4, <1>5, ConcludeEffect
<1> HIDE DEF taken
<1>7. TableAfter(p, client'.incoming) \/ (client.cleansession /\ client'.incoming = {})
  BY <1>6
<1>8. p = Head(net.toClient)
  BY DEF p
<1>9. PacketRead(p)
  BY <1>1, <1>4, <1>6, <1>7, <1>8 DEF PacketRead
<1> QED BY <1>8, <1>9

\* Where the packets are then.
LEMMA ReadPackets ==
  ASSUME IInv, NEW p, PacketRead(p)
  PROVE  LET r == Reply(p)
         IN  /\ p \in Packets /\ p \in Coming /\ FromServer(p) /\ r \in Packets
             /\ p = net.toClient[1] /\ 1 \in 1 .. Len(net.toClient)
             /\ Coming' \subseteq Coming
             /\ \A i \in 1 .. Len(net'.toClient) :
                  i + 1 \in 1 .. Len(net.toClient) /\ net'.toClient[i] = net.toClient[i + 1]
             /\ \A m \in Sending' : m \in Sending \/ m = Ping \/ (m = r /\ r # NoPacket)
             /\ \A m \in Sending : m.type # "CONNECT"
             /\ call' \in CallRecords /\ CallTypes'
             /\ call'.name = call.name /\ call'.want = call.want /\ call'.packet = call.packet
             /\ call'.arg = call.arg
             /\ \/ call'.state = call.state /\ call'.answer = call.answer
                \/ call'.state = "failed"
                \/ call'.state = "answered" /\ call'.answer = p /\ p.type = call.want
             /\ call.state = "waiting" /\ call.name # "none"
<1> DEFINE r == Reply(p)
<1>1. /\ TypeInv /\ Types /\ CallTypes /\ ConnectionInv /\ net.toClient \in Seq(Packets)
  BY DEF IInv, TypeInv, Types, NetRecords
<1>2. /\ p = Head(net.toClient) /\ Waiting /\ net.toClient # <<>>
      /\ net'.toClient = Tail(net.toClient) /\ Behind(r)
      /\ \/ call' = call
         \/ CallFailed
         \/ p.type = call.want /\ call' = [call EXCEPT !.state = "answered", !.answer = p]
  BY DEF PacketRead, Concluded
<1>3. /\ p \in Packets /\ p \in Coming /\ p = net.toClient[1] /\ 1 \in 1 .. Len(net.toClient)
      /\ Coming' \subseteq Coming
      /\ \A i \in 1 .. Len(net'.toClient) :
           i + 1 \in 1 .. Len(net.toClient) /\ net'.toClient[i] = net.toClient[i + 1]
  BY <1>1, <1>2, TailEffect DEF Coming
<1>4. r \in Packets
  BY <1>3, ReplyEffect
<1> HIDE DEF r
<1>5. \A m \in Sending' : m \in Sending \/ m = Ping \/ (m = r /\ r # NoPacket)
  BY <1>2 DEF Behind, Sending, Elements
<1>6. \A m \in Sending : m.type # "CONNECT"
  BY <1>1, <1>2 DEF ConnectionInv, ConnectFirst, Sending, Elements
<1>7. FromServer(p) /\ p.type # "none"
  BY <1>1, <1>3 DEF TypeInv, FromServer, ServerKinds
<1>8. call.state = "waiting" /\ call.name # "none"
  BY <1>1, <1>2 DEF Waiting, CallTypes, Idle
<1>9. /\ call' \in CallRecords
      /\ call'.name = call.name /\ call'.want = call.want /\ call'.packet = call.packet
      /\ call'.arg = call.arg
      /\ \/ call' = call
         \/ call'.state = "failed" /\ call.name \notin Yields
         \/ call'.state = "answered" /\ call'.answer = p /\ p.type = call.want
  BY <1>1, <1>2, <1>3 DEF CallFailed, Types, CallRecords
<1>10. CallTypes'
  <2>1. call.name \in Yields => call'.state = "waiting"
    BY <1>1, <1>7, <1>8, <1>9 DEF CallTypes
  <2> QED BY <1>1, <1>8, <1>9, <2>1 DEF CallTypes, Idle
<1> QED BY <1>3, <1>4, <1>5, <1>6, <1>7, <1>8, <1>9, <1>10 DEF r

\* What is noted of the message.
Counted(p) == Delivers(client, p) /\ \E f \in Filter : client.handlers[f] # 0

LEMMA ReadSeen ==
  ASSUME TypeInv, NEW p \in Packets, FromServer(p), deliverMessage(p)
  PROVE  /\ seen' \in SeenRecords
         /\ seen'.accepted = seen.accepted /\ seen'.confirmed = seen.confirmed
         /\ seen'.left = seen.left /\ seen'.again = seen.again
         /\ Len(seen'.delivered) = Len(seen.delivered)
         /\ \A n \in 1 .. Len(seen.delivered) :
              /\ seen'.delivered[n].qos = seen.delivered[n].qos
              /\ seen'.delivered[n].times = IF Counted(p) /\ n = p.what THEN seen.delivered[n].times + 1
                                            ELSE seen.delivered[n].times
         /\ seen.dropped \subseteq seen'.dropped
         /\ seen'.dropped \subseteq seen.dropped \union (IF p.type = "PUBLISH" THEN {p.what} ELSE {})
         /\ p.type = "PUBLISH" =>
              \/ Counted(p) \/ p.what \in seen'.dropped
              \/ p.qos = 2 /\ p.id \in client.incoming
<1>1. /\ seen \in SeenRecords /\ seen.delivered \in Seq([qos : 0 .. 2, times : Nat])
      /\ Len(seen.delivered) \in Nat
  BY DEF TypeInv, Types, SeenRecords
<1>2. CASE Counted(p)
  <2>1. seen' = [seen EXCEPT !.delivered[p.what].times = @ + 1]
    BY <1>2 DEF Counted, deliverMessage
  <2>2. p.what \in 1 .. Len(seen.delivered)
    BY <1>2 DEF Counted, Delivers, FromServer, IsMessage
  <2> DEFINE m == seen.delivered[p.what]
             d == [seen.delivered EXCEPT ![p.what] = [m EXCEPT !.times = m.times + 1]]
  <2>3. m \in [qos : 0 .. 2, times : Nat] /\ [m EXCEPT !.times = m.times + 1] \in [qos : 0 .. 2, times : Nat]
    <3>1. m \in [qos : 0 .. 2, times : Nat]
      BY <1>1, <2>2, ElementType
    <3> HIDE DEF m
    <3>2. m.times \in Nat
      BY <3>1
    <3> QED BY <3>1, <3>2
  <2>4. /\ d \in Seq([qos : 0 .. 2, times : Nat]) /\ Len(d) = Len(seen.delivered)
        /\ \A n \in 1 .. Len(seen.delivered) :
             d[n] = IF n = p.what THEN [m EXCEPT !.times = m.times + 1] ELSE seen.delivered[n]
    BY <1>1, <2>2, <2>3
  <2>5. /\ seen'.delivered = d /\ seen'.dropped = seen.dropped
        /\ seen'.accepted = seen.accepted /\ seen'.confirmed = seen.confirmed
        /\ seen'.left = seen.left /\ seen'.again = seen.again
    BY <1>1, <2>1 DEF SeenRecords
  <2>6. seen' = [seen EXCEPT !.delivered = d]
    BY <1>1, <2>1 DEF SeenRecords
  <2> HIDE DEF d
  <2>7. seen' \in SeenRecords
    BY <1>1, <2>4, <2>6 DEF SeenRecords
  <2>8. \A n \in 1 .. Len(seen.delivered) :
          /\ d[n].qos = seen.delivered[n].qos
          /\ d[n].times = IF n = p.what THEN seen.delivered[n].times + 1 ELSE seen.delivered[n].times
    BY <2>3, <2>4
  <2> QED BY <1>2, <2>4, <2>5, <2>7, <2>8
<1>3. CASE ~Counted(p)
  <2> DEFINE full == p.type = "PUBLISH" /\ p.qos = 2 /\ isQoS2msgidFree(client, p.id) /\ ~Room(client)
  <2>1. seen' = IF Delivers(client, p) \/ full THEN [seen EXCEPT !.dropped = @ \union {p.what}] ELSE seen
    BY <1>3 DEF Counted, deliverMessage
  <2>2. Delivers(client, p) => p.type = "PUBLISH"
    BY DEF Delivers
  <2>3. p.type = "PUBLISH" => p.what \in Nat
    BY <1>1 DEF FromServer, IsMessage
  <2>4. p.type = "PUBLISH" => Delivers(client, p) \/ full \/ (p.qos = 2 /\ p.id \in client.incoming)
    BY DEF Delivers, isQoS2msgidFree
  <2> QED BY <1>1, <1>3, <2>1, <2>2, <2>3, <2>4 DEF SeenRecords
<1> QED BY <1>2, <1>3

\* The messages that are still to be read keep what is known of them: their identifiers and
\* numbers are others than those of the packet.
LEMMA ReadMessages ==
  ASSUME IInv, NEW p, PacketRead(p)
  PROVE  Messages'
<1> DEFINE r == Reply(p)
<1>1. TypeInv /\ NumberInv /\ ReleaseInv /\ DeliveryInv
  BY DEF IInv
<1>2. /\ p \in Packets /\ p \in Coming /\ FromServer(p) /\ r \in Packets
      /\ p = net.toClient[1] /\ 1 \in 1 .. Len(net.toClient)
      /\ Coming' \subseteq Coming
      /\ \A i \in 1 .. Len(net'.toClient) :
           i + 1 \in 1 .. Len(net.toClient) /\ net'.toClient[i] = net.toClient[i + 1]
      /\ \A m \in Sending' : m \in Sending \/ m = Ping \/ (m = r /\ r # NoPacket)
  BY ReadPackets
<1>3. /\ server' = server /\ client'.cleansession = client.cleansession /\ deliverMessage(p)
      /\ TableAfter(p, client'.incoming) \/ (client.cleansession /\ client'.incoming = {})
  BY DEF PacketRead, Concluded
<1>4. /\ seen'.left = seen.left /\ seen'.again = seen.again
      /\ Len(seen'.delivered) = Len(seen.delivered)
      /\ \A n \in 1 .. Len(seen.delivered) :
           /\ seen'.delivered[n].qos = seen.delivered[n].qos
           /\ seen'.delivered[n].times = IF Counted(p) /\ n = p.what THEN seen.delivered[n].times + 1
                                         ELSE seen.delivered[n].times
           /\ seen.delivered[n].times \in Nat
      /\ seen.dropped \subseteq seen'.dropped
      /\ p.type = "PUBLISH" =>
           \/ Counted(p) \/ p.what \in seen'.dropped
           \/ p.qos = 2 /\ p.id \in client.incoming
  <2>1. ASSUME NEW n \in 1 .. Len(seen.delivered) PROVE seen.delivered[n].times \in Nat
    <3>1. seen.delivered \in Seq([qos : 0 .. 2, times : Nat])
      BY <1>1 DEF TypeInv, Types, SeenRecords
    <3>2. seen.delivered[n] \in [qos : 0 .. 2, times : Nat]
      BY <3>1, ElementType
    <3> QED BY <3>2
  <2> QED BY <1>1, <1>2, <1>3, <2>1, ReadSeen
<1>5. Keeping' = Keeping /\ (KeptSession' <=> KeptSession)
  BY <1>3 DEF Keeping, KeptSession
<1>6. Counted(p) => p.type = "PUBLISH" /\ (p.qos = 2 => Enters(p) /\ p.id \notin client.incoming)
  BY DEF Counted, Delivers, Enters, isQoS2msgidFree
<1>7. \A m \in Coming \union Keeping : FromServer(m)
  BY <1>1 DEF TypeInv, Kept
<1> HIDE DEF r
<1>8. NumberInv'
  <2>1. \A id \in client'.incoming : id <= server.nextId \/ id \in seen.left
    <3>1. Enters(p) => p.id <= server.nextId
      BY <1>2 DEF Enters, FromServer
    <3> QED BY <1>1, <1>3, <3>1 DEF NumberInv, TableAfter
  <2>2. \A i, j \in 1 .. Len(net'.toClient) :
          Numbered(net'.toClient[i]) /\ Numbered(net'.toClient[j]) /\ net'.toClient[i].id = net'.toClient[j].id
            => i = j
    <3> SUFFICES ASSUME NEW i \in 1 .. Len(net'.toClient), NEW j \in 1 .. Len(net'.toClient),
                        Numbered(net'.toClient[i]), Numbered(net'.toClient[j]),
                        net'.toClient[i].id = net'.toClient[j].id
                 PROVE  i = j
      OBVIOUS
    <3>1. /\ i + 1 \in 1 .. Len(net.toClient) /\ j + 1 \in 1 .. Len(net.toClient)
          /\ Numbered(net.toClient[i + 1]) /\ Numbered(net.toClient[j + 1])
          /\ net.toClient[i + 1].id = net.toClient[j + 1].id
      BY <1>2
    <3>2. i + 1 = j + 1
      BY <1>1, <3>1 DEF NumberInv
    <3> QED BY <3>2
  <2> QED BY <1>1, <1>2, <1>3, <1>4, <1>5, <2>1, <2>2 DEF NumberInv, Numbered
<1>9. ReleaseInv'
  <2> SUFFICES ASSUME NEW i \in 1 .. Len(net'.toClient), net'.toClient[i].type = "PUBREL"
               PROVE  /\ \A j \in 1 .. Len(net'.toClient) :
                           Numbered(net'.toClient[j]) /\ net'.toClient[j].id = net'.toClient[i].id => j < i
                      /\ \A q \in Keeping : Numbered(q) => q.id # net'.toClient[i].id
    BY <1>5 DEF ReleaseInv, Numbered
  <2>1. /\ \A j \in 1 .. Len(net.toClient) :
             Numbered(net.toClient[j]) /\ net.toClient[j].id = net.toClient[i + 1].id => j < i + 1
        /\ \A q \in Keeping : Numbered(q) => q.id # net.toClient[i + 1].id
    BY <1>1, <1>2 DEF ReleaseInv
  <2>2. ASSUME NEW j \in 1 .. Len(net'.toClient), Numbered(net'.toClient[j]),
               net'.toClient[j].id = net'.toClient[i].id
        PROVE  j < i
    <3>1. /\ j + 1 \in 1 .. Len(net.toClient) /\ Numbered(net.toClient[j + 1])
          /\ net.toClient[j + 1].id = net.toClient[i + 1].id
      BY <1>2, <2>2
    <3>2. j + 1 < i + 1
      BY <2>1, <3>1
    <3> QED BY <3>2
  <2> QED BY <1>2, <2>1, <2>2
\* A message that is not the one of the packet.
<1>10. ASSUME NEW q, FromServer(q), Numbered(q), q.what # p.what \/ p.type # "PUBLISH"
       PROVE  Times(q)' = Times(q)
  BY <1>4, <1>6, <1>10 DEF Times, FromServer, IsMessage, Numbered
<1>11. ASSUME NEW q, FromServer(q), Numbered(q)
       PROVE  Times(q)' >= Times(q) /\ Times(q) \in Nat /\ Times(q)' \in Nat
              /\ (GivenUp(q) => GivenUp(q)')
  <2>1. q.what \in 1 .. Len(seen.delivered)
    BY <1>11 DEF FromServer, IsMessage, Numbered
  <2>2. /\ seen.delivered[q.what].times \in Nat
        /\ seen'.delivered[q.what].times \in {seen.delivered[q.what].times, seen.delivered[q.what].times + 1}
    BY <1>4, <2>1
  <2> QED BY <1>4, <2>2, SMTT(30) DEF Times, GivenUp
<1>12. ASSUME NEW q \in Coming', Numbered(q), q.qos = 2
       PROVE  Undelivered(q)' /\ Accounted(q)' /\ (client'.cleansession => Times(q)' = 0)
  <2>1. PICK i \in 1 .. Len(net'.toClient) : q = net'.toClient[i]
    BY DEF Coming, Elements
  <2>2. q = net.toClient[i + 1] /\ i + 1 \in 1 .. Len(net.toClient) /\ i + 1 # 1 /\ q \in Coming
    BY <1>2, <2>1
  <2>3. Undelivered(q) /\ Accounted(q) /\ (client.cleansession => Times(q) = 0) /\ FromServer(q)
    BY <1>1, <1>7, <1>12, <2>2 DEF DeliveryInv
  <2>4. Numbered(p) \/ p.type = "PUBREL" => q.id # p.id
    <3>1. i + 1 > 1 /\ Numbered(net.toClient[i + 1]) /\ 1 \in 1 .. Len(net.toClient) /\ net.toClient[1] = p
      BY <1>2, <1>12, <2>2
    <3>2. Numbered(p) => q.id # p.id
      BY <1>1, <2>2, <3>1 DEF NumberInv
    <3>3. p.type = "PUBREL" => q.id # p.id
      BY <1>1, <2>2, <3>1 DEF ReleaseInv
    <3> QED BY <3>2, <3>3
  <2>5. q.what # p.what \/ p.type # "PUBLISH"
    <3>1. CASE Numbered(p)
      BY <1>1, <1>2, <1>12, <2>2, <2>4, <3>1 DEF NumberInv
    <3>2. CASE ~Numbered(p) /\ p.type = "PUBLISH"
      <4>1. p.qos # 2
        BY <3>2 DEF Numbered
      <4> QED BY <1>2, <1>12, <2>3, <4>1 DEF FromServer, Numbered
    <3> QED BY <3>1, <3>2
  <2>6. Times(q)' = Times(q) /\ (GivenUp(q) => GivenUp(q)')
    BY <1>10, <1>11, <1>12, <2>3, <2>5
  <2>7. CASE TableAfter(p, client'.incoming)
    <3>1. q.id \in client'.incoming <=> q.id \in client.incoming
      BY <2>4, <2>7 DEF TableAfter, Enters, Numbered
    <3> QED BY <1>3, <1>4, <2>3, <2>6, <3>1 DEF Undelivered, Accounted
  <2>8. CASE client.cleansession /\ client'.incoming = {}
    BY <1>3, <1>4, <2>3, <2>6, <2>8 DEF Undelivered, Accounted
  <2> QED BY <1>3, <2>7, <2>8
<1>13. ASSUME KeptSession, NEW q \in Keeping, Numbered(q), q.qos = 2
       PROVE  Undelivered(q)' /\ Accounted(q)'
  <2>1. Undelivered(q) /\ Accounted(q) /\ FromServer(q) /\ TableAfter(p, client'.incoming)
    BY <1>1, <1>3, <1>7, <1>13 DEF DeliveryInv, KeptSession
  <2>2. p.type = "PUBREL" => q.id # p.id
    BY <1>1, <1>2, <1>13 DEF ReleaseInv
  <2>3. CASE Numbered(p) /\ q.id = p.id
    <3>1. q.what = p.what /\ p.qos = 2 /\ p.type = "PUBLISH"
      BY <1>1, <1>2, <1>13, <2>1, <2>3 DEF NumberInv, FromServer, Numbered
    <3>2. CASE Enters(p)
      <4>1. p.id \in client'.incoming /\ p.id \notin client.incoming
        BY <2>1, <3>1, <3>2 DEF TableAfter, Enters, Delivers, isQoS2msgidFree
      <4>2. Times(q)' >= 1 \/ p.what \in seen'.dropped
        <5>1. q.what \in 1 .. Len(seen.delivered) /\ (Counted(p) \/ p.what \in seen'.dropped)
          BY <1>4, <1>13, <2>1, <3>1, <4>1 DEF FromServer, IsMessage, Numbered
        <5>2. /\ seen.delivered[q.what].times \in Nat
              /\ Counted(p) => seen'.delivered[q.what].times = seen.delivered[q.what].times + 1
          BY <1>4, <3>1, <5>1
        <5> QED BY <5>1, <5>2 DEF Times
      <4> QED BY <2>3, <3>1, <4>1, <4>2 DEF Undelivered, Accounted, GivenUp
    <3>3. CASE ~Enters(p)
      <4>1. ~Counted(p) /\ client'.incoming = client.incoming
        BY <1>6, <2>1, <3>1, <3>3 DEF TableAfter
      <4>2. Times(q)' = Times(q)
        BY <1>4, <1>13, <2>1, <3>1, <4>1 DEF Times, FromServer, IsMessage, Numbered
      <4> QED BY <1>4, <1>11, <1>13, <2>1, <4>1, <4>2 DEF Undelivered, Accounted
    <3> QED BY <3>2, <3>3
  <2>4. CASE ~(Numbered(p) /\ q.id = p.id)
    <3>1. q.what # p.what \/ p.type # "PUBLISH"
      <4>1. CASE Numbered(p)
        BY <1>1, <1>2, <1>13, <2>4, <4>1 DEF NumberInv
      <4>2. CASE ~Numbered(p) /\ p.type = "PUBLISH"
        <5>1. p.qos # 2
          BY <4>2 DEF Numbered
        <5> QED BY <1>2, <1>13, <2>1, <5>1 DEF FromServer, Numbered
      <4> QED BY <4>1, <4>2
    <3>2. Times(q)' = Times(q) /\ (GivenUp(q) => GivenUp(q)')
      BY <1>10, <1>11, <1>13, <2>1, <3>1
    <3>3. q.id \in client'.incoming <=> q.id \in client.incoming
      BY <2>1, <2>2, <2>4 DEF TableAfter, Enters, Numbered
    <3> QED BY <1>4, <2>1, <3>2, <3>3 DEF Undelivered, Accounted
  <2> QED BY <2>3, <2>4
<1>14. DeliveredOnce'
  <2> SUFFICES ASSUME NEW n \in 1 .. Len(seen.delivered), seen.delivered[n].qos = 2
               PROVE  seen'.delivered[n].times <= 1 \/ n \in seen'.again
    <3>1. DOMAIN seen'.delivered = 1 .. Len(seen.delivered)
      BY <1>4, <1>1, <1>2, <1>3, ReadSeen DEF SeenRecords
    <3> QED BY <1>4, <3>1 DEF DeliveredOnce
  <2>1. seen.delivered[n].times <= 1 \/ n \in seen.again
    BY <1>1 DEF DeliveryInv, DeliveredOnce, TypeInv, Types, SeenRecords
  <2>2. CASE Counted(p) /\ n = p.what
    <3>1. p.qos = 2 /\ p.type = "PUBLISH" /\ p.id \notin client.incoming
      BY <1>2, <1>6, <2>2 DEF FromServer
    <3>2. Times(p) = 0 \/ p.what \in seen.again
      BY <1>1, <1>2, <3>1 DEF DeliveryInv, Undelivered, Numbered
    <3> QED BY <1>4, <2>2, <3>2 DEF Times
  <2> QED BY <1>4, <2>1, <2>2
<1>15. ASSUME NEW m \in Sending', m.type \in {"PUBACK", "PUBREC"}
       PROVE  Times(m)' >= 1 \/ GivenUp(m)'
  <2>1. m # Ping
    BY <1>15 DEF Ping, Packet
  <2>2. CASE m \in Sending
    <3>1. Times(m) >= 1 \/ GivenUp(m)
      BY <1>1, <1>15, <2>2 DEF DeliveryInv
    <3>2. IsMessage(m.what)
      BY <1>1, <1>15, <2>2 DEF TypeInv, FromClient
    <3>3. Times(m)' >= Times(m) /\ Times(m) \in Nat /\ Times(m)' \in Nat
      BY <1>4, <3>2 DEF Times, IsMessage
    <3> QED BY <1>4, <3>1, <3>3 DEF GivenUp
  <2>3. CASE m = r /\ r # NoPacket
    <3>1. m.id = p.id /\ m.what = p.what /\ p.type = "PUBLISH" /\ p.qos \in {1, 2} /\ IsMessage(p.what)
      BY <1>2, <1>15, <2>3, ReplyEffect DEF r, FromServer
    <3>2. CASE Counted(p)
      BY <1>4, <3>1, <3>2 DEF Times, IsMessage
    <3>3. CASE p.what \in seen'.dropped
      BY <3>1, <3>3 DEF GivenUp
    <3>4. CASE p.qos = 2 /\ p.id \in client.incoming
      <4>1. Times(p) >= 1 \/ GivenUp(p)
        BY <1>1, <1>2, <3>1, <3>4 DEF DeliveryInv, Accounted, Numbered
      <4>2. Times(p)' >= Times(p) /\ Times(p) \in Nat /\ Times(p)' \in Nat
        BY <1>4, <3>1, SMTT(30) DEF Times, IsMessage
      <4>3. Times(m)' = Times(p)'
        BY <3>1 DEF Times
      <4> QED BY <1>4, <3>1, <4>1, <4>2, <4>3 DEF GivenUp
    <3> QED BY <1>4, <3>1, <3>2, <3>3, <3>4
  <2> QED BY <1>2, <2>1, <2>2, <2>3
<1>16. DeliveryInv'
  BY <1>5, <1>12, <1>13, <1>14, <1>15 DEF DeliveryInv, Numbered
<1> QED BY <1>8, <1>9, <1>16 DEF Messages

\* The exchange goes on: an answer is taken, or the next question of the same exchange asked.
LEMMA ReadExchange ==
  ASSUME IInv, NEW p, PacketRead(p)
  PROVE  ExchangeInv'
<1> DEFINE r == Reply(p)
<1>1. TypeInv /\ Types /\ CallTypes /\ ConnectionInv /\ ExchangeInv
  BY DEF IInv, TypeInv
<1>2. /\ p \in Packets /\ p \in Coming /\ FromServer(p) /\ r \in Packets
      /\ p = net.toClient[1] /\ 1 \in 1 .. Len(net.toClient)
      /\ Coming' \subseteq Coming
      /\ \A i \in 1 .. Len(net'.toClient) :
           i + 1 \in 1 .. Len(net.toClient) /\ net'.toClient[i] = net.toClient[i + 1]
      /\ \A m \in Sending' : m \in Sending \/ m = Ping \/ (m = r /\ r # NoPacket)
      /\ call'.name = call.name /\ call'.packet = call.packet
      /\ \/ call'.state = call.state /\ call'.answer = call.answer
         \/ call'.state = "failed"
         \/ call'.state = "answered" /\ call'.answer = p /\ p.type = call.want
      /\ call.state = "waiting" /\ call.name # "none"
  BY ReadPackets
<1>3. /\ server' = server /\ Behind(r) /\ seen'.accepted = seen.accepted
      /\ client'.isconnected => client.isconnected
      /\ ~Lost
  <2>1. deliverMessage(p) /\ net.toClient # <<>>
    BY DEF PacketRead
  <2> QED BY <1>1, <1>2, <2>1, ReadSeen DEF PacketRead, Concluded, Lost, NoneUnderWay
<1>4. /\ ~Asks(Ping)
      /\ Asks(r) => p.type = "PUBREC" /\ r.type = "PUBREL" /\ r.id = p.id /\ r # NoPacket
      /\ Answers(p) /\ p.type # "PUBREC" => r = NoPacket
  <2>1. ~Asks(NoPacket) /\ ~Asks(Ping)
    BY DEF Asks, NoPacket, Ping, Packet
  <2> QED BY <1>2, <2>1, ReplyEffect DEF Asks, Answers
<1> HIDE DEF r
<1>5. \A i \in Asked' : \/ i \in Asked
                        \/ i = Len(net.toServer) + 1 /\ net'.toServer[i] = r /\ Asks(r)
  BY <1>3, <1>4 DEF Behind, Asked
<1>6. \A i \in Replied' : i + 1 \in Replied /\ i + 1 # 1 /\ i \in Nat
  BY <1>2 DEF Replied
<1>7. Answers(p) <=> 1 \in Replied
  BY <1>2 DEF Replied
<1>8. Answers(p) => Asked = {} /\ Replied' = {}
  BY <1>1, <1>6, <1>7 DEF ExchangeInv, OneExchange
<1>9. Asks(r) => Answers(p)
  BY <1>4 DEF Answers
<1>10. OneExchange'
  <2>1. \A i, j \in Asked' : i = j
    BY <1>1, <1>5, <1>8, <1>9 DEF ExchangeInv, OneExchange
  <2>2. \A i, j \in Replied' : i = j
    <3> SUFFICES ASSUME NEW i \in Replied', NEW j \in Replied' PROVE i = j
      OBVIOUS
    <3>1. i + 1 = j + 1 /\ i \in Nat /\ j \in Nat
      BY <1>1, <1>6 DEF ExchangeInv, OneExchange
    <3> QED BY <3>1
  <2>3. Asked' = {} \/ Replied' = {}
    <3>1. CASE Answers(p)
      BY <1>8, <3>1
    <3>2. CASE ~Answers(p)
      <4>1. Asked' \subseteq Asked
        BY <1>5, <1>9, <3>2
      <4> QED BY <1>1, <1>6, <4>1 DEF ExchangeInv, OneExchange
    <3> QED BY <3>1, <3>2
  <2> QED BY <2>1, <2>2, <2>3 DEF OneExchange
<1>11. QuietWhenSettled'
  <2>1. CASE Settled
    <3>1. Asked = {} /\ Replied = {}
      BY <1>1, <2>1 DEF ExchangeInv, QuietWhenSettled
    <3>2. Asked' = {} /\ Replied' = {}
      BY <1>5, <1>6, <1>7, <1>9, <3>1
    <3> QED BY <3>2 DEF QuietWhenSettled
  <2>2. CASE ~Settled /\ Settled'
    <3>1. call'.state = "answered" /\ call.name \notin ConnectCalls /\ p.type = call.want
      BY <1>2, <1>3, <2>2 DEF Settled
    <3>2. call.name \in Exchanges
      BY <1>1, <1>2, <3>1 DEF CallTypes, Talks, Types, CallRecords, FromServer, ServerKinds
    <3>3. Answers(p) /\ p.type # "PUBREC"
      BY <1>1, <3>1, <3>2 DEF CallTypes, Exchanges, Publishes, Requests, Answers
    <3>4. ~Asks(r)
      BY <1>4, <3>3
    <3>5. Asked' = {} /\ Replied' = {}
      BY <1>5, <1>8, <3>3, <3>4
    <3> QED BY <3>5 DEF QuietWhenSettled
  <2> QED BY <2>1, <2>2 DEF QuietWhenSettled
<1>12. call.name \in Exchanges =>
         /\ \A m \in Sending' : Asks(m) => AsksFor(m)'
         /\ \A m \in Coming' : Answers(m) => AnswersTo(m)'
         /\ call'.state = "answered" => call'.answer.type = call'.want /\ AnswersTo(call.answer)'
  <2> SUFFICES ASSUME call.name \in Exchanges
               PROVE  /\ \A m \in Sending' : Asks(m) => AsksFor(m)'
                      /\ \A m \in Coming' : Answers(m) => AnswersTo(m)'
                      /\ call'.state = "answered" =>
                           call'.answer.type = call'.want /\ AnswersTo(call.answer)'
    OBVIOUS
  <2>1. /\ \A m : AsksFor(m) => AsksFor(m)'
        /\ \A m : AnswersTo(m) => AnswersTo(m)'
    BY <1>2, <1>3 DEF AsksFor, AnswersTo
  <2>2. Answers(p) => AnswersTo(p)
    BY <1>1, <1>2 DEF ExchangeInv
  <2>3. Asks(r) => AsksFor(r)
    <3> SUFFICES ASSUME Asks(r) PROVE AsksFor(r)
      OBVIOUS
    <3>1. p.type = "PUBREC" /\ r.type = "PUBREL" /\ r.id = p.id /\ AnswersTo(p)
      BY <1>4, <1>9, <2>2
    <3>2. /\ call.name \in Publishes /\ p.id = call.packet.id /\ call.packet.qos # 1
          /\ call.packet.what \in seen.accepted
      BY <1>3, <3>1 DEF AnswersTo
    <3>3. call.packet.qos = 2
      BY <1>1, <3>2 DEF CallTypes, PublishOf
    <3> QED BY <3>1, <3>2, <3>3 DEF AsksFor
  <2>4. \A m \in Sending' : Asks(m) => AsksFor(m)
    BY <1>1, <1>2, <1>4, <2>3 DEF ExchangeInv
  <2>5. \A m \in Coming' : Answers(m) => AnswersTo(m)
    BY <1>1, <1>2 DEF ExchangeInv
  <2>6. call'.state = "answered" => call'.answer = p /\ p.type = call.want /\ call'.want = call.want
    BY <1>2, ReadPackets
  <2>7. p.type = call.want => Answers(p)
    BY <1>1 DEF CallTypes, Exchanges, Publishes, Requests, Answers
  <2>8. call'.state = "answered" => AnswersTo(call.answer)'
    BY <1>2, <1>3, <2>2, <2>6, <2>7 DEF AnswersTo
  <2> QED BY <2>1, <2>4, <2>5, <2>6, <2>8
<1>13. call.name \in ConnectCalls /\ call'.state = "answered" => call'.answer.type = "CONNACK"
  BY <1>1, <1>2 DEF CallTypes
<1> QED BY <1>2, <1>10, <1>11, <1>12, <1>13 DEF ExchangeInv

LEMMA CyclePacketKeeps == IInv /\ CyclePacket => IInv'
<1> SUFFICES ASSUME IInv, CyclePacket PROVE IInv'
  OBVIOUS
<1> DEFINE p == Head(net.toClient)
           r == Reply(p)
<1>1. /\ TypeInv /\ Types /\ ScriptInv /\ ConnectionInv /\ InflightInv /\ ReceivedInv
      /\ ConfirmedAccepted /\ SubsInv
  BY DEF IInv, TypeInv
<1>2. PacketRead(p)
  BY <1>1, CycleEffect
<1>3. /\ p \in Packets /\ p \in Coming /\ FromServer(p) /\ r \in Packets
      /\ Coming' \subseteq Coming
      /\ \A m \in Sending' : m \in Sending \/ m = Ping \/ (m = r /\ r # NoPacket)
      /\ \A m \in Sending : m.type # "CONNECT"
      /\ call' \in CallRecords /\ CallTypes'
      /\ call'.name = call.name /\ call'.want = call.want /\ call'.packet = call.packet
      /\ call'.arg = call.arg
      /\ \/ call'.state = call.state /\ call'.answer = call.answer
         \/ call'.state = "failed"
         \/ call'.state = "answered" /\ call'.answer = p /\ p.type = call.want
      /\ call.state = "waiting" /\ call.name # "none"
  BY <1>2, ReadPackets
<1>4. /\ script' = script /\ server' = server /\ troubles' = troubles /\ net' \in NetRecords
      /\ net.toClient # <<>> /\ Waiting
      /\ client' \in ClientRecords /\ Bounded' /\ client'.cleansession = client.cleansession
      /\ client'.isconnected => /\ client.isconnected /\ client'.inflight = client.inflight
                                /\ client'.handlers = client.handlers
      /\ (client.cleansession /\ client.isconnected) \/ client'.inflight = client.inflight
      /\ client'.inflight \in {client.inflight, NoPacket}
      /\ deliverMessage(p) /\ ~Lost
  BY <1>2 DEF PacketRead, Concluded, Lost, NoneUnderWay
<1>5. /\ seen' \in SeenRecords
      /\ seen'.accepted = seen.accepted /\ seen'.confirmed = seen.confirmed
      /\ Len(seen'.delivered) = Len(seen.delivered)
      /\ \A n \in 1 .. Len(seen.delivered) : seen'.delivered[n].qos = seen.delivered[n].qos
      /\ seen'.dropped \subseteq seen.dropped \union (IF p.type = "PUBLISH" THEN {p.what} ELSE {})
  BY <1>1, <1>3, <1>4, ReadSeen
<1>6. /\ Ping.type = "PINGREQ" /\ FromClient(Ping)
      /\ r # NoPacket => FromClient(r) /\ r.type \in {"PUBACK", "PUBREC", "PUBREL", "PUBCOMP"}
  <2>1. Ping.type = "PINGREQ" /\ FromClient(Ping)
    BY DEF Ping, Packet, FromClient, ClientKinds
  <2>2. r # NoPacket => FromClient(r) /\ r.type \in {"PUBACK", "PUBREC", "PUBREL", "PUBCOMP"}
    BY <1>3, ReplyEffect DEF FromClient, FromServer, ClientKinds
  <2> QED BY <2>1, <2>2
<1> HIDE DEF p, r
<1>7. TypeInv'
  <2>1. Types'
    BY <1>1, <1>3, <1>4, <1>5 DEF Types
  <2>2. /\ \A m : FromClient(m) => FromClient(m)'
        /\ \A m : FromServer(m) => FromServer(m)'
        /\ \A m : Kept(m) => Kept(m)'
    BY <1>4, <1>5 DEF FromClient, FromServer, Kept, IsMessage
  <2>3. /\ \A m \in Sending' : FromClient(m)'
        /\ \A m \in Coming' : FromServer(m)'
        /\ \A m \in Keeping' : Kept(m)'
    BY <1>1, <1>3, <1>4, <1>6, <2>2 DEF TypeInv, Keeping
  <2>4. \A n \in seen'.dropped : IsMessage(n)'
    BY <1>1, <1>3, <1>5 DEF TypeInv, IsMessage, FromServer
  <2> QED BY <1>1, <1>3, <1>4, <2>1, <2>3, <2>4 DEF TypeInv
<1>8. ScriptInv'
  <2>1. OrderAtHead'
    BY <1>1, <1>3, <1>4 DEF ScriptInv, OrderAtHead, NextIs, Waiting, Idle
  <2> QED BY <1>1, <1>4, <2>1, ScriptStays
<1>9. ConnectionInv'
  <2>1. ConnectFirst'
    <3>1. \A m \in Sending' : m.type # "CONNECT"
      BY <1>3, <1>6
    <3> QED BY <3>1 DEF ConnectFirst, Sending, Elements
  <2>2. \A m \in Sending' : m.type = "DISCONNECT" => ~client'.isconnected /\ call'.name \notin Talks
    BY <1>1, <1>3, <1>4, <1>6 DEF ConnectionInv
  <2>3. call'.name \in Talks /\ ~server'.up =>
          /\ \A m \in Coming' : Refused(m)
          /\ call'.state = "answered" => Refused(call'.answer)
    BY <1>1, <1>3, <1>4 DEF ConnectionInv
  <2> QED BY <1>1, <1>3, <1>4, <2>1, <2>2, <2>3 DEF ConnectionInv
<1>10. ExchangeInv' /\ Messages'
  BY <1>2, ReadExchange, ReadMessages
<1>11. InflightInv'
  <2>1. \A m \in Sending' : m.type = "PUBLISH" => m \in Sending
    BY <1>3, <1>6
  <2>2. call.name = "resend" => ~client.isconnected
    BY <1>1 DEF ConnectionInv
  <2> QED BY <1>1, <1>3, <1>4, <2>1, <2>2 DEF InflightInv
<1>12. ReceivedInv'
  <2>1. Remembering' => Remembering
    BY <1>3, <1>4 DEF Remembering, KeptSession
  <2>2. Remembering' => Current' = Current
    <3>1. call.name \in ConnectCalls => ~client.isconnected
      BY <1>1 DEF ConnectionInv
    <3> QED BY <1>3, <1>4, <3>1 DEF Remembering, KeptSession, Current
  <2>3. server'.received = server.received /\ seen'.accepted = seen.accepted
    BY <1>4, <1>5
  <2>4. client'.isconnected /\ call'.name \notin Publishes =>
          client.isconnected /\ call.name \notin Publishes
    BY <1>3, <1>4
  <2> QED BY <1>1, <2>1, <2>2, <2>3, <2>4 DEF ReceivedInv
<1>13. ConfirmedAccepted'
  BY <1>1, <1>5 DEF ConfirmedAccepted
<1>14. SubsInv'
  <2>1. client'.isconnected => Handled' = Handled
    BY <1>4 DEF Handled
  <2>2. call.name = "subscribe" /\ Unsubscribed' => Unsubscribed
    <3>1. \A m \in Sending' : m.type = "SUBSCRIBE" => m \in Sending
      BY <1>3, <1>6
    <3>2. call.name = "subscribe" => call.want = "SUBACK"
      BY <1>1 DEF TypeInv, CallTypes
    <3> QED BY <1>3, <3>1, <3>2 DEF Unsubscribed
  <2>3. call.name = "unsubscribe" /\ Removed' => Removed
    <3>1. call.name = "unsubscribe" => call.want = "UNSUBACK"
      BY <1>1 DEF TypeInv, CallTypes
    <3> QED BY <1>3, <3>1 DEF Removed
  <2> QED BY <1>1, <1>3, <1>4, <2>1, <2>2, <2>3 DEF SubsInv
<1> QED BY <1>7, <1>8, <1>9, <1>10, <1>11, <1>12, <1>13, <1>14 DEF IInv, Messages

(***************************************************************************)
(* The packet of which only the header byte is read, on a connection that  *)
(* has ended behind it.                                                    *)
(***************************************************************************)

\* The table that the packet leaves, and what is noted of the entries that came and went.
Misread(p, incoming) ==
  /\ client'.incoming = incoming \/ (client.cleansession /\ client'.incoming = {})
  /\ seen' = [seen EXCEPT
       !.left = @ \union (incoming \ client.incoming),
       !.again = @ \union
         {m \in DOMAIN seen.delivered : \E i \in DOMAIN server.pending :
            /\ server.pending[i].type = "PUBLISH" /\ server.pending[i].what = m
            /\ server.pending[i].id \in client.incoming \ incoming}]

\* What reading its header does, with a packet q that is taken for p.
HeaderRead(p, q) ==
  /\ p = Head(net.toClient) /\ Waiting /\ net.toClient # <<>>
  /\ script' = script /\ server' = server /\ troubles' \in 0 .. MaxTroubles
  /\ net' \in NetRecords /\ Lost'
  /\ q \in Packets /\ q.type = p.type /\ (q.type = "SUBACK" => q.what = 1)
  /\ Concluded(q)
  /\ \E incoming \in SUBSET Nat : Misread(p, incoming)

LEMMA HeaderEffect ==
  ASSUME TypeInv, ReadHeader
  PROVE  \E q : HeaderRead(Head(net.toClient), q)
<1> DEFINE p == Head(net.toClient)
<1>1. PICK s \in {"dead", "closed"}, id \in 0 .. MaxPacketId :
        LET q == HeaderOnly(p, id)
            taken == Take(client, IF q.type = "PUBLISH" /\ id = 0 THEN NoPacket ELSE q,
                          CanReply(q, Ended(s)))
        IN  /\ Conclude(q, taken, Ended(s))
            /\ seen' = [seen EXCEPT
                 !.left = @ \union (taken.incoming \ client.incoming),
                 !.again = @ \union
                   {m \in DOMAIN seen.delivered : \E i \in DOMAIN server.pending :
                      /\ server.pending[i].type = "PUBLISH" /\ server.pending[i].what = m
                      /\ server.pending[i].id \in client.incoming \ taken.incoming}]
  BY DEF ReadHeader
<1> DEFINE q == HeaderOnly(p, id)
           t == IF q.type = "PUBLISH" /\ id = 0 THEN NoPacket ELSE q
           taken == Take(client, t, CanReply(q, Ended(s)))
<1>2. /\ Waiting /\ net.toClient # <<>> /\ Trouble /\ Types
      /\ script' = script /\ server' = server
  BY DEF ReadHeader, TypeInv
<1>3. net.toClient \in Seq(Packets)
  BY <1>2 DEF Types, NetRecords
<1>4. p \in Packets
  BY <1>2, <1>3, TailEffect
<1> HIDE DEF p
<1>5. q \in Packets /\ q.type = p.type /\ (q.type = "SUBACK" => q.what = 1)
  <2> DEFINE w == IF p.type \in {"CONNACK", "SUBACK"} THEN 1 ELSE p.what
  <2>1. w \in Nat \union Filter /\ id \in Nat
    BY <1>4, CppClientAssumption DEF Packets
  <2>2. q = [p EXCEPT !.id = id, !.what = w]
    BY <1>4 DEF HeaderOnly, Packets
  <2>3. p.type = "SUBACK" => w = 1
    OBVIOUS
  <2> HIDE DEF w, q
  <2> QED BY <1>4, <2>1, <2>2, <2>3 DEF Packets
<1>6. t \in Packets
  BY <1>5, PacketTypes
<1>7. Ended(s) \in NetRecords /\ Ended(s).state # "up"
  BY EmptyEffect DEF Ended, NetRecords
<1>8. CanReply(q, Ended(s)) \in BOOLEAN
  BY DEF CanReply
<1> HIDE DEF q, t
<1>9. /\ Conclude(q, taken, Ended(s))
      /\ Misread(p, taken.incoming) <=>
           client'.incoming = taken.incoming \/ (client.cleansession /\ client'.incoming = {})
  BY <1>1 DEF q, t, Misread
<1>10. /\ Concluded(q)
       /\ client'.incoming = taken.incoming \/ (client.cleansession /\ client'.incoming = {})
       /\ net' = Ended(s)
  BY <1>2, <1>5, <1>6, <1>7, <1>8, <1>9, ConcludeEffect
<1>11. taken.incoming \in SUBSET Nat
  BY <1>6, <1>8, TakeEffect DEF ClientRecords
<1> HIDE DEF taken
<1>12. net' \in NetRecords /\ Lost'
  BY <1>7, <1>10 DEF Ended, Lost, NoneUnderWay
<1>13. \E incoming \in SUBSET Nat : Misread(p, incoming)
  BY <1>9, <1>10, <1>11
<1>14. troubles' \in 0 .. MaxTroubles
  BY <1>2, TroubleEffect
<1>15. p = Head(net.toClient)
  BY DEF p
<1>16. HeaderRead(p, q)
  BY <1>2, <1>5, <1>10, <1>12, <1>13, <1>14, <1>15 DEF HeaderRead
<1> QED BY <1>15, <1>16

\* Nothing is under way that could be misled; a message that the server has kept and whose
\* identifier is gone is one that may come again.
LEMMA HeaderMessages ==
  ASSUME IInv, NEW p, NEW q, HeaderRead(p, q)
  PROVE  Messages' /\ seen' \in SeenRecords
         /\ seen'.accepted = seen.accepted /\ seen'.confirmed = seen.confirmed
         /\ seen'.delivered = seen.delivered /\ seen'.dropped = seen.dropped
<1>1. TypeInv /\ Types /\ NumberInv /\ DeliveryInv /\ seen \in SeenRecords
  BY DEF IInv, TypeInv, Types
<1>2. PICK incoming \in SUBSET Nat : Misread(p, incoming)
  BY DEF HeaderRead
<1>3. /\ server' = server /\ client'.cleansession = client.cleansession
      /\ net'.toServer = <<>> /\ net'.toClient = <<>>
  BY DEF HeaderRead, Concluded, Lost, NoneUnderWay
<1>4. Sending' = {} /\ Coming' = {} /\ Len(net'.toClient) = 0
  BY <1>3, EmptyEffect DEF Sending, Coming
<1> DEFINE gone == {m \in DOMAIN seen.delivered : \E i \in DOMAIN server.pending :
                      /\ server.pending[i].type = "PUBLISH" /\ server.pending[i].what = m
                      /\ server.pending[i].id \in client.incoming \ incoming}
<1>5. gone \subseteq Nat
  BY <1>1 DEF SeenRecords
<1>6. /\ seen' = [seen EXCEPT !.left = seen.left \union (incoming \ client.incoming),
                             !.again = seen.again \union gone]
      /\ client'.incoming = incoming \/ (client.cleansession /\ client'.incoming = {})
  BY <1>2 DEF Misread
<1> HIDE DEF gone
<1>7. /\ seen' \in SeenRecords
      /\ seen'.accepted = seen.accepted /\ seen'.confirmed = seen.confirmed
      /\ seen'.delivered = seen.delivered /\ seen'.dropped = seen.dropped
      /\ seen'.left = seen.left \union (incoming \ client.incoming)
      /\ seen'.again = seen.again \union gone
  BY <1>1, <1>5, <1>6 DEF SeenRecords
<1>8. Keeping' = Keeping /\ (KeptSession' <=> KeptSession)
  BY <1>3 DEF Keeping, KeptSession
<1>9. NumberInv'
  <2>1. \A id \in client'.incoming : id <= server.nextId \/ id \in seen'.left
    BY <1>1, <1>6, <1>7 DEF NumberInv
  <2> QED BY <1>1, <1>3, <1>4, <1>8, <2>1 DEF NumberInv
<1>10. ReleaseInv'
  BY <1>4 DEF ReleaseInv
<1>11. ASSUME KeptSession, NEW m \in Keeping, Numbered(m), m.qos = 2
       PROVE  Undelivered(m)' /\ Accounted(m)'
  <2>1. Undelivered(m) /\ Accounted(m) /\ client'.incoming = incoming
    BY <1>1, <1>6, <1>11 DEF DeliveryInv, KeptSession
  <2>2. Times(m)' = Times(m) /\ (GivenUp(m) => GivenUp(m)')
    BY <1>7 DEF Times, GivenUp
  <2>3. m.id \in client.incoming \ incoming => m.what \in gone
    <3>1. PICK i \in 1 .. Len(server.pending) : m = server.pending[i]
      BY <1>11 DEF Keeping, Elements
    <3>2. m.what \in 1 .. Len(seen.delivered)
      BY <1>1, <1>11 DEF TypeInv, Kept, FromServer, IsMessage, Numbered
    <3>3. /\ DOMAIN server.pending = 1 .. Len(server.pending)
          /\ DOMAIN seen.delivered = 1 .. Len(seen.delivered)
      BY <1>1 DEF Types, ServerRecords, SeenRecords
    <3> QED BY <1>11, <3>1, <3>2, <3>3 DEF gone, Numbered
  <2>4. Undelivered(m)'
    BY <1>7, <2>1, <2>2, <2>3 DEF Undelivered
  <2>5. m.id \in incoming \ client.incoming => GivenUp(m)'
    BY <1>7 DEF GivenUp
  <2> QED BY <2>1, <2>2, <2>4, <2>5 DEF Accounted
<1>12. DeliveredOnce'
  BY <1>1, <1>7 DEF DeliveryInv, DeliveredOnce
<1>13. DeliveryInv'
  BY <1>4, <1>8, <1>11, <1>12 DEF DeliveryInv, Numbered
<1> QED BY <1>7, <1>9, <1>10, <1>13 DEF Messages

LEMMA ReadHeaderKeeps == IInv /\ ReadHeader => IInv'
<1> SUFFICES ASSUME IInv, ReadHeader PROVE IInv'
  OBVIOUS
<1>1. /\ TypeInv /\ Types /\ CallTypes /\ ScriptInv /\ ConnectionInv /\ ExchangeInv
      /\ InflightInv /\ ReceivedInv /\ ConfirmedAccepted /\ SubsInv
  BY DEF IInv, TypeInv
<1> DEFINE p == Head(net.toClient)
<1>2. PICK q : HeaderRead(p, q)
  BY <1>1, HeaderEffect
<1>3. /\ Waiting /\ net.toClient # <<>>
      /\ script' = script /\ server' = server /\ troubles' \in 0 .. MaxTroubles
      /\ net' \in NetRecords /\ Lost'
      /\ q \in Packets /\ q.type = p.type /\ (q.type = "SUBACK" => q.what = 1)
      /\ Concluded(q)
  BY <1>2 DEF HeaderRead
<1>4. p \in Coming
  <2>1. net.toClient \in Seq(Packets)
    BY <1>1 DEF Types, NetRecords
  <2> QED BY <1>3, <2>1, TailEffect DEF Coming
<1> HIDE DEF p
<1>5. FromServer(p) /\ p.type # "none"
  BY <1>1, <1>4 DEF TypeInv, FromServer, ServerKinds
<1>6. /\ client' \in ClientRecords /\ Bounded' /\ client'.cleansession = client.cleansession
      /\ client'.isconnected => /\ client.isconnected /\ client'.inflight = client.inflight
                                /\ client'.handlers = client.handlers
      /\ (client.cleansession /\ client.isconnected) \/ client'.inflight = client.inflight
      /\ client'.inflight \in {client.inflight, NoPacket}
      /\ \/ call' = call
         \/ CallFailed
         \/ q.type = call.want /\ call' = [call EXCEPT !.state = "answered", !.answer = q]
  BY <1>3 DEF Concluded
<1>7. /\ Messages' /\ seen' \in SeenRecords
      /\ seen'.accepted = seen.accepted /\ seen'.confirmed = seen.confirmed
      /\ seen'.delivered = seen.delivered /\ seen'.dropped = seen.dropped
  BY <1>2, HeaderMessages
<1>8. /\ net'.toServer = <<>> /\ net'.toClient = <<>> /\ ~Lost
      /\ Sending' = {} /\ Coming' = {} /\ Asked' = {} /\ Replied' = {}
      /\ Len(net'.toServer) = 0
  <2>1. net'.toServer = <<>> /\ net'.toClient = <<>> /\ ~Lost
    BY <1>3 DEF Lost, NoneUnderWay
  <2> QED BY <2>1, EmptyEffect DEF Sending, Coming, Asked, Replied
<1>9. call.state = "waiting" /\ call.name # "none" /\ call # Idle
  BY <1>1, <1>3 DEF Waiting, CallTypes, Idle
<1>10. /\ call' \in CallRecords
       /\ call'.name = call.name /\ call'.want = call.want /\ call'.packet = call.packet
       /\ call'.arg = call.arg
       /\ \/ call' = call
          \/ call'.state = "failed" /\ call.name \notin Yields
          \/ call'.state = "answered" /\ call'.answer = q /\ q.type = call.want
  BY <1>1, <1>3, <1>6 DEF CallFailed, Types, CallRecords
<1>11. TypeInv'
  <2>1. Types'
    BY <1>1, <1>3, <1>6, <1>7, <1>10 DEF Types
  <2>2. CallTypes'
    <3>1. call.name \in Yields => call'.state = "waiting"
      BY <1>1, <1>3, <1>5, <1>9, <1>10 DEF CallTypes
    <3> QED BY <1>1, <1>9, <1>10, <3>1 DEF CallTypes, Idle
  <2>3. \A m \in Keeping' : Kept(m)'
    BY <1>1, <1>3, <1>7, PacketsStay DEF TypeInv, Keeping
  <2>4. \A n \in seen'.dropped : IsMessage(n)'
    BY <1>1, <1>7 DEF TypeInv, IsMessage
  <2> QED BY <1>1, <1>6, <1>8, <2>1, <2>2, <2>3, <2>4 DEF TypeInv
<1>12. ScriptInv'
  <2>1. OrderAtHead'
    BY <1>1, <1>3, <1>10 DEF ScriptInv, OrderAtHead, NextIs, Waiting, Idle
  <2> QED BY <1>1, <1>3, <1>6, <2>1, ScriptStays
<1>13. ConnectionInv'
  <2>1. ConnectFirst'
    BY <1>8 DEF ConnectFirst
  <2> QED BY <1>1, <1>3, <1>6, <1>8, <1>10, <2>1 DEF ConnectionInv
<1>14. ExchangeInv'
  <2>1. OneExchange' /\ QuietWhenSettled'
    BY <1>8 DEF OneExchange, QuietWhenSettled
  <2>2. ASSUME call.name \in Exchanges, call'.state = "answered"
        PROVE  call'.answer.type = call'.want /\ AnswersTo(call.answer)'
    <3>1. call'.answer = q /\ q.type = call.want
      BY <1>9, <1>10, <2>2
    <3>2. Answers(p)
      BY <1>1, <1>3, <2>2, <3>1 DEF CallTypes, Exchanges, Publishes, Requests, Answers
    <3>3. AnswersTo(p)
      BY <1>1, <1>4, <2>2, <3>2 DEF ExchangeInv
    <3>4. AnswersTo(call.answer)'
      BY <1>3, <1>7, <1>10, <3>1, <3>3 DEF AnswersTo
    <3> QED BY <1>10, <3>1, <3>4
  <2>3. call.name \in ConnectCalls /\ call'.state = "answered" => call'.answer.type = "CONNACK"
    BY <1>1, <1>9, <1>10 DEF CallTypes
  <2> QED BY <1>8, <1>10, <2>1, <2>2, <2>3 DEF ExchangeInv
<1>15. InflightInv'
  <2>1. call.name = "resend" => ~client.isconnected
    BY <1>1 DEF ConnectionInv
  <2>2. call.name = "resend" \/ (call.name = "publish" /\ ~client.cleansession)
          => client'.inflight = call.packet
    BY <1>1, <1>6, <2>1 DEF InflightInv
  <2> QED BY <1>3, <1>6, <1>8, <1>10, <2>2 DEF InflightInv
<1>16. ReceivedInv'
  <2>1. Remembering' => Remembering
    BY <1>3, <1>6, <1>10 DEF Remembering, KeptSession
  <2>2. Remembering' => Current' = Current
    <3>1. call.name \in ConnectCalls => ~client.isconnected
      BY <1>1 DEF ConnectionInv
    <3> QED BY <1>3, <1>6, <1>10, <3>1 DEF Remembering, KeptSession, Current
  <2>3. server'.received = server.received /\ seen'.accepted = seen.accepted
    BY <1>3, <1>7
  <2>4. client'.isconnected /\ call'.name \notin Publishes =>
          client.isconnected /\ call.name \notin Publishes
    BY <1>6, <1>10
  <2> QED BY <1>1, <2>1, <2>2, <2>3, <2>4 DEF ReceivedInv
<1>17. ConfirmedAccepted'
  BY <1>1, <1>7 DEF ConfirmedAccepted
<1>18. SubsInv'
  <2>1. client'.isconnected => Handled' = Handled /\ client.isconnected
    BY <1>6 DEF Handled
  <2>2. call.name = "subscribe" => ~Unsubscribed'
    <3>1. call.name = "subscribe" => call.want = "SUBACK"
      BY <1>1 DEF CallTypes
    <3> QED BY <1>3, <1>8, <1>9, <1>10, <3>1 DEF Unsubscribed
  <2>3. call.name = "unsubscribe" /\ Removed' => Removed
    <3>1. call.name = "unsubscribe" => call.want = "UNSUBACK"
      BY <1>1 DEF CallTypes
    <3> QED BY <1>3, <1>4, <1>8, <1>9, <1>10, <3>1 DEF Removed
  <2> QED BY <1>1, <1>3, <1>6, <1>10, <2>1, <2>2, <2>3 DEF SubsInv
<1> QED BY <1>7, <1>11, <1>12, <1>13, <1>14, <1>15, <1>16, <1>17, <1>18 DEF IInv, Messages

(***************************************************************************)
(* The server.                                                             *)
(***************************************************************************)

\* The queues when the server has read a packet and sent others.
LEMMA ServedPackets ==
  ASSUME Types, net.toServer # <<>>, NEW q \in Seq(Packets), net' = ToClient(net, q)
  PROVE  LET p == Head(net.toServer)
         IN  /\ net' \in NetRecords /\ net'.state = net.state
             /\ p \in Packets /\ p \in Sending /\ 1 \in 1 .. Len(net.toServer) /\ net.toServer[1] = p
             /\ Sending' \subseteq Sending /\ Coming' = Coming \union Elements(q)
             /\ \A i \in 1 .. Len(net'.toServer) :
                  i + 1 \in 1 .. Len(net.toServer) /\ net'.toServer[i] = net.toServer[i + 1]
             /\ Len(net.toClient) \in Nat /\ Len(q) \in Nat
             /\ Len(net'.toClient) = Len(net.toClient) + Len(q)
             /\ \A i \in 1 .. Len(net'.toClient) :
                  \/ i \in 1 .. Len(net.toClient) /\ net'.toClient[i] = net.toClient[i]
                  \/ /\ i > Len(net.toClient) /\ i - Len(net.toClient) \in 1 .. Len(q)
                     /\ net'.toClient[i] = q[i - Len(net.toClient)]
<1>1. net \in NetRecords /\ net.toServer \in Seq(Packets) /\ net.toClient \in Seq(Packets)
  BY DEF Types, NetRecords
<1>2. /\ net'.state = net.state /\ net'.toServer = Tail(net.toServer)
      /\ net'.toClient = net.toClient \o q
      /\ net' = [net EXCEPT !.toServer = Tail(net.toServer), !.toClient = net.toClient \o q]
  BY <1>1 DEF ToClient, NetRecords
<1>3. /\ Head(net.toServer) \in Packets /\ Head(net.toServer) \in Sending
      /\ 1 \in 1 .. Len(net.toServer) /\ net.toServer[1] = Head(net.toServer)
      /\ Tail(net.toServer) \in Seq(Packets) /\ Sending' \subseteq Sending
      /\ \A i \in 1 .. Len(net'.toServer) :
           i + 1 \in 1 .. Len(net.toServer) /\ net'.toServer[i] = net.toServer[i + 1]
  BY <1>1, <1>2, TailEffect DEF Sending
<1>4. /\ net.toClient \o q \in Seq(Packets)
      /\ Len(net.toClient) \in Nat /\ Len(q) \in Nat
      /\ Len(net'.toClient) = Len(net.toClient) + Len(q)
      /\ \A i \in 1 .. Len(net.toClient) : net'.toClient[i] = net.toClient[i]
      /\ \A i \in 1 .. Len(net'.toClient) : i > Len(net.toClient) =>
           i - Len(net.toClient) \in 1 .. Len(q) /\ net'.toClient[i] = q[i - Len(net.toClient)]
      /\ Coming' = Coming \union Elements(q)
  BY <1>1, <1>2, ConcatEffect DEF Coming
<1>5. net' \in NetRecords
  BY <1>1, <1>2, <1>3, <1>4 DEF NetRecords
<1>6. \A i \in 1 .. Len(net'.toClient) : i \in 1 .. Len(net.toClient) \/ i > Len(net.toClient)
  BY <1>4
<1> QED BY <1>2, <1>3, <1>4, <1>5, <1>6

\* What is left to show of an answer of the server, a sequence of packets.
ServesWell(q) ==
  /\ net.toServer # <<>> /\ q \in Seq(Packets) /\ net' = ToClient(net, q)
  /\ script' = script /\ call' = call /\ client' = client
  /\ server' \in ServerRecords /\ seen' \in SeenRecords /\ troubles' \in 0 .. MaxTroubles
  \* types
  /\ Len(seen'.delivered) >= Len(seen.delivered)
  /\ \A n \in 1 .. Len(seen.delivered) : seen'.delivered[n] = seen.delivered[n]
  /\ seen'.dropped = seen.dropped /\ seen'.confirmed = seen.confirmed
  /\ seen.accepted \subseteq seen'.accepted
  /\ server'.nextId >= server.nextId \/ Head(net.toServer).type = "CONNECT"
  /\ \A m \in Elements(q) : FromServer(m)'
  /\ \A m \in Keeping' : Kept(m)'
  \* the connection
  /\ server'.clean = server.clean \/ server'.clean = client.cleansession
  /\ server'.up => server'.clean = client.cleansession
  /\ client.isconnected => server'.up
  /\ call.name \in Talks /\ ~server'.up => ~server.up /\ \A m \in Elements(q) : Refused(m)
  \* the exchange
  /\ \A i, j \in 1 .. Len(q) : Answers(q[i]) /\ Answers(q[j]) => i = j
  /\ \A m \in Elements(q) : Answers(m) => /\ Asks(Head(net.toServer))
                                          /\ call.name \in Exchanges => AnswersTo(m)'
  /\ server'.received \subseteq server.received \/ Asks(Head(net.toServer))
  /\ ReceivedInv' /\ SubsInv' /\ Messages'

LEMMA ServeExchange ==
  ASSUME IInv, NEW q, ServesWell(q)
  PROVE  ExchangeInv'
<1> DEFINE p == Head(net.toServer)
<1>1. TypeInv /\ Types /\ ConnectionInv /\ ExchangeInv
  BY DEF IInv, TypeInv
<1>2. /\ net.toServer # <<>> /\ q \in Seq(Packets) /\ net' = ToClient(net, q)
      /\ call' = call /\ client' = client
      /\ seen.accepted \subseteq seen'.accepted
      /\ \A i, j \in 1 .. Len(q) : Answers(q[i]) /\ Answers(q[j]) => i = j
      /\ \A m \in Elements(q) : Answers(m) => /\ Asks(p)
                                              /\ call.name \in Exchanges => AnswersTo(m)'
      /\ server'.received \subseteq server.received \/ Asks(p)
      /\ ~Lost
  BY DEF ServesWell, Lost, NoneUnderWay
<1>3. /\ p \in Packets /\ p \in Sending /\ 1 \in 1 .. Len(net.toServer) /\ net.toServer[1] = p
      /\ Sending' \subseteq Sending /\ Coming' = Coming \union Elements(q)
      /\ \A i \in 1 .. Len(net'.toServer) :
           i + 1 \in 1 .. Len(net.toServer) /\ net'.toServer[i] = net.toServer[i + 1]
      /\ Len(net.toClient) \in Nat /\ Len(q) \in Nat
      /\ \A i \in 1 .. Len(net'.toClient) :
           \/ i \in 1 .. Len(net.toClient) /\ net'.toClient[i] = net.toClient[i]
           \/ /\ i > Len(net.toClient) /\ i - Len(net.toClient) \in 1 .. Len(q)
              /\ net'.toClient[i] = q[i - Len(net.toClient)]
  BY <1>1, <1>2, ServedPackets
<1> HIDE DEF p
<1>4. \A i \in Asked' : i \in Nat /\ i + 1 \in Asked /\ i + 1 # 1
  BY <1>3 DEF Asked
<1>5. Asks(p) <=> 1 \in Asked
  BY <1>3 DEF Asked
<1>6. Asks(p) => Asked' = {} /\ Replied = {}
  BY <1>1, <1>4, <1>5 DEF ExchangeInv, OneExchange
<1>7. \A i \in Replied' : \/ i \in Replied
                          \/ /\ i - Len(net.toClient) \in 1 .. Len(q) /\ i \in Nat
                             /\ Answers(q[i - Len(net.toClient)])
  BY <1>3 DEF Replied
<1>8. ~Asks(p) => Replied' \subseteq Replied
  BY <1>2, <1>7 DEF Elements
<1>9. OneExchange'
  <2>1. \A i, j \in Asked' : i = j
    <3> SUFFICES ASSUME NEW i \in Asked', NEW j \in Asked' PROVE i = j
      OBVIOUS
    <3>1. i + 1 = j + 1 /\ i \in Nat /\ j \in Nat
      BY <1>1, <1>4 DEF ExchangeInv, OneExchange
    <3> QED BY <3>1
  <2>2. CASE Asks(p)
    <3>1. \A i, j \in Replied' : i = j
      <4> SUFFICES ASSUME NEW i \in Replied', NEW j \in Replied' PROVE i = j
        OBVIOUS
      <4>1. i - Len(net.toClient) = j - Len(net.toClient) /\ i \in Nat /\ j \in Nat
        BY <1>2, <1>6, <1>7, <2>2
      <4> QED BY <1>3, <4>1
    <3> QED BY <1>6, <2>1, <2>2, <3>1 DEF OneExchange
  <2>3. CASE ~Asks(p)
    <3>1. Asked = {} => Asked' = {}
      BY <1>4
    <3> QED BY <1>1, <1>8, <2>1, <2>3, <3>1 DEF ExchangeInv, OneExchange
  <2> QED BY <2>2, <2>3
<1>10. Settled => ~Asks(p) /\ Asked' = {} /\ Replied' = {}
  BY <1>1, <1>4, <1>5, <1>8 DEF ExchangeInv, QuietWhenSettled
<1>11. QuietWhenSettled'
  BY <1>2, <1>10 DEF QuietWhenSettled, Settled
<1>12. ASSUME NEW m, AsksFor(m) PROVE AsksFor(m)'
  BY <1>2, <1>12 DEF AsksFor
<1>13. ASSUME NEW m, AnswersTo(m), ~Asks(p) PROVE AnswersTo(m)'
  BY <1>2, <1>13 DEF AnswersTo
<1>14. \A m \in Coming : Answers(m) => ~Asks(p)
  BY <1>6 DEF Replied, Coming, Elements
<1>15. call.state = "answered" => ~Asks(p)
  BY <1>10 DEF Settled
<1>16. call.name \in Exchanges =>
         /\ \A m \in Sending' : Asks(m) => AsksFor(m)'
         /\ \A m \in Coming' : Answers(m) => AnswersTo(m)'
         /\ call.state = "answered" => AnswersTo(call.answer)'
  <2> SUFFICES ASSUME call.name \in Exchanges
               PROVE  /\ \A m \in Sending' : Asks(m) => AsksFor(m)'
                      /\ \A m \in Coming' : Answers(m) => AnswersTo(m)'
                      /\ call.state = "answered" => AnswersTo(call.answer)'
    OBVIOUS
  <2>1. \A m \in Sending' : Asks(m) => AsksFor(m)'
    BY <1>1, <1>3, <1>12 DEF ExchangeInv
  <2>2. \A m \in Coming' : Answers(m) => AnswersTo(m)'
    BY <1>1, <1>2, <1>3, <1>13, <1>14 DEF ExchangeInv
  <2>3. call.state = "answered" => AnswersTo(call.answer)'
    BY <1>1, <1>2, <1>15 DEF ExchangeInv, AnswersTo
  <2> QED BY <2>1, <2>2, <2>3
<1> QED BY <1>1, <1>2, <1>9, <1>11, <1>16 DEF ExchangeInv

LEMMA ServeKeeps ==
  ASSUME IInv, NEW q, ServesWell(q)
  PROVE  IInv'
<1> DEFINE p == Head(net.toServer)
<1>1. /\ TypeInv /\ Types /\ ScriptInv /\ ConnectionInv /\ InflightInv /\ ConfirmedAccepted
  BY DEF IInv, TypeInv
<1>2. /\ net.toServer # <<>> /\ q \in Seq(Packets) /\ net' = ToClient(net, q)
      /\ script' = script /\ call' = call /\ client' = client
      /\ server' \in ServerRecords /\ seen' \in SeenRecords /\ troubles' \in 0 .. MaxTroubles
      /\ Len(seen'.delivered) >= Len(seen.delivered)
      /\ \A n \in 1 .. Len(seen.delivered) : seen'.delivered[n] = seen.delivered[n]
      /\ seen'.dropped = seen.dropped /\ seen'.confirmed = seen.confirmed
      /\ seen.accepted \subseteq seen'.accepted
      /\ server'.nextId >= server.nextId \/ p.type = "CONNECT"
      /\ \A m \in Elements(q) : FromServer(m)'
      /\ \A m \in Keeping' : Kept(m)'
      /\ ~Lost
  BY DEF ServesWell, Lost, NoneUnderWay
<1>3. /\ server'.clean = server.clean \/ server'.clean = client.cleansession
      /\ server'.up => server'.clean = client.cleansession
      /\ client.isconnected => server'.up
      /\ call.name \in Talks /\ ~server'.up => ~server.up /\ \A m \in Elements(q) : Refused(m)
      /\ ReceivedInv' /\ SubsInv' /\ Messages'
  BY DEF ServesWell
<1>4. /\ net' \in NetRecords
      /\ p \in Packets /\ p \in Sending /\ 1 \in 1 .. Len(net.toServer) /\ net.toServer[1] = p
      /\ Sending' \subseteq Sending /\ Coming' = Coming \union Elements(q)
      /\ \A i \in 1 .. Len(net'.toServer) :
           i + 1 \in 1 .. Len(net.toServer) /\ net'.toServer[i] = net.toServer[i + 1]
  BY <1>1, <1>2, ServedPackets
<1> HIDE DEF p
<1>5. p.type = "CONNECT" =>
        Coming = {} /\ \A m \in Sending : m.type \notin {"PUBACK", "PUBREC", "PUBCOMP"}
  BY <1>1, <1>4, EmptyEffect DEF ConnectionInv, ConnectFirst, Coming
<1>6. TypeInv'
  <2>1. Len(seen.delivered) \in Nat /\ Len(seen'.delivered) \in Nat
        /\ server.nextId \in Nat /\ server'.nextId \in Nat
    BY <1>1, <1>2 DEF Types, SeenRecords, ServerRecords
  <2>2. \A n : IsMessage(n) => IsMessage(n)'
    BY <1>2, <2>1 DEF IsMessage
  <2>3. ASSUME NEW m \in Sending' PROVE FromClient(m)'
    <3>1. FromClient(m) /\ m \in Packets
      BY <1>1, <1>4, <2>3 DEF TypeInv, Types, NetRecords, Sending, Elements
    <3>2. m.type \in {"PUBACK", "PUBREC"} => server'.nextId >= server.nextId
      BY <1>2, <1>4, <1>5, <2>3
    <3>3. m.id \in Nat
      BY <3>1 DEF Packets
    <3> QED BY <2>1, <2>2, <3>1, <3>2, <3>3 DEF FromClient
  <2>4. ASSUME NEW m \in Coming PROVE FromServer(m)'
    <3>1. FromServer(m) /\ m \in Packets
      BY <1>1, <2>4 DEF TypeInv, Types, NetRecords, Coming, Elements
    <3>2. server'.nextId >= server.nextId
      BY <1>2, <1>5, <2>4
    <3>3. m.id \in Nat
      BY <3>1 DEF Packets
    <3> QED BY <1>2, <2>1, <2>2, <3>1, <3>2, <3>3 DEF FromServer, IsMessage
  <2>5. \A n \in seen'.dropped : IsMessage(n)'
    BY <1>1, <1>2, <2>2 DEF TypeInv
  <2>6. Types'
    BY <1>1, <1>2, <1>4 DEF Types
  <2>7. Bounded' /\ CallTypes' /\ (client'.inflight = NoPacket \/ PublishOf(client'.inflight))
    BY <1>1, <1>2 DEF TypeInv, Bounded, CallTypes
  <2> QED BY <1>2, <1>4, <2>3, <2>4, <2>5, <2>6, <2>7 DEF TypeInv
<1>7. ScriptInv'
  <2>1. OrderAtHead'
    BY <1>1, <1>2 DEF ScriptInv, OrderAtHead, NextIs, NoneUnderWay
  <2> QED BY <1>1, <1>2, <1>3, <2>1 DEF ScriptInv
<1>8. ConnectionInv'
  <2>1. ConnectFirst'
    <3>1. \A i \in 1 .. Len(net'.toServer) : net'.toServer[i].type # "CONNECT"
      <4> SUFFICES ASSUME NEW i \in 1 .. Len(net'.toServer), net'.toServer[i].type = "CONNECT"
                   PROVE  FALSE
        OBVIOUS
      <4>1. i + 1 = 1
        BY <1>1, <1>4 DEF ConnectionInv, ConnectFirst
      <4> QED BY <4>1
    <3> QED BY <3>1 DEF ConnectFirst
  <2> QED BY <1>1, <1>2, <1>3, <1>4, <2>1 DEF ConnectionInv
<1>9. InflightInv'
  BY <1>1, <1>2, <1>4 DEF InflightInv
<1>10. ConfirmedAccepted'
  BY <1>1, <1>2 DEF ConfirmedAccepted
<1>11. ExchangeInv'
  BY ServeExchange
<1> QED BY <1>3, <1>6, <1>7, <1>8, <1>9, <1>10, <1>11 DEF IInv, Messages

\* Answers that are no messages, and messages that are no longer kept.
LEMMA PlainMessages ==
  ASSUME Messages, Types, net.toServer # <<>>, NEW q \in Seq(Packets), net' = ToClient(net, q),
         client' = client, server'.nextId = server.nextId, server'.clean = server.clean,
         seen'.delivered = seen.delivered, seen'.dropped = seen.dropped, seen'.left = seen.left,
         seen'.again = seen.again, \A m \in Elements(q) : ~Numbered(m) /\ m.type # "PUBREL",
         Keeping' \subseteq Keeping,
         \A i, j \in 1 .. Len(server'.pending) : server'.pending[i].id = server'.pending[j].id => i = j
  PROVE  Messages'
<1>1. NumberInv /\ ReleaseInv /\ DeliveryInv
  BY DEF Messages
<1>2. /\ Sending' \subseteq Sending /\ Coming' = Coming \union Elements(q)
      /\ \A i \in 1 .. Len(net'.toClient) :
           \/ i \in 1 .. Len(net.toClient) /\ net'.toClient[i] = net.toClient[i]
           \/ net'.toClient[i] \in Elements(q)
  BY ServedPackets DEF Elements
<1>3. /\ \A i \in 1 .. Len(net'.toClient) :
           Numbered(net'.toClient[i]) \/ net'.toClient[i].type = "PUBREL" =>
             i \in 1 .. Len(net.toClient) /\ net'.toClient[i] = net.toClient[i]
      /\ \A m \in Coming' \union Keeping' : Numbered(m) => m \in Coming \union Keeping
      /\ \A m \in Coming' : Numbered(m) => m \in Coming
  BY <1>2
<1>4. NumberInv'
  BY <1>1, <1>3, SMTT(30) DEF NumberInv, Numbered
<1>5. ReleaseInv'
  BY <1>1, <1>3, SMTT(30) DEF ReleaseInv, Numbered
<1>6. \A m : /\ Times(m)' = Times(m) /\ (GivenUp(m)' <=> GivenUp(m))
             /\ (Undelivered(m)' <=> Undelivered(m)) /\ (Accounted(m)' <=> Accounted(m))
  BY DEF Times, GivenUp, Undelivered, Accounted
<1>7. DeliveryInv'
  BY <1>1, <1>2, <1>3, <1>6 DEF DeliveryInv, DeliveredOnce, KeptSession, Numbered
<1> QED BY <1>4, <1>5, <1>7 DEF Messages

\* One packet of an answer, or none.
LEMMA OnePacket ==
  ASSUME NEW a \in Packets
  PROVE  /\ <<a>> \in Seq(Packets) /\ Len(<<a>>) = 1 /\ <<a>>[1] = a /\ Elements(<<a>>) = {a}
<1>1. <<a>> \in Seq(Packets) /\ Len(<<a>>) = 1 /\ <<a>>[1] = a
  OBVIOUS
<1>2. Elements(<<a>>) = {<<a>>[i] : i \in 1 .. 1}
  BY <1>1 DEF Elements
<1> QED BY <1>1, <1>2

\* What is left to show of a step of the server about which no message is.
AnswersWell(q) ==
  /\ net.toServer # <<>> /\ net' = ToClient(net, q)
  /\ script' = script /\ call' = call /\ client' = client /\ seen' = seen
  /\ troubles' \in 0 .. MaxTroubles
  /\ server' \in ServerRecords /\ server'.nextId = server.nextId /\ server'.clean = server.clean
  /\ server'.received \subseteq server.received
  /\ Keeping' \subseteq Keeping
  /\ \A i, j \in 1 .. Len(server'.pending) : server'.pending[i].id = server'.pending[j].id => i = j
  /\ server'.up => server.up
  /\ client.isconnected => server'.up
  /\ call.name \in Talks /\ ~server'.up => ~server.up /\ \A a \in Elements(q) : Refused(a)
  /\ q = <<>> \/ \E a \in Packets :
       /\ q = <<a>> /\ FromServer(a) /\ ~Numbered(a) /\ a.type # "PUBREL"
       /\ Answers(a) => /\ Asks(Head(net.toServer))
                        /\ call.name \in Exchanges => AnswersTo(a)'
  /\ SubsInv'

LEMMA AnswerKeeps ==
  ASSUME IInv, NEW q, AnswersWell(q)
  PROVE  IInv'
<1>1. /\ TypeInv /\ Types /\ ConnectionInv /\ ReceivedInv /\ NumberInv /\ Messages
  BY DEF IInv, TypeInv, Messages
<1>2. /\ net.toServer # <<>> /\ net' = ToClient(net, q)
      /\ script' = script /\ call' = call /\ client' = client /\ seen' = seen
      /\ troubles' \in 0 .. MaxTroubles
      /\ server' \in ServerRecords /\ server'.nextId = server.nextId /\ server'.clean = server.clean
      /\ server'.received \subseteq server.received
      /\ Keeping' \subseteq Keeping
      /\ \A i, j \in 1 .. Len(server'.pending) : server'.pending[i].id = server'.pending[j].id => i = j
      /\ server'.up => server.up
      /\ client.isconnected => server'.up
      /\ call.name \in Talks /\ ~server'.up => ~server.up /\ \A a \in Elements(q) : Refused(a)
      /\ SubsInv'
  BY DEF AnswersWell
<1>3. /\ q \in Seq(Packets)
      /\ \A i, j \in 1 .. Len(q) : i = j
      /\ \A a \in Elements(q) :
           /\ FromServer(a) /\ ~Numbered(a) /\ a.type # "PUBREL"
           /\ Answers(a) => /\ Asks(Head(net.toServer))
                            /\ call.name \in Exchanges => AnswersTo(a)'
  <2>1. CASE q = <<>>
    BY <2>1, EmptyEffect
  <2>2. ASSUME NEW a \in Packets,
               q = <<a>>, FromServer(a), ~Numbered(a), a.type # "PUBREL",
               Answers(a) => /\ Asks(Head(net.toServer))
                             /\ call.name \in Exchanges => AnswersTo(a)'
        PROVE  /\ q \in Seq(Packets)
               /\ \A i, j \in 1 .. Len(q) : i = j
               /\ \A m \in Elements(q) :
                    /\ FromServer(m) /\ ~Numbered(m) /\ m.type # "PUBREL"
                    /\ Answers(m) => /\ Asks(Head(net.toServer))
                                     /\ call.name \in Exchanges => AnswersTo(m)'
    BY <2>2, OnePacket
  <2> QED BY <2>1, <2>2 DEF AnswersWell
<1>4. /\ \A m : FromServer(m) => FromServer(m)'
      /\ \A m : Kept(m) => Kept(m)'
  BY <1>1, <1>2, PacketsStay
<1>5. Messages'
  BY <1>1, <1>2, <1>3, PlainMessages
<1>6. ReceivedInv'
  <2>1. Remembering' => Remembering
    BY <1>2 DEF Remembering, KeptSession
  <2>2. Current' = Current
    BY <1>2 DEF Current
  <2> QED BY <1>1, <1>2, <2>1, <2>2 DEF ReceivedInv
<1>7. server'.up => server'.clean = client.cleansession
  BY <1>1, <1>2 DEF ConnectionInv
<1>8. /\ seen' \in SeenRecords /\ Len(seen'.delivered) >= Len(seen.delivered)
      /\ server'.nextId >= server.nextId
  BY <1>1, <1>2 DEF Types, SeenRecords, ServerRecords
<1>9. \A m \in Keeping' : Kept(m)'
  BY <1>1, <1>2, <1>4 DEF TypeInv
<1>10. ServesWell(q)
  BY <1>2, <1>3, <1>4, <1>5, <1>6, <1>7, <1>8, <1>9 DEF ServesWell
<1> QED BY <1>10, ServeKeeps

\* The subscriptions that stay.
LEMMA SubsStay ==
  ASSUME SubsInv, server'.subs = server.subs, server'.clean = server.clean, server'.up => server.up,
         client' = client, call' = call, Sending' \subseteq Sending,
         \A a \in Coming' : a \in Coming \/ a.type \notin {"SUBACK", "UNSUBACK"}
  PROVE  SubsInv'
<1>1. Handled' = Handled
  BY DEF Handled
<1>2. Unsubscribed' => Unsubscribed
  BY DEF Unsubscribed
<1>3. Removed' => Removed
  BY DEF Removed
<1> QED BY <1>1, <1>2, <1>3 DEF SubsInv

\* What is known of the packet the server reads.
LEMMA HeadEffect ==
  ASSUME IInv, net.toServer # <<>>
  PROVE  LET p == Head(net.toServer)
         IN  /\ p \in Packets /\ p \in Sending /\ FromClient(p) /\ p.id \in Nat
             /\ p.type = "CONNECT" => /\ ~server.up /\ ~client.isconnected /\ net.toClient = <<>>
                                      /\ Coming = {} /\ p.what = Flag
                                      /\ \A m \in Sending : m.type \notin {"PUBACK", "PUBREC", "PUBCOMP"}
             /\ Asks(p) => /\ ~Settled /\ (call.name \in Exchanges => AsksFor(p))
                           /\ \A m \in Coming : ~Answers(m)
                           /\ \A i \in 2 .. Len(net.toServer) : ~Asks(net.toServer[i])
<1> DEFINE p == Head(net.toServer)
<1>1. TypeInv /\ Types /\ ConnectionInv /\ ExchangeInv /\ net.toServer \in Seq(Packets)
  BY DEF IInv, TypeInv, Types, NetRecords
<1>2. p \in Packets /\ p \in Sending /\ 1 \in 1 .. Len(net.toServer) /\ net.toServer[1] = p
  BY <1>1, TailEffect DEF Sending
<1> HIDE DEF p
<1>3. FromClient(p) /\ p.id \in Nat
  BY <1>1, <1>2 DEF TypeInv, Packets
<1>4. p.type = "CONNECT" => /\ ~server.up /\ ~client.isconnected /\ net.toClient = <<>>
                            /\ Coming = {} /\ p.what = Flag
                            /\ \A m \in Sending : m.type \notin {"PUBACK", "PUBREC", "PUBCOMP"}
  BY <1>1, <1>2, EmptyEffect DEF ConnectionInv, ConnectFirst, Coming, Lost, NoneUnderWay
<1>5. ASSUME Asks(p)
      PROVE  /\ ~Settled /\ (call.name \in Exchanges => AsksFor(p))
             /\ \A m \in Coming : ~Answers(m)
             /\ \A i \in 2 .. Len(net.toServer) : ~Asks(net.toServer[i])
  <2>1. 1 \in Asked
    BY <1>2, <1>5 DEF Asked
  <2>2. Replied = {} /\ \A i \in Asked : i = 1
    BY <1>1, <2>1 DEF ExchangeInv, OneExchange
  <2>3. ~Settled
    BY <1>1, <2>1 DEF ExchangeInv, QuietWhenSettled
  <2>4. call.name \in Exchanges => AsksFor(p)
    BY <1>1, <1>2, <1>5 DEF ExchangeInv
  <2>5. \A m \in Coming : ~Answers(m)
    BY <2>2 DEF Replied, Coming, Elements
  <2>6. \A i \in 2 .. Len(net.toServer) : i \in 1 .. Len(net.toServer) /\ i # 1
    OBVIOUS
  <2>7. \A i \in 2 .. Len(net.toServer) : ~Asks(net.toServer[i])
    BY <2>2, <2>6 DEF Asked
  <2> QED BY <2>3, <2>4, <2>5, <2>7
<1> QED BY <1>2, <1>3, <1>4, <1>5 DEF p

\* The server changes nothing, and answers nothing or something no call asks.
LEMMA ServeIdle ==
  ASSUME IInv, net.toServer # <<>>, NEW q, net' = ToClient(net, q),
         script' = script, call' = call, client' = client, seen' = seen, server' = server,
         troubles' \in 0 .. MaxTroubles,
         \/ q = <<>>
         \/ q = <<Packet("PINGRESP", 0, 0, 0)>> /\ server.up
         \/ q = <<Packet("CONNACK", 0, 0, 0)>>
  PROVE  IInv'
<1>1. TypeInv /\ Types /\ ConnectionInv /\ NumberInv /\ SubsInv
  BY DEF IInv, TypeInv
<1> DEFINE pong == Packet("PINGRESP", 0, 0, 0)
           no == Packet("CONNACK", 0, 0, 0)
<1>2. /\ pong \in Packets /\ FromServer(pong) /\ pong.type = "PINGRESP"
      /\ no \in Packets /\ FromServer(no) /\ no.type = "CONNACK" /\ Refused(no)
  BY DEF Packet, Packets, Kinds, ServerKinds, FromServer, Refused
<1> HIDE DEF pong, no
<1>3. q = <<>> \/ \E a \in {pong, no} : q = <<a>> /\ (a = pong => server.up)
  BY <1>2 DEF pong, no
<1>4. \A a \in {pong, no} : ~Answers(a) /\ ~Numbered(a) /\ a.type \notin {"PUBREL", "SUBACK", "UNSUBACK"}
  BY <1>2 DEF Answers, Numbered
<1>5. /\ q \in Seq(Packets) /\ Elements(q) \subseteq {pong, no} /\ (pong \in Elements(q) => server.up)
      /\ q = <<>> \/ \E a \in {pong, no} : q = <<a>>
  <2>1. CASE q = <<>>
    BY <2>1, EmptyEffect
  <2>2. ASSUME NEW a \in {pong, no}, q = <<a>>, a = pong => server.up
        PROVE  /\ q \in Seq(Packets) /\ Elements(q) \subseteq {pong, no}
               /\ pong \in Elements(q) => server.up
    BY <1>2, <2>2, OnePacket
  <2> QED BY <1>3, <2>1, <2>2
<1>6. Sending' \subseteq Sending /\ Coming' = Coming \union Elements(q)
  BY <1>1, <1>5, ServedPackets
<1>7. SubsInv'
  BY <1>1, <1>4, <1>5, <1>6, SubsStay
<1>8. call.name \in Talks /\ ~server'.up => ~server.up /\ \A a \in Elements(q) : Refused(a)
  BY <1>2, <1>5
<1>9. \A i, j \in 1 .. Len(server'.pending) : server'.pending[i].id = server'.pending[j].id => i = j
  BY <1>1 DEF NumberInv
<1>10. server' \in ServerRecords /\ Keeping' \subseteq Keeping /\ (client.isconnected => server'.up)
  BY <1>1 DEF Types, ConnectionInv, Keeping, Lost, NoneUnderWay
<1>11. AnswersWell(q)
  BY <1>2, <1>4, <1>5, <1>7, <1>8, <1>9, <1>10 DEF AnswersWell
<1> QED BY <1>11, AnswerKeeps

\* PUBREL and its PUBCOMP: the server forgets the publish.
LEMMA ServePubrel ==
  ASSUME IInv, net.toServer # <<>>, Head(net.toServer).type = "PUBREL", server.up,
         net' = ToClient(net, <<Packet("PUBCOMP", Head(net.toServer).id, 0, 0)>>),
         server' = [server EXCEPT !.received = @ \ {Head(net.toServer).id}],
         script' = script, call' = call, client' = client, seen' = seen, troubles' = troubles
  PROVE  IInv'
<1> DEFINE p == Head(net.toServer)
<1>1. TypeInv /\ Types /\ ConnectionInv /\ NumberInv /\ SubsInv
  BY DEF IInv, TypeInv
<1>2. /\ p.id \in Nat /\ Asks(p) /\ (call.name \in Exchanges => AsksFor(p))
  BY HeadEffect DEF Asks
<1>3. PICK a \in Packets :
        /\ a = Packet("PUBCOMP", p.id, 0, 0) /\ FromServer(a) /\ a.type = "PUBCOMP" /\ a.id = p.id
        /\ ~Numbered(a)
  BY <1>2 DEF Packet, Packets, Kinds, ClientKinds, FromServer, ServerKinds, Numbered
<1>4. /\ server' \in ServerRecords /\ server'.nextId = server.nextId /\ server'.clean = server.clean
      /\ server'.received = server.received \ {p.id} /\ server'.pending = server.pending
      /\ server'.up = server.up /\ server'.subs = server.subs
  BY <1>1 DEF Types, ServerRecords
<1>5. call.name \in Exchanges => AnswersTo(a)'
  <2> SUFFICES ASSUME call.name \in Exchanges PROVE AnswersTo(a)'
    OBVIOUS
  <2>1. /\ call.name \in Publishes /\ p.id = call.packet.id
        /\ call.packet.qos = 2 /\ call.packet.what \in seen.accepted
    BY <1>2 DEF AsksFor
  <2> QED BY <1>3, <1>4, <2>1 DEF AnswersTo
<1> HIDE DEF p
<1>6. /\ Sending' \subseteq Sending /\ Coming' = Coming \union {a}
  <2>1. <<a>> \in Seq(Packets) /\ Elements(<<a>>) = {a}
    BY <1>3, OnePacket
  <2> QED BY <1>1, <1>3, <2>1, ServedPackets DEF p
<1>7. SubsInv'
  BY <1>1, <1>3, <1>4, <1>6, SubsStay
<1>8. \A i, j \in 1 .. Len(server'.pending) : server'.pending[i].id = server'.pending[j].id => i = j
  BY <1>1, <1>4 DEF NumberInv
<1>9. Keeping' \subseteq Keeping
  BY <1>4 DEF Keeping
<1>10. net' = ToClient(net, <<a>>) /\ Asks(Head(net.toServer)) /\ troubles' \in 0 .. MaxTroubles
  BY <1>1, <1>2, <1>3 DEF p, Types
<1>11. AnswersWell(<<a>>)
  BY <1>3, <1>4, <1>5, <1>7, <1>8, <1>9, <1>10 DEF AnswersWell
<1> QED BY <1>11, AnswerKeeps

\* What is kept without what has been answered.
LEMMA WithoutEffect ==
  ASSUME NEW s \in Seq(Packets), NEW id, \A i, j \in 1 .. Len(s) : s[i].id = s[j].id => i = j
  PROVE  LET w == Without(s, id)
         IN  /\ w \in Seq(Packets) /\ Elements(w) \subseteq Elements(s)
             /\ \A i, j \in 1 .. Len(w) : w[i].id = w[j].id => i = j
<1> DEFINE w == Without(s, id)
<1>1. CASE ~Has(s, id)
  BY <1>1 DEF Without
<1>2. CASE Has(s, id)
  <2> DEFINE k == Place(s, id)
             At(i) == IF i < k THEN i ELSE i + 1
  <2>1. k \in 1 .. Len(s) /\ Len(s) \in Nat /\ Len(s) - 1 \in Nat
    BY <1>2 DEF Has, Place
  <2>2. w = [i \in 1 .. Len(s) - 1 |-> s[At(i)]]
    BY <1>2 DEF Without
  <2> HIDE DEF w, k
  <2>3. \A i \in 1 .. Len(s) - 1 : At(i) \in 1 .. Len(s)
    BY <2>1
  <2>4. w \in Seq(Packets) /\ Len(w) = Len(s) - 1
    BY <2>1, <2>2, <2>3
  <2>5. \A i \in 1 .. Len(w) : w[i] = s[At(i)] /\ At(i) \in 1 .. Len(s)
    BY <2>1, <2>2, <2>3, <2>4
  <2>6. \A i, j \in 1 .. Len(w) : At(i) = At(j) => i = j
    BY <2>1, <2>4
  <2> HIDE DEF At
  <2>7. \A i, j \in 1 .. Len(w) : w[i].id = w[j].id => i = j
    BY <2>5, <2>6
  <2> QED BY <2>4, <2>5, <2>7 DEF w, Elements
<1> QED BY <1>1, <1>2

\* PUBACK and PUBCOMP: the message is no longer kept.
LEMMA ServeAcked ==
  ASSUME IInv, net.toServer # <<>>, server.up, net' = ToClient(net, <<>>),
         server' = [server EXCEPT !.pending = Without(@, Head(net.toServer).id)],
         script' = script, call' = call, client' = client, seen' = seen, troubles' = troubles
  PROVE  IInv'
<1> DEFINE w == Without(server.pending, Head(net.toServer).id)
<1>1. TypeInv /\ Types /\ ConnectionInv /\ NumberInv /\ SubsInv
  BY DEF IInv, TypeInv
<1>2. /\ w \in Seq(Packets) /\ Elements(w) \subseteq Keeping
      /\ \A i, j \in 1 .. Len(w) : w[i].id = w[j].id => i = j
  BY <1>1, WithoutEffect DEF NumberInv, Types, ServerRecords, Keeping
<1> HIDE DEF w
<1>3. server' = [server EXCEPT !.pending = w]
  BY <1>1 DEF w, Types, ServerRecords
<1>4. /\ server' \in ServerRecords /\ server'.nextId = server.nextId /\ server'.clean = server.clean
      /\ server'.received = server.received /\ server'.pending = w
      /\ server'.up = server.up /\ server'.subs = server.subs
  BY <1>1, <1>2, <1>3 DEF Types, ServerRecords
<1>5. Sending' \subseteq Sending /\ Coming' = Coming
  BY <1>1, EmptyEffect, ServedPackets
<1>6. SubsInv'
  BY <1>1, <1>4, <1>5, SubsStay
<1>7. Keeping' \subseteq Keeping
  BY <1>2, <1>4 DEF Keeping
<1>8. troubles' \in 0 .. MaxTroubles
  BY <1>1 DEF Types
<1>9. AnswersWell(<<>>)
  BY <1>2, <1>4, <1>6, <1>7, <1>8 DEF AnswersWell
<1> QED BY <1>9, AnswerKeeps

\* DISCONNECT ends what the server does for this client.
LEMMA ServeDisconnect ==
  ASSUME IInv, net.toServer # <<>>, Head(net.toServer).type = "DISCONNECT", net' = ToClient(net, <<>>),
         server' = [server EXCEPT !.up = FALSE],
         script' = script, call' = call, client' = client, seen' = seen, troubles' = troubles
  PROVE  IInv'
<1>1. TypeInv /\ Types /\ ConnectionInv /\ NumberInv /\ SubsInv
  BY DEF IInv, TypeInv
<1>2. ~client.isconnected /\ call.name \notin Talks
  BY <1>1, HeadEffect DEF ConnectionInv
<1>3. /\ server' \in ServerRecords /\ server'.nextId = server.nextId /\ server'.clean = server.clean
      /\ server'.received = server.received /\ server'.pending = server.pending
      /\ server'.up = FALSE /\ server'.subs = server.subs
  BY <1>1 DEF Types, ServerRecords
<1>4. Sending' \subseteq Sending /\ Coming' = Coming
  BY <1>1, EmptyEffect, ServedPackets
<1>5. SubsInv'
  BY <1>1, <1>3, <1>4, SubsStay
<1>6. Keeping' \subseteq Keeping
  BY <1>3 DEF Keeping
<1>7. \A i, j \in 1 .. Len(server'.pending) : server'.pending[i].id = server'.pending[j].id => i = j
  BY <1>1, <1>3 DEF NumberInv
<1>8. troubles' \in 0 .. MaxTroubles
  BY <1>1 DEF Types
<1>9. AnswersWell(<<>>)
  BY <1>2, <1>3, <1>5, <1>6, <1>7, <1>8 DEF AnswersWell
<1> QED BY <1>9, AnswerKeeps

\* The message that ends the connection.
LEMMA ServeTerminate ==
  ASSUME IInv, net.toServer # <<>>, net.state = "up",
         net' \in [state : {"dead", "closed"}, toServer : {<<>>}, toClient : {net.toClient}],
         script' = script, call' = call, client' = client, server' = server, seen' = seen,
         troubles' = troubles
  PROVE  IInv'
<1>1. Types
  BY DEF IInv, TypeInv
<1>2. Loses /\ NetMoves(Ping)
  BY DEF Loses, NetMoves
<1>3. net' \in NetRecords /\ client' \in ClientRecords /\ troubles' \in 0 .. MaxTroubles
  BY <1>1, EmptyEffect DEF Types, NetRecords
<1>4. QuietStep
  BY <1>2 DEF QuietStep, SameSession, Lost
<1> QED BY <1>3, <1>4, QuietKeeps

\* An answer to subscribe or unsubscribe.
LEMMA ServeRequest ==
  ASSUME IInv, net.toServer # <<>>, server.up,
         NEW a \in Packets, net' = ToClient(net, <<a>>), FromServer(a),
         \/ Head(net.toServer).type = "SUBSCRIBE" /\ a.type = "SUBACK"
         \/ Head(net.toServer).type = "UNSUBSCRIBE" /\ a.type = "UNSUBACK",
         NEW subs \in SUBSET Filter, server' = [server EXCEPT !.subs = subs],
         \/ subs = server.subs /\ a.type = "SUBACK" /\ a.what = 0
         \/ subs = server.subs \union {Head(net.toServer).what} /\ a.type = "SUBACK" /\ a.what = 1
         \/ subs = server.subs \ {Head(net.toServer).what} /\ a.type = "UNSUBACK",
         script' = script, call' = call, client' = client, seen' = seen,
         troubles' \in 0 .. MaxTroubles
  PROVE  IInv'
<1> DEFINE p == Head(net.toServer)
<1>1. TypeInv /\ Types /\ CallTypes /\ ConnectionInv /\ NumberInv /\ SubsInv
  BY DEF IInv, TypeInv
<1>2. /\ p \in Sending /\ Asks(p) /\ ~Settled /\ (call.name \in Exchanges => AsksFor(p))
      /\ \A m \in Coming : ~Answers(m)
      /\ \A i \in 2 .. Len(net.toServer) : ~Asks(net.toServer[i])
  BY HeadEffect DEF Asks
<1>3. /\ server' \in ServerRecords /\ server'.nextId = server.nextId /\ server'.clean = server.clean
      /\ server'.received = server.received /\ server'.pending = server.pending
      /\ server'.up = server.up /\ server'.subs = subs
  BY <1>1 DEF Types, ServerRecords
<1>4. Answers(a) /\ ~Numbered(a) /\ a.type # "PUBREL"
  BY DEF Answers, Numbered
<1>5. call.name \in Exchanges =>
        /\ p = call.packet
        /\ p.type = "SUBSCRIBE" => call.name = "subscribe"
        /\ p.type = "UNSUBSCRIBE" => call.name = "unsubscribe"
  <2> SUFFICES ASSUME call.name \in Exchanges
               PROVE  /\ p = call.packet
                      /\ p.type = "SUBSCRIBE" => call.name = "subscribe"
                      /\ p.type = "UNSUBSCRIBE" => call.name = "unsubscribe"
    OBVIOUS
  <2>1. p = call.packet
    BY <1>2 DEF AsksFor
  <2> QED BY <1>1, <2>1 DEF CallTypes, PublishOf, Exchanges, Requests
<1>6. call.name \in Exchanges => AnswersTo(a)'
  BY <1>5 DEF AnswersTo
<1>7. /\ Sending' \subseteq Sending /\ Coming' = Coming \union {a}
      /\ \A m \in Sending' : ~Asks(m)
  <2>1. <<a>> \in Seq(Packets) /\ Elements(<<a>>) = {a}
    BY OnePacket
  <2>2. /\ Sending' \subseteq Sending /\ Coming' = Coming \union {a}
        /\ \A i \in 1 .. Len(net'.toServer) :
             i + 1 \in 1 .. Len(net.toServer) /\ net'.toServer[i] = net.toServer[i + 1]
    BY <1>1, <2>1, ServedPackets
  <2>3. \A i \in 1 .. Len(net'.toServer) : i + 1 \in 2 .. Len(net.toServer)
    BY <2>2
  <2>4. \A i \in 1 .. Len(net'.toServer) : ~Asks(net'.toServer[i])
    BY <1>2, <2>2, <2>3
  <2> QED BY <2>2, <2>4 DEF Sending, Elements
<1> HIDE DEF p
<1>8. ~client.isconnected \/ call.name \in Exchanges
  BY <1>2 DEF Settled
<1>9. call.name \notin ConnectCalls /\ call.name # "resend" /\ call.state # "answered"
  <2>1. call.name \notin ConnectCalls /\ call.state # "answered"
    BY <1>2 DEF Settled
  <2>2. call.name # "resend"
    BY <1>5 DEF Exchanges, Publishes, p
  <2> QED BY <2>1, <2>2
<1>10. SubsInv'
  <2>1. Handled' = Handled
    BY DEF Handled
  <2> SUFFICES ASSUME server.clean, client.isconnected
               PROVE  /\ call.name # "subscribe" => subs \subseteq Handled
                      /\ call.name = "subscribe" =>
                           /\ subs \subseteq Handled \union {call.packet.what}
                           /\ Unsubscribed' => subs \subseteq Handled
                      /\ call.name = "unsubscribe" /\ Removed' => call.packet.what \notin subs
    BY <1>3, <1>9, <2>1 DEF SubsInv
  <2>2. /\ call.name \in Exchanges /\ p = call.packet
        /\ p.type = "SUBSCRIBE" => call.name = "subscribe"
        /\ p.type = "UNSUBSCRIBE" => call.name = "unsubscribe"
    BY <1>5, <1>8
  <2>3. CASE p.type = "SUBSCRIBE"
    <3>1. Unsubscribed
      BY <1>2, <2>3 DEF Unsubscribed
    <3>2. server.subs \subseteq Handled
      BY <1>1, <2>2, <2>3, <3>1 DEF SubsInv
    <3>3. Unsubscribed' => a.what = 0
      BY <1>2, <1>7, <1>9 DEF Unsubscribed, Asks, Answers
    <3> QED BY <2>2, <2>3, <3>2, <3>3 DEF p
  <2>4. CASE p.type = "UNSUBSCRIBE"
    <3>1. subs = server.subs \ {p.what}
      BY <2>4 DEF p
    <3>2. server.subs \subseteq Handled
      BY <1>1, <2>2, <2>4 DEF SubsInv
    <3> QED BY <2>2, <2>4, <3>1, <3>2
  <2> QED BY <2>3, <2>4 DEF p
<1>11. \A i, j \in 1 .. Len(server'.pending) : server'.pending[i].id = server'.pending[j].id => i = j
  BY <1>1, <1>3 DEF NumberInv
<1>12. Keeping' \subseteq Keeping
  BY <1>3 DEF Keeping
<1>13. AnswersWell(<<a>>)
  BY <1>2, <1>3, <1>4, <1>6, <1>10, <1>11, <1>12 DEF AnswersWell, p
<1> QED BY <1>13, AnswerKeeps

\* PUBREC and its PUBREL, which is kept in the place of the message.
LEMMA ServePubrec ==
  ASSUME IInv, net.toServer # <<>>, Head(net.toServer).type = "PUBREC", server.up,
         net' = ToClient(net, <<Released(Head(net.toServer))>>),
         server' = [server EXCEPT !.pending =
           [i \in DOMAIN @ |-> IF @[i].id = Head(net.toServer).id THEN Released(Head(net.toServer)) ELSE @[i]]],
         script' = script, call' = call, client' = client, seen' = seen, troubles' = troubles
  PROVE  IInv'
<1> DEFINE p == Head(net.toServer)
           k == [i \in DOMAIN server.pending |-> IF server.pending[i].id = p.id THEN Released(p)
                                                 ELSE server.pending[i]]
<1>1. /\ TypeInv /\ Types /\ ConnectionInv /\ ReceivedInv /\ SubsInv
      /\ NumberInv /\ ReleaseInv /\ DeliveryInv
  BY DEF IInv, TypeInv
<1>2. p \in Packets /\ p.id \in Nat /\ FromClient(p) /\ p.type = "PUBREC"
  BY HeadEffect
<1>3. PICK a \in Packets :
        /\ a = Released(p) /\ Kept(a) /\ a.type = "PUBREL" /\ a.id = p.id
        /\ ~Numbered(a) /\ ~Answers(a)
  BY <1>2 DEF Released, Packet, Packets, Kinds, ClientKinds, FromClient, Kept, FromServer, ServerKinds,
              Numbered, Answers
<1>4. /\ k \in Seq(Packets) /\ Len(k) = Len(server.pending)
      /\ \A i \in 1 .. Len(k) : /\ k[i].id = server.pending[i].id
                                /\ k[i] = a \/ (k[i] = server.pending[i] /\ k[i].id # a.id)
  <2>1. server.pending \in Seq(Packets)
    BY <1>1 DEF Types, ServerRecords
  <2>2. k = [i \in 1 .. Len(server.pending) |-> IF server.pending[i].id = a.id THEN a ELSE server.pending[i]]
    BY <1>3, <2>1
  <2> HIDE DEF k, p
  <2>3. k \in Seq(Packets) /\ Len(k) = Len(server.pending)
    BY <1>3, <2>1, <2>2
  <2> QED BY <2>2, <2>3
<1>5. server' = [server EXCEPT !.pending = k] /\ net' = ToClient(net, <<a>>)
  BY <1>1, <1>3 DEF Types, ServerRecords
<1> HIDE DEF k, p
<1>6. /\ server' \in ServerRecords /\ server'.nextId = server.nextId /\ server'.clean = server.clean
      /\ server'.received = server.received /\ server'.pending = k
      /\ server'.up = server.up /\ server'.subs = server.subs
  BY <1>1, <1>4, <1>5 DEF Types, ServerRecords
<1>7. \A m \in Keeping' : m = a \/ (m \in Keeping /\ m.id # a.id)
  BY <1>4, <1>6 DEF Keeping, Elements
<1>8. <<a>> \in Seq(Packets) /\ Len(<<a>>) = 1 /\ <<a>>[1] = a /\ Elements(<<a>>) = {a}
  BY OnePacket
<1>9. /\ Sending' \subseteq Sending /\ Coming' = Coming \union {a}
      /\ Len(net.toClient) \in Nat
      /\ \A i \in 1 .. Len(net'.toClient) :
           \/ i \in 1 .. Len(net.toClient) /\ net'.toClient[i] = net.toClient[i]
           \/ i > Len(net.toClient) /\ net'.toClient[i] = a
  <2> DEFINE q == <<a>>
  <2>1. q \in Seq(Packets) /\ Elements(q) = {a} /\ net' = ToClient(net, q)
    BY <1>5, <1>8
  <2>2. \A i \in 1 .. Len(q) : q[i] = a
    BY <1>8
  <2> HIDE DEF q
  <2> QED BY <1>1, <2>1, <2>2, ServedPackets
<1>10. /\ \A i \in 1 .. Len(net'.toClient) : Numbered(net'.toClient[i]) =>
            i \in 1 .. Len(net.toClient) /\ net'.toClient[i] = net.toClient[i]
       /\ \A m \in Coming' : Numbered(m) => m \in Coming
       /\ \A m \in Keeping' : Numbered(m) => m \in Keeping
  BY <1>3, <1>7, <1>9
<1>11. NumberInv'
  <2>1. \A i, j \in 1 .. Len(server'.pending) : server'.pending[i].id = server'.pending[j].id => i = j
    BY <1>1, <1>4, <1>6 DEF NumberInv
  <2>2. \A m, n \in Coming' \union Keeping' : Numbered(m) /\ Numbered(n) => (m.id = n.id <=> m.what = n.what)
    BY <1>1, <1>10 DEF NumberInv
  <2>3. \A i, j \in 1 .. Len(net'.toClient) :
          Numbered(net'.toClient[i]) /\ Numbered(net'.toClient[j]) /\ net'.toClient[i].id = net'.toClient[j].id
            => i = j
    BY <1>1, <1>10 DEF NumberInv
  <2> QED BY <1>1, <1>6, <2>1, <2>2, <2>3 DEF NumberInv, Numbered
<1>12. ReleaseInv'
  <2> SUFFICES ASSUME NEW i \in 1 .. Len(net'.toClient), net'.toClient[i].type = "PUBREL"
               PROVE  /\ \A j \in 1 .. Len(net'.toClient) :
                           Numbered(net'.toClient[j]) /\ net'.toClient[j].id = net'.toClient[i].id => j < i
                      /\ \A m \in Keeping' : Numbered(m) => m.id # net'.toClient[i].id
    BY DEF ReleaseInv, Numbered
  <2>1. CASE i \in 1 .. Len(net.toClient) /\ net'.toClient[i] = net.toClient[i]
    BY <1>1, <1>10, <2>1 DEF ReleaseInv
  <2>2. CASE i > Len(net.toClient) /\ net'.toClient[i] = a
    <3>1. \A j \in 1 .. Len(net'.toClient) : Numbered(net'.toClient[j]) => j < i
      BY <1>9, <1>10, <2>2
    <3>2. \A m \in Keeping' : Numbered(m) => m.id # a.id
      BY <1>3, <1>7
    <3> QED BY <2>2, <3>1, <3>2
  <2> QED BY <1>9, <2>1, <2>2
<1>13. DeliveryInv'
  <2>1. \A m : /\ Times(m)' = Times(m) /\ (GivenUp(m)' <=> GivenUp(m))
               /\ (Undelivered(m)' <=> Undelivered(m)) /\ (Accounted(m)' <=> Accounted(m))
    BY DEF Times, GivenUp, Undelivered, Accounted
  <2> QED BY <1>1, <1>6, <1>9, <1>10, <2>1 DEF DeliveryInv, DeliveredOnce, KeptSession, Numbered
<1>14. ReceivedInv'
  <2>1. Remembering' => Remembering
    BY <1>6 DEF Remembering, KeptSession
  <2>2. Current' = Current
    BY DEF Current
  <2> QED BY <1>1, <1>6, <2>1, <2>2 DEF ReceivedInv
<1>15. SubsInv'
  BY <1>1, <1>3, <1>6, <1>9, SubsStay
<1>16. FromServer(a)' /\ \A m \in Keeping' : Kept(m)'
  <2>1. \A m : (FromServer(m) => FromServer(m)') /\ (Kept(m) => Kept(m)')
    BY <1>1, <1>6, PacketsStay
  <2> QED BY <1>1, <1>3, <1>7, <2>1 DEF Kept, TypeInv
<1>17. ServesWell(<<a>>)
  <2>1. /\ seen' \in SeenRecords /\ troubles' \in 0 .. MaxTroubles
        /\ Len(seen'.delivered) >= Len(seen.delivered) /\ server'.nextId >= server.nextId
    BY <1>1, <1>6 DEF Types, SeenRecords, ServerRecords
  <2>2. /\ server'.up => server'.clean = client.cleansession
        /\ client.isconnected => server'.up
        /\ call.name \in Talks => server'.up
    BY <1>1, <1>6 DEF ConnectionInv
  <2>3. \A m \in Elements(<<a>>) : FromServer(m)' /\ ~Answers(m)
    BY <1>3, <1>8, <1>16
  <2>4. \A i, j \in 1 .. Len(<<a>>) : i = j
    BY <1>8
  <2> QED BY <1>5, <1>6, <1>8, <1>11, <1>12, <1>13, <1>14, <1>15, <1>16, <2>1, <2>2, <2>3, <2>4
          DEF ServesWell, Messages
<1> QED BY <1>17, ServeKeeps

\* A PUBLISH p with its answer a, and the message f that is made of it when it is forwarded.
PublishServed(p, a, f, q, forwarded) ==
  /\ p = Head(net.toServer) /\ p \in Packets /\ p.type = "PUBLISH" /\ p.what \in Nat
  /\ a \in Packets /\ a.type \in {"PUBACK", "PUBREC"} /\ a.id = p.id
  /\ a.type = "PUBACK" <=> p.qos = 1
  /\ f \in Packets /\ f.type = "PUBLISH" /\ f.qos = p.qos /\ f.what = Len(seen.delivered) + 1
  /\ p.qos > 0 => f.id = server.nextId + 1
  /\ q \in Seq(Packets) /\ net' = ToClient(net, q)
  /\ \A i \in 1 .. Len(q) : (q[i] = a /\ p.qos > 0) \/ (q[i] = f /\ forwarded)
  /\ \A i, j \in 1 .. Len(q) : q[i] = q[j] => i = j
  /\ forwarded \in BOOLEAN
  /\ ~(p.qos = 2 /\ p.id \in server.received) => p.what \in seen'.accepted
  /\ seen.accepted \subseteq seen'.accepted
  /\ seen' \in SeenRecords /\ seen'.confirmed = seen.confirmed /\ seen'.dropped = seen.dropped
  /\ seen'.left = seen.left /\ seen'.again = seen.again
  /\ seen'.delivered = IF forwarded THEN Append(seen.delivered, [qos |-> p.qos, times |-> 0])
                       ELSE seen.delivered
  /\ server' \in ServerRecords /\ server'.up = server.up /\ server'.clean = server.clean
  /\ server'.subs = server.subs
  /\ server'.received = IF p.qos = 2 THEN server.received \union {p.id} ELSE server.received
  /\ server'.nextId = IF forwarded /\ p.qos # 0 THEN f.id ELSE server.nextId
  /\ server'.pending = IF forwarded /\ p.qos # 0 THEN Append(server.pending, f) ELSE server.pending

LEMMA TwoPackets ==
  ASSUME NEW a \in Packets, NEW f \in Packets, a # f, NEW x \in BOOLEAN, NEW y \in BOOLEAN
  PROVE  LET q == (IF x THEN <<a>> ELSE <<>>) \o (IF y THEN <<f>> ELSE <<>>)
         IN  /\ q \in Seq(Packets)
             /\ \A i \in 1 .. Len(q) : (q[i] = a /\ x) \/ (q[i] = f /\ y)
             /\ \A i, j \in 1 .. Len(q) : q[i] = q[j] => i = j
<1>1. CASE x /\ y
  <2>1. <<a>> \o <<f>> \in Seq(Packets) /\ Len(<<a>> \o <<f>>) = 2
        /\ (<<a>> \o <<f>>)[1] = a /\ (<<a>> \o <<f>>)[2] = f
    OBVIOUS
  <2> QED BY <1>1, <2>1
<1>2. CASE x /\ ~y
  <2>1. <<a>> \o <<>> \in Seq(Packets) /\ Len(<<a>> \o <<>>) = 1 /\ (<<a>> \o <<>>)[1] = a
    OBVIOUS
  <2> QED BY <1>2, <2>1
<1>3. CASE ~x /\ y
  <2>1. <<>> \o <<f>> \in Seq(Packets) /\ Len(<<>> \o <<f>>) = 1 /\ (<<>> \o <<f>>)[1] = f
    OBVIOUS
  <2> QED BY <1>3, <2>1
<1>4. CASE ~x /\ ~y
  <2>1. <<>> \o <<>> \in Seq(Packets) /\ Len(<<>> \o <<>>) = 0
    OBVIOUS
  <2> QED BY <1>4, <2>1
<1> QED BY <1>1, <1>2, <1>3, <1>4

LEMMA AcceptEffect ==
  ASSUME IInv, net.toServer # <<>>, Head(net.toServer).type = "PUBLISH",
         ServerAccepts(Head(net.toServer))
  PROVE  \E p, a, f, q, forwarded : PublishServed(p, a, f, q, forwarded)
<1> DEFINE p == Head(net.toServer)
           new == p.qos = 2 => p.id \notin server.received
           forwarded == new /\ server.subs # {}
           id == IF p.qos = 0 THEN 0 ELSE server.nextId + 1
           f == Packet("PUBLISH", id, p.qos, Len(seen.delivered) + 1)
           a == Packet(IF p.qos = 1 THEN "PUBACK" ELSE "PUBREC", p.id, 0, 0)
           ack == CASE p.qos = 0 -> <<>>
                    [] p.qos = 1 -> <<Packet("PUBACK", p.id, 0, 0)>>
                    [] p.qos = 2 -> <<Packet("PUBREC", p.id, 0, 0)>>
           q == (IF p.qos > 0 THEN <<a>> ELSE <<>>) \o (IF forwarded THEN <<f>> ELSE <<>>)
           message == [qos |-> p.qos, times |-> 0]
<1>1. Types
  BY DEF IInv, TypeInv
<1>2. p \in Packets /\ p.id \in Nat /\ p.qos \in 0 .. 2 /\ p.what \in Nat /\ p.type = "PUBLISH"
  BY HeadEffect DEF FromClient, Packets
<1>3. /\ server.nextId \in Nat /\ server.received \subseteq Nat /\ server.pending \in Seq(Packets)
      /\ seen.delivered \in Seq([qos : 0 .. 2, times : Nat]) /\ Len(seen.delivered) \in Nat
      /\ seen.accepted \subseteq Nat
  BY <1>1 DEF Types, ServerRecords, SeenRecords
<1>4. /\ a \in Packets /\ a.type \in {"PUBACK", "PUBREC"} /\ a.id = p.id
      /\ a.type = "PUBACK" <=> p.qos = 1
  <2> HIDE DEF p
  <2> QED BY <1>2 DEF Packet, Packets, Kinds, ClientKinds
<1>5. /\ f \in Packets /\ f.type = "PUBLISH" /\ f.qos = p.qos /\ f.what = Len(seen.delivered) + 1
      /\ p.qos > 0 => f.id = server.nextId + 1
  <2> HIDE DEF p
  <2> QED BY <1>2, <1>3 DEF Packet, Packets, Kinds, ClientKinds
<1>6. ack = IF p.qos > 0 THEN <<a>> ELSE <<>>
  <2> HIDE DEF p
  <2>1. CASE p.qos = 0
    BY <2>1
  <2>2. CASE p.qos = 1
    BY <2>2
  <2>3. CASE p.qos = 2
    BY <2>3
  <2> QED BY <1>2, <2>1, <2>2, <2>3
<1>7. /\ net' = ToClient(net, ack \o IF forwarded THEN <<f>> ELSE <<>>)
      /\ server' = [server EXCEPT
           !.received = IF p.qos = 2 THEN @ \union {p.id} ELSE @,
           !.nextId = IF forwarded /\ p.qos # 0 THEN id ELSE @,
           !.pending = IF forwarded /\ p.qos # 0 THEN Append(@, f) ELSE @]
      /\ seen' = [seen EXCEPT
           !.accepted = IF new THEN @ \union {p.what} ELSE @,
           !.delivered = IF forwarded THEN Append(@, message) ELSE @]
  BY DEF ServerAccepts, Forward
<1>8. net' = ToClient(net, q)
  BY <1>6, <1>7
<1>9. /\ q \in Seq(Packets)
      /\ \A i \in 1 .. Len(q) : (q[i] = a /\ p.qos > 0) \/ (q[i] = f /\ forwarded)
      /\ \A i, j \in 1 .. Len(q) : q[i] = q[j] => i = j
  <2>1. a # f
    BY <1>4, <1>5
  <2>2. (p.qos > 0) \in BOOLEAN /\ forwarded \in BOOLEAN
    OBVIOUS
  <2> HIDE DEF a, f, forwarded, p
  <2> QED BY <1>4, <1>5, <2>1, <2>2, TwoPackets
<1>10. message \in [qos : 0 .. 2, times : Nat]
  BY <1>2
<1> DEFINE accepted == IF new THEN seen.accepted \union {p.what} ELSE seen.accepted
           delivered == IF forwarded THEN Append(seen.delivered, message) ELSE seen.delivered
           received == IF p.qos = 2 THEN server.received \union {p.id} ELSE server.received
           nextId == IF forwarded /\ p.qos # 0 THEN f.id ELSE server.nextId
           pending == IF forwarded /\ p.qos # 0 THEN Append(server.pending, f) ELSE server.pending
<1>11. /\ accepted \subseteq Nat /\ seen.accepted \subseteq accepted /\ (new => p.what \in accepted)
       /\ delivered \in Seq([qos : 0 .. 2, times : Nat])
       /\ received \subseteq Nat /\ nextId \in Nat /\ pending \in Seq(Packets)
  <2>1. f.id \in Nat
    BY <1>5 DEF Packets
  <2> HIDE DEF f, p, message, new, forwarded
  <2>2. accepted \subseteq Nat /\ seen.accepted \subseteq accepted /\ (new => p.what \in accepted)
    BY <1>2, <1>3
  <2>3. delivered \in Seq([qos : 0 .. 2, times : Nat])
    <3> DEFINE M == [qos : 0 .. 2, times : Nat]
    <3>1. seen.delivered \in Seq(M) /\ message \in M
      BY <1>3, <1>10
    <3> HIDE DEF M
    <3>2. Append(seen.delivered, message) \in Seq(M)
      BY <3>1
    <3>3. delivered \in Seq(M)
      BY <3>1, <3>2
    <3> QED BY <3>3 DEF M
  <2>4. received \subseteq Nat /\ nextId \in Nat
    BY <1>2, <1>3, <2>1
  <2>5. pending \in Seq(Packets)
    BY <1>3, <1>5
  <2> QED BY <2>2, <2>3, <2>4, <2>5
<1>12. /\ server' = [server EXCEPT !.received = received, !.nextId = nextId, !.pending = pending]
       /\ seen' = [seen EXCEPT !.accepted = accepted, !.delivered = delivered]
  <2>1. p.qos # 0 => f.id = id
    BY DEF Packet
  <2> HIDE DEF f, p, message, id
  <2> QED BY <1>1, <1>7, <2>1 DEF Types, ServerRecords, SeenRecords
<1>13. ~(p.qos = 2 /\ p.id \in server.received) => new
  OBVIOUS
<1> HIDE DEF accepted, delivered, received, nextId, pending
<1>14. /\ server' \in ServerRecords /\ server'.up = server.up /\ server'.clean = server.clean
       /\ server'.subs = server.subs /\ server'.received = received
       /\ server'.nextId = nextId /\ server'.pending = pending
  BY <1>1, <1>11, <1>12 DEF Types, ServerRecords
<1>15. /\ seen' \in SeenRecords /\ seen'.confirmed = seen.confirmed /\ seen'.dropped = seen.dropped
       /\ seen'.left = seen.left /\ seen'.again = seen.again
       /\ seen'.accepted = accepted /\ seen'.delivered = delivered
  BY <1>1, <1>11, <1>12 DEF Types, SeenRecords
<1>16. forwarded \in BOOLEAN
  OBVIOUS
<1> HIDE DEF a, f, q, new, forwarded
<1>17. PublishServed(p, a, f, q, forwarded)
  BY <1>2, <1>4, <1>5, <1>8, <1>9, <1>11, <1>13, <1>14, <1>15, <1>16
     DEF PublishServed, delivered, received, nextId, pending
<1> QED BY <1>17

\* What an accepted PUBLISH changes: the queues and what is kept, ...
PublishQueued(p, a, f, q, forwarded) ==
  /\ Sending' \subseteq Sending
  /\ \A m \in Coming' \union Elements(q) :
       m \in Coming \/ (m = a /\ p.qos > 0) \/ (m = f /\ forwarded)
  /\ \A m \in Keeping' : m \in Keeping \/ (m = f /\ forwarded /\ p.qos > 0)
  /\ Len(net.toClient) \in Nat
  /\ \A i \in 1 .. Len(net'.toClient) :
       \/ i \in 1 .. Len(net.toClient) /\ net'.toClient[i] = net.toClient[i]
       \/ /\ i > Len(net.toClient)
          /\ net'.toClient[i] = a \/ (net'.toClient[i] = f /\ forwarded)
  /\ \A i, j \in 1 .. Len(net'.toClient) :
       i > Len(net.toClient) /\ j > Len(net.toClient) /\ net'.toClient[i] = net'.toClient[j] => i = j

\* ... the numbers of the messages and what is known of them.
PublishNumbered(p, f, forwarded) ==
  /\ server.nextId \in Nat /\ server'.nextId \in Nat /\ server'.nextId >= server.nextId
  /\ Len(seen.delivered) \in Nat /\ Len(seen'.delivered) \in Nat
  /\ Len(seen'.delivered) >= Len(seen.delivered)
  /\ \A n \in 1 .. Len(seen.delivered) : seen'.delivered[n] = seen.delivered[n]
  /\ forwarded => /\ f.what \in 1 .. Len(seen'.delivered)
                  /\ seen'.delivered[f.what] = [qos |-> p.qos, times |-> 0]
  /\ forwarded /\ p.qos > 0 => server'.nextId = f.id
  /\ p.qos \in 0 .. 2

LEMMA PublishQueues ==
  ASSUME IInv, net.toServer # <<>>, NEW p, NEW a, NEW f, NEW q, NEW forwarded,
         PublishServed(p, a, f, q, forwarded)
  PROVE  PublishQueued(p, a, f, q, forwarded) /\ PublishNumbered(p, f, forwarded)
<1>1. Types
  BY DEF IInv, TypeInv
<1>2. /\ q \in Seq(Packets) /\ net' = ToClient(net, q) /\ f \in Packets /\ p \in Packets
      /\ \A i \in 1 .. Len(q) : (q[i] = a /\ p.qos > 0) \/ (q[i] = f /\ forwarded)
      /\ \A i, j \in 1 .. Len(q) : q[i] = q[j] => i = j
      /\ f.what = Len(seen.delivered) + 1 /\ (p.qos > 0 => f.id = server.nextId + 1)
      /\ seen'.delivered = IF forwarded THEN Append(seen.delivered, [qos |-> p.qos, times |-> 0])
                           ELSE seen.delivered
      /\ server'.nextId = IF forwarded /\ p.qos # 0 THEN f.id ELSE server.nextId
      /\ server'.pending = IF forwarded /\ p.qos # 0 THEN Append(server.pending, f) ELSE server.pending
  BY DEF PublishServed
<1>3. p.qos \in 0 .. 2
  BY <1>2 DEF Packets
<1>4. /\ Sending' \subseteq Sending /\ Coming' = Coming \union Elements(q)
      /\ Len(net.toClient) \in Nat /\ Len(q) \in Nat
      /\ \A i \in 1 .. Len(net'.toClient) :
           \/ i \in 1 .. Len(net.toClient) /\ net'.toClient[i] = net.toClient[i]
           \/ /\ i > Len(net.toClient) /\ i - Len(net.toClient) \in 1 .. Len(q)
              /\ net'.toClient[i] = q[i - Len(net.toClient)]
  BY <1>1, <1>2, ServedPackets
<1>5. \A m \in Elements(q) : (m = a /\ p.qos > 0) \/ (m = f /\ forwarded)
  BY <1>2 DEF Elements
<1>6. \A i \in 1 .. Len(net'.toClient) :
        \/ i \in 1 .. Len(net.toClient) /\ net'.toClient[i] = net.toClient[i]
        \/ /\ i > Len(net.toClient)
           /\ net'.toClient[i] = a \/ (net'.toClient[i] = f /\ forwarded)
  BY <1>2, <1>4
<1>7. ASSUME NEW i \in 1 .. Len(net'.toClient), NEW j \in 1 .. Len(net'.toClient),
             i > Len(net.toClient), j > Len(net.toClient), net'.toClient[i] = net'.toClient[j]
      PROVE  i = j
  <2> DEFINE k == i - Len(net.toClient)
             l == j - Len(net.toClient)
  <2>1. /\ i \notin 1 .. Len(net.toClient) /\ j \notin 1 .. Len(net.toClient)
        /\ i \in Nat /\ j \in Nat
    BY <1>4, <1>7
  <2>2. k \in 1 .. Len(q) /\ l \in 1 .. Len(q) /\ q[k] = q[l]
    BY <1>4, <1>7, <2>1
  <2>3. k = l => i = j
    BY <1>4, <2>1
  <2> HIDE DEF k, l
  <2> QED BY <1>2, <2>2, <2>3
<1>8. \A m \in Keeping' : m \in Keeping \/ (m = f /\ forwarded /\ p.qos > 0)
  <2>1. server.pending \in Seq(Packets)
    BY <1>1 DEF Types, ServerRecords
  <2>2. CASE forwarded /\ p.qos # 0
    BY <1>2, <1>3, <2>1, <2>2, AppendEffect DEF Keeping
  <2>3. CASE ~(forwarded /\ p.qos # 0)
    BY <1>2, <2>3 DEF Keeping
  <2> QED BY <2>2, <2>3
<1>9. server.nextId \in Nat /\ server'.nextId \in Nat /\ server'.nextId >= server.nextId
  BY <1>1, <1>2, <1>3 DEF Types, ServerRecords
<1>10. /\ Len(seen.delivered) \in Nat /\ Len(seen'.delivered) \in Nat
       /\ Len(seen'.delivered) >= Len(seen.delivered)
       /\ \A n \in 1 .. Len(seen.delivered) : seen'.delivered[n] = seen.delivered[n]
       /\ forwarded => /\ f.what \in 1 .. Len(seen'.delivered)
                       /\ seen'.delivered[f.what] = [qos |-> p.qos, times |-> 0]
  <2> DEFINE M == [qos : 0 .. 2, times : Nat]
             message == [qos |-> p.qos, times |-> 0]
  <2>1. seen.delivered \in Seq(M) /\ message \in M
    BY <1>1, <1>3 DEF Types, SeenRecords
  <2>2. seen'.delivered = IF forwarded THEN Append(seen.delivered, message) ELSE seen.delivered
    BY <1>2
  <2> HIDE DEF M, message
  <2>3. /\ Len(seen.delivered) \in Nat
        /\ Len(Append(seen.delivered, message)) = Len(seen.delivered) + 1
        /\ \A n \in 1 .. Len(seen.delivered) : Append(seen.delivered, message)[n] = seen.delivered[n]
        /\ Append(seen.delivered, message)[Len(seen.delivered) + 1] = message
    BY <2>1
  <2>4. /\ Len(seen.delivered) \in Nat /\ Len(seen'.delivered) \in Nat
        /\ Len(seen'.delivered) >= Len(seen.delivered)
        /\ \A n \in 1 .. Len(seen.delivered) : seen'.delivered[n] = seen.delivered[n]
        /\ forwarded => f.what \in 1 .. Len(seen'.delivered) /\ seen'.delivered[f.what] = message
    <3>1. CASE forwarded
      BY <1>2, <2>2, <2>3, <3>1
    <3>2. CASE ~forwarded
      BY <2>2, <2>3, <3>2
    <3> QED BY <3>1, <3>2
  <2> QED BY <2>4 DEF IsMessage, message
<1>11. PublishQueued(p, a, f, q, forwarded)
  BY <1>4, <1>5, <1>6, <1>7, <1>8 DEF PublishQueued
<1>12. PublishNumbered(p, f, forwarded)
  BY <1>2, <1>3, <1>9, <1>10 DEF PublishNumbered
<1> QED BY <1>11, <1>12

\* ... the messages, ...
LEMMA PublishMessages ==
  ASSUME IInv, net.toServer # <<>>, NEW p, NEW a, NEW f, NEW q, NEW forwarded,
         PublishServed(p, a, f, q, forwarded),
         client' = client
  PROVE  Messages' /\ (\A m \in Elements(q) : FromServer(m)') /\ (\A m \in Keeping' : Kept(m)')
<1>1. TypeInv /\ Types /\ NumberInv /\ ReleaseInv /\ DeliveryInv
  BY DEF IInv, TypeInv
<1>2. /\ a.type \in {"PUBACK", "PUBREC"}
      /\ f.type = "PUBLISH" /\ f.qos = p.qos /\ f.what = Len(seen.delivered) + 1
      /\ p.qos > 0 => f.id = server.nextId + 1
      /\ f \in Packets /\ a \in Packets
      /\ server'.clean = server.clean
      /\ server'.pending = IF forwarded /\ p.qos # 0 THEN Append(server.pending, f) ELSE server.pending
      /\ seen'.dropped = seen.dropped /\ seen'.left = seen.left /\ seen'.again = seen.again
  BY DEF PublishServed
<1>3. /\ Sending' \subseteq Sending
      /\ \A m \in Coming' \union Elements(q) :
           m \in Coming \/ (m = a /\ p.qos > 0) \/ (m = f /\ forwarded)
      /\ \A m \in Keeping' : m \in Keeping \/ (m = f /\ forwarded /\ p.qos > 0)
      /\ Len(net.toClient) \in Nat
      /\ \A i \in 1 .. Len(net'.toClient) :
           \/ i \in 1 .. Len(net.toClient) /\ net'.toClient[i] = net.toClient[i]
           \/ /\ i > Len(net.toClient)
              /\ net'.toClient[i] = a \/ (net'.toClient[i] = f /\ forwarded)
      /\ \A i, j \in 1 .. Len(net'.toClient) :
           i > Len(net.toClient) /\ j > Len(net.toClient) /\ net'.toClient[i] = net'.toClient[j] => i = j
  BY PublishQueues DEF PublishQueued
<1>4. /\ server.nextId \in Nat /\ server'.nextId \in Nat /\ server'.nextId >= server.nextId
      /\ Len(seen.delivered) \in Nat /\ Len(seen'.delivered) \in Nat
      /\ Len(seen'.delivered) >= Len(seen.delivered)
      /\ \A n \in 1 .. Len(seen.delivered) : seen'.delivered[n] = seen.delivered[n]
      /\ forwarded => /\ f.what \in 1 .. Len(seen'.delivered)
                      /\ seen'.delivered[f.what] = [qos |-> p.qos, times |-> 0]
      /\ forwarded /\ p.qos > 0 => server'.nextId = f.id
      /\ p.qos \in 0 .. 2
  BY PublishQueues DEF PublishNumbered
<1>5. /\ \A m \in Coming : m \in Packets /\ FromServer(m)
      /\ \A m \in Keeping : m \in Packets /\ Kept(m)
      /\ \A m \in Sending : m \in Packets /\ FromClient(m)
  BY <1>1 DEF TypeInv, Types, NetRecords, ServerRecords, Sending, Coming, Keeping, Elements
<1>6. ASSUME NEW m \in Packets, FromServer(m) PROVE FromServer(m)'
  <2>1. m.id \in Nat
    BY <1>6 DEF Packets
  <2> QED BY <1>4, <1>6, <2>1 DEF FromServer, IsMessage
<1>7. forwarded => FromServer(f)'
  <2>1. f.id \in Nat
    BY <1>2 DEF Packets
  <2> QED BY <1>2, <1>4, <2>1 DEF FromServer, ServerKinds, IsMessage
<1>8. FromServer(a)'
  BY <1>2 DEF FromServer, ServerKinds
<1>9. \A m \in Coming' \union Elements(q) : FromServer(m)'
  BY <1>3, <1>5, <1>6, <1>7, <1>8
<1>10. \A m \in Keeping' : Kept(m)'
  BY <1>2, <1>3, <1>5, <1>6, <1>7 DEF Kept
<1>11. /\ \A m \in Coming \union Keeping : Numbered(m) => m.id \in Nat /\ m.id <= server.nextId
       /\ \A m \in Keeping : m.id \in Nat /\ m.id <= server.nextId
       /\ \A m \in Coming : m.type = "PUBREL" => m.id \in Nat /\ m.id <= server.nextId
       /\ \A m \in Coming \union Keeping : Numbered(m) => IsMessage(m.what)
  BY <1>5 DEF Packets, FromServer, Kept, Numbered
<1>12. /\ ~Numbered(a)
       /\ Numbered(f) => p.qos > 0 /\ f.id = server.nextId + 1
  BY <1>2 DEF Numbered
<1>13. NumberInv'
  <2>1. \A m, n \in Coming' \union Keeping' : Numbered(m) /\ Numbered(n) => (m.id = n.id <=> m.what = n.what)
    <3> SUFFICES ASSUME NEW m \in Coming' \union Keeping', NEW n \in Coming' \union Keeping',
                        Numbered(m), Numbered(n)
                 PROVE  m.id = n.id <=> m.what = n.what
      OBVIOUS
    <3>1. m = f \/ (m \in Coming \union Keeping /\ m.id <= server.nextId /\ m.id \in Nat
                    /\ m.what <= Len(seen.delivered) /\ m.what \in Nat)
      BY <1>3, <1>4, <1>11, <1>12 DEF IsMessage
    <3>2. n = f \/ (n \in Coming \union Keeping /\ n.id <= server.nextId /\ n.id \in Nat
                    /\ n.what <= Len(seen.delivered) /\ n.what \in Nat)
      BY <1>3, <1>4, <1>11, <1>12 DEF IsMessage
    <3>3. m = f \/ n = f => f.id = server.nextId + 1 /\ f.what = Len(seen.delivered) + 1
      BY <1>2, <1>12
    <3> QED BY <1>1, <1>4, <3>1, <3>2, <3>3 DEF NumberInv
  <2>2. \A i, j \in 1 .. Len(net'.toClient) :
          Numbered(net'.toClient[i]) /\ Numbered(net'.toClient[j]) /\ net'.toClient[i].id = net'.toClient[j].id
            => i = j
    <3> SUFFICES ASSUME NEW i \in 1 .. Len(net'.toClient), NEW j \in 1 .. Len(net'.toClient),
                        Numbered(net'.toClient[i]), Numbered(net'.toClient[j]),
                        net'.toClient[i].id = net'.toClient[j].id
                 PROVE  i = j
      OBVIOUS
    <3>1. \/ i \in 1 .. Len(net.toClient) /\ net'.toClient[i] = net.toClient[i] /\ net.toClient[i] \in Coming
          \/ i > Len(net.toClient) /\ net'.toClient[i] = f
      BY <1>3, <1>12 DEF Coming, Elements
    <3>2. \/ j \in 1 .. Len(net.toClient) /\ net'.toClient[j] = net.toClient[j] /\ net.toClient[j] \in Coming
          \/ j > Len(net.toClient) /\ net'.toClient[j] = f
      BY <1>3, <1>12 DEF Coming, Elements
    <3>3. CASE i \in 1 .. Len(net.toClient) /\ j \in 1 .. Len(net.toClient)
      BY <1>1, <1>3, <3>1, <3>2, <3>3 DEF NumberInv
    <3>4. CASE i > Len(net.toClient) /\ j > Len(net.toClient)
      BY <1>3, <3>1, <3>2, <3>4
    <3>5. Numbered(f) => \A m \in Coming : Numbered(m) => m.id # f.id
      BY <1>4, <1>11, <1>12
    <3> QED BY <1>3, <3>1, <3>2, <3>3, <3>4, <3>5
  <2>3. \A i, j \in 1 .. Len(server'.pending) : server'.pending[i].id = server'.pending[j].id => i = j
    <3>1. server.pending \in Seq(Packets)
      BY <1>1 DEF Types, ServerRecords
    <3>2. CASE forwarded /\ p.qos # 0
      <4> SUFFICES ASSUME NEW i \in 1 .. Len(server'.pending), NEW j \in 1 .. Len(server'.pending),
                          server'.pending[i].id = server'.pending[j].id
                   PROVE  i = j
        OBVIOUS
      <4>1. /\ Len(server.pending) \in Nat /\ Len(server'.pending) = Len(server.pending) + 1
            /\ server'.pending[Len(server.pending) + 1] = f
            /\ \A k \in 1 .. Len(server.pending) : server'.pending[k] = server.pending[k]
        BY <1>2, <3>1, <3>2, AppendEffect
      <4>2. f.id = server.nextId + 1
        BY <1>2, <1>4, <3>2
      <4>3. \A k \in 1 .. Len(server.pending) : server.pending[k].id # f.id
        BY <1>4, <1>11, <4>2 DEF Keeping, Elements
      <4>4. i \in 1 .. Len(server.pending) \/ i = Len(server.pending) + 1
        BY <4>1
      <4>5. j \in 1 .. Len(server.pending) \/ j = Len(server.pending) + 1
        BY <4>1
      <4> QED BY <1>1, <4>1, <4>3, <4>4, <4>5 DEF NumberInv
    <3>3. CASE ~(forwarded /\ p.qos # 0)
      BY <1>1, <1>2, <3>3 DEF NumberInv
    <3> QED BY <3>2, <3>3
  <2>4. \A id \in client'.incoming : id <= server'.nextId \/ id \in seen'.left
    <3>1. client.incoming \subseteq Nat
      BY <1>1 DEF Types, ClientRecords
    <3> QED BY <1>1, <1>2, <1>4, <3>1 DEF NumberInv
  <2> QED BY <2>1, <2>2, <2>3, <2>4 DEF NumberInv, Numbered
<1>14. ReleaseInv'
  <2> SUFFICES ASSUME NEW i \in 1 .. Len(net'.toClient), net'.toClient[i].type = "PUBREL"
               PROVE  /\ \A j \in 1 .. Len(net'.toClient) :
                           Numbered(net'.toClient[j]) /\ net'.toClient[j].id = net'.toClient[i].id => j < i
                      /\ \A m \in Keeping' : Numbered(m) => m.id # net'.toClient[i].id
    BY DEF ReleaseInv, Numbered
  <2>1. /\ i \in 1 .. Len(net.toClient) /\ net'.toClient[i] = net.toClient[i]
        /\ net.toClient[i] \in Coming /\ net.toClient[i].type = "PUBREL"
    BY <1>2, <1>3 DEF Coming, Elements
  <2>2. Numbered(f) => f.id # net.toClient[i].id
    BY <1>4, <1>11, <1>12, <2>1
  <2>3. \A j \in 1 .. Len(net'.toClient) : Numbered(net'.toClient[j]) /\ net'.toClient[j].id = net'.toClient[i].id
          => j \in 1 .. Len(net.toClient) /\ net'.toClient[j] = net.toClient[j]
    BY <1>3, <1>12, <2>1, <2>2
  <2>4. \A m \in Keeping' : Numbered(m) => m \in Keeping \/ m.id # net.toClient[i].id
    BY <1>3, <2>2
  <2> QED BY <1>1, <2>1, <2>3, <2>4 DEF ReleaseInv
<1>15. DeliveryInv'
  <2>1. \A m : IsMessage(m.what) =>
          /\ Times(m)' = Times(m) /\ (GivenUp(m)' <=> GivenUp(m))
          /\ (Undelivered(m)' <=> Undelivered(m)) /\ (Accounted(m)' <=> Accounted(m))
    BY <1>2, <1>4 DEF Times, GivenUp, Undelivered, Accounted, IsMessage
  <2>2. forwarded /\ p.qos = 2 => Times(f)' = 0 /\ Undelivered(f)' /\ Accounted(f)'
    <3> SUFFICES ASSUME forwarded, p.qos = 2 PROVE Times(f)' = 0 /\ Undelivered(f)' /\ Accounted(f)'
      OBVIOUS
    <3>1. Times(f)' = 0
      BY <1>4 DEF Times
    <3>2. client.incoming \subseteq Nat /\ f.id = server.nextId + 1
      BY <1>1, <1>2 DEF Types, ClientRecords
    <3>3. f.id \in client.incoming => f.id \in seen.left
      BY <1>1, <1>4, <3>2 DEF NumberInv
    <3> QED BY <1>2, <3>1, <3>3 DEF Undelivered, Accounted, GivenUp
  <2>3. \A m \in Coming' : Numbered(m) /\ m.qos = 2 =>
          /\ Undelivered(m)' /\ Accounted(m)'
          /\ client'.cleansession => Times(m)' = 0
    <3> SUFFICES ASSUME NEW m \in Coming', Numbered(m), m.qos = 2
                 PROVE  /\ Undelivered(m)' /\ Accounted(m)'
                        /\ client'.cleansession => Times(m)' = 0
      OBVIOUS
    <3>1. m \in Coming \/ (m = f /\ forwarded)
      BY <1>3, <1>12
    <3>2. CASE m \in Coming
      BY <1>1, <1>11, <2>1, <3>2 DEF DeliveryInv
    <3>3. CASE m = f /\ forwarded
      BY <1>2, <2>2, <3>3
    <3> QED BY <3>1, <3>2, <3>3
  <2>4. KeptSession' => \A m \in Keeping' : Numbered(m) /\ m.qos = 2 => Undelivered(m)' /\ Accounted(m)'
    <3> SUFFICES ASSUME KeptSession', NEW m \in Keeping', Numbered(m), m.qos = 2
                 PROVE  Undelivered(m)' /\ Accounted(m)'
      OBVIOUS
    <3>1. KeptSession
      BY <1>2 DEF KeptSession
    <3>2. CASE m \in Keeping
      BY <1>1, <1>11, <2>1, <3>1, <3>2 DEF DeliveryInv
    <3>3. CASE m = f /\ forwarded
      BY <1>2, <2>2, <3>3
    <3> QED BY <1>3, <3>2, <3>3
  <2>5. DeliveredOnce'
    <3> SUFFICES ASSUME NEW n \in DOMAIN seen'.delivered, seen'.delivered[n].qos = 2
                 PROVE  seen'.delivered[n].times <= 1 \/ n \in seen'.again
      BY DEF DeliveredOnce
    <3>1. DOMAIN seen'.delivered = 1 .. Len(seen'.delivered) /\ DOMAIN seen.delivered = 1 .. Len(seen.delivered)
      BY <1>1, SMTT(30) DEF PublishServed, Types, SeenRecords
    <3>2. n \in 1 .. Len(seen.delivered) \/ (forwarded /\ n = f.what)
      <4>1. seen'.delivered = IF forwarded THEN Append(seen.delivered, [qos |-> p.qos, times |-> 0])
                              ELSE seen.delivered
        BY DEF PublishServed
      <4>2. Len(seen'.delivered) = IF forwarded THEN Len(seen.delivered) + 1 ELSE Len(seen.delivered)
        BY <1>1, <4>1 DEF Types, SeenRecords
      <4> QED BY <1>2, <1>4, <3>1, <4>2
    <3>3. CASE n \in 1 .. Len(seen.delivered)
      BY <1>1, <1>2, <1>4, <3>1, <3>3 DEF DeliveryInv, DeliveredOnce
    <3>4. CASE forwarded /\ n = f.what
      BY <1>4, <3>4
    <3> QED BY <3>2, <3>3, <3>4
  <2>6. \A m \in Sending' : m.type \in {"PUBACK", "PUBREC"} => Times(m)' >= 1 \/ GivenUp(m)'
    BY <1>1, <1>3, <1>5, <2>1 DEF DeliveryInv, FromClient
  <2> QED BY <2>3, <2>4, <2>5, <2>6 DEF DeliveryInv, Numbered
<1> QED BY <1>9, <1>10, <1>13, <1>14, <1>15 DEF Messages

\* ... what is remembered of the publish, and what the answer says.
LEMMA PublishRemembered ==
  ASSUME IInv, net.toServer # <<>>, server.up, NEW p, NEW a, NEW f, NEW q, NEW forwarded,
         PublishServed(p, a, f, q, forwarded), client' = client, call' = call
  PROVE  ReceivedInv' /\ (p.qos > 0 /\ call.name \in Exchanges => AnswersTo(a)')
<1>1. TypeInv /\ Types /\ CallTypes /\ ConnectionInv /\ InflightInv /\ ReceivedInv
  BY DEF IInv, TypeInv
<1>2. /\ p = Head(net.toServer) /\ p.type = "PUBLISH"
      /\ a.type \in {"PUBACK", "PUBREC"} /\ a.id = p.id
      /\ a.type = "PUBACK" <=> p.qos = 1
      /\ ~(p.qos = 2 /\ p.id \in server.received) => p.what \in seen'.accepted
      /\ seen.accepted \subseteq seen'.accepted
      /\ server'.up = server.up /\ server'.clean = server.clean
      /\ server'.received = IF p.qos = 2 THEN server.received \union {p.id} ELSE server.received
  BY DEF PublishServed
<1>3. p \in Sending /\ (p.qos > 0 => ~Settled /\ (call.name \in Exchanges => AsksFor(p)))
  BY <1>2, HeadEffect DEF Asks
<1> HIDE DEF PublishServed
<1>4. p.qos > 0 /\ call.name \in Exchanges => p = call.packet /\ call.name \in Publishes
  <2> SUFFICES ASSUME p.qos > 0, call.name \in Exchanges
               PROVE  p = call.packet /\ call.name \in Publishes
    OBVIOUS
  <2>1. p = call.packet
    BY <1>2, <1>3 DEF AsksFor
  <2> QED BY <1>1, <1>2, <2>1 DEF CallTypes, Exchanges, Requests
<1>5. p.qos > 0 /\ Remembering => Current = p
  <2> SUFFICES ASSUME p.qos > 0, Remembering PROVE Current = p
    OBVIOUS
  <2>1. CASE call.name \in Exchanges
    BY <1>4, <2>1 DEF Current
  <2>2. CASE call.name \notin Exchanges
    <3>1. ~client.isconnected /\ call.name \notin Publishes \union ConnectCalls
      BY <1>3, <2>2 DEF Settled, Exchanges
    <3>2. KeptSession
      BY <3>1 DEF Remembering
    <3> QED BY <1>1, <1>2, <1>3, <3>1, <3>2 DEF KeptSession, InflightInv, Current
  <2> QED BY <2>1, <2>2
<1>6. p.qos > 0 /\ Remembering => p.what \in seen'.accepted
  <2>1. p.qos > 0 /\ Remembering /\ p.id \in server.received => p.what \in seen.accepted
    BY <1>1, <1>5 DEF ReceivedInv
  <2> QED BY <1>2, <2>1
<1>7. ReceivedInv'
  <2>1. Remembering' => Remembering
    BY <1>2 DEF Remembering, KeptSession
  <2>2. Current' = Current
    BY DEF Current
  <2>5. Remembering /\ client.isconnected /\ call.name \notin Publishes => server'.received = {}
    BY <1>1, <1>2, <1>3, <1>4 DEF ReceivedInv, Settled
  <2> SUFFICES ASSUME Remembering, NEW id \in server'.received
               PROVE  Current.id = id /\ Current.qos = 2 /\ Current.what \in seen'.accepted
    BY <2>1, <2>2, <2>5 DEF ReceivedInv
  <2>3. CASE id \in server.received
    BY <1>1, <1>2, <2>3 DEF ReceivedInv
  <2>4. CASE p.qos = 2 /\ id = p.id
    BY <1>5, <1>6, <2>4
  <2> QED BY <1>2, <2>3, <2>4
<1>8. ASSUME p.qos > 0, call.name \in Exchanges PROVE AnswersTo(a)'
  <2>1. p = call.packet /\ call.name \in Publishes
    BY <1>4, <1>8
  <2>2. Remembering
    BY <1>1, <2>1 DEF ConnectionInv, Remembering, KeptSession
  <2>3. call.packet.what \in seen'.accepted
    BY <1>6, <1>8, <2>1, <2>2
  <2> QED BY <1>2, <2>1, <2>3 DEF AnswersTo
<1> QED BY <1>7, <1>8

\* PUBLISH.
LEMMA ServePublish ==
  ASSUME IInv, net.toServer # <<>>, Head(net.toServer).type = "PUBLISH", server.up,
         ServerAccepts(Head(net.toServer)), script' = script, call' = call, client' = client
  PROVE  IInv'
<1>1. PICK p, a, f, q, forwarded : PublishServed(p, a, f, q, forwarded)
  BY AcceptEffect
<1>2. TypeInv /\ Types /\ ConnectionInv /\ SubsInv
  BY DEF IInv, TypeInv
<1>3. /\ Messages' /\ (\A m \in Elements(q) : FromServer(m)') /\ (\A m \in Keeping' : Kept(m)')
      /\ ReceivedInv' /\ (p.qos > 0 /\ call.name \in Exchanges => AnswersTo(a)')
  BY <1>1, PublishMessages, PublishRemembered
<1>4. PublishQueued(p, a, f, q, forwarded) /\ PublishNumbered(p, f, forwarded)
  BY <1>1, PublishQueues
<1>5. /\ p = Head(net.toServer) /\ p.type = "PUBLISH"
      /\ a.type \in {"PUBACK", "PUBREC"} /\ f.type = "PUBLISH"
      /\ q \in Seq(Packets) /\ net' = ToClient(net, q)
      /\ \A i \in 1 .. Len(q) : (q[i] = a /\ p.qos > 0) \/ (q[i] = f /\ forwarded)
      /\ \A i, j \in 1 .. Len(q) : q[i] = q[j] => i = j
      /\ seen.accepted \subseteq seen'.accepted
      /\ seen' \in SeenRecords /\ seen'.confirmed = seen.confirmed /\ seen'.dropped = seen.dropped
      /\ server' \in ServerRecords /\ server'.up = server.up /\ server'.clean = server.clean
      /\ server'.subs = server.subs
      /\ server'.received = IF p.qos = 2 THEN server.received \union {p.id} ELSE server.received
  BY <1>1 DEF PublishServed
<1>6. ~Answers(f)
  BY <1>5 DEF Answers
<1>7. SubsInv'
  <2>1. \A m \in Coming' : m \in Coming \/ m.type \notin {"SUBACK", "UNSUBACK"}
    BY <1>4, <1>5 DEF PublishQueued
  <2>2. Sending' \subseteq Sending
    BY <1>4 DEF PublishQueued
  <2> QED BY <1>2, <1>5, <2>1, <2>2, SubsStay
<1>8. \A i, j \in 1 .. Len(q) : Answers(q[i]) /\ Answers(q[j]) => i = j
  BY <1>5, <1>6
<1>9. /\ \A m \in Elements(q) : Answers(m) => /\ Asks(Head(net.toServer))
                                              /\ call.name \in Exchanges => AnswersTo(m)'
      /\ server'.received \subseteq server.received \/ Asks(Head(net.toServer))
  <2>1. p.qos > 0 => Asks(p)
    BY <1>5 DEF Asks
  <2>2. \A m \in Elements(q) : Answers(m) => m = a /\ p.qos > 0
    BY <1>5, <1>6 DEF Elements
  <2>3. ASSUME NEW m \in Elements(q), Answers(m)
        PROVE  /\ Asks(Head(net.toServer))
               /\ call.name \in Exchanges => AnswersTo(m)'
    BY <1>3, <1>5, <2>1, <2>2, <2>3
  <2>4. server'.received \subseteq server.received \/ p.qos > 0
    BY <1>5
  <2> QED BY <1>5, <2>1, <2>3, <2>4
<1>10. /\ Len(seen'.delivered) >= Len(seen.delivered)
       /\ \A n \in 1 .. Len(seen.delivered) : seen'.delivered[n] = seen.delivered[n]
       /\ server'.nextId >= server.nextId
  BY <1>4 DEF PublishNumbered
<1>11. /\ troubles' \in 0 .. MaxTroubles
       /\ server'.up => server'.clean = client.cleansession
       /\ client.isconnected => server'.up
       /\ server'.up
  BY <1>2, <1>5 DEF ServerAccepts, Types, ConnectionInv
<1>12. ServesWell(q)
  BY <1>3, <1>5, <1>7, <1>8, <1>9, <1>10, <1>11 DEF ServesWell
<1> QED BY <1>12, ServeKeeps

\* CONNECT is accepted, and a new session begins: what the client knows of the identifiers of
\* the old one is left to it.
LEMMA ServeConnectNew ==
  ASSUME IInv, net.toServer # <<>>, Head(net.toServer).type = "CONNECT",
         net' = ToClient(net, <<Packet("CONNACK", 0, 0, 1)>>),
         server' = NewSession(Head(net.toServer).what = 1), seen' = [seen EXCEPT !.left = client.incoming],
         script' = script, call' = call, client' = client, troubles' = troubles
  PROVE  IInv'
<1> DEFINE p == Head(net.toServer)
<1>1. TypeInv /\ Types /\ DeliveryInv
  BY DEF IInv, TypeInv
<1>2. /\ p.type = "CONNECT" /\ p.what = Flag /\ ~client.isconnected /\ Coming = {}
      /\ net.toClient = <<>>
      /\ \A m \in Sending : m.type \notin {"PUBACK", "PUBREC", "PUBCOMP"}
  BY HeadEffect
<1>3. PICK a : a = Packet("CONNACK", 0, 0, 1)
  OBVIOUS
<1>4. a \in Packets /\ a.type = "CONNACK" /\ ~Answers(a) /\ ~Numbered(a)
  BY <1>3 DEF Packet, Packets, Kinds, ServerKinds, Answers, Numbered
<1>5. PICK q : q = <<a>>
  OBVIOUS
<1>6. q \in Seq(Packets) /\ Len(q) = 1 /\ q[1] = a /\ Elements(q) = {a} /\ net' = ToClient(net, q)
  BY <1>3, <1>4, <1>5, OnePacket
<1>7. /\ server'.up = TRUE /\ server'.clean = client.cleansession /\ server'.subs = {}
      /\ server'.received = {} /\ server'.pending = <<>> /\ server'.nextId = 0
      /\ server' \in ServerRecords
  <2>1. client.cleansession \in BOOLEAN /\ ((p.what = 1) = client.cleansession)
    BY <1>1, <1>2 DEF Types, ClientRecords, Flag
  <2>2. server' = NewSession(client.cleansession)
    BY <2>1
  <2> QED BY <2>1, <2>2, EmptyEffect DEF NewSession, ServerRecords
<1>8. /\ seen' \in SeenRecords /\ seen'.left = client.incoming /\ seen'.again = seen.again
      /\ seen'.delivered = seen.delivered
      /\ seen'.dropped = seen.dropped /\ seen'.confirmed = seen.confirmed /\ seen'.accepted = seen.accepted
      /\ Len(seen.delivered) \in Nat
  <2>1. seen \in SeenRecords /\ client.incoming \in SUBSET Nat
    BY <1>1 DEF Types, ClientRecords
  <2>2. seen' = [seen EXCEPT !.left = client.incoming]
    OBVIOUS
  <2>3. /\ seen'.left = client.incoming /\ seen'.again = seen.again
        /\ seen'.delivered = seen.delivered /\ seen'.dropped = seen.dropped
        /\ seen'.confirmed = seen.confirmed /\ seen'.accepted = seen.accepted
    BY <2>1, <2>2 DEF SeenRecords
  <2>4. seen' \in SeenRecords
    BY <2>1, <2>2 DEF SeenRecords
  <2>5. Len(seen.delivered) \in Nat
    BY <2>1 DEF SeenRecords
  <2> QED BY <2>3, <2>4, <2>5
<1>9. /\ Sending' \subseteq Sending /\ Coming' = {a} /\ Keeping' = {}
      /\ \A i \in 1 .. Len(net'.toClient) : net'.toClient[i] = a
  <2>1. Sending' \subseteq Sending /\ Coming' = Coming \union Elements(q)
    BY <1>1, <1>6, ServedPackets
  <2>2. Keeping' = {}
    BY <1>7, EmptyEffect DEF Keeping
  <2>3. Coming' = {a}
    BY <1>2, <1>6, <2>1
  <2> QED BY <2>1, <2>2, <2>3 DEF Coming, Elements
<1> HIDE DEF p
<1>10. NumberInv'
  <2>1. Len(server'.pending) = 0
    BY <1>7, EmptyEffect
  <2> QED BY <1>4, <1>8, <1>9, <2>1 DEF NumberInv, Numbered
<1>11. ReleaseInv'
  BY <1>4, <1>9 DEF ReleaseInv
<1>12. DeliveryInv'
  BY <1>1, <1>2, <1>4, <1>8, <1>9 DEF DeliveryInv, DeliveredOnce, Numbered
<1>13. ReceivedInv' /\ SubsInv'
  BY <1>2, <1>7 DEF ReceivedInv, SubsInv
<1>14. FromServer(a)'
  BY <1>4 DEF FromServer, ServerKinds
<1>15. ServesWell(q)
  <2>1. troubles' \in 0 .. MaxTroubles
    BY <1>1 DEF Types
  <2>2. \A i, j \in 1 .. Len(q) : i = j
    BY <1>6
  <2>3. Head(net.toServer).type = "CONNECT"
    OBVIOUS
  <2> QED BY <1>2, <1>4, <1>6, <1>7, <1>8, <1>9, <1>10, <1>11, <1>12, <1>13, <1>14, <2>1, <2>2, <2>3
          DEF ServesWell, Messages
<1> QED BY <1>15, ServeKeeps

\* CONNECT is accepted, and the session goes on with what was not acknowledged.
LEMMA ServeConnectResumed ==
  ASSUME IInv, net.toServer # <<>>, Head(net.toServer).type = "CONNECT",
         Head(net.toServer).what # 1, ~server.clean,
         net' = ToClient(net, <<Packet("CONNACK", 0, 0, 1)>> \o server.pending),
         server' = [server EXCEPT !.up = TRUE], seen' = seen,
         script' = script, call' = call, client' = client, troubles' = troubles
  PROVE  IInv'
<1> DEFINE p == Head(net.toServer)
<1>1. TypeInv /\ Types /\ ReceivedInv /\ NumberInv /\ DeliveryInv
  BY DEF IInv, TypeInv
<1>2. /\ p.what = Flag /\ ~client.isconnected /\ Coming = {} /\ net.toClient = <<>>
      /\ \A m \in Sending : m.type \notin {"PUBACK", "PUBREC", "PUBCOMP"}
  BY HeadEffect
<1>3. ~client.cleansession /\ KeptSession
  BY <1>2 DEF Flag, KeptSession
<1>4. PICK a : a = Packet("CONNACK", 0, 0, 1)
  OBVIOUS
<1>5. a \in Packets /\ a.type = "CONNACK" /\ ~Answers(a) /\ ~Numbered(a)
  BY <1>4 DEF Packet, Packets, Kinds, ServerKinds, Answers, Numbered
<1>6. PICK q : q = <<a>> \o server.pending
  OBVIOUS
<1>7. server.pending \in Seq(Packets)
  BY <1>1 DEF Types, ServerRecords
<1>8. /\ q \in Seq(Packets) /\ Elements(q) = {a} \union Keeping
      /\ \A i \in 1 .. Len(q) :
           \/ i = 1 /\ q[i] = a
           \/ i - 1 \in 1 .. Len(server.pending) /\ q[i] = server.pending[i - 1]
  <2> DEFINE one == <<a>>
  <2>1. one \in Seq(Packets) /\ Len(one) = 1 /\ one[1] = a /\ Elements(one) = {a}
    BY <1>5, OnePacket
  <2>2. q = one \o server.pending
    BY <1>6
  <2> HIDE DEF one
  <2>3. /\ q \in Seq(Packets) /\ Len(q) = Len(one) + Len(server.pending)
        /\ \A i \in 1 .. Len(one) : q[i] = one[i]
        /\ \A i \in 1 .. Len(q) : i > Len(one) =>
             i - Len(one) \in 1 .. Len(server.pending) /\ q[i] = server.pending[i - Len(one)]
        /\ Elements(q) = Elements(one) \union Elements(server.pending)
    BY <1>7, <2>1, <2>2, ConcatEffect
  <2> QED BY <2>1, <2>3 DEF Keeping
<1>9. net' = ToClient(net, q)
  BY <1>4, <1>6
<1>10. /\ server' \in ServerRecords /\ server'.up = TRUE /\ server'.clean = FALSE
       /\ server'.received = server.received /\ server'.pending = server.pending
       /\ server'.nextId = server.nextId
  BY <1>1 DEF Types, ServerRecords
<1>11. /\ Sending' \subseteq Sending /\ Coming' = {a} \union Keeping /\ Keeping' = Keeping
       /\ \A i \in 1 .. Len(net'.toClient) : i \in 1 .. Len(q) /\ net'.toClient[i] = q[i]
  <2>1. /\ Sending' \subseteq Sending /\ Coming' = Coming \union Elements(q)
    BY <1>1, <1>8, <1>9, ServedPackets
  <2>2. net'.toClient = <<>> \o q
    BY <1>1, <1>2, <1>9 DEF ToClient, Types, NetRecords
  <2>3. net'.toClient = q
    BY <1>8, <2>2
  <2> QED BY <1>2, <1>8, <1>10, <2>1, <2>3 DEF Keeping
<1> HIDE DEF p
<1>12. \A i \in 1 .. Len(net'.toClient) :
         \/ net'.toClient[i] = a
         \/ i - 1 \in 1 .. Len(server.pending) /\ net'.toClient[i] = server.pending[i - 1]
  BY <1>8, <1>11
<1>13. ASSUME NEW i \in 1 .. Len(net'.toClient), NEW j \in 1 .. Len(net'.toClient),
              net'.toClient[i] # a, net'.toClient[j] # a, net'.toClient[i].id = net'.toClient[j].id
       PROVE  i = j
  <2>1. i - 1 = j - 1
    <3> DEFINE k == i - 1
               l == j - 1
    <3>1. k \in 1 .. Len(server.pending) /\ l \in 1 .. Len(server.pending)
          /\ server.pending[k].id = server.pending[l].id
      BY <1>12, <1>13
    <3> HIDE DEF k, l
    <3>2. k = l
      BY <1>1, <3>1 DEF NumberInv
    <3> QED BY <3>2 DEF k, l
  <2> QED BY <2>1
<1>14. NumberInv'
  <2>1. \A m \in Coming' \union Keeping' : Numbered(m) => m \in Keeping
    BY <1>5, <1>11
  <2> QED BY <1>1, <1>5, <1>10, <1>13, <2>1 DEF NumberInv, Numbered
<1>15. ReleaseInv'
  <2> SUFFICES ASSUME NEW i \in 1 .. Len(net'.toClient), net'.toClient[i].type = "PUBREL"
               PROVE  /\ \A j \in 1 .. Len(net'.toClient) :
                           Numbered(net'.toClient[j]) /\ net'.toClient[j].id = net'.toClient[i].id => j < i
                      /\ \A m \in Keeping' : Numbered(m) => m.id # net'.toClient[i].id
    BY DEF ReleaseInv, Numbered
  <2>1. net'.toClient[i] # a /\ ~Numbered(net'.toClient[i])
    BY <1>5 DEF Numbered
  <2>2. \A j \in 1 .. Len(net'.toClient) : Numbered(net'.toClient[j]) => net'.toClient[j].id # net'.toClient[i].id
    BY <1>5, <1>13, <2>1
  <2>3. ASSUME NEW m \in Keeping, Numbered(m) PROVE m.id # net'.toClient[i].id
    <3> DEFINE k == i - 1
    <3>1. k \in 1 .. Len(server.pending) /\ net'.toClient[i] = server.pending[k]
      BY <1>12, <2>1
    <3> HIDE DEF k
    <3>2. PICK l \in 1 .. Len(server.pending) : m = server.pending[l]
      BY <2>3 DEF Keeping, Elements
    <3>3. l # k
      BY <2>1, <2>3, <3>1, <3>2
    <3> QED BY <1>1, <3>1, <3>2, <3>3 DEF NumberInv
  <2> QED BY <1>11, <2>2, <2>3
<1>16. DeliveryInv'
  <2>1. \A m : /\ Times(m)' = Times(m) /\ (GivenUp(m)' <=> GivenUp(m))
               /\ (Undelivered(m)' <=> Undelivered(m)) /\ (Accounted(m)' <=> Accounted(m))
    BY DEF Times, GivenUp, Undelivered, Accounted
  <2> QED BY <1>1, <1>2, <1>3, <1>5, <1>11, <2>1 DEF DeliveryInv, DeliveredOnce, Numbered
<1>17. ReceivedInv'
  <2>1. Current' = Current /\ Remembering
    BY <1>3 DEF Current, Remembering
  <2> QED BY <1>1, <1>10, <2>1 DEF ReceivedInv
<1>18. SubsInv'
  BY <1>10 DEF SubsInv
<1>19. \A m \in Elements(q) : FromServer(m)' /\ ~Answers(m)
  <2>1. \A m : FromServer(m) => FromServer(m)'
    BY <1>1, <1>10, PacketsStay
  <2>2. FromServer(a) /\ \A m \in Keeping : FromServer(m) /\ ~Answers(m)
    BY <1>1, <1>5 DEF TypeInv, Kept, FromServer, ServerKinds, Answers
  <2> QED BY <1>5, <1>8, <2>1, <2>2
<1>20. \A m \in Keeping' : Kept(m)'
  <2>1. \A m : Kept(m) => Kept(m)'
    BY <1>1, <1>10, PacketsStay
  <2> QED BY <1>1, <1>11, <2>1 DEF TypeInv
<1>21. \A i \in 1 .. Len(q) : ~Answers(q[i])
  BY <1>19 DEF Elements
<1>22. ServesWell(q)
  <2>1. troubles' \in 0 .. MaxTroubles /\ seen' \in SeenRecords /\ Len(seen'.delivered) >= Len(seen.delivered)
    BY <1>1 DEF Types, SeenRecords
  <2>2. Head(net.toServer).type = "CONNECT"
    OBVIOUS
  <2>3. /\ server'.clean = client.cleansession /\ server'.up /\ server'.received \subseteq server.received
    BY <1>1, <1>3, <1>10 DEF Types, ClientRecords
  <2>4. /\ \A m \in Elements(q) : FromServer(m)' /\ ~Answers(m)
        /\ \A i, j \in 1 .. Len(q) : ~(Answers(q[i]) /\ Answers(q[j]))
    BY <1>19, <1>21
  <2>5. ReceivedInv' /\ SubsInv' /\ Messages'
    BY <1>14, <1>15, <1>16, <1>17, <1>18 DEF Messages
  <2>6. q \in Seq(Packets) /\ net' = ToClient(net, q) /\ server' \in ServerRecords /\ ~client.isconnected
        /\ \A n \in 1 .. Len(seen.delivered) : seen'.delivered[n] = seen.delivered[n]
    BY <1>2, <1>8, <1>9, <1>10
  <2> QED BY <1>20, <2>1, <2>2, <2>3, <2>4, <2>5, <2>6 DEF ServesWell
<1> QED BY <1>22, ServeKeeps

\* SUBSCRIBE and UNSUBSCRIBE, granted or refused.
LEMMA ServeSubscriptions ==
  ASSUME IInv, ServerReads, server.up, Head(net.toServer).type \in {"SUBSCRIBE", "UNSUBSCRIBE"}
  PROVE  IInv'
<1> DEFINE p == Head(net.toServer)
           yes == Packet("SUBACK", p.id, 0, 1)
           no == Packet("SUBACK", p.id, 0, 0)
           gone == Packet("UNSUBACK", p.id, 0, 0)
<1>1. Types /\ net.toServer # <<>>
  BY DEF IInv, TypeInv, ServerReads
<1>2. p \in Packets /\ p.id \in Nat /\ p.what \in Filter
  BY <1>1, HeadEffect DEF FromClient
<1>3. /\ yes \in Packets /\ FromServer(yes) /\ yes.type = "SUBACK" /\ yes.what = 1
      /\ no \in Packets /\ FromServer(no) /\ no.type = "SUBACK" /\ no.what = 0
      /\ gone \in Packets /\ FromServer(gone) /\ gone.type = "UNSUBACK"
  <2> HIDE DEF p
  <2> QED BY <1>2 DEF Packet, Packets, Kinds, ServerKinds, FromServer
<1>4. script' = script /\ call' = call /\ client' = client
  BY DEF ServerReads
<1>5. CASE p.type = "SUBSCRIBE"
  <2>1. \/ /\ net' = ToClient(net, <<yes>>) /\ server' = [server EXCEPT !.subs = @ \union {p.what}]
           /\ seen' = seen /\ troubles' = troubles
        \/ net' = ToClient(net, <<no>>) /\ server' = server /\ seen' = seen /\ Trouble
    BY <1>5 DEF ServerReads
  <2>2. CASE /\ net' = ToClient(net, <<yes>>) /\ server' = [server EXCEPT !.subs = @ \union {p.what}]
             /\ seen' = seen /\ troubles' = troubles
    <3>1. PICK a \in Packets : a = yes
      BY <1>3
    <3>2. PICK subs \in SUBSET Filter : subs = server.subs \union {p.what}
      BY <1>1, <1>2 DEF Types, ServerRecords
    <3>3. /\ net' = ToClient(net, <<a>>) /\ FromServer(a) /\ a.type = "SUBACK" /\ a.what = 1
          /\ server' = [server EXCEPT !.subs = subs] /\ troubles' \in 0 .. MaxTroubles
      BY <1>1, <1>3, <2>2, <3>1, <3>2 DEF Types
    <3> HIDE DEF yes
    <3> QED BY <1>1, <1>4, <1>5, <2>2, <3>2, <3>3, ServeRequest
  <2>3. CASE net' = ToClient(net, <<no>>) /\ server' = server /\ seen' = seen /\ Trouble
    <3>1. PICK a \in Packets : a = no
      BY <1>3
    <3>2. PICK subs \in SUBSET Filter : subs = server.subs
      BY <1>1 DEF Types, ServerRecords
    <3>3. /\ net' = ToClient(net, <<a>>) /\ FromServer(a) /\ a.type = "SUBACK" /\ a.what = 0
          /\ troubles' \in 0 .. MaxTroubles
      BY <1>1, <1>3, <2>3, <3>1, TroubleEffect
    <3>4. server' = [server EXCEPT !.subs = subs]
      BY <1>1, <2>3, <3>2 DEF Types, ServerRecords
    <3> HIDE DEF no
    <3> QED BY <1>1, <1>4, <1>5, <2>3, <3>2, <3>3, <3>4, ServeRequest
  <2> QED BY <2>1, <2>2, <2>3
<1>6. CASE p.type = "UNSUBSCRIBE"
  <2>1. /\ net' = ToClient(net, <<gone>>) /\ server' = [server EXCEPT !.subs = @ \ {p.what}]
        /\ seen' = seen /\ troubles' = troubles
    BY <1>6 DEF ServerReads
  <2>2. PICK a \in Packets : a = gone
    BY <1>3
  <2>3. PICK subs \in SUBSET Filter : subs = server.subs \ {p.what}
    BY <1>1 DEF Types, ServerRecords
  <2>4. /\ net' = ToClient(net, <<a>>) /\ FromServer(a) /\ a.type = "UNSUBACK"
        /\ server' = [server EXCEPT !.subs = subs] /\ troubles' \in 0 .. MaxTroubles
    BY <1>1, <1>3, <2>1, <2>2, <2>3 DEF Types
  <2> HIDE DEF gone
  <2> QED BY <1>1, <1>4, <1>6, <2>1, <2>3, <2>4, ServeRequest
<1> QED BY <1>5, <1>6

LEMMA ServerReadsKeeps == IInv /\ ServerReads => IInv'
<1> SUFFICES ASSUME IInv, ServerReads PROVE IInv'
  OBVIOUS
<1> DEFINE p == Head(net.toServer)
<1>1. Types /\ net.toServer # <<>> /\ net.state = "up"
  BY DEF IInv, TypeInv, ServerReads
<1>2. script' = script /\ call' = call /\ client' = client
  BY DEF ServerReads
<1>3. p.type \in ClientKinds
  BY <1>1, HeadEffect DEF FromClient
<1>4. troubles \in 0 .. MaxTroubles
  BY <1>1 DEF Types
<1>5. CASE p.type = "CONNECT"
  <2> DEFINE yes == <<Packet("CONNACK", 0, 0, 1)>>
             no == <<Packet("CONNACK", 0, 0, 0)>>
             new == p.what = 1 \/ server.clean
             s == IF new THEN NewSession(p.what = 1) ELSE [server EXCEPT !.up = TRUE]
  <2>1. \/ /\ net' = ToClient(net, yes \o s.pending) /\ server' = s
           /\ seen' = IF new THEN [seen EXCEPT !.left = client.incoming] ELSE seen
           /\ troubles' = troubles
        \/ net' = ToClient(net, no) /\ server' = server /\ seen' = seen /\ Trouble
    BY <1>5 DEF ServerReads
  <2>2. CASE net' = ToClient(net, no) /\ server' = server /\ seen' = seen /\ Trouble
    <3>1. PICK q : q = no
      OBVIOUS
    <3>2. troubles' \in 0 .. MaxTroubles
      BY <1>1, <2>2, TroubleEffect
    <3> QED BY <1>1, <1>2, <2>2, <3>1, <3>2, ServeIdle
  <2>3. CASE /\ net' = ToClient(net, yes \o s.pending) /\ server' = s
             /\ seen' = IF new THEN [seen EXCEPT !.left = client.incoming] ELSE seen
             /\ troubles' = troubles
    <3>1. CASE new
      <4>1. s = NewSession(p.what = 1) /\ s.pending = <<>>
        BY <3>1 DEF NewSession
      <4>2. yes \o <<>> = yes
        OBVIOUS
      <4> QED BY <1>1, <1>2, <1>5, <2>3, <3>1, <4>1, <4>2, ServeConnectNew
    <3>2. CASE ~new
      <4>1. s = [server EXCEPT !.up = TRUE] /\ s.pending = server.pending
        BY <1>1, <3>2 DEF Types, ServerRecords
      <4> QED BY <1>1, <1>2, <1>5, <2>3, <3>2, <4>1, ServeConnectResumed
    <3> QED BY <3>1, <3>2
  <2> QED BY <2>1, <2>2, <2>3
<1>6. CASE p.type # "CONNECT" /\ ~server.up
  <2>1. net' = ToClient(net, <<>>) /\ server' = server /\ seen' = seen /\ troubles' = troubles
    BY <1>6 DEF ServerReads
  <2> QED BY <1>1, <1>2, <1>4, <2>1, ServeIdle
<1>7. CASE server.up /\ p.type = "PUBLISH"
  <2>1. ServerAccepts(p)
    BY <1>7 DEF ServerReads
  <2> QED BY <1>1, <1>2, <1>7, <2>1, ServePublish
<1>8. CASE server.up /\ p.type = "PUBREL"
  <2>1. /\ net' = ToClient(net, <<Packet("PUBCOMP", p.id, 0, 0)>>)
        /\ server' = [server EXCEPT !.received = @ \ {p.id}] /\ seen' = seen /\ troubles' = troubles
    BY <1>8 DEF ServerReads
  <2> QED BY <1>1, <1>2, <1>8, <2>1, ServePubrel
<1>9. CASE server.up /\ p.type \in {"PUBACK", "PUBCOMP"}
  <2>1. /\ net' = ToClient(net, <<>>)
        /\ server' = [server EXCEPT !.pending = Without(@, p.id)] /\ seen' = seen /\ troubles' = troubles
    BY <1>9 DEF ServerReads
  <2> QED BY <1>1, <1>2, <1>9, <2>1, ServeAcked
<1>10. CASE server.up /\ p.type = "PUBREC"
  <2>1. /\ net' = ToClient(net, <<Released(p)>>)
        /\ server' = [server EXCEPT !.pending =
             [i \in DOMAIN @ |-> IF @[i].id = p.id THEN Released(p) ELSE @[i]]]
        /\ seen' = seen /\ troubles' = troubles
    BY <1>10 DEF ServerReads
  <2> QED BY <1>1, <1>2, <1>10, <2>1, ServePubrec
<1>11. CASE server.up /\ p.type \in {"SUBSCRIBE", "UNSUBSCRIBE"}
  BY <1>11, ServeSubscriptions
<1>12. CASE server.up /\ p.type = "PINGREQ"
  <2>1. /\ net' = ToClient(net, <<Packet("PINGRESP", 0, 0, 0)>>) /\ server' = server
        /\ seen' = seen /\ troubles' = troubles
    BY <1>12 DEF ServerReads
  <2>2. PICK q : q = <<Packet("PINGRESP", 0, 0, 0)>>
    OBVIOUS
  <2> QED BY <1>1, <1>2, <1>4, <1>12, <2>1, <2>2, ServeIdle
<1>13. CASE server.up /\ p.type = "DISCONNECT"
  <2>1. net' = ToClient(net, <<>>) /\ server' = [server EXCEPT !.up = FALSE]
        /\ seen' = seen /\ troubles' = troubles
    BY <1>13 DEF ServerReads
  <2> QED BY <1>1, <1>2, <1>13, <2>1, ServeDisconnect
<1>14. CASE server.up /\ p.type = "TERMINATE"
  <2>1. /\ net' \in [state : {"dead", "closed"}, toServer : {<<>>}, toClient : {net.toClient}]
        /\ server' = server /\ seen' = seen /\ troubles' = troubles
    BY <1>14 DEF ServerReads
  <2> QED BY <1>1, <1>2, <2>1, ServeTerminate
<1> QED BY <1>3, <1>5, <1>6, <1>7, <1>8, <1>9, <1>10, <1>11, <1>12, <1>13, <1>14 DEF ClientKinds

(***************************************************************************)
(* The invariant.                                                          *)
(***************************************************************************)

LEMMA InitKeeps == Init => IInv
<1> SUFFICES ASSUME Init PROVE IInv
  OBVIOUS
<1>1. /\ script \in Scripts /\ call = Idle
      /\ client = [isconnected |-> FALSE, cleansession |-> TRUE, ping_outstanding |-> FALSE,
                   handlers |-> NoHandlers, nextId |-> 0, inflight |-> NoPacket,
                   incoming |-> {}, due |-> {}]
      /\ net = [state |-> "closed", toServer |-> <<>>, toClient |-> <<>>]
      /\ server = [up |-> FALSE, clean |-> TRUE, subs |-> {}, received |-> {}, pending |-> <<>>, nextId |-> 0]
      /\ seen = [accepted |-> {}, confirmed |-> {}, delivered |-> <<>>, dropped |-> {}, left |-> {},
                 again |-> {}]
      /\ troubles = 0
  BY DEF Init
<1>2. /\ client.isconnected = FALSE /\ client.cleansession = TRUE /\ client.handlers = NoHandlers
      /\ client.inflight = NoPacket /\ client.incoming = {}
      /\ net.state = "closed" /\ net.toServer = <<>> /\ net.toClient = <<>>
      /\ server.up = FALSE /\ server.clean = TRUE /\ server.received = {} /\ server.pending = <<>>
      /\ seen.confirmed = {} /\ seen.delivered = <<>> /\ seen.dropped = {}
      /\ call.name = "none" /\ call.state = "none"
  BY <1>1 DEF Idle
<1>3. Sending = {} /\ Coming = {} /\ Keeping = {} /\ Asked = {} /\ Replied = {}
  BY <1>2, EmptyEffect DEF Sending, Coming, Keeping, Asked, Replied
<1>4. /\ script \in Seq(Steps) /\ Arguments(script) /\ InOrder(script) /\ KeptOnce(script)
  BY <1>1, CppClientAssumption DEF Steps
<1>5. TypeInv
  <2>1. NoPacket \in Packets
    BY DEF NoPacket, Packet, Packets, Kinds
  <2>2. call \in CallRecords
    BY <1>1, <2>1 DEF Idle, CallRecords, Kinds
  <2>3. client \in ClientRecords
    BY <1>1, <2>1, CppClientAssumption DEF ClientRecords, NoHandlers
  <2>4. net \in NetRecords /\ server \in ServerRecords
    BY <1>1, EmptyEffect DEF NetRecords, ServerRecords
  <2>5. seen \in SeenRecords
    <3>1. <<>> \in Seq([qos : 0 .. 2, times : Nat])
      OBVIOUS
    <3> QED BY <1>1, <3>1 DEF SeenRecords
  <2>6. Types
    BY <1>1, <1>4, <2>2, <2>3, <2>4, <2>5, CppClientAssumption DEF Types
  <2>7. Bounded
    <3>1. {f \in Filter : client.handlers[f] # 0} = {}
      BY <1>2 DEF NoHandlers
    <3>2. IsFiniteSet({}) /\ Cardinality({}) = 0
      BY FS_EmptySet
    <3>3. Cardinality({f \in Filter : client.handlers[f] # 0}) = 0
      BY <3>1, <3>2
    <3>4. 0 <= MaxIncoming /\ 0 <= MaxHandlers
      BY CppClientAssumption
    <3> QED BY <1>2, <3>2, <3>3, <3>4 DEF Bounded
  <2>8. CallTypes
    BY <1>1, <1>2 DEF CallTypes, Yields, ConnectCalls, Publishes
  <2> QED BY <1>2, <1>3, <2>6, <2>7, <2>8 DEF TypeInv
<1>6. ScriptInv
  <2>1. InOrderFrom2(script)
    <3> SUFFICES ASSUME NEW i \in 2 .. Len(script) PROVE OrderAfter(script, i)
      BY DEF InOrderFrom2
    <3>1. i \in 1 .. Len(script)
      BY <1>4
    <3> QED BY <1>4, <3>1 DEF InOrder, After, OrderAfter
  <2>2. ASSUME script # <<>> PROVE Head(script).name \notin ConnectCalls \union {"close"}
    <3>1. 1 \in 1 .. Len(script) /\ Head(script) = script[1]
      BY <1>4, <2>2
    <3> QED BY <1>4, <3>1 DEF InOrder, After
  <2>3. OrderAtHead
    BY <1>1, <1>2, <2>2 DEF OrderAtHead, NextIs, NoneUnderWay
  <2> QED BY <1>2, <1>4, <2>1, <2>3 DEF ScriptInv, Rest
<1>7. ConnectionInv
  BY <1>2, <1>3, EmptyEffect DEF ConnectionInv, ConnectFirst, Talks, Exchanges, Publishes, Requests, ConnectCalls
<1>8. ExchangeInv
  BY <1>2, <1>3 DEF ExchangeInv, OneExchange, QuietWhenSettled, Exchanges, Publishes, Requests, ConnectCalls
<1>9. InflightInv
  BY <1>2, <1>3 DEF InflightInv, Publishes
<1>10. ReceivedInv /\ ConfirmedAccepted
  BY <1>2 DEF ReceivedInv, ConfirmedAccepted
<1>11. SubsInv
  BY <1>2 DEF SubsInv
<1>12. NumberInv /\ ReleaseInv /\ DeliveryInv
  BY <1>2, <1>3, EmptyEffect DEF NumberInv, ReleaseInv, DeliveryInv, KeptSession, DeliveredOnce
<1> QED BY <1>5, <1>6, <1>7, <1>8, <1>9, <1>10, <1>11, <1>12 DEF IInv

LEMMA StutterKeeps == IInv /\ UNCHANGED vars => IInv'
<1> SUFFICES ASSUME IInv, UNCHANGED vars PROVE IInv'
  OBVIOUS
<1>1. /\ script' = script /\ call' = call /\ client' = client /\ net' = net /\ server' = server
      /\ seen' = seen /\ troubles' = troubles
  BY DEF vars
<1>2. /\ TypeInv /\ ScriptInv /\ ConnectionInv /\ ExchangeInv /\ InflightInv /\ ReceivedInv
      /\ ConfirmedAccepted /\ SubsInv /\ NumberInv /\ ReleaseInv /\ DeliveryInv
  BY DEF IInv
<1>3. Sending' = Sending /\ Coming' = Coming /\ Keeping' = Keeping
  BY <1>1 DEF Sending, Coming, Keeping
<1>4. TypeInv'
  BY <1>1, <1>2, <1>3 DEF TypeInv, Types, Bounded, CallTypes, FromClient, FromServer, Kept, IsMessage
<1>5. ScriptInv'
  BY <1>1, <1>2 DEF ScriptInv, OrderAtHead, NoneUnderWay
<1>6. ConnectionInv'
  BY <1>1, <1>2, <1>3 DEF ConnectionInv, ConnectFirst, Flag, Lost, NoneUnderWay
<1>7. ExchangeInv'
  <2>1. Asked' = Asked /\ Replied' = Replied /\ (Settled' <=> Settled)
    BY <1>1 DEF Asked, Replied, Settled
  <2>2. Lost' = Lost
    BY <1>1 DEF Lost, NoneUnderWay
  <2> QED BY <1>1, <1>2, <1>3, <2>1, <2>2
          DEF ExchangeInv, OneExchange, QuietWhenSettled, AsksFor, AnswersTo
<1>8. InflightInv'
  BY <1>1, <1>2, <1>3 DEF InflightInv, Lost, NoneUnderWay
<1>9. ReceivedInv' /\ ConfirmedAccepted'
  BY <1>1, <1>2 DEF ReceivedInv, Remembering, KeptSession, Current, ConfirmedAccepted
<1>10. SubsInv'
  BY <1>1, <1>2, <1>3 DEF SubsInv, Unsubscribed, Removed, Handled
<1>11. NumberInv' /\ ReleaseInv'
  BY <1>1, <1>2, <1>3 DEF NumberInv, ReleaseInv, Numbered
<1>12. DeliveryInv'
  BY <1>1, <1>2, <1>3 DEF DeliveryInv, Numbered, Undelivered, Accounted, GivenUp, Times, KeptSession, DeliveredOnce
<1> QED BY <1>4, <1>5, <1>6, <1>7, <1>8, <1>9, <1>10, <1>11, <1>12 DEF IInv

\* Every step of the application, of cycle, of the network and of the server keeps what the
\* exactly-once handling of MQTTClient.h rests on.
THEOREM Invariance == Spec => []IInv
<1>1. IInv /\ [Next]_vars => IInv'
  <2> SUFFICES ASSUME IInv, [Next]_vars PROVE IInv'
    OBVIOUS
  <2>1. CASE Calling
    BY <2>1, CallingKeeps
  <2>2. CASE Cycle \/ ReadPart \/ ReadHeader \/ TimeOut \/ Tick \/ Break
    BY <2>2, CyclePacketKeeps, ReadHeaderKeeps, UnreadKeeps DEF Cycle, Unread
  <2>3. CASE Ending \/ EndYield
    BY <2>3, EndConnectKeeps, EndPublishKeeps, EndRequestKeeps, EndYieldKeeps DEF Ending
  <2>4. CASE ServerReads
    BY <2>4, ServerReadsKeeps
  <2>5. CASE UNCHANGED vars
    BY <2>5, StutterKeeps
  <2> QED BY <2>1, <2>2, <2>3, <2>4, <2>5 DEF Next
<1> QED BY <1>1, InitKeeps, PTL DEF Spec

\* However often the connection breaks and packets are sent again, cycle delivers no message
\* of QoS 2 twice and acknowledges none that it has lost unawares: for all filters, scripts
\* and sizes of its tables.
THEOREM DeliveredAsPromisedAlways == Spec => []DeliveredAsPromised
<1>1. IInv => DeliveredAsPromised
  <2> SUFFICES ASSUME IInv PROVE DeliveredOnce /\ AcknowledgedDelivered
    BY DEF DeliveredAsPromised
  <2>1. DeliveredOnce
    BY DEF IInv, DeliveryInv
  <2>2. AcknowledgedDelivered
    <3> SUFFICES ASSUME NEW i \in DOMAIN net.toServer, net.toServer[i].type \in {"PUBACK", "PUBREC"}
                 PROVE  \/ seen.delivered[net.toServer[i].what].times >= 1
                        \/ net.toServer[i].what \in seen.dropped \/ net.toServer[i].id \in seen.left
      BY DEF AcknowledgedDelivered
    <3>1. net.toServer[i] \in Sending
      BY DEF IInv, TypeInv, Types, NetRecords, Sending, Elements
    <3>2. \A p \in Sending : p.type \in {"PUBACK", "PUBREC"} => Times(p) >= 1 \/ GivenUp(p)
      BY DEF IInv, DeliveryInv
    <3> QED BY <3>1, <3>2 DEF Times, GivenUp
  <2> QED BY <2>1, <2>2
<1> QED BY <1>1, Invariance, PTL

\* What the calls of the client report is so: a publish with success was accepted by the
\* server, none is left over in a connected client, connected means accepted, and in a clean
\* session each subscription has its handler.
THEOREM CallsTruthfulAlways == Spec => []CallsTruthful
<1>1. IInv => CallsTruthful
  <2> SUFFICES ASSUME IInv PROVE CallsTruthful
    OBVIOUS
  <2>1. /\ TypeInv /\ Types /\ Bounded /\ ConnectionInv /\ InflightInv /\ ConfirmedAccepted /\ SubsInv
    BY DEF IInv, TypeInv
  <2>2. TypeOK
    <3>1. seen.dropped \subseteq DOMAIN seen.delivered
      BY <2>1 DEF TypeInv, Types, SeenRecords, IsMessage
    <3> QED BY <2>1, <3>1
           DEF TypeOK, Types, Bounded, CallRecords, ClientRecords, NetRecords, ServerRecords, SeenRecords
  <2>3. InflightSettled
    BY <2>1 DEF InflightSettled, InflightInv, Publishes, Idle, Lost
  <2>4. ConnectedAccepted
    BY <2>1 DEF ConnectedAccepted, ConnectionInv, Lost
  <2>5. SubscriptionsHandled
    <3> SUFFICES ASSUME client.cleansession, client.isconnected, server.up, call = Idle
                 PROVE  server.subs \subseteq {f \in Filter : client.handlers[f] # 0}
      BY DEF SubscriptionsHandled
    <3>1. server.clean
      BY <2>1 DEF ConnectionInv
    <3>2. call.name # "subscribe"
      BY DEF Idle
    <3> QED BY <2>1, <3>1, <3>2 DEF SubsInv, Handled
  <2> QED BY <2>1, <2>2, <2>3, <2>4, <2>5 DEF CallsTruthful
<1> QED BY <1>1, Invariance, PTL
=============================================================================
