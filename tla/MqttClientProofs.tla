-------------------------- MODULE MqttClientProofs --------------------------
(***************************************************************************)
(* Safety of the MQTT client for any topics, sizes of the tables, queues   *)
(* and intervals: one thread at a time is inside the library, a call that  *)
(* succeeds has been answered for itself, and client and broker agree on   *)
(* the subscriptions.  The client compares packet types only; what makes   *)
(* that enough is that at most one question is ever under way, that none   *)
(* is when a call begins, and that a failed call ends the session.         *)
(***************************************************************************)
EXTENDS MqttClient, FiniteSetTheorems, TLAPS

(***************************************************************************)
(* The invariant.                                                          *)
(***************************************************************************)

\* A packet of the client that the broker answers for a call of the application.
Question(p) ==
  \/ p.type \in {"CONNECT", "SUBSCRIBE", "UNSUBSCRIBE", "PUBREL"}
  \/ p.type = "PUBLISH" /\ p.code > 0

\* A packet of the broker that answers one.
Reply(p) == p.type \in {"CONNACK", "SUBACK", "UNSUBACK", "PUBACK", "PUBREC", "PUBCOMP"}

Asked == {i \in 1 .. Len(toBroker) : Question(toBroker[i])}
Replied == {i \in 1 .. Len(toClient) : Reply(toClient[i])}

\* One exchange at most is under way.
OneExchange ==
  /\ \A i, j \in Asked : i = j
  /\ \A i, j \in Replied : i = j
  /\ Asked = {} \/ Replied = {}

\* None is: between the calls of a connected application, when a connection has just been
\* made, and once a call has its answer.
Settled ==
  \/ appUp /\ appPc \notin {"wait", "done"}
  \/ appPc = "lock" /\ req.op = "connect"
  \/ appPc = "done" /\ answer # Failure /\ req.op # "disconnect"
QuietWhenSettled == Settled => Asked = {} /\ Replied = {}

\* Whoever is inside the library holds the mutex, which is deleted last.
LockInv ==
  /\ owner = "app" <=> appPc \in {"wait", "done"}
  /\ loopPc = "cycle" => isConnected /\ (owner = "loop" \/ ~mutexLive)
  /\ ~mutexLive => appPc = "off"

\* What each place of the application says of its call and of the client.
CallInv ==
  /\ appPc = "idle" => req = NoRequest /\ answer = NoAnswer
  /\ appPc = "network" => req.op = "connect"
  /\ appPc \in {"network", "lock"} => answer = NoAnswer /\ req.id = 0
  /\ appPc \in {"lock", "wait", "done"}
       => req.op \in {"connect", "subscribe", "unsubscribe", "publish", "disconnect"}
  /\ appPc \in {"stop", "delete", "off"} => req.op = "deinit"
  /\ appPc = "wait" => Wanted # "none" /\ answer = NoAnswer
  /\ appPc = "done" => answer.type \in {Wanted, "fail"} /\ (answer.type = "fail" => answer = Failure)
  /\ req.op \in {"subscribe", "unsubscribe"} => req.topic \in Topic
  /\ appPc \in {"wait", "done"} /\ answer # Failure
       /\ req.op \in {"subscribe", "unsubscribe", "publish"} => isConnected
  /\ isConnected => appUp
  /\ req.op = "connect" => ~appUp
  /\ ~isConnected => handlers = {}
  /\ IsFiniteSet(handlers)

\* The question under way is the one of the call that waits, at a stage of it; handlers
\* and subscriptions still agree, and the broker has not yet taken the message.
AsksFor(p) ==
  /\ p.id = req.id
  /\ \/ req.op = "connect" /\ p.type = "CONNECT" /\ p.id = 0
     \/ req.op = "subscribe" /\ p.type = "SUBSCRIBE" /\ p.topic = req.topic
     \/ req.op = "unsubscribe" /\ p.type = "UNSUBSCRIBE" /\ p.topic = req.topic
     \/ req.op = "publish" /\ p.type = "PUBLISH" /\ p.code = req.code
     \/ req.op = "publish" /\ req.code = 2 /\ p.type = "PUBREL"
  /\ req.op # "connect" /\ isConnected => handlers = subs

\* The reply under way is to the call that waits, and says what the broker has done.
AnswersTo(p) ==
  /\ p.id = req.id
  /\ \/ req.op = "connect" /\ p.type = "CONNACK"
     \/ /\ req.op = "subscribe" /\ p.type = "SUBACK"
        /\ isConnected => subs = IF p.code = SubFail THEN handlers ELSE handlers \union {req.topic}
     \/ /\ req.op = "unsubscribe" /\ p.type = "UNSUBACK"
        /\ isConnected => subs = handlers \ {req.topic}
     \/ req.op = "publish" /\ req.code = 1 /\ p.type = "PUBACK" /\ accepted = 1
     \/ req.op = "publish" /\ req.code = 2 /\ p.type = "PUBREC"
     \/ req.op = "publish" /\ req.code = 2 /\ p.type = "PUBCOMP" /\ accepted = 1

Asking == \A i \in Asked : AsksFor(toBroker[i])
Answering == \A i \in Replied : AnswersTo(toClient[i])
ExchangeInv == appPc = "wait" => Asking /\ Answering

\* A message the broker is still to take has not been taken.
ToTake(p) == p.type = "PUBREL" \/ (p.type = "PUBLISH" /\ p.code > 0)
Untaken ==
  /\ \A i \in 1 .. Len(toBroker) : ToTake(toBroker[i]) => accepted = 0
  /\ \A i \in 1 .. Len(toClient) : toClient[i].type = "PUBREC" => accepted = 0
AcceptInv == Untaken /\ (appUp /\ appPc \notin {"wait", "done"} => accepted = 0)

\* What a call that has succeeded may rely on.
DoneInv ==
  appPc = "done" /\ answer # Failure =>
    /\ NeedsId => answer.id = req.id
    /\ req.op = "publish" /\ req.code > 0 => accepted = 1
    /\ isConnected /\ req.op \in {"subscribe", "unsubscribe", "publish"} => subs = HandlersAfter

\* The broker's side of a connection that has just been made.
FreshInv ==
  req.op = "connect" /\ (appPc \in {"lock", "wait"} \/ (appPc = "done" /\ answer # Failure))
    => subs = {}

\* Handlers and subscriptions agree unless a call is changing them.
AgreeInv ==
  isConnected /\ appPc # "done" /\ (appPc = "wait" => req.op = "publish") => handlers = subs

(***************************************************************************)
(* The broker's own QoS 2 message.                                         *)
(***************************************************************************)

Copies == {i \in 1 .. Len(toClient) : toClient[i].type = "PUBLISH" /\ toClient[i].code = 2}

\* The release of the message follows the last copy of it, ...
ReleaseLast(i) ==
  /\ outbound.type = "PUBREL"
  /\ \A j \in Copies : j < i
  /\ \A j \in 1 .. Len(toClient) : toClient[j].type = "PUBREL" => i = j

\* ... and the completion follows everything else, so that the next message finds nothing
\* left of this one.
CompletionLast(i) ==
  /\ outbound.type = "PUBREL"
  /\ Copies = {}
  /\ \A j \in 1 .. Len(toClient) : toClient[j].type # "PUBREL"
  /\ \A j \in 1 .. Len(toBroker) : toBroker[j].type = "PUBREC" => j < i
  /\ \A j \in 1 .. Len(toBroker) : toBroker[j].type = "PUBCOMP" => i = j

DeliveryInv ==
  /\ outbound.type \in {"none", "PUBLISH", "RESENT", "PUBREL"}
  /\ Copies # {} => outbound.type # "none"
  /\ \A i \in 1 .. Len(toClient) : toClient[i].type = "PUBREL" => ReleaseLast(i)
  /\ \A i \in 1 .. Len(toBroker) : toBroker[i].type = "PUBREC" => outbound.type # "none"
  /\ \A i \in 1 .. Len(toBroker) : toBroker[i].type = "PUBCOMP" => CompletionLast(i)

\* Two copies are sent at most; those under way have not been delivered.
CountInv ==
  /\ outbound.type = "PUBLISH" => /\ \A i, j \in Copies : i = j
                                  /\ Copies # {} => delivered = 0
                                  /\ delivered <= 1
  /\ \A i, j, k \in Copies : i = j \/ i = k \/ j = k
  /\ Copies # {} => delivered <= 1
  /\ (\E i, j \in Copies : i # j) => delivered = 0

\* What is read is never taken for a failure; a subscription names a topic.
RealInv ==
  /\ \A i \in 1 .. Len(toClient) : toClient[i].type \notin {"none", "fail"}
  /\ \A i \in 1 .. Len(toBroker) : toBroker[i].type = "SUBSCRIBE" => toBroker[i].topic \in Topic

IInv ==
  /\ TypeOK /\ LockInv /\ CallInv /\ RealInv
  /\ OneExchange /\ QuietWhenSettled /\ ExchangeInv /\ AcceptInv /\ DoneInv
  /\ FreshInv /\ AgreeInv /\ DeliveryInv /\ CountInv

(***************************************************************************)
(* What happens to the queues.                                             *)
(***************************************************************************)

\* A packet at the end of a queue, ...
LEMMA AppendEffect ==
  ASSUME NEW q \in Seq(Packets), NEW p \in Packets
  PROVE  /\ Append(q, p) \in Seq(Packets)
         /\ Len(q) \in Nat
         /\ Len(Append(q, p)) = Len(q) + 1
         /\ Append(q, p)[Len(q) + 1] = p
         /\ \A i \in 1 .. Len(q) : Append(q, p)[i] = q[i]
OBVIOUS

\* ... and one taken from its beginning.
LEMMA TailEffect ==
  ASSUME NEW q \in Seq(Packets), q # <<>>
  PROVE  /\ Tail(q) \in Seq(Packets)
         /\ Len(q) \in Nat \ {0}
         /\ Head(q) = q[1] /\ Head(q) \in Packets
         /\ Len(Tail(q)) = Len(q) - 1
         /\ \A i \in 1 .. Len(Tail(q)) : Tail(q)[i] = q[i + 1]
OBVIOUS

LEMMA EmptyEffect == <<>> \in Seq(Packets) /\ Len(<<>>) = 0
OBVIOUS

\* The packets of the program are of the type of packets.
LEMMA PacketTypes ==
  ASSUME TypeOK
  PROVE  /\ NoAnswer \in Packets /\ Failure \in Packets /\ Ping \in Packets
         /\ \A p \in Packets : Answer(p) # "none" => Packet(Answer(p), p.id, NoTopic, 0) \in Packets
         /\ \A p \in Packets : Answer(p) \in {"none", "PUBACK", "PUBREC", "PUBREL", "PUBCOMP"}
         /\ \A p \in Packets : \A r \in Replies(p) : r \in Packets
BY MqttClientAssumption DEF NoAnswer, Failure, Ping, Packets, Packet, Answer, Replies, SubFail, TypeOK

(***************************************************************************)
(* What cycle() does, whoever calls it.                                    *)
(***************************************************************************)

\* It sends a packet at most.
Sent(p) == Len(toBroker) < QueueBound /\ toBroker' = Append(toBroker, p)

\* Nothing is read, and a ping may be sent; ...
NothingRead(rc) ==
  /\ rc \in {NoAnswer, Failure}
  /\ UNCHANGED <<toClient, delivered>>
  /\ UNCHANGED toBroker \/ Sent(Ping)

\* ... or the first packet is, and a ping or the answer to it may be sent.
HeadRead(rc) ==
  LET h == Head(toClient) IN
  /\ toClient # <<>> /\ toClient' = Tail(toClient)
  /\ rc \in {h, Failure}
  /\ delivered' = IF h.type = "PUBLISH" /\ h.code = 2 /\ h.topic \in handlers
                    THEN delivered + 1 ELSE delivered
  /\ \/ UNCHANGED toBroker
     \/ Sent(Ping)
     \/ Answer(h) # "none" /\ Sent(Packet(Answer(h), h.id, NoTopic, 0))

\* A failure ends the session; otherwise it goes on.
SessionAfter(rc) ==
  \/ UNCHANGED <<isConnected, handlers>>
  \/ rc = Failure /\ isConnected' = FALSE /\ handlers' = IF isConnected THEN {} ELSE handlers

LEMMA CycleEffect ==
  ASSUME TypeOK, NEW rc, Cycle(rc)
  PROVE  /\ UNCHANGED <<sock, nextId, accepted>>
         /\ {sentLeft', recvLeft', pingAge'} \subseteq 0 .. KeepAlive /\ pingOut' \in BOOLEAN
         /\ NothingRead(rc) \/ HeadRead(rc)
         /\ SessionAfter(rc)
<1>1. UNCHANGED <<sock, nextId, accepted>>
  BY DEF Cycle
<1>2. CASE CycleIdle(rc)
  <2>1. SessionAfter(rc)
    BY <1>2 DEF CycleIdle, Keepalive, CycleFails, CloseSession, SessionAfter
  <2>2. pingOut' \in BOOLEAN
    BY <1>2 DEF CycleIdle, Keepalive, CycleFails, CloseSession, TypeOK
  <2>3. {sentLeft', recvLeft', pingAge'} \subseteq 0 .. KeepAlive
    BY <1>2, MqttClientAssumption DEF CycleIdle, Keepalive, Sends, SendFails, TypeOK
  <2>4. NothingRead(rc)
    BY <1>2 DEF CycleIdle, Keepalive, CycleFails, Sends, SendFails, NothingRead, Sent
  <2> QED BY <1>1, <2>1, <2>2, <2>3, <2>4
<1>3. CASE CycleError(rc)
  <2>1. SessionAfter(rc)
    BY <1>3 DEF CycleError, CycleFails, CloseSession, SessionAfter
  <2>2. pingOut' \in BOOLEAN
    BY <1>3 DEF CycleError, CycleFails, CloseSession, TypeOK
  <2>3. NothingRead(rc) /\ UNCHANGED timers
    BY <1>3 DEF CycleError, CycleFails, NothingRead
  <2> QED BY <1>1, <2>1, <2>2, <2>3 DEF timers, TypeOK
<1>4. CASE CyclePacket(rc)
  <2>1. SessionAfter(rc)
    BY <1>4 DEF CyclePacket, Keepalive, CycleFails, CloseSession, SessionAfter, client
  <2>2. pingOut' \in BOOLEAN
    BY <1>4 DEF CyclePacket, Keepalive, CycleFails, CloseSession, TypeOK, client
  <2>3. {sentLeft', recvLeft', pingAge'} \subseteq 0 .. KeepAlive
    BY <1>4, MqttClientAssumption DEF CyclePacket, Keepalive, Sends, SendFails, TypeOK
  <2>4. HeadRead(rc)
    BY <1>4 DEF CyclePacket, Keepalive, CycleFails, Sends, SendFails, HeadRead, Sent
  <2> QED BY <1>1, <2>1, <2>2, <2>3, <2>4
<1> QED BY <1>2, <1>3, <1>4 DEF Cycle

\* What is read moves the other packets up by one place, ...
LEMMA ReadPlaces ==
  ASSUME TypeOK, toClient # <<>>, toClient' = Tail(toClient)
  PROVE  /\ toClient' \in Seq(Packets) /\ Len(toClient') <= QueueBound
         /\ Head(toClient) \in Packets /\ Head(toClient) = toClient[1] /\ 1 \in 1 .. Len(toClient)
         /\ \A i \in 1 .. Len(toClient') : /\ i + 1 \in 1 .. Len(toClient)
                                           /\ toClient'[i] = toClient[i + 1]
BY TailEffect, MqttClientAssumption DEF TypeOK

\* ... and what is sent comes after them.
LEMMA SentPlaces ==
  ASSUME TypeOK, NEW p \in Packets, Sent(p)
  PROVE  /\ toBroker' \in Seq(Packets) /\ Len(toBroker') <= QueueBound
         /\ Len(toBroker') = Len(toBroker) + 1 /\ Len(toBroker) \in Nat
         /\ toBroker'[Len(toBroker')] = p
         /\ \A i \in 1 .. Len(toBroker) : toBroker'[i] = toBroker[i]
BY AppendEffect, MqttClientAssumption DEF TypeOK, Sent

\* The queues keep their type.
LEMMA CycleQueues ==
  ASSUME TypeOK, NEW rc, NothingRead(rc) \/ HeadRead(rc)
  PROVE  /\ {toBroker', toClient'} \subseteq Seq(Packets)
         /\ Len(toBroker') <= QueueBound /\ Len(toClient') <= QueueBound
         /\ rc \in Packets
<1>1. toClient' \in Seq(Packets) /\ Len(toClient') <= QueueBound
  BY ReadPlaces DEF NothingRead, HeadRead, TypeOK
<1>2. toBroker' \in Seq(Packets) /\ Len(toBroker') <= QueueBound
  BY ReadPlaces, SentPlaces, PacketTypes DEF NothingRead, HeadRead, TypeOK
<1>3. rc \in Packets
  BY ReadPlaces, PacketTypes DEF NothingRead, HeadRead
<1> QED BY <1>1, <1>2, <1>3

\* An exchange goes from the broker's receipt to the client's release, or ends.
LEMMA CycleExchange ==
  ASSUME TypeOK, OneExchange, NEW rc, NothingRead(rc) \/ HeadRead(rc)
  PROVE  /\ OneExchange'
         /\ Asked = {} /\ Replied = {} => Asked' = {} /\ Replied' = {}
         /\ HeadRead(rc) /\ Reply(Head(toClient)) => Replied' = {}
         /\ HeadRead(rc) /\ Reply(Head(toClient)) /\ Head(toClient).type # "PUBREC" => Asked' = {}
<1>1. CASE NothingRead(rc)
  <2>1. Replied' = Replied
    BY <1>1 DEF NothingRead, Replied
  <2>2. Asked' = Asked
    BY <1>1, SentPlaces, PacketTypes DEF NothingRead, Asked, Question, Ping, Packet
  <2>3. ~HeadRead(rc)
    BY <1>1, TailEffect DEF NothingRead, HeadRead, TypeOK
  <2> QED BY <2>1, <2>2, <2>3 DEF OneExchange
<1>2. CASE HeadRead(rc)
  <2> DEFINE h == Head(toClient)
  <2>1. /\ h \in Packets /\ h = toClient[1] /\ 1 \in 1 .. Len(toClient)
        /\ \A i \in 1 .. Len(toClient') : i + 1 \in 1 .. Len(toClient) /\ toClient'[i] = toClient[i + 1]
    BY <1>2, ReadPlaces DEF HeadRead
  <2>2. \A i \in Replied' : i \in Nat /\ i + 1 \in Replied /\ i + 1 # 1
    BY <2>1 DEF Replied
  <2>3. CASE Reply(h)
    <3>1. 1 \in Replied
      BY <2>1, <2>3 DEF Replied
    <3>2. Replied' = {} /\ Asked = {}
      BY <2>2, <3>1 DEF OneExchange
    <3>3. \A i, j \in Asked' : i = j
      <4>1. CASE UNCHANGED toBroker
        BY <4>1, <3>2 DEF Asked
      <4>2. ASSUME NEW p \in Packets, Sent(p) PROVE \A i \in Asked' : i = Len(toBroker) + 1
        BY <4>2, <3>2, SentPlaces DEF Asked
      <4> QED BY <1>2, <2>1, <4>1, <4>2, PacketTypes DEF HeadRead
    <3>4. h.type # "PUBREC" => Asked' = {}
      <4> SUFFICES ASSUME h.type # "PUBREC" PROVE Asked' = {}
        OBVIOUS
      <4>1. Answer(h) = "none"
        BY <2>3 DEF Reply, Answer
      <4>2. ~Question(Ping)
        BY DEF Question, Ping, Packet
      <4> QED BY <1>2, <3>2, <4>1, <4>2, SentPlaces, PacketTypes DEF HeadRead, Asked
    <3> QED BY <2>3, <3>1, <3>2, <3>3, <3>4 DEF OneExchange
  <2>4. CASE ~Reply(h)
    <3>1. \A p \in Packets : Sent(p) /\ ~Question(p) => Asked' = Asked
      BY SentPlaces DEF Asked
    <3>2. ~Question(Ping) /\ (Answer(h) # "none" => ~Question(Packet(Answer(h), h.id, NoTopic, 0)))
      BY <2>4 DEF Question, Ping, Packet, Answer, Reply
    <3>3. Asked' = Asked
      BY <1>2, <2>1, <3>1, <3>2, PacketTypes DEF HeadRead, Asked
    <3> QED BY <2>2, <2>4, <3>3 DEF OneExchange
  <2> QED BY <2>3, <2>4
<1> QED BY <1>1, <1>2

\* The broker's message goes on to its receipt or its completion, or is lost.
LEMMA CycleDelivery ==
  ASSUME TypeOK, DeliveryInv, CountInv, RealInv, UNCHANGED outbound,
         NEW rc, NothingRead(rc) \/ HeadRead(rc)
  PROVE  DeliveryInv' /\ CountInv' /\ RealInv' /\ delivered' \in 0 .. 2
<1>1. CASE NothingRead(rc)
  <2>1. Copies' = Copies /\ UNCHANGED <<toClient, delivered>>
    BY <1>1 DEF NothingRead, Copies
  <2>2. \A i \in 1 .. Len(toBroker') : toBroker'[i].type \in {"PUBREC", "PUBCOMP"}
          => i \in 1 .. Len(toBroker) /\ toBroker'[i] = toBroker[i]
    BY SMTT(30), <1>1, SentPlaces, PacketTypes DEF NothingRead, Ping, Packet, TypeOK
  <2>3. \A i \in 1 .. Len(toBroker') : toBroker'[i].type = "PUBCOMP" => CompletionLast(i)'
    <3> SUFFICES ASSUME NEW i \in 1 .. Len(toBroker'), toBroker'[i].type = "PUBCOMP"
                 PROVE  CompletionLast(i)'
      OBVIOUS
    <3>1. CompletionLast(i)
      BY <2>2 DEF DeliveryInv
    <3> QED BY <2>1, <2>2, <3>1 DEF CompletionLast
  <2>4. \A i \in 1 .. Len(toClient') : toClient'[i].type = "PUBREL" => ReleaseLast(i)'
    BY <2>1 DEF DeliveryInv, ReleaseLast
  <2>5. \A i \in 1 .. Len(toBroker') : toBroker'[i].type = "PUBREC" => outbound'.type # "none"
    BY <2>2 DEF DeliveryInv
  <2>6. DeliveryInv'
    BY <2>1, <2>3, <2>4, <2>5 DEF DeliveryInv
  <2>7. RealInv'
    BY <1>1, <2>1, SentPlaces, PacketTypes DEF NothingRead, RealInv, Ping, Packet
  <2> QED BY <2>1, <2>6, <2>7 DEF CountInv, TypeOK
<1>2. CASE HeadRead(rc)
  <2> DEFINE h == Head(toClient)
             a == Packet(Answer(h), h.id, NoTopic, 0)
  <2>1. /\ h \in Packets /\ h = toClient[1] /\ 1 \in 1 .. Len(toClient)
        /\ \A i \in 1 .. Len(toClient') : i + 1 \in 1 .. Len(toClient) /\ toClient'[i] = toClient[i + 1]
    BY <1>2, ReadPlaces DEF HeadRead
  <2>2. \A i \in Copies' : i \in Nat /\ i + 1 \in Copies /\ i + 1 # 1
    BY <2>1 DEF Copies
  <2>3. 1 \in Copies <=> h.type = "PUBLISH" /\ h.code = 2
    BY <2>1 DEF Copies
  <2>4. CountInv' /\ delivered' \in 0 .. 2
    <3>1. CASE delivered' = delivered
      BY SMTT(30), <2>2, <3>1 DEF CountInv, TypeOK
    <3>2. CASE delivered' # delivered
      <4>1. 1 \in Copies /\ delivered' = delivered + 1
        BY <1>2, <2>3, <3>2 DEF HeadRead
      <4>2. delivered \in 0 .. 1
        BY <4>1 DEF CountInv, TypeOK
      <4>3. \A i, j \in Copies' : i = j
        BY <2>2, <4>1 DEF CountInv
      <4>4. Copies' # {} => delivered = 0
        BY <2>2, <4>1 DEF CountInv
      <4>5. outbound.type = "PUBLISH" => Copies' = {} /\ delivered = 0
        BY <2>2, <4>1 DEF CountInv
      <4> QED BY <4>1, <4>2, <4>3, <4>4, <4>5 DEF CountInv
    <3> QED BY <3>1, <3>2
  <2>5. RealInv'
    <3>1. \A i \in 1 .. Len(toClient') : toClient'[i].type \notin {"none", "fail"}
      BY <2>1 DEF RealInv
    <3>2. \A q \in Packets : Sent(q) /\ q.type # "SUBSCRIBE" =>
            \A i \in 1 .. Len(toBroker') :
              toBroker'[i].type = "SUBSCRIBE" => toBroker'[i].topic \in Topic
      BY SentPlaces DEF RealInv
    <3>3. /\ Ping.type # "SUBSCRIBE" /\ Ping \in Packets
          /\ Answer(h) # "none" => a \in Packets /\ a.type # "SUBSCRIBE"
      BY <2>1, PacketTypes DEF Ping, Packet
    <3> QED BY <1>2, <3>1, <3>2, <3>3 DEF HeadRead, RealInv
  <2>6. \A i \in 1 .. Len(toBroker') : toBroker'[i].type \in {"PUBREC", "PUBCOMP"} =>
          \/ i \in 1 .. Len(toBroker) /\ toBroker'[i] = toBroker[i]
          \/ i = Len(toBroker) + 1 /\ Answer(h) = toBroker'[i].type
    <3>1. CASE UNCHANGED toBroker
      BY <3>1
    <3>2. CASE Sent(Ping)
      BY <3>2, SentPlaces, PacketTypes DEF Ping, Packet
    <3>3. CASE Answer(h) # "none" /\ Sent(a)
      <4>1. a \in Packets /\ a.type = Answer(h)
        BY <2>1, <3>3, PacketTypes DEF Packet
      <4> QED BY <3>3, <4>1, SentPlaces
    <3> QED BY <1>2, <3>1, <3>2, <3>3 DEF HeadRead
  <2>7. /\ Answer(h) = "PUBREC" => 1 \in Copies
        /\ Answer(h) = "PUBCOMP" => h.type = "PUBREL"
    BY <2>3 DEF Answer
  <2>8. /\ outbound'.type \in {"none", "PUBLISH", "RESENT", "PUBREL"}
        /\ Copies' # {} => outbound'.type # "none"
    BY <2>2 DEF DeliveryInv
  <2>9. ASSUME NEW i \in 1 .. Len(toClient'), toClient'[i].type = "PUBREL"
        PROVE  ReleaseLast(i)'
    <3>1. i + 1 \in 1 .. Len(toClient) /\ toClient[i + 1].type = "PUBREL"
      BY <2>1, <2>9
    <3>2. ReleaseLast(i + 1)
      BY <3>1 DEF DeliveryInv
    <3>3. \A j \in Copies' : j < i
      BY <2>2, <3>2 DEF ReleaseLast
    <3>4. \A j \in 1 .. Len(toClient') : toClient'[j].type = "PUBREL" => i = j
      BY <2>1, <3>2 DEF ReleaseLast
    <3> QED BY <3>2, <3>3, <3>4 DEF ReleaseLast
  <2>10. ASSUME NEW i \in 1 .. Len(toBroker'), toBroker'[i].type = "PUBREC"
         PROVE  outbound'.type # "none"
    BY <2>6, <2>7, <2>10 DEF DeliveryInv
  <2>11. ASSUME NEW i \in 1 .. Len(toBroker'), toBroker'[i].type = "PUBCOMP"
         PROVE  CompletionLast(i)'
    <3>1. CASE i \in 1 .. Len(toBroker) /\ toBroker'[i] = toBroker[i]
      <4>1. CompletionLast(i)
        BY <2>11, <3>1 DEF DeliveryInv
      <4>2. Answer(h) \notin {"PUBREC", "PUBCOMP"}
        BY <2>1, <2>7, <4>1 DEF CompletionLast
      <4>3. Copies' = {} /\ \A j \in 1 .. Len(toClient') : toClient'[j].type # "PUBREL"
        BY <2>1, <2>2, <4>1 DEF CompletionLast
      <4> QED BY <2>6, <4>1, <4>2, <4>3 DEF CompletionLast
    <3>2. CASE i = Len(toBroker) + 1 /\ Answer(h) = "PUBCOMP"
      <4>1. ReleaseLast(1)
        BY <2>1, <2>7, <3>2 DEF DeliveryInv
      <4>2. \A j \in 1 .. Len(toBroker) : toBroker[j].type # "PUBCOMP"
        BY <2>1, <2>7, <3>2 DEF DeliveryInv, CompletionLast
      <4>3. Copies' = {}
        BY <2>2, <4>1 DEF ReleaseLast
      <4>4. \A j \in 1 .. Len(toClient') : toClient'[j].type # "PUBREL"
        BY <2>1, <4>1 DEF ReleaseLast
      <4>5. \A j \in 1 .. Len(toBroker') : toBroker'[j].type = "PUBREC" => j < i
        BY <2>6, <3>2
      <4>6. \A j \in 1 .. Len(toBroker') : toBroker'[j].type = "PUBCOMP" => i = j
        BY <2>6, <3>2, <4>2
      <4> QED BY <4>1, <4>3, <4>4, <4>5, <4>6 DEF CompletionLast, ReleaseLast
    <3> QED BY <2>6, <2>11, <3>1, <3>2
  <2> QED BY <2>4, <2>5, <2>8, <2>9, <2>10, <2>11 DEF DeliveryInv
<1> QED BY <1>1, <1>2

\* The client answers a receipt, which leaves the message to take.
LEMMA CycleUntaken ==
  ASSUME TypeOK, Untaken, UNCHANGED accepted, NEW rc, NothingRead(rc) \/ HeadRead(rc)
  PROVE  Untaken'
<1>1. ~ToTake(Ping)
  BY DEF ToTake, Ping, Packet
<1>2. CASE NothingRead(rc)
  BY <1>1, <1>2, SentPlaces, PacketTypes DEF NothingRead, Untaken, TypeOK
<1>3. CASE HeadRead(rc)
  <2> DEFINE h == Head(toClient)
             a == Packet(Answer(h), h.id, NoTopic, 0)
  <2>1. /\ h \in Packets /\ h = toClient[1] /\ 1 \in 1 .. Len(toClient)
        /\ \A i \in 1 .. Len(toClient') : i + 1 \in 1 .. Len(toClient) /\ toClient'[i] = toClient[i + 1]
    BY <1>3, ReadPlaces DEF HeadRead
  <2>2. \A i \in 1 .. Len(toClient') : toClient'[i].type = "PUBREC" => accepted' = 0
    BY <2>1 DEF Untaken
  <2>3. CASE UNCHANGED toBroker
    BY <2>2, <2>3 DEF Untaken
  <2>4. CASE Sent(Ping)
    BY <1>1, <2>2, <2>4, SentPlaces, PacketTypes DEF Untaken
  <2>5. CASE Answer(h) # "none" /\ Sent(a)
    <3>1. a \in Packets /\ (ToTake(a) => h.type = "PUBREC")
      BY <2>1, <2>5, PacketTypes DEF Packet, ToTake, Answer
    <3>2. ToTake(a) => accepted = 0
      BY <2>1, <3>1 DEF Untaken
    <3> QED BY <2>2, <2>5, <3>1, <3>2, SentPlaces DEF Untaken
  <2> QED BY <1>3, <2>3, <2>4, <2>5 DEF HeadRead
<1> QED BY <1>2, <1>3

\* While a call waits, what cycle() reads and sends belongs to it.
LEMMA CycleWaiting ==
  ASSUME TypeOK, OneExchange, ExchangeInv, AgreeInv, appPc = "wait",
         UNCHANGED <<isConnected, handlers, req, subs, accepted>>,
         NEW rc, NothingRead(rc) \/ HeadRead(rc)
  PROVE  Asking' /\ Answering'
<1>1. \A p : AsksFor(p)' <=> AsksFor(p)
  BY DEF AsksFor
<1>2. \A p : AnswersTo(p)' <=> AnswersTo(p)
  BY DEF AnswersTo
<1>3. CASE NothingRead(rc)
  <2>1. Answering'
    BY <1>2, <1>3 DEF NothingRead, ExchangeInv, Answering, Replied
  <2>2. CASE UNCHANGED toBroker
    BY <1>1, <2>1, <2>2 DEF ExchangeInv, Asking, Asked
  <2>3. CASE Sent(Ping)
    BY <1>1, <2>1, <2>3, SentPlaces, PacketTypes DEF ExchangeInv, Asking, Asked, Question, Ping, Packet
  <2> QED BY <1>3, <2>2, <2>3, <2>1 DEF NothingRead
<1>4. CASE HeadRead(rc)
  <2> DEFINE h == Head(toClient)
             a == Packet(Answer(h), h.id, NoTopic, 0)
  <2>1. /\ h \in Packets /\ h = toClient[1] /\ 1 \in 1 .. Len(toClient)
        /\ \A i \in 1 .. Len(toClient') : i + 1 \in 1 .. Len(toClient) /\ toClient'[i] = toClient[i + 1]
    BY <1>4, ReadPlaces DEF HeadRead
  <2>2. \A i \in Replied' : AnswersTo(toClient'[i])
    BY <2>1 DEF ExchangeInv, Asking, Answering, Replied
  <2>3. CASE UNCHANGED toBroker
    BY <1>1, <1>2, <2>2, <2>3 DEF ExchangeInv, Asking, Answering, Asked
  <2>4. CASE Sent(Ping)
    BY <1>1, <1>2, <2>2, <2>4, SentPlaces, PacketTypes DEF ExchangeInv, Asking, Answering, Asked, Question, Ping, Packet
  <2>5. CASE Answer(h) # "none" /\ Sent(a)
    <3>1. a \in Packets
      BY <2>1, <2>5, PacketTypes
    <3>2. Question(a) => h.type = "PUBREC" /\ a.type = "PUBREL" /\ a.id = h.id
      BY <2>5 DEF Question, Packet, Answer
    <3>3. Question(a) => AnswersTo(h)
      BY <2>1, <3>2 DEF ExchangeInv, Asking, Answering, Replied, Reply
    <3>4. Question(a) => AsksFor(a)
      BY <3>2, <3>3 DEF AnswersTo, AsksFor, AgreeInv
    <3>5. \A i \in Asked' : AsksFor(toBroker'[i])
      BY <2>5, <3>1, <3>4, SentPlaces DEF ExchangeInv, Asking, Answering, Asked
    <3> QED BY <1>1, <1>2, <2>2, <3>5 DEF Asking, Answering
  <2> QED BY <1>4, <2>3, <2>4, <2>5 DEF HeadRead
<1> QED BY <1>3, <1>4

(***************************************************************************)
(* Each action preserves the invariant.                                    *)
(***************************************************************************)

\* A handler table without entries.
LEMMA NoHandlers == IsFiniteSet({}) /\ Cardinality({}) <= MaxHandlers
BY FS_EmptySet, MqttClientAssumption

\* cycle() keeps the types and the session sound.
LEMMA CycleKeeps ==
  ASSUME IInv, UNCHANGED <<mutexLive, running, req, appUp, broker>>, NEW rc, Cycle(rc),
         owner' \in {"none", "loop", "app"},
         loopPc' \in {"check", "enter", "cycle", "exit"}, appPc' \in {"wait", "done", appPc},
         answer' \in Packets
  PROVE  /\ TypeOK' /\ RealInv' /\ OneExchange' /\ DeliveryInv' /\ CountInv' /\ Untaken'
         /\ isConnected' => isConnected /\ UNCHANGED handlers
         /\ ~isConnected' => handlers' = {}
         /\ IsFiniteSet(handlers')
         /\ rc # Failure => UNCHANGED isConnected
<1> USE DEF IInv
<1>1. /\ UNCHANGED <<sock, nextId, accepted>>
      /\ {sentLeft', recvLeft', pingAge'} \subseteq 0 .. KeepAlive /\ pingOut' \in BOOLEAN
      /\ NothingRead(rc) \/ HeadRead(rc)
      /\ SessionAfter(rc)
  BY CycleEffect
<1>2. OneExchange' /\ Untaken'
  BY <1>1, CycleExchange, CycleUntaken DEF AcceptInv
<1>3. DeliveryInv' /\ CountInv' /\ RealInv' /\ delivered' \in 0 .. 2
  BY <1>1, CycleDelivery DEF broker
<1>4. /\ isConnected' => isConnected /\ UNCHANGED handlers
      /\ ~isConnected' => handlers' = {}
      /\ rc # Failure => UNCHANGED isConnected
      /\ isConnected' \in BOOLEAN
  <2>1. CASE UNCHANGED <<isConnected, handlers>>
    BY <2>1 DEF CallInv, TypeOK
  <2>2. CASE rc = Failure /\ isConnected' = FALSE /\ handlers' = IF isConnected THEN {} ELSE handlers
    BY <2>2 DEF CallInv
  <2> QED BY <1>1, <2>1, <2>2 DEF SessionAfter
<1>5. handlers' \subseteq Topic /\ IsFiniteSet(handlers') /\ Cardinality(handlers') <= MaxHandlers
  BY <1>4, NoHandlers DEF CallInv, TypeOK
<1>6. TypeOK'
  BY <1>1, <1>3, <1>4, <1>5, CycleQueues DEF TypeOK, broker
<1> QED BY <1>2, <1>3, <1>4, <1>5, <1>6

\* The loop task: no call is under way, and none is begun.
LEMMA LoopCycleStep == IInv /\ LoopCycle => IInv'
<1> SUFFICES ASSUME IInv, LoopCycle PROVE IInv'
  OBVIOUS
<1> USE DEF IInv
<1>1. PICK rc : /\ Cycle(rc)
                /\ \/ rc # Failure /\ UNCHANGED <<loopPc, owner>>
                   \/ loopPc' = "check" /\ owner' = IF owner = "loop" THEN "none" ELSE owner
  BY DEF LoopCycle
<1>2. /\ loopPc = "cycle" /\ UNCHANGED <<mutexLive, running, app, broker>>
      /\ isConnected /\ appUp /\ appPc \notin {"wait", "done"} /\ owner \in {"none", "loop"}
  BY DEF LoopCycle, LockInv, CallInv, TypeOK
<1>3. /\ TypeOK' /\ RealInv' /\ OneExchange' /\ DeliveryInv' /\ CountInv' /\ Untaken'
      /\ isConnected' => isConnected /\ UNCHANGED handlers
      /\ ~isConnected' => handlers' = {}
      /\ IsFiniteSet(handlers')
      /\ rc # Failure => UNCHANGED isConnected
  <2>1. /\ loopPc' \in {"check", "enter", "cycle", "exit"} /\ appPc' \in {"wait", "done", appPc}
        /\ owner' \in {"none", "loop", "app"} /\ answer' \in Packets /\ UNCHANGED <<req, appUp>>
    BY <1>1, <1>2 DEF TypeOK, app
  <2> QED BY <1>1, <1>2, <2>1, CycleKeeps
<1>4. UNCHANGED accepted /\ (NothingRead(rc) \/ HeadRead(rc))
  BY <1>1, CycleEffect
<1>5. LockInv'
  BY <1>1, <1>2, <1>3 DEF LockInv, app
<1>6. CallInv'
  BY <1>2, <1>3 DEF CallInv, app, Wanted
<1>7. Asked' = {} /\ Replied' = {}
  BY <1>2, <1>4, CycleExchange DEF QuietWhenSettled, Settled
<1>8. QuietWhenSettled' /\ ExchangeInv' /\ DoneInv' /\ AcceptInv'
  BY <1>2, <1>3, <1>4, <1>7 DEF QuietWhenSettled, ExchangeInv, DoneInv, AcceptInv, app
<1>9. FreshInv' /\ AgreeInv'
  BY <1>2, <1>3 DEF FreshInv, AgreeInv, app, broker
<1> QED BY <1>3, <1>5, <1>6, <1>8, <1>9

\* A call that waits goes on waiting, or has its answer.
LEMMA AppWaitStep == IInv /\ AppWait => IInv'
<1> SUFFICES ASSUME IInv, AppWait PROVE IInv'
  OBVIOUS
<1> USE DEF IInv
<1>1. PICK rc : /\ Cycle(rc)
                /\ IF rc.type \in {Wanted, "fail"} THEN answer' = rc /\ appPc' = "done"
                   ELSE UNCHANGED <<answer, appPc>>
  BY DEF AppWait
<1>2. /\ appPc = "wait" /\ UNCHANGED <<locks, loopPc, req, appUp, broker>>
      /\ owner = "app" /\ mutexLive /\ loopPc # "cycle"
  BY DEF AppWait, LockInv
<1>3. UNCHANGED accepted /\ (NothingRead(rc) \/ HeadRead(rc)) /\ rc \in Packets
  BY <1>1, CycleEffect, CycleQueues
<1>4. /\ TypeOK' /\ RealInv' /\ OneExchange' /\ DeliveryInv' /\ CountInv' /\ Untaken'
      /\ isConnected' => isConnected /\ UNCHANGED handlers
      /\ ~isConnected' => handlers' = {}
      /\ IsFiniteSet(handlers')
      /\ rc # Failure => UNCHANGED isConnected
  <2>1. /\ loopPc' \in {"check", "enter", "cycle", "exit"} /\ appPc' \in {"wait", "done", appPc}
        /\ owner' \in {"none", "loop", "app"} /\ answer' \in Packets
        /\ UNCHANGED <<mutexLive, running>>
    BY <1>1, <1>2, <1>3 DEF TypeOK, locks
  <2> QED BY <1>1, <1>2, <2>1, CycleKeeps
<1>5. LockInv'
  BY <1>1, <1>2, <1>4 DEF LockInv, locks
<1>6. /\ rc.type = "fail" => rc = Failure
      /\ rc.type = Wanted => HeadRead(rc) /\ rc = Head(toClient) /\ AnswersTo(rc) /\ Reply(rc)
  <2>1. Wanted # "none" /\ Wanted # "fail"
    BY <1>2 DEF CallInv, Wanted
  <2>2. NoAnswer.type = "none" /\ Failure.type = "fail"
    BY DEF NoAnswer, Failure, Packet
  <2>3. CASE NothingRead(rc)
    BY <2>1, <2>2, <2>3 DEF NothingRead
  <2>4. CASE HeadRead(rc) /\ rc = Head(toClient)
    <3>1. rc = toClient[1] /\ 1 \in 1 .. Len(toClient)
      BY <2>4, ReadPlaces DEF HeadRead
    <3>2. rc.type \notin {"none", "fail"}
      BY <3>1 DEF RealInv
    <3>3. rc.type = Wanted => Reply(rc)
      BY <2>1 DEF Wanted, Reply
    <3>4. Reply(rc) => AnswersTo(rc)
      BY <1>2, <3>1 DEF ExchangeInv, Answering, Replied
    <3> QED BY <2>4, <3>2, <3>3, <3>4
  <2>5. CASE HeadRead(rc) /\ rc = Failure
    BY <2>1, <2>2, <2>5
  <2> QED BY <1>3, <2>3, <2>4, <2>5 DEF HeadRead
<1>7. UNCHANGED Wanted
  BY <1>2 DEF Wanted
<1>8. CallInv'
  <2>1. answer # Failure
    BY <1>2 DEF CallInv, NoAnswer, Failure, Packet
  <2>2. answer' # Failure => rc # Failure
    BY <1>1 DEF Failure, Packet
  <2>3. req'.op \in {"subscribe", "unsubscribe", "publish"} => isConnected
    BY <1>2, <2>1 DEF CallInv
  <2>4. answer' # Failure /\ isConnected => isConnected'
    BY <1>4, <2>2
  <2>5. appPc' \in {"wait", "done"} /\ answer' # Failure
          /\ req'.op \in {"subscribe", "unsubscribe", "publish"} => isConnected'
    BY <2>3, <2>4
  <2> QED BY <1>1, <1>2, <1>4, <1>6, <1>7, <2>5 DEF CallInv, broker
<1>9. FreshInv' /\ AgreeInv'
  BY <1>1, <1>2, <1>4 DEF FreshInv, AgreeInv, broker
<1>10. CASE rc.type = Wanted
  <2>1. appPc' = "done" /\ answer' = rc /\ AnswersTo(rc) /\ Reply(rc) /\ rc # Failure
    BY <1>1, <1>6, <1>10 DEF Reply, Failure, Packet
  <2>2. rc.type # "PUBREC"
    BY <1>10 DEF Wanted
  <2>3. Asked' = {} /\ Replied' = {}
    BY <1>3, <1>6, <1>10, <2>1, <2>2, CycleExchange
  <2>4. isConnected' = isConnected /\ (isConnected => handlers' = handlers)
    BY <1>4, <2>1
  <2>5. DoneInv'
    <3>1. NeedsId => rc.id = req.id
      BY <2>1 DEF AnswersTo
    <3>2. req.op = "publish" /\ req.code > 0 => accepted = 1
      BY <2>1, <1>10 DEF AnswersTo, Wanted
    <3>3. isConnected /\ req.op \in {"subscribe", "unsubscribe", "publish"} => subs' = HandlersAfter'
      <4> SUFFICES ASSUME isConnected, req.op \in {"subscribe", "unsubscribe", "publish"}
                   PROVE  subs' = HandlersAfter'
        OBVIOUS
      <4>1. CASE req.op = "subscribe"
        BY <1>2, <2>1, <2>4, <4>1 DEF AnswersTo, HandlersAfter, broker
      <4>2. CASE req.op = "unsubscribe"
        BY <1>2, <2>1, <2>4, <4>2 DEF AnswersTo, HandlersAfter, broker
      <4>3. CASE req.op = "publish"
        BY <1>2, <2>1, <2>4, <4>3 DEF AgreeInv, HandlersAfter, broker
      <4> QED BY <4>1, <4>2, <4>3
    <3> QED BY <1>2, <1>3, <2>1, <2>4, <3>1, <3>2, <3>3 DEF DoneInv, NeedsId
  <2> QED BY <1>2, <1>4, <1>5, <1>8, <1>9, <2>1, <2>3, <2>5
          DEF QuietWhenSettled, ExchangeInv, AcceptInv
<1>11. CASE rc.type # Wanted /\ rc.type = "fail"
  <2>1. appPc' = "done" /\ answer' = Failure
    BY <1>1, <1>6, <1>11
  <2> QED BY <1>2, <1>4, <1>5, <1>8, <1>9, <2>1
          DEF QuietWhenSettled, Settled, ExchangeInv, AcceptInv, DoneInv
<1>12. CASE rc.type \notin {Wanted, "fail"}
  <2>1. appPc' = "wait" /\ UNCHANGED answer /\ rc # Failure
    BY <1>1, <1>2, <1>12 DEF Failure, Packet
  <2>2. UNCHANGED isConnected /\ UNCHANGED handlers
    BY <1>4, <2>1 DEF CallInv
  <2>3. Asking' /\ Answering'
    BY <1>2, <1>3, <2>2, CycleWaiting DEF broker
  <2> QED BY <1>2, <1>4, <1>5, <1>8, <1>9, <2>1, <2>3
          DEF QuietWhenSettled, Settled, ExchangeInv, AcceptInv, DoneInv
<1> QED BY <1>10, <1>11, <1>12

\* The invariants of the queues, where nothing is sent or read; ...
QueueInv == RealInv /\ OneExchange /\ DeliveryInv /\ CountInv /\ Untaken

LEMMA QueuesRest ==
  ASSUME QueueInv, UNCHANGED <<toBroker, toClient, outbound, delivered>>, accepted' \in {accepted, 0}
  PROVE  QueueInv' /\ UNCHANGED <<Asked, Replied>>
<1>1. UNCHANGED <<Asked, Replied, Copies>>
  BY DEF Asked, Replied, Copies
<1>2. RealInv' /\ OneExchange' /\ CountInv'
  BY <1>1 DEF QueueInv, RealInv, OneExchange, CountInv
<1>3. DeliveryInv'
  BY <1>1 DEF QueueInv, DeliveryInv, ReleaseLast, CompletionLast
<1>4. Untaken'
  BY DEF QueueInv, Untaken
<1> QED BY <1>1, <1>2, <1>3, <1>4 DEF QueueInv

\* ... and where the connection is given up.
LEMMA QueuesFlushed ==
  ASSUME QueueInv, TypeOK, toBroker' = <<>>, toClient' = <<>>,
         outbound' \in {outbound, NoAnswer}, UNCHANGED delivered
  PROVE  /\ QueueInv' /\ Asked' = {} /\ Replied' = {}
         /\ {toBroker', toClient'} \subseteq Seq(Packets)
         /\ Len(toBroker') <= QueueBound /\ Len(toClient') <= QueueBound /\ outbound' \in Packets
<1>1. Len(toBroker') = 0 /\ Len(toClient') = 0 /\ {toBroker', toClient'} \subseteq Seq(Packets)
  BY EmptyEffect
<1>2. Asked' = {} /\ Replied' = {} /\ Copies' = {}
  BY <1>1 DEF Asked, Replied, Copies
<1>3. RealInv' /\ OneExchange' /\ Untaken'
  BY <1>1, <1>2 DEF RealInv, OneExchange, Untaken
<1>4. NoAnswer.type = "none"
  BY DEF NoAnswer, Packet
<1>5. DeliveryInv' /\ CountInv'
  BY <1>1, <1>2, <1>4 DEF QueueInv, DeliveryInv, CountInv
<1> QED BY <1>1, <1>2, <1>3, <1>5, MqttClientAssumption, PacketTypes DEF QueueInv, TypeOK

LEMMA InitInv == Init => IInv
<1> SUFFICES ASSUME Init PROVE IInv
  OBVIOUS
<1> USE DEF Init
<1>1. Len(toBroker) = 0 /\ Len(toClient) = 0 /\ {toBroker, toClient} \subseteq Seq(Packets)
  BY EmptyEffect
<1>2. Asked = {} /\ Replied = {} /\ Copies = {}
  BY <1>1 DEF Asked, Replied, Copies
<1>3. NoAnswer.type = "none" /\ NoAnswer \in Packets
  BY MqttClientAssumption DEF NoAnswer, Packet, Packets
<1>4. TypeOK
  <2>1. req \in [op : {"none", "connect", "disconnect", "deinit", "subscribe", "unsubscribe", "publish"},
                 topic : Topic \union {NoTopic}, code : {0, 1, 2}, id : 0 .. MaxPacketId]
    BY MqttClientAssumption DEF NoRequest, Request
  <2>2. nextId \in 1 .. MaxPacketId /\ {sentLeft, recvLeft, pingAge} \subseteq 0 .. KeepAlive
    BY MqttClientAssumption
  <2>3. handlers \subseteq Topic /\ Cardinality(handlers) <= MaxHandlers /\ subs \subseteq Topic
    BY NoHandlers
  <2>4. Len(toBroker) <= QueueBound /\ Len(toClient) <= QueueBound
    BY <1>1, MqttClientAssumption
  <2>5. /\ isConnected \in BOOLEAN /\ pingOut \in BOOLEAN /\ mutexLive \in BOOLEAN
        /\ running \in BOOLEAN /\ appUp \in BOOLEAN /\ alive \in BOOLEAN
    OBVIOUS
  <2>6. accepted \in 0 .. 1 /\ delivered \in 0 .. 2
    OBVIOUS
  <2> HIDE DEF Init
  <2>7. /\ owner = "none" /\ loopPc = "check" /\ appPc = "idle" /\ sock = "closed"
        /\ answer = NoAnswer /\ outbound = NoAnswer
    BY DEF Init
  <2> QED BY <1>1, <1>3, <2>1, <2>2, <2>3, <2>4, <2>5, <2>6, <2>7 DEF TypeOK
<1>5. RealInv /\ OneExchange /\ DeliveryInv /\ CountInv
  BY <1>1, <1>2, <1>3 DEF RealInv, OneExchange, DeliveryInv, CountInv
<1>6. AcceptInv /\ QuietWhenSettled /\ ExchangeInv /\ DoneInv
  BY <1>1, <1>2 DEF AcceptInv, Untaken, QuietWhenSettled, ExchangeInv, DoneInv
<1>7. LockInv /\ CallInv
  BY NoHandlers DEF LockInv, CallInv, NoRequest, Request
<1>8. FreshInv /\ AgreeInv
  BY DEF FreshInv, AgreeInv
<1> QED BY <1>4, <1>5, <1>6, <1>7, <1>8 DEF IInv

\* The steps of the loop task outside cycle(), of the clock and of a broker that dies.
LEMMA IdleSteps ==
  IInv /\ (LoopCheck \/ LoopEnter \/ Tick \/ BrokerDies \/ UNCHANGED vars) => IInv'
<1> SUFFICES ASSUME IInv, LoopCheck \/ LoopEnter \/ Tick \/ BrokerDies \/ UNCHANGED vars PROVE IInv'
  OBVIOUS
<1> USE DEF IInv
<1>1. /\ UNCHANGED <<client, nextId, app, net, subs, outbound, history, mutexLive, running>>
      /\ {sentLeft', recvLeft', pingAge'} \subseteq 0 .. KeepAlive /\ alive' \in BOOLEAN
  <2>1. CASE LoopCheck
    BY <2>1 DEF LoopCheck, locks, timers, broker, TypeOK
  <2>2. CASE LoopEnter
    BY <2>2 DEF LoopEnter, timers, broker, TypeOK
  <2>3. CASE Tick
    <3>1. sentLeft \in 0 .. KeepAlive /\ recvLeft \in 0 .. KeepAlive /\ pingAge \in 0 .. KeepAlive
      BY DEF TypeOK
    <3>2. sentLeft' \in 0 .. KeepAlive /\ recvLeft' \in 0 .. KeepAlive /\ pingAge' \in 0 .. KeepAlive
      BY <2>3, <3>1, MqttClientAssumption DEF Tick
    <3> QED BY <2>3, <3>2 DEF Tick, locks, broker, TypeOK
  <2>4. CASE BrokerDies
    BY <2>4 DEF BrokerDies, locks, timers, TypeOK
  <2>5. CASE UNCHANGED vars
    BY <2>5 DEF vars, locks, timers, broker, TypeOK
  <2> QED BY <2>1, <2>2, <2>3, <2>4, <2>5
<1>2. /\ LockInv' /\ (owner' = "app" <=> owner = "app")
      /\ owner' \in {"none", "loop", "app"} /\ loopPc' \in {"check", "enter", "cycle", "exit"}
  BY <1>1 DEF LoopCheck, LoopEnter, Tick, BrokerDies, vars, CanLock, LockInv, client, locks, app, TypeOK
<1>3. TypeOK'
  BY <1>1, <1>2 DEF TypeOK, client, app, net, history
<1>4. QueueInv' /\ UNCHANGED <<Asked, Replied>>
  BY <1>1, QueuesRest DEF QueueInv, AcceptInv, net, history
<1>5. CallInv' /\ FreshInv' /\ AgreeInv'
  BY <1>1 DEF CallInv, FreshInv, AgreeInv, client, app, Wanted
<1>6. QuietWhenSettled' /\ AcceptInv'
  BY <1>1, <1>4 DEF QuietWhenSettled, Settled, AcceptInv, QueueInv, app, history
<1>7. ExchangeInv'
  BY <1>1, <1>4 DEF ExchangeInv, Asking, Answering, AsksFor, AnswersTo, client, app, net, history
<1>8. DoneInv'
  BY <1>1 DEF DoneInv, NeedsId, HandlersAfter, client, app, history
<1> QED BY <1>2, <1>3, <1>4, <1>5, <1>6, <1>7, <1>8 DEF QueueInv

\* A packet of the application is sent.
LEMMA QueuesSent ==
  ASSUME QueueInv, TypeOK, NEW p \in Packets, Sent(p), p.type \notin {"PUBREC", "PUBCOMP"},
         Question(p) => Asked = {} /\ Replied = {}, ToTake(p) => accepted = 0,
         p.type = "SUBSCRIBE" => p.topic \in Topic,
         UNCHANGED <<toClient, outbound, delivered, accepted>>
  PROVE  /\ QueueInv'
         /\ Asked' = IF Question(p) THEN {Len(toBroker')} ELSE Asked
         /\ UNCHANGED Replied
<1>1. /\ Len(toBroker') = Len(toBroker) + 1 /\ Len(toBroker) \in Nat
      /\ toBroker'[Len(toBroker')] = p
      /\ \A i \in 1 .. Len(toBroker) : toBroker'[i] = toBroker[i]
  BY SentPlaces
<1>2. UNCHANGED <<Replied, Copies>>
  BY DEF Replied, Copies
<1>3. Asked' = IF Question(p) THEN {Len(toBroker')} ELSE Asked
  <2>1. Asked' = IF Question(p) THEN Asked \union {Len(toBroker')} ELSE Asked
    BY <1>1 DEF Asked
  <2> QED BY <2>1
<1>4. OneExchange'
  BY <1>2, <1>3 DEF QueueInv, OneExchange
<1>5. RealInv' /\ CountInv'
  BY <1>1, <1>2 DEF QueueInv, RealInv, CountInv
<1>6. Untaken'
  BY <1>1 DEF QueueInv, Untaken
<1>7. DeliveryInv'
  <2>1. \A i \in 1 .. Len(toBroker') : toBroker'[i].type \in {"PUBREC", "PUBCOMP"}
          => i \in 1 .. Len(toBroker) /\ toBroker'[i] = toBroker[i]
    BY <1>1
  <2>2. \A i \in 1 .. Len(toBroker') : toBroker'[i].type = "PUBCOMP" => CompletionLast(i)'
    BY <1>2, <2>1 DEF QueueInv, DeliveryInv, CompletionLast
  <2>3. \A i \in 1 .. Len(toClient') : toClient'[i].type = "PUBREL" => ReleaseLast(i)'
    BY <1>2 DEF QueueInv, DeliveryInv, ReleaseLast
  <2> QED BY <1>2, <2>1, <2>2, <2>3 DEF QueueInv, DeliveryInv
<1> QED BY <1>2, <1>3, <1>4, <1>5, <1>6, <1>7 DEF QueueInv

\* A call begins.
LEMMA AppCallStep ==
  ASSUME IInv, NEW r \in Requests, AppCall(r)
  PROVE  IInv'
<1> USE DEF IInv, AppCall
<1>1. /\ r \in [op : {"none", "connect", "disconnect", "deinit", "subscribe", "unsubscribe", "publish"},
                topic : Topic \union {NoTopic}, code : {0, 1, 2}, id : 0 .. MaxPacketId]
      /\ r.op \in {"connect", "disconnect", "deinit", "subscribe", "unsubscribe", "publish"}
      /\ r.op \in {"subscribe", "unsubscribe"} => r.topic \in Topic
      /\ r.id = 0
  BY MqttClientAssumption DEF Requests, Request
<1>2. appPc = "idle" /\ answer = NoAnswer /\ appPc' \in {"network", "lock", "stop"}
  BY DEF CallInv
<1>3. TypeOK'
  BY <1>1, <1>2 DEF TypeOK, client, timers, locks, net, broker, history
<1>4. QueueInv' /\ UNCHANGED <<Asked, Replied>>
  BY QueuesRest DEF QueueInv, AcceptInv, net, broker, history
<1>5. LockInv'
  BY <1>2 DEF LockInv, locks, client
<1>6. CallInv'
  BY <1>1, <1>2 DEF CallInv, client
<1>7. QuietWhenSettled' /\ AcceptInv' /\ ExchangeInv' /\ DoneInv'
  BY <1>2, <1>4
  DEF QuietWhenSettled, Settled, AcceptInv, QueueInv, ExchangeInv, DoneInv, history
<1>8. FreshInv' /\ AgreeInv'
  BY <1>2 DEF FreshInv, AgreeInv, client, broker
<1> QED BY <1>3, <1>4, <1>5, <1>6, <1>7, <1>8 DEF QueueInv

\* A new connection is clean; without one the call has failed.
LEMMA AppNetworkStep == IInv /\ AppNetwork => IInv'
<1> SUFFICES ASSUME IInv, AppNetwork PROVE IInv'
  OBVIOUS
<1> USE DEF IInv, AppNetwork
<1>1. /\ appPc = "network" /\ req.op = "connect" /\ ~appUp /\ ~isConnected
      /\ answer = NoAnswer /\ req.id = 0
  BY DEF CallInv
<1>2. QueueInv
  BY DEF QueueInv, AcceptInv
<1>3. ASSUME NetworkConnect, appPc' = "lock", UNCHANGED <<appUp, req>>
      PROVE  IInv'
  <2>1. /\ QueueInv' /\ Asked' = {} /\ Replied' = {}
        /\ {toBroker', toClient'} \subseteq Seq(Packets)
        /\ Len(toBroker') <= QueueBound /\ Len(toClient') <= QueueBound /\ outbound' \in Packets
    BY <1>2, <1>3, QueuesFlushed DEF NetworkConnect, history
  <2>2. TypeOK'
    BY <1>3, <2>1 DEF NetworkConnect, TypeOK, client, timers, locks, history
  <2>3. LockInv' /\ CallInv'
    BY <1>1, <1>3 DEF LockInv, CallInv, locks, client
  <2>4. QuietWhenSettled' /\ AcceptInv' /\ ExchangeInv' /\ DoneInv'
    BY <1>1, <1>3, <2>1 DEF QuietWhenSettled, AcceptInv, QueueInv, ExchangeInv, DoneInv
  <2>5. FreshInv' /\ AgreeInv'
    BY <1>1, <1>3 DEF NetworkConnect, FreshInv, AgreeInv, client
  <2> QED BY <2>1, <2>2, <2>3, <2>4, <2>5 DEF QueueInv
<1>4. ASSUME \/ UNCHANGED net
             \/ sock' = "closed" /\ toBroker' = <<>> /\ toClient' = <<>>,
             appPc' = "idle", appUp' = FALSE, req' = NoRequest, UNCHANGED broker
      PROVE  IInv'
  <2>1. /\ QueueInv'
        /\ {toBroker', toClient'} \subseteq Seq(Packets)
        /\ Len(toBroker') <= QueueBound /\ Len(toClient') <= QueueBound /\ sock' \in {"closed", "up", "reset"}
    <3>1. CASE UNCHANGED net
      BY <1>2, <1>4, <3>1, QueuesRest DEF net, broker, history, TypeOK
    <3>2. CASE sock' = "closed" /\ toBroker' = <<>> /\ toClient' = <<>>
      BY <1>2, <1>4, <3>2, QueuesFlushed DEF broker, history
    <3> QED BY <1>4, <3>1, <3>2
  <2>2. req' \in [op : {"none", "connect", "disconnect", "deinit", "subscribe", "unsubscribe", "publish"},
                  topic : Topic \union {NoTopic}, code : {0, 1, 2}, id : 0 .. MaxPacketId]
        /\ req'.op = "none"
    BY <1>4, MqttClientAssumption DEF NoRequest, Request
  <2>3. TypeOK'
    BY ZenonT(60), <1>4, <2>1, <2>2 DEF TypeOK, client, timers, locks, broker, history
  <2>4. LockInv' /\ CallInv'
    BY <1>1, <1>4, <2>2 DEF LockInv, CallInv, locks, client
  <2>5. QuietWhenSettled' /\ AcceptInv' /\ ExchangeInv' /\ DoneInv' /\ FreshInv' /\ AgreeInv'
    BY <1>1, <1>4, <2>1
    DEF QuietWhenSettled, Settled, AcceptInv, QueueInv, ExchangeInv, DoneInv, FreshInv, AgreeInv, client
  <2> QED BY <2>1, <2>3, <2>4, <2>5 DEF QueueInv
<1> QED BY <1>3, <1>4

\* A call sends its packet: nothing else is under way.
LEMMA AppSendStep == IInv /\ AppSend => IInv'
<1> SUFFICES ASSUME IInv, AppSend PROVE IInv'
  OBVIOUS
<1> USE DEF IInv
<1> DEFINE p == RequestPacket
<1>1. /\ appPc = "lock" /\ answer = NoAnswer /\ req.id = 0
      /\ req.op \in {"connect", "subscribe", "unsubscribe", "publish", "disconnect"}
      /\ req.op = "connect" => ~isConnected /\ ~appUp
      /\ req.op \in {"subscribe", "unsubscribe", "publish"} => isConnected /\ appUp
      /\ owner = "none" /\ owner' = "app" /\ mutexLive /\ loopPc # "cycle"
  BY DEF AppSend, CallInv, LockInv
<1>2. nextId' \in 1 .. MaxPacketId
  BY MqttClientAssumption DEF AppSend, NextPacketId, TypeOK
<1>3. /\ p \in Packets
      /\ req.op = "connect" => p.type = "CONNECT" /\ p.id = 0
      /\ req.op = "subscribe" => p.type = "SUBSCRIBE" /\ p.topic = req.topic
      /\ req.op = "unsubscribe" => p.type = "UNSUBSCRIBE" /\ p.topic = req.topic
      /\ req.op = "publish" => p.type = "PUBLISH" /\ p.code = req.code
      /\ req.op = "disconnect" => p.type = "DISCONNECT"
  <2>1. req.topic \in Topic \union {NoTopic} /\ req.code \in {0, 1, 2}
    BY DEF TypeOK
  <2>2. CASE req.op = "connect"
    BY <2>2, MqttClientAssumption DEF RequestPacket, Packet, Packets
  <2>3. CASE req.op = "subscribe"
    BY <1>2, <2>1, <2>3, MqttClientAssumption DEF RequestPacket, Packet, Packets
  <2>4. CASE req.op = "unsubscribe"
    BY <1>2, <2>1, <2>4, MqttClientAssumption DEF RequestPacket, Packet, Packets
  <2>5. CASE req.op = "publish"
    BY <1>2, <2>1, <2>5, MqttClientAssumption DEF RequestPacket, Packet, Packets
  <2>6. CASE req.op = "disconnect"
    BY <2>6, MqttClientAssumption DEF RequestPacket, Packet, Packets
  <2> QED BY <1>1, <2>2, <2>3, <2>4, <2>5, <2>6
<1>4. /\ req' = [req EXCEPT !.id = p.id] /\ req'.op = req.op /\ req'.topic = req.topic
      /\ req'.code = req.code /\ req'.id = p.id
      /\ req' \in [op : {"none", "connect", "disconnect", "deinit", "subscribe", "unsubscribe", "publish"},
                   topic : Topic \union {NoTopic}, code : {0, 1, 2}, id : 0 .. MaxPacketId]
  BY <1>3 DEF AppSend, TypeOK, Packets
<1>5. Wanted' = Wanted /\ NeedsId' = NeedsId
  BY <1>4 DEF Wanted, NeedsId
<1>6. /\ UNCHANGED <<client, pingAge, mutexLive, running, loopPc, appUp, sock, toClient, broker, history>>
      /\ recvLeft' \in 0 .. KeepAlive
  BY MqttClientAssumption DEF AppSend, TypeOK
<1>7. req.op \in {"connect", "subscribe", "unsubscribe", "publish"} =>
        Asked = {} /\ Replied = {} /\ (req.op # "connect" => accepted = 0 /\ handlers = subs)
  BY <1>1 DEF QuietWhenSettled, Settled, AcceptInv, AgreeInv
<1>8. QueueInv
  BY DEF QueueInv, AcceptInv
<1>9. FreshInv'
  BY <1>1, <1>4, <1>6 DEF FreshInv, broker
<1>10. AgreeInv'
  BY <1>1, <1>4, <1>6, <1>7 DEF AgreeInv, client, broker
<1>11. ASSUME appPc' \in {"wait", "done"}, answer' \in Packets,
              appPc' = "wait" => Wanted # "none" /\ answer' = NoAnswer,
              appPc' = "done" => answer'.type \in {Wanted, "fail"}
                                 /\ (answer'.type = "fail" => answer' = Failure)
       PROVE  LockInv' /\ CallInv'
  BY <1>1, <1>4, <1>5, <1>6, <1>11 DEF LockInv, CallInv, client
<1>12. ASSUME Sends(p), appPc' = IF Wanted = "none" THEN "done" ELSE "wait", UNCHANGED answer
       PROVE  IInv'
  <2>1. Question(p) <=> Wanted # "none"
    BY <1>1, <1>3 DEF Question, Wanted, TypeOK
  <2>2. /\ Sent(p) /\ p.type \notin {"PUBREC", "PUBCOMP"}
        /\ Question(p) => Asked = {} /\ Replied = {}
        /\ ToTake(p) => accepted = 0
        /\ p.type = "SUBSCRIBE" => p.topic \in Topic
    BY <1>1, <1>3, <1>7, <1>12 DEF Sends, Sent, Question, ToTake, CallInv
  <2>3. /\ QueueInv'
        /\ Asked' = IF Question(p) THEN {Len(toBroker')} ELSE Asked
        /\ UNCHANGED Replied
    <3>1. UNCHANGED <<toClient, outbound, delivered, accepted>>
      BY <1>6 DEF broker, history
    <3> QED BY <1>3, <1>8, <2>2, <3>1, QueuesSent
  <2>4. /\ toBroker' \in Seq(Packets) /\ Len(toBroker') <= QueueBound
        /\ toBroker'[Len(toBroker')] = p
    BY <1>3, <2>2, SentPlaces
  <2>5. TypeOK'
    BY <1>2, <1>4, <1>6, <1>12, <2>4, MqttClientAssumption, <1>1
    DEF TypeOK, Sends, client, broker, history
  <2>6. NoAnswer.type = "none" /\ NoAnswer # Failure /\ NoAnswer \in Packets
    BY PacketTypes DEF NoAnswer, Failure, Packet
  <2>7. LockInv' /\ CallInv'
    BY <1>1, <1>11, <1>12, <2>6
  <2>8. QuietWhenSettled'
    BY <1>1, <1>4, <1>7, <1>12, <2>1, <2>3 DEF QuietWhenSettled, Settled
  <2>9. ExchangeInv'
    <3> SUFFICES ASSUME appPc' = "wait" PROVE Asking' /\ Answering'
      BY DEF ExchangeInv
    <3>0. Wanted # "none" /\ Question(p)
      BY <1>12, <2>1
    <3>1. Question(p) /\ Asked' = {Len(toBroker')} /\ Replied' = {}
      <4>1. req.op # "disconnect"
        BY <3>0 DEF Wanted
      <4>2. Replied = {}
        BY <1>1, <1>7, <4>1
      <4> QED BY <2>3, <3>0, <4>2
    <3>2. (AsksFor(toBroker[Len(toBroker)]))'
      BY <1>1, <1>3, <1>4, <1>6, <1>7, <2>1, <2>4, <3>1 DEF AsksFor, Question, client, broker
    <3> QED BY <3>1, <3>2 DEF Asking, Answering
  <2>10. AcceptInv' /\ DoneInv'
    <3>1. AcceptInv'
      BY <1>12, <2>3 DEF AcceptInv, QueueInv
    <3>2. appPc' = "done" => req.op = "disconnect" \/ (req.op = "publish" /\ req.code = 0)
      BY <1>1, <1>12 DEF Wanted, TypeOK
    <3> QED BY <1>4, <1>5, <1>6, <1>7, <3>1, <3>2 DEF DoneInv, NeedsId, HandlersAfter, client, broker
  <2> QED BY <1>9, <1>10, <2>3, <2>5, <2>7, <2>8, <2>9, <2>10 DEF QueueInv
<1>13. ASSUME SendFails, appPc' = "done", answer' = Failure
       PROVE  IInv'
  <2>1. QueueInv' /\ UNCHANGED <<Asked, Replied>>
    BY <1>6, <1>8, <1>13, QueuesRest DEF SendFails, broker, history
  <2>2. Failure.type = "fail" /\ Failure \in Packets
    BY PacketTypes DEF Failure, Packet
  <2>3. TypeOK'
    BY <1>1, <1>2, <1>4, <1>6, <1>13, <2>2 DEF TypeOK, SendFails, client, broker, history
  <2>4. LockInv' /\ CallInv'
    BY <1>11, <1>13, <2>2
  <2>5. QuietWhenSettled' /\ ExchangeInv' /\ AcceptInv' /\ DoneInv'
    BY <1>13, <2>1 DEF QuietWhenSettled, Settled, ExchangeInv, AcceptInv, QueueInv, DoneInv
  <2> QED BY <1>9, <1>10, <2>1, <2>3, <2>4, <2>5 DEF QueueInv
<1> QED BY <1>12, <1>13 DEF AppSend

\* A call without a connection fails, and so does one whose time is up.
LEMMA AppFailSteps == IInv /\ (AppRefused \/ AppExpired) => IInv'
<1> SUFFICES ASSUME IInv, AppRefused \/ AppExpired PROVE IInv'
  OBVIOUS
<1> USE DEF IInv
<1>1. /\ appPc \in {"lock", "wait"} /\ appPc' = "done" /\ answer' = Failure
      /\ owner' = "app" /\ owner \in {"none", "app"} /\ mutexLive /\ loopPc # "cycle"
      /\ UNCHANGED <<client, nextId, timers, mutexLive, running, loopPc, req, appUp, net, broker, history>>
  BY DEF AppRefused, AppExpired, LockInv, locks
<1>2. Failure.type = "fail" /\ Failure \in Packets
  BY PacketTypes DEF Failure, Packet
<1>3. TypeOK'
  BY <1>1, <1>2 DEF TypeOK, client, timers, net, broker, history
<1>4. QueueInv' /\ UNCHANGED <<Asked, Replied>>
  BY <1>1, QueuesRest DEF QueueInv, AcceptInv, net, broker, history
<1>5. LockInv' /\ CallInv'
  BY <1>1, <1>2 DEF LockInv, CallInv, client
<1>6. QuietWhenSettled' /\ ExchangeInv' /\ AcceptInv' /\ DoneInv'
  BY <1>1, <1>4 DEF QuietWhenSettled, Settled, ExchangeInv, AcceptInv, QueueInv, DoneInv
<1>7. FreshInv' /\ AgreeInv'
  BY <1>1 DEF FreshInv, AgreeInv, client, broker
<1> QED BY <1>3, <1>4, <1>5, <1>6, <1>7 DEF QueueInv

\* The application stops the loop task and deletes the mutex.
LEMMA AppEndSteps == IInv /\ (AppStop \/ AppDelete) => IInv'
<1> SUFFICES ASSUME IInv, AppStop \/ AppDelete PROVE IInv'
  OBVIOUS
<1> USE DEF IInv
<1>1. /\ appPc \in {"stop", "delete"} /\ appPc' \in {"delete", "off"}
      /\ appPc' = "delete" => UNCHANGED mutexLive
      /\ mutexLive' \in BOOLEAN /\ running' \in BOOLEAN
      /\ owner # "none" => UNCHANGED mutexLive
      /\ UNCHANGED <<client, nextId, timers, owner, loopPc, req, answer, appUp, net, broker, history>>
  <2>1. CASE AppStop
    BY <2>1 DEF AppStop, TypeOK
  <2>2. CASE AppDelete
    BY <2>2 DEF AppDelete, LockInv, TypeOK
  <2> QED BY <2>1, <2>2
<1>2. TypeOK'
  BY <1>1 DEF TypeOK, client, timers, net, broker, history
<1>3. QueueInv' /\ UNCHANGED <<Asked, Replied>>
  BY <1>1, QueuesRest DEF QueueInv, AcceptInv, net, broker, history
<1>4. LockInv'
  BY <1>1 DEF LockInv, client
<1>5. CallInv'
  BY <1>1 DEF CallInv, client
<1>6. QuietWhenSettled' /\ ExchangeInv' /\ AcceptInv' /\ DoneInv'
  BY <1>1, <1>3
  DEF QuietWhenSettled, Settled, ExchangeInv, AcceptInv, QueueInv, DoneInv, history
<1>7. FreshInv' /\ AgreeInv'
  BY <1>1 DEF FreshInv, AgreeInv, client, broker
<1> QED BY <1>2, <1>3, <1>4, <1>5, <1>6, <1>7 DEF QueueInv

\* The handler table after a call.
LEMMA HandlersBounded ==
  ASSUME TypeOK, IsFiniteSet(handlers), appPc = "done", ~Failed,
         req.op \in {"subscribe", "unsubscribe"} => req.topic \in Topic
  PROVE  /\ HandlersAfter \subseteq Topic
         /\ IsFiniteSet(HandlersAfter) /\ Cardinality(HandlersAfter) <= MaxHandlers
<1>1. CASE req.op = "subscribe" /\ answer.code # SubFail
  <2>1. HasSlot /\ req.topic \in Topic /\ HandlersAfter = handlers \union {req.topic}
    BY <1>1 DEF Failed, HandlersAfter
  <2>2. /\ IsFiniteSet(handlers \union {req.topic})
        /\ Cardinality(handlers \union {req.topic})
             = IF req.topic \in handlers THEN Cardinality(handlers) ELSE Cardinality(handlers) + 1
    BY FS_AddElement
  <2>3. Cardinality(handlers) \in Nat
    BY FS_CardinalityType
  <2> QED BY <2>1, <2>2, <2>3, MqttClientAssumption DEF HasSlot, TypeOK
<1>2. CASE req.op = "unsubscribe"
  <2>1. HandlersAfter = handlers \ {req.topic}
    BY <1>2 DEF HandlersAfter
  <2>2. /\ IsFiniteSet(handlers \ {req.topic})
        /\ Cardinality(handlers \ {req.topic}) <= Cardinality(handlers)
    <3>1. handlers \ {req.topic} \subseteq handlers
      OBVIOUS
    <3> QED BY <3>1, FS_Subset
  <2>3. Cardinality(handlers) \in Nat /\ Cardinality(handlers \ {req.topic}) \in Nat
    BY <2>2, FS_CardinalityType
  <2> QED BY <2>1, <2>2, <2>3, MqttClientAssumption DEF TypeOK
<1>3. CASE ~(req.op = "subscribe" /\ answer.code # SubFail) /\ req.op # "unsubscribe"
  BY <1>3 DEF HandlersAfter, TypeOK
<1> QED BY <1>1, <1>2, <1>3

\* A call ends: what it changed is what the broker has changed, or the session is over.
LEMMA AppDoneStep == IInv /\ AppDone => IInv'
<1> SUFFICES ASSUME IInv, AppDone PROVE IInv'
  OBVIOUS
<1> USE DEF IInv
<1>1. /\ appPc = "done" /\ appPc' = "idle" /\ owner = "app" /\ owner' = "none" /\ mutexLive
      /\ loopPc # "cycle"
      /\ req.op \in {"connect", "subscribe", "unsubscribe", "publish"}
      /\ req' = NoRequest /\ answer' = NoAnswer /\ accepted' = 0
      /\ UNCHANGED <<nextId, timers, mutexLive, running, loopPc, net, broker, delivered>>
  BY DEF AppDone, LockInv, CallInv
<1>2. /\ NoAnswer \in Packets /\ NoRequest.op = "none"
      /\ NoRequest \in [op : {"none", "connect", "disconnect", "deinit", "subscribe", "unsubscribe", "publish"},
                        topic : Topic \union {NoTopic}, code : {0, 1, 2}, id : 0 .. MaxPacketId]
  BY PacketTypes, MqttClientAssumption DEF NoRequest, Request
<1>3. QueueInv' /\ UNCHANGED <<Asked, Replied>>
  BY <1>1, QueuesRest DEF QueueInv, AcceptInv, net, broker
<1>4. LockInv'
  BY <1>1 DEF LockInv
<1>5. ExchangeInv' /\ DoneInv' /\ FreshInv' /\ AcceptInv'
  BY <1>1, <1>2, <1>3 DEF ExchangeInv, DoneInv, FreshInv, AcceptInv, QueueInv
<1>6. ASSUME pingOut' \in BOOLEAN, appUp' \in BOOLEAN, isConnected' \in BOOLEAN,
             handlers' \subseteq Topic, IsFiniteSet(handlers'), Cardinality(handlers') <= MaxHandlers
      PROVE  TypeOK'
  BY <1>1, <1>2, <1>6 DEF TypeOK, timers, net, broker
<1>7. CASE ~Failed
  <2>1. /\ isConnected' = (isConnected \/ req.op = "connect")
        /\ pingOut' = (pingOut /\ req.op # "connect")
        /\ handlers' = HandlersAfter /\ answer # Failure
    BY <1>1, <1>7 DEF AppDone, Failed
  <2>2. appUp' = TRUE
    BY <1>7 DEF AppDone
  <2>3. /\ handlers' \subseteq Topic /\ IsFiniteSet(handlers')
        /\ Cardinality(handlers') <= MaxHandlers
    BY <1>1, <1>7, <2>1, HandlersBounded DEF CallInv
  <2>4. isConnected' \in BOOLEAN /\ pingOut' \in BOOLEAN
    BY <2>1
  <2>5. TypeOK'
    BY <1>6, <2>2, <2>3, <2>4
  <2>6. isConnected' = TRUE
    BY <1>1, <2>1 DEF CallInv, TypeOK
  <2>7. CallInv'
    BY <1>1, <1>2, <2>2, <2>3, <2>6 DEF CallInv
  <2>8. QuietWhenSettled'
    BY <1>1, <1>3, <2>1 DEF QuietWhenSettled, Settled
  <2>9. AgreeInv'
    <3>1. CASE req.op = "connect"
      <4>1. handlers = {} /\ subs = {}
        BY <1>1, <2>1, <3>1 DEF CallInv, FreshInv
      <4> QED BY <1>1, <2>1, <3>1, <4>1 DEF HandlersAfter, AgreeInv, broker
    <3>2. CASE req.op # "connect"
      <4>1. subs = HandlersAfter
        BY <1>1, <2>1, <3>2 DEF DoneInv, CallInv
      <4> QED BY <1>1, <2>1, <4>1 DEF AgreeInv, broker
    <3> QED BY <3>1, <3>2
  <2> QED BY <1>3, <1>4, <1>5, <2>5, <2>7, <2>8, <2>9 DEF QueueInv
<1>8. CASE Failed
  <2>1. /\ isConnected' = FALSE /\ handlers' = {} /\ pingOut' \in BOOLEAN
    <3>1. CASE req.op = "connect"
      <4>1. isConnected = FALSE /\ handlers = {}
        BY <3>1 DEF CallInv, TypeOK
      <4>2. UNCHANGED client
        BY <1>8, <3>1 DEF AppDone
      <4> QED BY <4>1, <4>2 DEF client, TypeOK
    <3>2. CASE req.op # "connect"
      BY <1>8, <3>2 DEF AppDone, CloseSession
    <3> QED BY <3>1, <3>2
  <2>2. appUp' = FALSE
    BY <1>8 DEF AppDone
  <2>3. TypeOK'
    BY <1>6, <2>1, <2>2, NoHandlers
  <2>4. CallInv'
    BY <1>1, <1>2, <2>1, <2>2, NoHandlers DEF CallInv
  <2>5. QuietWhenSettled' /\ AgreeInv'
    BY <1>1, <2>1, <2>2 DEF QuietWhenSettled, Settled, AgreeInv
  <2> QED BY <1>3, <1>4, <1>5, <2>3, <2>4, <2>5 DEF QueueInv
<1> QED BY <1>7, <1>8

\* The session ends, and the connection too where the packet could be sent.
LEMMA AppDisconnectStep == IInv /\ AppDisconnect => IInv'
<1> SUFFICES ASSUME IInv, AppDisconnect PROVE IInv'
  OBVIOUS
<1> USE DEF IInv
<1>1. /\ appPc = "done" /\ appPc' = "idle" /\ owner = "app" /\ owner' = "none" /\ mutexLive
      /\ loopPc # "cycle"
      /\ isConnected' = FALSE /\ pingOut' = FALSE /\ handlers' = {} /\ appUp' = FALSE
      /\ req' = NoRequest /\ answer' = NoAnswer
      /\ UNCHANGED <<nextId, timers, mutexLive, running, loopPc, broker, history>>
  BY DEF AppDisconnect, CloseSession, LockInv
<1>2. /\ NoAnswer \in Packets /\ NoRequest.op = "none"
      /\ NoRequest \in [op : {"none", "connect", "disconnect", "deinit", "subscribe", "unsubscribe", "publish"},
                        topic : Topic \union {NoTopic}, code : {0, 1, 2}, id : 0 .. MaxPacketId]
  BY PacketTypes, MqttClientAssumption DEF NoRequest, Request
<1>3. /\ QueueInv'
      /\ {toBroker', toClient'} \subseteq Seq(Packets) /\ sock' \in {"closed", "up", "reset"}
      /\ Len(toBroker') <= QueueBound /\ Len(toClient') <= QueueBound
  <2>1. QueueInv
    BY DEF QueueInv, AcceptInv
  <2>2. CASE answer = Failure
    <3>1. UNCHANGED <<sock, toBroker, toClient>>
      BY <2>2 DEF AppDisconnect
    <3> QED BY <1>1, <2>1, <3>1, QueuesRest DEF TypeOK, broker, history
  <2>3. CASE answer # Failure
    <3>1. sock' = "closed" /\ toBroker' = <<>> /\ toClient' = <<>>
      BY <2>3 DEF AppDisconnect
    <3> QED BY <1>1, <2>1, <3>1, QueuesFlushed DEF broker, history
  <2> QED BY <2>2, <2>3
<1>4. TypeOK'
  BY <1>1, <1>2, <1>3, NoHandlers DEF TypeOK, timers, broker, history
<1>5. LockInv' /\ CallInv'
  BY <1>1, <1>2, NoHandlers DEF LockInv, CallInv
<1>6. /\ QuietWhenSettled' /\ ExchangeInv' /\ AcceptInv' /\ DoneInv'
      /\ FreshInv' /\ AgreeInv'
  BY <1>1, <1>2, <1>3
  DEF QuietWhenSettled, Settled, ExchangeInv, AcceptInv, QueueInv, DoneInv, FreshInv, AgreeInv
<1> QED BY <1>3, <1>4, <1>5, <1>6 DEF QueueInv

\* The connection breaks, with all that was under way.
LEMMA LinkBreaksStep == IInv /\ LinkBreaks => IInv'
<1> SUFFICES ASSUME IInv, LinkBreaks PROVE IInv'
  OBVIOUS
<1> USE DEF IInv
<1>1. /\ sock' = "reset" /\ toBroker' = <<>> /\ toClient' = <<>>
      /\ UNCHANGED <<client, nextId, timers, locks, loopPc, app, broker, history>>
  BY DEF LinkBreaks
<1>2. /\ QueueInv' /\ Asked' = {} /\ Replied' = {}
      /\ {toBroker', toClient'} \subseteq Seq(Packets)
      /\ Len(toBroker') <= QueueBound /\ Len(toClient') <= QueueBound
  BY <1>1, QueuesFlushed DEF QueueInv, AcceptInv, broker, history
<1>3. TypeOK'
  BY <1>1, <1>2 DEF TypeOK, client, timers, locks, app, broker, history
<1>4. LockInv' /\ CallInv'
  BY <1>1 DEF LockInv, CallInv, Wanted, client, locks, app
<1>5. QuietWhenSettled' /\ ExchangeInv' /\ AcceptInv'
  BY <1>1, <1>2
  DEF QuietWhenSettled, ExchangeInv, Asking, Answering, AcceptInv, QueueInv, app, history
<1>6. DoneInv' /\ FreshInv' /\ AgreeInv'
  BY <1>1 DEF DoneInv, NeedsId, HandlersAfter, FreshInv, AgreeInv, client, app, broker, history
<1> QED BY <1>2, <1>3, <1>4, <1>5, <1>6 DEF QueueInv

(***************************************************************************)
(* The broker.                                                             *)
(***************************************************************************)

\* It sends a packet ...
Received(r) == Len(toClient) < QueueBound /\ toClient' = Append(toClient, r)

LEMMA ReceivedPlaces ==
  ASSUME TypeOK, NEW r \in Packets, Received(r)
  PROVE  /\ toClient' \in Seq(Packets) /\ Len(toClient') <= QueueBound
         /\ Len(toClient') = Len(toClient) + 1 /\ Len(toClient) \in Nat
         /\ toClient'[Len(toClient')] = r
         /\ \A i \in 1 .. Len(toClient) : toClient'[i] = toClient[i]
BY AppendEffect, MqttClientAssumption DEF TypeOK, Received

\* ... or takes one.
LEMMA TakenPlaces ==
  ASSUME TypeOK, toBroker # <<>>, toBroker' = Tail(toBroker)
  PROVE  /\ toBroker' \in Seq(Packets) /\ Len(toBroker') <= QueueBound
         /\ Head(toBroker) \in Packets /\ Head(toBroker) = toBroker[1] /\ 1 \in 1 .. Len(toBroker)
         /\ \A i \in 1 .. Len(toBroker') : /\ i + 1 \in 1 .. Len(toBroker)
                                           /\ toBroker'[i] = toBroker[i + 1]
BY TailEffect, MqttClientAssumption DEF TypeOK

\* Only a question is answered with a reply.
LEMMA ReplyKinds ==
  ASSUME NEW p \in Packets, NEW r \in Replies(p)
  PROVE  /\ r.type \in {"CONNACK", "SUBACK", "UNSUBACK", "PUBACK", "PUBREC", "PUBCOMP", "PUBREL", "PINGRESP"}
         /\ Reply(r) => Question(p)
         /\ r.type = "PUBREL" => p.type = "PUBREC" /\ outbound.type # "PUBREL"
         /\ r.type = "PUBREC" => p.type = "PUBLISH" /\ p.code = 2
BY DEF Replies, Reply, Question, Packet

\* A packet taken, with what it is answered with.
Handled(p) ==
  /\ toBroker # <<>> /\ p = Head(toBroker) /\ toBroker' = Tail(toBroker)
  /\ UNCHANGED toClient \/ \E r \in Replies(p) : Received(r)

\* The exchange goes on, or is answered.
LEMMA HandledExchange ==
  ASSUME TypeOK, OneExchange, NEW p, Handled(p)
  PROVE  /\ OneExchange'
         /\ Question(p) => 1 \in Asked /\ Asked' = {} /\ Replied = {}
         /\ ~Question(p) => UNCHANGED Replied
         /\ \A i \in Asked' : i + 1 \in Asked
<1>1. /\ p \in Packets /\ p = toBroker[1] /\ 1 \in 1 .. Len(toBroker)
      /\ \A i \in 1 .. Len(toBroker') : i + 1 \in 1 .. Len(toBroker) /\ toBroker'[i] = toBroker[i + 1]
  BY TakenPlaces DEF Handled
<1>2. \A i \in Asked' : i \in Nat /\ i + 1 \in Asked /\ i + 1 # 1
  BY <1>1 DEF Asked
<1>3. \A r \in Replies(p) : r \in Packets /\ (Reply(r) => Question(p))
  BY <1>1, PacketTypes, ReplyKinds
<1>4. CASE Question(p)
  <2>1. 1 \in Asked
    BY <1>1, <1>4 DEF Asked
  <2>2. Asked' = {} /\ Replied = {}
    BY <1>2, <2>1 DEF OneExchange
  <2>3. \A i, j \in Replied' : i = j
    <3>1. CASE UNCHANGED toClient
      BY <2>2, <3>1 DEF Replied
    <3>2. ASSUME NEW r \in Packets, Received(r) PROVE \A i \in Replied' : i = Len(toClient) + 1
      BY <2>2, <3>2, ReceivedPlaces DEF Replied
    <3> QED BY <1>3, <3>1, <3>2 DEF Handled
  <2> QED BY <1>2, <1>4, <2>1, <2>2, <2>3 DEF OneExchange
<1>5. CASE ~Question(p)
  <2>1. \A r \in Packets : Received(r) /\ ~Reply(r) => UNCHANGED Replied
    BY ReceivedPlaces DEF Replied
  <2>2. UNCHANGED Replied
    BY <1>3, <1>5, <2>1 DEF Handled, Replied
  <2> QED BY <1>2, <1>5, <2>2 DEF OneExchange
<1> QED BY <1>4, <1>5

\* A question is taken once: the message of a publication is accepted when it is taken.
LEMMA HandledUntaken ==
  ASSUME TypeOK, OneExchange, Untaken, NEW p, Handled(p),
         accepted' = IF p.type = "PUBREL" \/ (p.type = "PUBLISH" /\ p.code = 1)
                       THEN accepted + 1 ELSE accepted
  PROVE  /\ Untaken' /\ accepted' \in 0 .. 1
         /\ ~Question(p) => UNCHANGED accepted
         /\ ToTake(p) => accepted = 0
<1>1. /\ p \in Packets /\ p = toBroker[1] /\ 1 \in 1 .. Len(toBroker)
      /\ \A i \in 1 .. Len(toBroker') : i + 1 \in 1 .. Len(toBroker) /\ toBroker'[i] = toBroker[i + 1]
  BY TakenPlaces DEF Handled
<1>2. /\ Question(p) => Asked' = {} /\ Replied = {}
      /\ ~Question(p) => UNCHANGED Replied
  BY HandledExchange
<1>3. ~Question(p) => UNCHANGED accepted
  BY DEF Question
<1>4. ToTake(p) => accepted = 0
  BY <1>1 DEF Untaken
<1>5. accepted' \in 0 .. 1
  BY <1>4 DEF ToTake, TypeOK
<1>6. \A i \in 1 .. Len(toBroker') : ToTake(toBroker'[i]) => accepted' = 0
  <2>1. CASE Question(p)
    BY <1>2, <2>1 DEF Asked, Question, ToTake
  <2>2. CASE ~Question(p)
    BY <1>1, <1>3, <2>2 DEF Untaken
  <2> QED BY <2>1, <2>2
<1>7. \A i \in 1 .. Len(toClient') : toClient'[i].type = "PUBREC" => accepted' = 0
  <2>1. \A i \in 1 .. Len(toClient) : toClient[i].type = "PUBREC" => accepted' = 0
    <3>1. CASE Question(p)
      BY <1>2, <3>1 DEF Replied, Reply
    <3>2. CASE ~Question(p)
      BY <1>3, <3>2 DEF Untaken
    <3> QED BY <3>1, <3>2
  <2>2. CASE UNCHANGED toClient
    BY <2>1, <2>2
  <2>3. ASSUME NEW r \in Replies(p), Received(r)
        PROVE  \A i \in 1 .. Len(toClient') : toClient'[i].type = "PUBREC" => accepted' = 0
    <3>1. r \in Packets
      BY <1>1, PacketTypes
    <3>2. r.type = "PUBREC" => accepted' = 0
      BY <1>1, <1>4, ReplyKinds DEF ToTake
    <3> QED BY <2>1, <2>3, <3>1, <3>2, ReceivedPlaces
  <2> QED BY <2>2, <2>3 DEF Handled
<1> QED BY <1>3, <1>4, <1>5, <1>6, <1>7 DEF Untaken

\* The broker's own message is released by its receipt and forgotten on its completion.
LEMMA HandledDelivery ==
  ASSUME TypeOK, RealInv, DeliveryInv, CountInv, NEW p, Handled(p),
         p.type = "PUBREC" /\ outbound.type = "PUBREL" => UNCHANGED toClient,
         outbound' = (CASE p.type = "PUBCOMP" -> NoAnswer
                        [] p.type = "PUBREC" -> [outbound EXCEPT !.type = "PUBREL"]
                        [] OTHER -> outbound),
         UNCHANGED delivered
  PROVE  RealInv' /\ DeliveryInv' /\ CountInv' /\ outbound' \in Packets
<1>1. /\ p \in Packets /\ p = toBroker[1] /\ 1 \in 1 .. Len(toBroker)
      /\ \A i \in 1 .. Len(toBroker') : i + 1 \in 1 .. Len(toBroker) /\ toBroker'[i] = toBroker[i + 1]
  BY TakenPlaces DEF Handled
<1>2. /\ p.type = "PUBCOMP" => outbound' = NoAnswer
      /\ p.type = "PUBREC" => outbound'.type = "PUBREL"
      /\ p.type \notin {"PUBREC", "PUBCOMP"} => outbound' = outbound
      /\ outbound' \in Packets
  BY PacketTypes DEF TypeOK, Packets
<1>3. \A i \in 1 .. Len(toClient') :
        \/ i \in 1 .. Len(toClient) /\ toClient'[i] = toClient[i]
        \/ /\ i = Len(toClient) + 1 /\ toClient'[i].type \notin {"none", "fail", "PUBLISH"}
           /\ toClient'[i].type = "PUBREL" => p.type = "PUBREC" /\ outbound.type # "PUBREL"
  <2>1. CASE UNCHANGED toClient
    BY <2>1
  <2>2. ASSUME NEW r \in Replies(p), Received(r)
        PROVE  \A i \in 1 .. Len(toClient') :
                 \/ i \in 1 .. Len(toClient) /\ toClient'[i] = toClient[i]
                 \/ i = Len(toClient) + 1 /\ toClient'[i] = r
    <3>1. r \in Packets
      BY <1>1, PacketTypes
    <3> QED BY <2>2, <3>1, ReceivedPlaces
  <2>3. \A r \in Replies(p) :
          /\ r.type \notin {"none", "fail", "PUBLISH"}
          /\ r.type = "PUBREL" => p.type = "PUBREC" /\ outbound.type # "PUBREL"
    BY <1>1, ReplyKinds
  <2> QED BY <2>1, <2>2, <2>3 DEF Handled
<1>4. \A i \in 1 .. Len(toClient) : i \in 1 .. Len(toClient') /\ toClient'[i] = toClient[i]
  <2>1. \A r \in Replies(p) : r \in Packets
    BY <1>1, PacketTypes
  <2> QED BY <2>1, ReceivedPlaces DEF Handled
<1>5. UNCHANGED Copies
  BY <1>3, <1>4 DEF Copies
<1>6. RealInv'
  BY <1>1, <1>3 DEF RealInv
<1>7. CASE p.type = "PUBCOMP"
  <2>1. CompletionLast(1)
    BY <1>1, <1>7 DEF DeliveryInv
  <2>2. \A i \in 1 .. Len(toBroker') : toBroker'[i].type \notin {"PUBREC", "PUBCOMP"}
    BY <1>1, <2>1 DEF CompletionLast
  <2>3. \A i \in 1 .. Len(toClient') : toClient'[i].type # "PUBREL"
    BY <1>3, <1>7, <2>1 DEF CompletionLast
  <2>4. outbound'.type = "none" /\ Copies' = {}
    BY <1>2, <1>5, <1>7, <2>1 DEF CompletionLast, NoAnswer, Packet
  <2> QED BY <1>2, <1>6, <2>2, <2>3, <2>4 DEF DeliveryInv, CountInv
<1>8. CASE p.type = "PUBREC" /\ outbound.type = "PUBREL"
  <2>1. UNCHANGED toClient /\ outbound'.type = "PUBREL"
    BY <1>2, <1>8
  <2>2. \A i \in 1 .. Len(toBroker') : toBroker'[i].type = "PUBCOMP" => CompletionLast(i)'
    BY SMTT(30), <1>1, <1>5, <2>1 DEF DeliveryInv, CompletionLast
  <2>3. \A i \in 1 .. Len(toClient') : toClient'[i].type = "PUBREL" => ReleaseLast(i)'
    BY <1>5, <2>1 DEF DeliveryInv, ReleaseLast
  <2> QED BY <1>2, <1>5, <1>6, <2>1, <2>2, <2>3 DEF DeliveryInv, CountInv
<1>9. CASE p.type = "PUBREC" /\ outbound.type # "PUBREL"
  <2>1. outbound'.type = "PUBREL"
    BY <1>2, <1>9
  <2>2. \A i \in 1 .. Len(toBroker') : toBroker'[i].type # "PUBCOMP"
    BY <1>1, <1>9 DEF DeliveryInv, CompletionLast
  <2>3. \A i \in 1 .. Len(toClient') : toClient'[i].type = "PUBREL" => i = Len(toClient) + 1
    BY <1>3, <1>9 DEF DeliveryInv, ReleaseLast
  <2>4. \A i \in Copies' : i < Len(toClient) + 1
    BY <1>5 DEF Copies
  <2>5. \A i \in 1 .. Len(toClient') : toClient'[i].type = "PUBREL" => ReleaseLast(i)'
    BY <2>1, <2>3, <2>4 DEF ReleaseLast
  <2> QED BY <1>2, <1>5, <1>6, <2>1, <2>2, <2>5 DEF DeliveryInv, CountInv
<1>10. CASE p.type \notin {"PUBREC", "PUBCOMP"}
  <2>1. outbound' = outbound
    BY <1>2, <1>10
  <2>2. \A i \in 1 .. Len(toClient') : toClient'[i].type = "PUBREL"
          => i \in 1 .. Len(toClient) /\ toClient'[i] = toClient[i]
    BY <1>3, <1>10
  <2>3. \A i \in 1 .. Len(toClient') : toClient'[i].type = "PUBREL" => ReleaseLast(i)'
    BY <1>5, <2>1, <2>2 DEF DeliveryInv, ReleaseLast
  <2>4. \A i \in 1 .. Len(toBroker') : toBroker'[i].type = "PUBCOMP" => CompletionLast(i)'
    <3> SUFFICES ASSUME NEW i \in 1 .. Len(toBroker'), toBroker'[i].type = "PUBCOMP"
                 PROVE  CompletionLast(i)'
      OBVIOUS
    <3>1. CompletionLast(i + 1)
      BY <1>1 DEF DeliveryInv
    <3>2. \A j \in 1 .. Len(toClient') : toClient'[j].type # "PUBREL"
      BY <2>2, <3>1 DEF CompletionLast
    <3>3. ASSUME NEW j \in 1 .. Len(toBroker'), toBroker'[j].type = "PUBREC" PROVE j < i
      <4>1. j + 1 \in 1 .. Len(toBroker) /\ toBroker[j + 1].type = "PUBREC"
        BY <1>1, <3>3
      <4>2. j + 1 < i + 1
        BY <3>1, <4>1 DEF CompletionLast
      <4> QED BY <4>2
    <3>4. ASSUME NEW j \in 1 .. Len(toBroker'), toBroker'[j].type = "PUBCOMP" PROVE i = j
      <4>1. j + 1 \in 1 .. Len(toBroker) /\ toBroker[j + 1].type = "PUBCOMP"
        BY <1>1, <3>4
      <4>2. i + 1 = j + 1
        BY <3>1, <4>1 DEF CompletionLast
      <4> QED BY <4>2
    <3> QED BY <1>5, <2>1, <3>1, <3>2, <3>3, <3>4 DEF CompletionLast
  <2>5. \A i \in 1 .. Len(toBroker') : toBroker'[i].type = "PUBREC" => outbound'.type # "none"
    BY <1>1, <2>1 DEF DeliveryInv
  <2> QED BY <1>2, <1>5, <1>6, <2>1, <2>3, <2>4, <2>5 DEF DeliveryInv, CountInv
<1> QED BY <1>7, <1>8, <1>9, <1>10

\* What the broker's answer says is what it has done for the call.
LEMMA HandledAnswers ==
  ASSUME TypeOK, OneExchange, ExchangeInv, Untaken, appPc = "wait", NEW p, Handled(p),
         UNCHANGED <<isConnected, handlers, req>>,
         accepted' = IF p.type = "PUBREL" \/ (p.type = "PUBLISH" /\ p.code = 1)
                       THEN accepted + 1 ELSE accepted,
         Question(p) \/ UNCHANGED subs,
         \A r \in Replies(p) : Received(r) =>
           subs' = IF p.type = "SUBSCRIBE" /\ r.code # SubFail THEN subs \union {p.topic}
                   ELSE IF p.type = "UNSUBSCRIBE" THEN subs \ {p.topic} ELSE subs
  PROVE  Asking' /\ Answering'
<1>1. /\ p \in Packets /\ p = toBroker[1] /\ 1 \in 1 .. Len(toBroker)
      /\ \A i \in 1 .. Len(toBroker') : i + 1 \in 1 .. Len(toBroker) /\ toBroker'[i] = toBroker[i + 1]
  BY TakenPlaces DEF Handled
<1>2. /\ Question(p) => 1 \in Asked /\ Asked' = {} /\ Replied = {}
      /\ ~Question(p) => UNCHANGED Replied
      /\ \A i \in Asked' : i + 1 \in Asked
  BY HandledExchange
<1>3. CASE ~Question(p)
  <2>1. UNCHANGED <<Replied, subs, accepted>>
    BY <1>2, <1>3 DEF Question
  <2>2. \A i \in Asked' : AsksFor(toBroker'[i])
    BY <1>1, <1>2 DEF ExchangeInv, Asking, Asked
  <2>3. Asking'
    BY <2>1, <2>2 DEF Asking, AsksFor
  <2>4. \A i \in Replied' : toClient'[i] = toClient[i]
    <3>1. \A r \in Replies(p) : r \in Packets
      BY <1>1, PacketTypes
    <3> QED BY <2>1, <3>1, ReceivedPlaces DEF Handled, Replied
  <2>5. \A i \in Replied' : AnswersTo(toClient'[i])
    BY <2>1, <2>4 DEF ExchangeInv, Answering
  <2>6. Answering'
    BY <2>1, <2>5 DEF Answering, AnswersTo
  <2> QED BY <2>3, <2>6
<1>4. CASE Question(p)
  <2>1. Asked' = {} /\ Replied = {} /\ AsksFor(p)
    BY <1>1, <1>2, <1>4 DEF ExchangeInv, Asking
  <2>2. CASE UNCHANGED toClient
    BY <2>1, <2>2 DEF Asking, Answering, Replied
  <2>3. ASSUME NEW r \in Replies(p), Received(r)
        PROVE  Asking' /\ Answering'
    <3>1. r \in Packets
      BY <1>1, PacketTypes
    <3>2. \A i \in Replied' : toClient'[i] = r
      BY <2>1, <2>3, <3>1, ReceivedPlaces DEF Replied
    <3>3. subs' = IF p.type = "SUBSCRIBE" /\ r.code # SubFail THEN subs \union {p.topic}
                  ELSE IF p.type = "UNSUBSCRIBE" THEN subs \ {p.topic} ELSE subs
      BY <2>3
    <3>4. ToTake(p) => accepted = 0
      BY <1>1 DEF Untaken
    <3>5. AnswersTo(r)'
      <4>1. CASE req.op = "connect" /\ p.type = "CONNECT" /\ p.id = 0
        <5>1. r.id = 0 /\ r.type = "CONNACK"
          BY <4>1 DEF Replies, Packet
        <5> QED BY <2>1, <4>1, <5>1 DEF AsksFor, AnswersTo
      <4>2. CASE req.op = "subscribe" /\ p.type = "SUBSCRIBE" /\ p.topic = req.topic
        <5>1. r.id = p.id /\ r.type = "SUBACK"
          BY <4>2 DEF Replies, Packet
        <5>2. isConnected' => subs' = IF r.code = SubFail THEN handlers' ELSE handlers' \union {req'.topic}
          <6>1. isConnected => handlers = subs
            BY <2>1, <4>2 DEF AsksFor
          <6>2. subs' = IF r.code = SubFail THEN subs ELSE subs \union {req.topic}
            BY <3>3, <4>2
          <6> QED BY <6>1, <6>2
        <5> QED BY <2>1, <4>2, <5>1, <5>2 DEF AsksFor, AnswersTo
      <4>3. CASE req.op = "unsubscribe" /\ p.type = "UNSUBSCRIBE" /\ p.topic = req.topic
        <5>1. r.id = p.id /\ r.type = "UNSUBACK"
          BY <4>3 DEF Replies, Packet
        <5>2. isConnected' => subs' = handlers' \ {req'.topic}
          <6>1. isConnected => handlers = subs
            BY <2>1, <4>3 DEF AsksFor
          <6>2. subs' = subs \ {req.topic}
            BY <3>3, <4>3
          <6> QED BY <6>1, <6>2
        <5> QED BY <2>1, <4>3, <5>1, <5>2 DEF AsksFor, AnswersTo
      <4>4. CASE req.op = "publish" /\ p.type = "PUBLISH" /\ p.code = req.code
        <5>1. CASE p.code = 1
          <6>1. r.id = p.id /\ r.type = "PUBACK"
            BY <4>4, <5>1 DEF Replies, Packet
          <6>2. accepted' = 1
            BY <3>4, <4>4, <5>1 DEF ToTake
          <6> QED BY <2>1, <4>4, <5>1, <6>1, <6>2 DEF AsksFor, AnswersTo
        <5>2. CASE p.code = 2
          <6>1. r.id = p.id /\ r.type = "PUBREC"
            BY <4>4, <5>2 DEF Replies, Packet
          <6> QED BY <2>1, <4>4, <5>2, <6>1 DEF AsksFor, AnswersTo
        <5>3. p.code \in {1, 2}
          BY <1>4, <4>4 DEF Question, TypeOK
        <5> QED BY <5>1, <5>2, <5>3
      <4>5. CASE req.op = "publish" /\ req.code = 2 /\ p.type = "PUBREL"
        <5>1. r.id = p.id /\ r.type = "PUBCOMP"
          BY <4>5 DEF Replies, Packet
        <5>2. accepted' = 1
          BY <3>4, <4>5 DEF ToTake
        <5> QED BY <2>1, <4>5, <5>1, <5>2 DEF AsksFor, AnswersTo
      <4> QED BY <2>1, <4>1, <4>2, <4>3, <4>4, <4>5 DEF AsksFor
    <3> QED BY <2>1, <3>2, <3>5 DEF Asking, Answering
  <2> QED BY <2>2, <2>3 DEF Handled
<1> QED BY <1>3, <1>4

LEMMA BrokerHandlesStep == IInv /\ BrokerHandles => IInv'
<1> SUFFICES ASSUME IInv, BrokerHandles PROVE IInv'
  OBVIOUS
<1> USE DEF IInv
<1> DEFINE p == Head(toBroker)
<1>1. /\ accepted' = (IF p.type = "PUBREL" \/ (p.type = "PUBLISH" /\ p.code = 1)
                        THEN accepted + 1 ELSE accepted)
      /\ outbound' = (CASE p.type = "PUBCOMP" -> NoAnswer
                        [] p.type = "PUBREC" -> [outbound EXCEPT !.type = "PUBREL"]
                        [] OTHER -> outbound)
      /\ UNCHANGED <<client, nextId, timers, locks, loopPc, app, sock, alive, delivered>>
      /\ toBroker # <<>> /\ toBroker' = Tail(toBroker)
  BY DEF BrokerHandles
<1>2. \/ Replies(p) = {} /\ UNCHANGED <<toClient, subs>>
      \/ \E r \in Replies(p) :
           /\ Received(r)
           /\ subs' = IF p.type = "SUBSCRIBE" /\ r.code # SubFail THEN subs \union {p.topic}
                      ELSE IF p.type = "UNSUBSCRIBE" THEN subs \ {p.topic} ELSE subs
  BY DEF BrokerHandles, Received
<1>3. Handled(p)
  BY <1>1, <1>2 DEF Handled
<1>4. /\ p \in Packets /\ p = toBroker[1] /\ 1 \in 1 .. Len(toBroker)
      /\ toBroker' \in Seq(Packets) /\ Len(toBroker') <= QueueBound
  BY <1>1, TakenPlaces
<1>5. toClient' \in Seq(Packets) /\ Len(toClient') <= QueueBound
  <2>1. CASE UNCHANGED toClient
    BY <2>1 DEF TypeOK
  <2>2. ASSUME NEW r \in Replies(p), Received(r) PROVE toClient' \in Seq(Packets) /\ Len(toClient') <= QueueBound
    <3>1. r \in Packets
      BY <1>4, PacketTypes
    <3> QED BY <2>2, <3>1, ReceivedPlaces
  <2> QED BY <1>2, <2>1, <2>2
<1>6. /\ OneExchange'
      /\ Question(p) => 1 \in Asked /\ Asked' = {} /\ Replied = {}
      /\ ~Question(p) => UNCHANGED Replied
      /\ \A i \in Asked' : i + 1 \in Asked
  BY <1>3, HandledExchange
<1>7. /\ Untaken' /\ accepted' \in 0 .. 1
      /\ ~Question(p) => UNCHANGED accepted
  BY <1>1, <1>3, HandledUntaken DEF AcceptInv
<1>8. RealInv' /\ DeliveryInv' /\ CountInv' /\ outbound' \in Packets
  <2>1. p.type = "PUBREC" /\ outbound.type = "PUBREL" => Replies(p) = {}
    BY DEF Replies
  <2>2. p.type = "PUBREC" /\ outbound.type = "PUBREL" => UNCHANGED toClient
    BY <1>2, <2>1
  <2> QED BY <1>1, <1>3, <2>2, HandledDelivery
<1>9. /\ ~(p.type \in {"SUBSCRIBE", "UNSUBSCRIBE"}) => UNCHANGED subs
      /\ ~Question(p) => UNCHANGED subs
  BY <1>2 DEF Question
<1>10. subs' \subseteq Topic
  <2>1. p.type = "SUBSCRIBE" => p.topic \in Topic
    BY <1>4 DEF RealInv
  <2> QED BY <1>2, <2>1 DEF TypeOK
<1>11. TypeOK'
  BY <1>1, <1>4, <1>5, <1>7, <1>8, <1>10 DEF TypeOK, client, timers, locks, app
<1>12. LockInv' /\ CallInv'
  BY <1>1 DEF LockInv, CallInv, Wanted, client, locks, app
<1>13. Settled => ~Question(p)
  BY <1>6 DEF QuietWhenSettled
<1>14. QuietWhenSettled' /\ AcceptInv'
  <2>1. Settled' = Settled
    BY <1>1 DEF Settled, app
  <2>2. Settled' => Asked' = {} /\ Replied' = {}
    BY <1>6, <1>13, <2>1 DEF QuietWhenSettled
  <2>3. appUp' /\ appPc' \notin {"wait", "done"} => accepted' = 0
    BY <1>1, <1>7, <1>13 DEF AcceptInv, Settled, app
  <2> QED BY <1>7, <2>2, <2>3 DEF QuietWhenSettled, AcceptInv
<1>15. ExchangeInv'
  <2> SUFFICES ASSUME appPc' = "wait" PROVE Asking' /\ Answering'
    BY DEF ExchangeInv
  <2>1. appPc = "wait" /\ UNCHANGED <<isConnected, handlers, req>>
    BY <1>1 DEF app, client
  <2>2. ASSUME NEW r \in Replies(p), Received(r)
        PROVE  subs' = IF p.type = "SUBSCRIBE" /\ r.code # SubFail THEN subs \union {p.topic}
                       ELSE IF p.type = "UNSUBSCRIBE" THEN subs \ {p.topic} ELSE subs
    <3>1. r \in Packets
      BY <1>4, PacketTypes
    <3>2. toClient' # toClient
      BY <2>2, <3>1, ReceivedPlaces
    <3>3. PICK r0 \in Replies(p) :
            /\ Received(r0)
            /\ subs' = IF p.type = "SUBSCRIBE" /\ r0.code # SubFail THEN subs \union {p.topic}
                       ELSE IF p.type = "UNSUBSCRIBE" THEN subs \ {p.topic} ELSE subs
      BY <1>2, <3>2
    <3>4. r0 \in Packets
      BY <1>4, PacketTypes
    <3>5. r = r0
      BY <2>2, <3>1, <3>3, <3>4, ReceivedPlaces
    <3> QED BY <3>3, <3>5
  <2>3. Question(p) \/ UNCHANGED subs
    BY <1>9
  <2> QED BY <1>1, <1>3, <2>1, <2>2, <2>3, HandledAnswers DEF AcceptInv
<1>16. DoneInv'
  <2> SUFFICES ASSUME appPc' = "done", answer' # Failure
               PROVE  /\ NeedsId' => answer'.id = req'.id
                      /\ req'.op = "publish" /\ req'.code > 0 => accepted' = 1
                      /\ isConnected' /\ req'.op \in {"subscribe", "unsubscribe", "publish"}
                           => subs' = HandlersAfter'
    BY DEF DoneInv
  <2>1. /\ appPc = "done" /\ answer # Failure /\ UNCHANGED <<isConnected, handlers, req, answer>>
        /\ NeedsId' = NeedsId /\ HandlersAfter' = HandlersAfter
    BY <1>1 DEF app, client, NeedsId, HandlersAfter
  <2>2. req.op # "disconnect" => UNCHANGED <<subs, accepted>>
    BY <1>7, <1>9, <1>13, <2>1 DEF Settled
  <2> QED BY <2>1, <2>2 DEF DoneInv
<1>17. FreshInv' /\ AgreeInv'
  <2>1. appPc = "wait" /\ Question(p) => AsksFor(p)
    BY <1>4, <1>6 DEF ExchangeInv, Asking
  <2>2. UNCHANGED <<isConnected, handlers, appPc, req, answer>>
    BY <1>1 DEF app, client
  <2>3. appPc = "wait" /\ req.op \in {"connect", "publish"} => UNCHANGED subs
    BY <1>9, <2>1 DEF AsksFor
  <2>4. FreshInv'
    <3>1. req.op = "connect" /\ (appPc = "lock" \/ (appPc = "done" /\ answer # Failure)) => UNCHANGED subs
      BY <1>9, <1>13 DEF Settled
    <3> QED BY <2>2, <2>3, <3>1 DEF FreshInv
  <2>5. AgreeInv'
    <3>1. isConnected /\ appPc \notin {"wait", "done"} => UNCHANGED subs
      BY <1>9, <1>13 DEF Settled, CallInv
    <3> QED BY <2>2, <2>3, <3>1 DEF AgreeInv
  <2> QED BY <2>4, <2>5
<1> QED BY <1>6, <1>8, <1>11, <1>12, <1>14, <1>15, <1>16, <1>17

\* The broker sends its own message, or sends it again.
LEMMA BrokerSendsSteps == IInv /\ (BrokerPublishes \/ BrokerResends) => IInv'
<1> SUFFICES ASSUME IInv, BrokerPublishes \/ BrokerResends PROVE IInv'
  OBVIOUS
<1> USE DEF IInv
<1>1. PICK m \in Packets :
        /\ m.type = "PUBLISH" /\ Received(m)
        /\ \/ /\ outbound.type = "none" /\ m.code = 0 /\ UNCHANGED <<outbound, delivered>>
           \/ /\ outbound.type = "none" /\ m.code = 2 /\ outbound' = m /\ delivered' = 0
           \/ /\ outbound.type = "PUBLISH" /\ outbound'.type = "RESENT" /\ outbound' \in Packets
              /\ UNCHANGED delivered
  <2>1. ASSUME BrokerPublishes
        PROVE  \E m \in Packets :
                 /\ m.type = "PUBLISH" /\ Received(m) /\ outbound.type = "none"
                 /\ \/ m.code = 0 /\ UNCHANGED <<outbound, delivered>>
                    \/ m.code = 2 /\ outbound' = m /\ delivered' = 0
    <3>1. PICK t \in subs, q \in {0, 2} :
            /\ toClient' = Append(toClient, Packet("PUBLISH", 1, t, q))
            /\ outbound' = IF q = 0 THEN NoAnswer ELSE Packet("PUBLISH", 1, t, q)
      BY <2>1 DEF BrokerPublishes
    <3>2. /\ Packet("PUBLISH", 1, t, q) \in Packets /\ Packet("PUBLISH", 1, t, q).type = "PUBLISH"
          /\ Packet("PUBLISH", 1, t, q).code = q
      BY MqttClientAssumption DEF Packet, Packets, TypeOK
    <3>3. /\ outbound = NoAnswer /\ NoAnswer.type = "none" /\ Len(toClient) < QueueBound
          /\ delivered' = IF outbound' = NoAnswer THEN delivered ELSE 0
      BY <2>1 DEF BrokerPublishes, NoAnswer, Packet
    <3> QED BY <3>1, <3>2, <3>3 DEF Received
  <2>2. ASSUME BrokerResends
        PROVE  /\ outbound \in Packets /\ outbound.type = "PUBLISH" /\ Received(outbound)
               /\ outbound'.type = "RESENT" /\ outbound' \in Packets /\ UNCHANGED delivered
    <3>1. outbound \in Packets /\ outbound' = [outbound EXCEPT !.type = "RESENT"]
      BY <2>2 DEF BrokerResends, TypeOK
    <3>2. outbound'.type = "RESENT" /\ outbound' \in Packets
      BY <3>1 DEF Packets
    <3> QED BY <2>2, <3>1, <3>2 DEF BrokerResends, Received, history
  <2> QED BY <2>1, <2>2
<1>2. UNCHANGED <<client, nextId, timers, locks, loopPc, app, sock, toBroker, alive, subs, accepted>>
  BY DEF BrokerPublishes, BrokerResends, history
<1>3. /\ toClient' \in Seq(Packets) /\ Len(toClient') <= QueueBound
      /\ Len(toClient') = Len(toClient) + 1 /\ Len(toClient) \in Nat
      /\ toClient'[Len(toClient')] = m
      /\ \A i \in 1 .. Len(toClient) : toClient'[i] = toClient[i]
  BY <1>1, ReceivedPlaces
<1>4. UNCHANGED <<Asked, Replied>>
  BY <1>1, <1>2, <1>3 DEF Asked, Replied, Reply
<1>5. OneExchange' /\ RealInv' /\ Untaken'
  BY <1>1, <1>2, <1>3, <1>4 DEF OneExchange, RealInv, AcceptInv, Untaken
<1>6. Copies' = IF m.code = 2 THEN Copies \union {Len(toClient')} ELSE Copies
  BY <1>1, <1>3 DEF Copies
<1>7. /\ outbound.type \in {"none", "PUBLISH"} /\ outbound' \in Packets
      /\ delivered' \in 0 .. 2
  BY <1>1 DEF TypeOK
<1>8. CountInv'
  <2>1. CASE outbound.type = "none"
    <3>1. Copies = {}
      BY <2>1 DEF DeliveryInv
    <3> QED BY <1>1, <1>6, <2>1, <3>1 DEF CountInv
  <2>2. CASE outbound.type = "PUBLISH"
    <3>1. /\ \A i, j \in Copies : i = j
          /\ Copies # {} => delivered = 0
          /\ delivered <= 1 /\ UNCHANGED delivered /\ outbound'.type = "RESENT"
      BY <1>1, <2>2 DEF CountInv
    <3>2. \A i, j, k \in Copies' : i = j \/ i = k \/ j = k
      BY <1>6, <3>1
    <3>3. (\E i, j \in Copies' : i # j) => Copies # {}
      BY <1>6
    <3> QED BY <3>1, <3>2, <3>3 DEF CountInv
  <2> QED BY <1>7, <2>1, <2>2
<1>9. DeliveryInv'
  <2>1. \A i \in 1 .. Len(toClient') : toClient'[i].type # "PUBREL"
    BY <1>1, <1>3, <1>7 DEF DeliveryInv, ReleaseLast
  <2>2. \A i \in 1 .. Len(toBroker') : toBroker'[i].type # "PUBCOMP"
    BY <1>2, <1>7 DEF DeliveryInv, CompletionLast
  <2>3. \A i \in 1 .. Len(toBroker') : toBroker'[i].type = "PUBREC" => outbound'.type # "none"
    BY <1>1, <1>2 DEF DeliveryInv
  <2>4. Copies' # {} => outbound'.type # "none"
    BY <1>1, <1>6 DEF DeliveryInv
  <2>5. outbound'.type \in {"none", "PUBLISH", "RESENT", "PUBREL"}
    BY <1>1
  <2> QED BY <2>1, <2>2, <2>3, <2>4, <2>5 DEF DeliveryInv
<1>10. TypeOK'
  BY <1>2, <1>3, <1>7 DEF TypeOK, client, timers, locks, app
<1>11. LockInv' /\ CallInv'
  BY <1>2 DEF LockInv, CallInv, Wanted, client, locks, app
<1>12. QuietWhenSettled' /\ AcceptInv' /\ DoneInv' /\ FreshInv' /\ AgreeInv'
  BY <1>2, <1>4, <1>5
  DEF QuietWhenSettled, Settled, AcceptInv, DoneInv, NeedsId, HandlersAfter, FreshInv, AgreeInv, client, app
<1>13. ExchangeInv'
  <2>1. \A i \in Replied : toClient'[i] = toClient[i]
    BY <1>3 DEF Replied
  <2>2. (\A i \in Asked : AsksFor(toBroker[i])) <=> Asking'
    BY <1>2, <1>4 DEF Asking, AsksFor, client, app
  <2>3. (\A i \in Replied : AnswersTo(toClient'[i])) <=> Answering'
    BY <1>2, <1>4 DEF Answering, AnswersTo, client, app
  <2> QED BY <1>2, <2>1, <2>2, <2>3 DEF ExchangeInv, Asking, Answering, app
<1> QED BY <1>5, <1>8, <1>9, <1>10, <1>11, <1>12, <1>13

(***************************************************************************)
(* What holds of every behaviour.                                          *)
(***************************************************************************)

LEMMA NextInv == IInv /\ [Next]_vars => IInv'
<1> SUFFICES ASSUME IInv, [Next]_vars PROVE IInv'
  OBVIOUS
<1>1. CASE Loop
  BY <1>1, IdleSteps, LoopCycleStep DEF Loop
<1>2. CASE \E r \in Requests : AppCall(r)
  BY <1>2, AppCallStep
<1>3. CASE AppStep
  BY <1>3, AppNetworkStep, AppSendStep, AppFailSteps, AppWaitStep, AppDoneStep, AppDisconnectStep,
     AppEndSteps DEF AppStep
<1>4. CASE Environment
  BY <1>4, BrokerHandlesStep, BrokerSendsSteps, LinkBreaksStep, IdleSteps DEF Environment
<1>5. CASE UNCHANGED vars
  BY <1>5, IdleSteps
<1> QED BY <1>1, <1>2, <1>3, <1>4, <1>5 DEF Next

\* The state of client, connection and broker is always sound.
THEOREM Invariance == Spec => []IInv
<1>1. Init => IInv
  BY InitInv
<1>2. IInv /\ [Next]_vars => IInv'
  BY NextInv
<1> QED BY <1>1, <1>2, PTL DEF Spec

\* One thread at a time is inside the library, and every variable keeps its type: the
\* handler table is not overrun, and no identifier is 0 or too large (MQTTClient.c).
THEOREM OneInsideAlways == Spec => []OneInside
<1>1. IInv => OneInside
  BY DEF IInv, LockInv, OneInside
<1> QED BY <1>1, Invariance, PTL

\* Between calls, a connected client has a handler for exactly the topics the broker
\* would send it (MQTTSubscribe, MQTTUnsubscribe, MQTTCloseSession).
THEOREM SubscriptionsAgreeAlways == Spec => []SubscriptionsAgree
<1>1. IInv => SubscriptionsAgree
  BY DEF IInv, AgreeInv, SubscriptionsAgree
<1> QED BY <1>1, Invariance, PTL

\* A publication of QoS 1 or 2 that is reported as done has been taken by the broker
\* exactly once (MQTTPublish).
THEOREM PublishAcceptedAlways == Spec => []PublishAccepted
<1>1. IInv => PublishAccepted
  BY DEF IInv, DoneInv, PublishAccepted, Failed
<1> QED BY <1>1, Invariance, PTL

\* The answer a call succeeds with has the identifier of its own packet, whatever is
\* left over from earlier calls (waitfor, MQTTSubscribe, MQTTUnsubscribe).
THEOREM AnswerIsOursAlways == Spec => []AnswerIsOurs
<1>1. IInv => AnswerIsOurs
  BY DEF IInv, DoneInv, AnswerIsOurs
<1> QED BY <1>1, Invariance, PTL

\* Once a call has its answer, nothing is read until it has returned.
LEMMA NothingReadWhenDone ==
  ASSUME IInv, [Next]_vars, appPc = "done", toClient # <<>>, sock' = "up"
  PROVE  toClient' # Tail(toClient)
<1> USE DEF IInv
<1>1. /\ toClient \in Seq(Packets) /\ Len(Tail(toClient)) = Len(toClient) - 1
      /\ Len(toClient) \in Nat
  BY TailEffect DEF TypeOK
<1>2. UNCHANGED toClient => toClient' # Tail(toClient)
  <2> DEFINE n == Len(toClient)
             m == Len(Tail(toClient))
  <2>1. n \in Nat /\ m = n - 1
    BY <1>1
  <2>2. m # n
    <3> HIDE DEF m, n
    <3> QED BY <2>1
  <2> QED BY <2>2
<1>3. \A r \in Packets : Received(r) => toClient' # Tail(toClient)
  BY <1>1, ReceivedPlaces
<1>4. CASE Loop
  <2>1. loopPc # "cycle"
    BY DEF LockInv
  <2> QED BY <1>2, <1>4, <2>1 DEF Loop, LoopCheck, LoopEnter, LoopCycle, net
<1>5. CASE \E r \in Requests : AppCall(r)
  BY <1>5 DEF AppCall
<1>6. CASE AppStep
  <2>1. CASE AppDone
    BY <1>2, <2>1 DEF AppDone, net
  <2>2. CASE AppDisconnect
    <3>1. answer = Failure
      BY <2>2 DEF AppDisconnect
    <3> QED BY <1>2, <2>2, <3>1 DEF AppDisconnect
  <2>3. AppDone \/ AppDisconnect
    BY <1>6 DEF AppStep, AppNetwork, AppSend, AppRefused, AppWait, AppExpired, AppStop, AppDelete
  <2> QED BY <2>1, <2>2, <2>3
<1>7. CASE Environment
  <2>1. CASE BrokerHandles
    <3>1. toBroker # <<>> /\ toBroker' = Tail(toBroker)
      BY <2>1 DEF BrokerHandles
    <3>2. \A r \in Replies(Head(toBroker)) : r \in Packets
      BY <3>1, TakenPlaces, PacketTypes
    <3> QED BY <1>2, <1>3, <2>1, <3>2 DEF BrokerHandles, Received
  <2>2. CASE BrokerPublishes
    <3>1. PICK t \in subs, q \in {0, 2} : toClient' = Append(toClient, Packet("PUBLISH", 1, t, q))
      BY <2>2 DEF BrokerPublishes
    <3>2. Packet("PUBLISH", 1, t, q) \in Packets
      BY MqttClientAssumption DEF Packet, Packets, TypeOK
    <3> QED BY <1>3, <2>2, <3>1, <3>2 DEF BrokerPublishes, Received
  <2>3. CASE BrokerResends
    BY <1>3, <2>3 DEF BrokerResends, Received, TypeOK
  <2>4. CASE BrokerDies \/ LinkBreaks \/ Tick
    BY <1>2, <2>4 DEF BrokerDies, LinkBreaks, Tick, net
  <2> QED BY <1>7, <2>1, <2>2, <2>3, <2>4 DEF Environment
<1>8. CASE UNCHANGED vars
  BY <1>2, <1>8 DEF vars, net
<1> QED BY <1>4, <1>5, <1>6, <1>7, <1>8 DEF Next

\* No message is dropped for want of a handler: one for a topic the broker has
\* subscribed, read by a connected client that is not changing its subscriptions, has
\* its handler (deliverMessage, MQTTSetMessageHandler).
THEOREM MessageHasHandlerAlways == Spec => MessageHasHandler
<1> DEFINE A == toClient # <<>> /\ toClient' = Tail(toClient) /\ sock = "up" /\ sock' = "up"
                  /\ (appPc = "wait" => req.op = "publish") /\ isConnected
                  /\ Head(toClient).type = "PUBLISH" /\ Head(toClient).topic \in subs
                => Head(toClient).topic \in handlers
<1>1. IInv /\ [Next]_vars => [A]_vars
  <2> SUFFICES ASSUME IInv, [Next]_vars, toClient # <<>>, toClient' = Tail(toClient), sock' = "up",
                      appPc = "wait" => req.op = "publish", isConnected,
                      Head(toClient).topic \in subs
               PROVE  Head(toClient).topic \in handlers
    OBVIOUS
  <2>1. appPc # "done"
    BY NothingReadWhenDone
  <2> QED BY <2>1 DEF IInv, AgreeInv
<1>2. Spec => [][Next]_vars
  BY PTL DEF Spec
<1> QED BY <1>1, <1>2, Invariance, PTL DEF MessageHasHandler

(***************************************************************************)
(* The timers of the client (MqttTimer), for counters of any width and a   *)
(* tick of any length.  Before the tick counter wraps, the time is put     *)
(* together from the tick of the moment at which the call began and a part *)
(* of a tick, whatever that part is and wherever the system timer has      *)
(* wrapped; so each reading is off by less than a tick, and what compares  *)
(* two readings by less than two.                                          *)
(***************************************************************************)

CONSTANTS sysPerTick, TickWrap, SysWrap, Interval, MaxNow
VARIABLES now, pc, call, begun, tickCount, time, endTime, interval, started, armed, left, expired

Timer == INSTANCE MqttTimer

\* What CodecAssumption of MCCodecs says of the constants of the timers.
TimerConstants ==
  /\ sysPerTick \in Nat \ {0} /\ TickWrap \in Nat \ {0} /\ SysWrap \in Nat \ {0}
  /\ Interval \subseteq Nat /\ MaxNow \in Nat

\* The moments of the calls, in their order.
Clocks ==
  /\ now \in Nat /\ begun \in Nat /\ begun <= now
  /\ started \in Nat /\ armed \in Nat /\ started <= armed /\ armed <= now
  /\ time \in Nat /\ tickCount \in Nat /\ endTime \in Nat /\ interval \in Nat
  /\ expired \in BOOLEAN /\ left \in Nat

\* A time is off by less than a tick, ...
TimeRight ==
  /\ pc = "between" => tickCount = (begun \div sysPerTick) % TickWrap
  /\ pc = "known" /\ ~Timer!Wrapped => begun - sysPerTick < time /\ time < now + sysPerTick

\* ... and so is the end of the timer.
EndRight ==
  ~Timer!Wrapped =>
    /\ started - sysPerTick < endTime - interval
    /\ endTime - interval < armed + sysPerTick

TimerInv == Clocks /\ TimeRight /\ EndRight /\ TimerConstants

\* Quotient and remainder, ...
LEMMA DivFacts ==
  ASSUME NEW n \in Nat, NEW d \in Nat \ {0}
  PROVE /\ n \div d \in Nat /\ n % d \in 0 .. d - 1
        /\ n = d * (n \div d) + (n % d)
OBVIOUS

\* ... of a number below the divisor ...
LEMMA Small == ASSUME NEW t \in Nat, NEW w \in Nat \ {0}, t < w PROVE t % w = t
OBVIOUS

\* ... and of one below a multiple of it.
LEMMA Under ==
  ASSUME NEW n \in Nat, NEW d \in Nat \ {0}, NEW w \in Nat \ {0}, n < w * d
  PROVE  n \div d < w
OBVIOUS

\* The tick read at the beginning and part of a tick: less than a tick from either end
\* (GetCurrentTime).
LEMMA ReadTime ==
  ASSUME TimerInv, Timer!ReadSysTimer, ~Timer!Wrapped
  PROVE  begun - sysPerTick < time' /\ time' < now + sysPerTick
<1> DEFINE t == begun \div sysPerTick
           r == (now % SysWrap) % sysPerTick
<1> USE DEF TimerInv, Clocks, TimerConstants
<1>1. t \in Nat /\ begun = sysPerTick * t + (begun % sysPerTick) /\ begun % sysPerTick \in 0 .. sysPerTick - 1
  BY DivFacts
<1>2. now < TickWrap * sysPerTick BY DEF Timer!Wrapped
<1>3. t < TickWrap BY <1>2, Under
<1>4. tickCount = t BY <1>1, <1>3, Small DEF TimeRight, Timer!ReadSysTimer
<1>5. now % SysWrap \in Nat BY DivFacts
<1>6. r \in 0 .. sysPerTick - 1 BY <1>5, DivFacts
<1>7. time' = t * sysPerTick + r BY <1>4 DEF Timer!ReadSysTimer, Timer!SysTimer
<1> HIDE DEF t, r
<1>8. t * sysPerTick \in Nat /\ t * sysPerTick = sysPerTick * t BY <1>1
<1> QED BY <1>1, <1>6, <1>7, <1>8

\* TimerInit leaves the timer at its end.
LEMMA InitTimer == TimerConstants /\ Timer!Init => TimerInv
BY DEF Timer!Init, TimerInv, Clocks, TimeRight, EndRight, TimerConstants, Timer!Wrapped

\* Each call keeps the times right.
LEMMA NextTimer ==
  ASSUME TimerInv, [Timer!Next]_(Timer!vars)
  PROVE  TimerInv'
<1> USE DEF TimerInv, Clocks, TimerConstants, TimeRight, EndRight
<1>1. CASE Timer!Clock BY <1>1 DEF Timer!Clock, Timer!Wrapped, Timer!asking, Timer!timer
<1>2. CASE Timer!ReadTick
  BY <1>2, DivFacts DEF Timer!ReadTick, Timer!Wrapped, Timer!timer, Timer!Tick
<1>3. CASE Timer!ReadSysTimer
  <2>0. now % SysWrap \in Nat BY DivFacts
  <2>1. (now % SysWrap) % sysPerTick \in Nat BY <2>0, DivFacts
  <2>2. tickCount * sysPerTick \in Nat OBVIOUS
  <2>3. time' \in Nat BY <2>1, <2>2, <1>3 DEF Timer!ReadSysTimer, Timer!SysTimer
  <2>4. Timer!Wrapped' <=> Timer!Wrapped BY <1>3 DEF Timer!ReadSysTimer, Timer!Wrapped
  <2>5. ~Timer!Wrapped => begun - sysPerTick < time' /\ time' < now + sysPerTick
    BY <1>3, ReadTime
  <2> QED BY <1>3, <2>3, <2>4, <2>5 DEF Timer!ReadSysTimer, Timer!timer
<1>4. CASE Timer!TimerCountdown
  <2>1. PICK i \in Interval : endTime' = time + i /\ interval' = i BY <1>4 DEF Timer!TimerCountdown
  <2>2. Timer!Wrapped' <=> Timer!Wrapped BY <1>4 DEF Timer!TimerCountdown, Timer!Wrapped
  <2> QED BY <1>4, <2>1, <2>2 DEF Timer!TimerCountdown
<1>5. CASE Timer!TimerIsExpired BY <1>5 DEF Timer!TimerIsExpired, Timer!timer, Timer!Wrapped
<1>6. CASE Timer!TimerLeftMS BY <1>6 DEF Timer!TimerLeftMS, Timer!timer, Timer!Wrapped
<1>7. CASE UNCHANGED Timer!vars BY <1>7 DEF Timer!vars, Timer!asking, Timer!timer, Timer!Wrapped
<1> QED BY <1>1, <1>2, <1>3, <1>4, <1>5, <1>6, <1>7 DEF Timer!Next

\* Until the tick counter wraps, a time lies less than a tick outside the call that asked for
\* it, a timer is seen to run out neither two ticks early nor two ticks late, and what is left
\* of it is right to two ticks and never below nothing (GetCurrentTime, TimerIsExpired,
\* TimerLeftMS).
THEOREM TimesRight ==
  TimerConstants /\ Timer!Spec => []Timer!TimeWithinTick /\ Timer!ExpiresInTime /\ Timer!LeftInTime
<1> DEFINE E == pc = "known" /\ pc' = "idle" /\ call = "expired" /\ ~Timer!Wrapped =>
       /\ expired' => now - started > interval - 2 * sysPerTick
       /\ ~expired' => begun - armed < interval + 2 * sysPerTick
     L == pc = "known" /\ pc' = "idle" /\ call = "left" /\ ~Timer!Wrapped =>
       /\ left' >= 0
       /\ left' < interval - (begun - armed) + 2 * sysPerTick \/ left' = 0
       /\ left' > interval - (now - started) - 2 * sysPerTick
<1>1. TimerInv => Timer!TimeWithinTick
  BY DEF TimerInv, TimeRight, Timer!TimeWithinTick
<1>2. TimerInv /\ [Timer!Next]_(Timer!vars) => [E]_(Timer!vars)
  <2> SUFFICES ASSUME TimerInv, Timer!Next,
                      pc = "known", pc' = "idle", call = "expired", ~Timer!Wrapped
               PROVE  /\ expired' => now - started > interval - 2 * sysPerTick
                      /\ ~expired' => begun - armed < interval + 2 * sysPerTick
    BY DEF Timer!vars, Timer!asking
  <2>1. Timer!TimerIsExpired
    BY DEF Timer!Next, Timer!Clock, Timer!ReadTick, Timer!ReadSysTimer, Timer!TimerCountdown,
      Timer!TimerLeftMS, Timer!asking
  <2>2. expired' <=> endTime - time <= 0
    BY <2>1, Zenon DEF Timer!TimerIsExpired
  <2>3. /\ now \in Nat /\ started \in Nat /\ interval \in Nat /\ begun \in Nat /\ armed \in Nat
        /\ endTime \in Nat /\ time \in Nat /\ sysPerTick \in Nat
        /\ begun - sysPerTick < time /\ time < now + sysPerTick
        /\ started - sysPerTick < endTime - interval
        /\ endTime - interval < armed + sysPerTick
    BY DEF TimerInv, Clocks, TimeRight, EndRight, TimerConstants
  <2>4. endTime - time <= 0 => now - started > interval - 2 * sysPerTick
    BY <2>3
  <2>5. ~(endTime - time <= 0) => begun - armed < interval + 2 * sysPerTick
    BY <2>3
  <2> QED BY <2>2, <2>4, <2>5, Zenon
<1>3. TimerInv /\ [Timer!Next]_(Timer!vars) => [L]_(Timer!vars)
  <2> SUFFICES ASSUME TimerInv, Timer!Next,
                      pc = "known", pc' = "idle", call = "left", ~Timer!Wrapped
               PROVE  /\ left' >= 0
                      /\ left' < interval - (begun - armed) + 2 * sysPerTick \/ left' = 0
                      /\ left' > interval - (now - started) - 2 * sysPerTick
    BY DEF Timer!vars, Timer!asking
  <2>1. Timer!TimerLeftMS
    BY DEF Timer!Next, Timer!Clock, Timer!ReadTick, Timer!ReadSysTimer, Timer!TimerCountdown,
      Timer!TimerIsExpired, Timer!asking
  <2> QED BY <2>1 DEF Timer!TimerLeftMS, TimerInv, Clocks, TimeRight, EndRight, TimerConstants
<1>4. TimerConstants /\ Timer!Spec => []TimerInv
  BY InitTimer, NextTimer, PTL DEF Timer!Spec
<1> QED BY <1>1, <1>2, <1>3, <1>4, PTL DEF Timer!Spec, Timer!ExpiresInTime, Timer!LeftInTime
=============================================================================
