--------------------------- MODULE MqttCppClient ---------------------------
(***************************************************************************)
(* The C++ client (paho_mqtt/MQTTClient/src/MQTTClient.h): one thread that *)
(* blocks in each call, publishes again after a reconnect what was under   *)
(* way, and remembers which QoS 2 messages it has delivered.               *)
(*                                                                         *)
(* The application is a script of calls: those of the tests and samples    *)
(* kept beside the client, and others.  Its connection may break at any    *)
(* time.  The server sends back what it accepts while there is a           *)
(* subscription.  cycle(), which reads and handles one packet, is one step.*)
(***************************************************************************)
EXTENDS Naturals, Sequences, FiniteSets, FiniteSetsExt

CONSTANTS
  Filter,        \* topic filters; each matches the one topic of a script
  Scripts,       \* the scripts: those of the repository, below, and others
  MaxHandlers,   \* MAX_MESSAGE_HANDLERS
  MaxIncoming,   \* MAX_INCOMING_QOS2_MESSAGES
  MaxPacketId,   \* MAX_PACKET_ID
  MaxTroubles    \* bound: breaks, refusals and late answers

VARIABLES
  script,     \* the calls still to make
  call,       \* the call the application is in
  client,     \* the object of class Client
  net,        \* the connection: up, silent ("dead") or closed, with what is under way
  server,     \* the server and the session it keeps, a clean one until the next begins
  seen,       \* history: publishes accepted and confirmed, deliveries of each message, those
              \* dropped for want of room or handler, the identifiers the client still had
              \* when the server began a new session or took for a message's own when they
              \* were not, and the messages whose identifiers it let go in the same way
  troubles

vars == <<script, call, client, net, server, seen, troubles>>

Packet(type, id, qos, what) == [type |-> type, id |-> id, qos |-> qos, what |-> what]
NoPacket == Packet("none", 0, 0, 0)
NoHandlers == [f \in Filter |-> 0]

(***************************************************************************)
(* The scripts: tests and samples of the repository.  A call is named with *)
(* its argument; "connect!" ends the script when it fails; "yield" is one  *)
(* or more calls of yield for a time, "await" until the client is          *)
(* disconnected (the test gives it the two keep alive intervals it takes   *)
(* to notice), "arrive" while no more than so many messages have arrived,  *)
(* "stay" until a signal.                                                  *)
(***************************************************************************)
FilterOfTest == CHOOSE f \in Filter : TRUE
StepOn(name, arg, filter) == [name |-> name, arg |-> arg, filter |-> filter]
Step(name, arg) == StepOn(name, arg, FilterOfTest)
SubscribeStep(h) == Step("subscribe", h)
Opened(name, clean) == <<Step("open", 0), Step(name, clean)>>
Closed == <<Step("disconnect", 0), Step("close", 0)>>

\* 50 publishes of each QoS in the test, one here.
sendAndReceive(qos) == <<Step("publish", qos), Step("yield", 0)>>
test1 ==
  Opened("connect!", 1) \o <<SubscribeStep(1)>>
    \o sendAndReceive(0) \o sendAndReceive(1) \o sendAndReceive(2)
    \o <<Step("unsubscribe", 0)>> \o Closed \o Opened("connect", 1) \o Closed
test2 ==
  Opened("connect!", 1) \o Closed \o Opened("connect", 0) \o <<SubscribeStep(1)>>
    \o Closed \o Opened("connect", 0) \o Closed \o Opened("connect", 1) \o Closed
check_subs_exist == <<Step("publish", 2), Step("yield", 0)>>
Resubscribe(h) == <<SubscribeStep(h)>> \o check_subs_exist
test3 ==
  Opened("connect!", 1) \o Closed \o Opened("connect", 0)
    \o Resubscribe(1) \o Resubscribe(2) \o Closed
    \o Opened("connect", 0) \o check_subs_exist \o Resubscribe(1)
    \o <<Step("terminate", 0), Step("await", 0), Step("close", 0)>>
    \o Opened("connect", 0) \o check_subs_exist \o Resubscribe(2) \o Closed
    \o Opened("connect", 1) \o Resubscribe(2) \o Closed
SendAndWait(qos, arrivedcount) == <<Step("publish", qos), Step("arrive", arrivedcount)>>
hello ==
  Opened("connect", 1) \o <<SubscribeStep(1)>>
    \o SendAndWait(0, 0) \o SendAndWait(1, 1) \o SendAndWait(2, 2)
    \o <<Step("unsubscribe", 0)>> \o Closed
stdoutsub == Opened("connect!", 1) \o <<SubscribeStep(1), Step("stay", 0)>> \o Closed

\* What all of them observe: a connection is opened for each connect and closed when the
\* session has ended, and a session that was kept is not taken up again once a clean one has
\* been asked for.
ConnectCalls == {"connect", "connect!"}
Connects(s, i) == i \in 1 .. Len(s) /\ s[i].name \in ConnectCalls
After(s, i, names) == i > 1 /\ s[i - 1].name \in names
Arguments(s) ==
  \A i \in 1 .. Len(s) :
    /\ s[i].arg \in Nat /\ s[i].filter \in Filter
    /\ s[i].name = "publish" => s[i].arg <= 2
    /\ s[i].name = "subscribe" => s[i].arg \in {1, 2}
    /\ s[i].name \in ConnectCalls => s[i].arg \in {0, 1}
InOrder(s) ==
  \A i \in 1 .. Len(s) :
    /\ s[i].name \in ConnectCalls => After(s, i, {"open"})
    /\ s[i].name = "open" => i = 1 \/ After(s, i, {"close"})
    /\ s[i].name = "close" => After(s, i, {"disconnect", "await"})
KeptOnce(s) ==
  \A i, j, k \in 1 .. Len(s) :
    i < j /\ j < k /\ Connects(s, i) /\ Connects(s, j) /\ Connects(s, k)
      => ~(s[i].arg = 0 /\ s[j].arg = 1 /\ s[k].arg = 0)

ASSUME CppClientAssumption ==
  /\ IsFiniteSet(Filter) /\ Filter # {}
  /\ MaxHandlers \in Nat \ {0} /\ MaxIncoming \in Nat \ {0} /\ MaxPacketId \in Nat \ {0}
  /\ MaxTroubles \in Nat
  /\ \A s \in Scripts : s \in Seq([name : STRING, arg : Nat, filter : Filter])
                        /\ Arguments(s) /\ InOrder(s) /\ KeptOnce(s)

Idle == [name |-> "none", state |-> "none", want |-> "none", packet |-> NoPacket, arg |-> 0,
         answer |-> NoPacket]

Init ==
  /\ script \in Scripts
  /\ call = Idle
  /\ client = [isconnected |-> FALSE, cleansession |-> TRUE, ping_outstanding |-> FALSE,
               handlers |-> NoHandlers, nextId |-> 0, inflight |-> NoPacket,
               incoming |-> {}, due |-> {}]
  /\ net = [state |-> "closed", toServer |-> <<>>, toClient |-> <<>>]
  /\ server = [up |-> FALSE, clean |-> TRUE, subs |-> {}, received |-> {}, pending |-> <<>>, nextId |-> 0]
  /\ seen = [accepted |-> {}, confirmed |-> {}, delivered |-> <<>>, dropped |-> {},
             left |-> {}, again |-> {}]
  /\ troubles = 0

Trouble == troubles < MaxTroubles /\ troubles' = troubles + 1

(***************************************************************************)
(* The client: its session and the packets it sends.                       *)
(***************************************************************************)

cleanSession(c) == [c EXCEPT !.handlers = NoHandlers, !.inflight = NoPacket, !.incoming = {}]

closeSession(c) ==
  LET closed == [c EXCEPT !.isconnected = FALSE, !.ping_outstanding = FALSE]
  IN  IF c.cleansession THEN cleanSession(closed) ELSE closed

getNext(c) == IF c.nextId = MaxPacketId THEN 1 ELSE c.nextId + 1

\* write of the network fails on a closed connection only; what a silent one takes is lost.
CanSend == net.state # "closed"
OnWire(n, p) == IF n.state = "up" THEN [n EXCEPT !.toServer = Append(@, p)] ELSE n
\* sendPacket starts the timer last_sent again.
Sent(c) == [c EXCEPT !.due = @ \ {"sent"}]

\* setMessageHandler: the entry of the filter, or a free one.
HasSlot(c, f) ==
  c.handlers[f] # 0 \/ Cardinality({g \in Filter : c.handlers[g] # 0}) < MaxHandlers
setMessageHandler(c, f, h) == [c EXCEPT !.handlers[f] = h]

(***************************************************************************)
(* The calls of the script.                                                *)
(***************************************************************************)

Calls(name) == call = Idle /\ script # <<>> /\ Head(script).name = name
Argument == Head(script).arg
ArgumentFilter == Head(script).filter
Proceed == script' = Tail(script)
Wait(name, want, packet, arg) ==
  call' = [name |-> name, state |-> "waiting", want |-> want, packet |-> packet, arg |-> arg,
            answer |-> NoPacket]

\* IPStack::connect.
Open ==
  /\ Calls("open") /\ Proceed
  /\ \/ net' = [state |-> "up", toServer |-> <<>>, toClient |-> <<>>] /\ UNCHANGED troubles
     \/ Trouble /\ UNCHANGED net
  /\ server' = [server EXCEPT !.up = FALSE]
  /\ UNCHANGED <<call, client, seen>>

\* IPStack::disconnect.
Close ==
  /\ Calls("close") /\ Proceed
  /\ net' = [state |-> "closed", toServer |-> <<>>, toClient |-> <<>>]
  /\ UNCHANGED <<call, client, server, seen, troubles>>

Connect ==
  /\ \E name \in {"connect", "connect!"} :
       /\ Calls(name)
       /\ IF ~client.isconnected /\ CanSend
          THEN /\ client' = [client EXCEPT !.cleansession = (Argument = 1), !.due = {}]
               /\ net' = OnWire(net, Packet("CONNECT", 0, 0, Argument))
               /\ Wait(name, "CONNACK", NoPacket, 0)
               /\ Proceed
          ELSE /\ client' = IF client.isconnected THEN client
                            ELSE [client EXCEPT !.cleansession = (Argument = 1)]
               /\ script' = IF name = "connect!" THEN <<>> ELSE Tail(script)
               /\ UNCHANGED <<net, call>>
  /\ UNCHANGED <<server, seen, troubles>>

\* The sample does not wait for a message of QoS 0 or 1 whose publish has failed.
Unawaited(s, qos) == IF qos < 2 /\ s # <<>> /\ Head(s).name = "arrive" THEN Tail(s) ELSE s

\* publish.  Without a connection it fails and changes nothing.  A publish that is to be
\* answered is kept when the session is.
Publish ==
  /\ Calls("publish")
  /\ script' = IF client.isconnected /\ CanSend THEN Tail(script) ELSE Unawaited(Tail(script), Argument)
  /\ LET id == IF Argument = 0 THEN 0 ELSE getNext(client)
         p == Packet("PUBLISH", id, Argument, Len(script))
         stored == [client EXCEPT !.nextId = IF Argument = 0 THEN @ ELSE id,
                      !.inflight = IF client.cleansession THEN @
                                   ELSE IF Argument = 0 THEN NoPacket ELSE p]
     IN  CASE ~client.isconnected -> UNCHANGED <<client, net, call>>
           [] client.isconnected /\ ~CanSend ->
                client' = closeSession(stored) /\ UNCHANGED <<net, call>>
           [] client.isconnected /\ CanSend ->
                /\ client' = Sent(stored)
                /\ net' = OnWire(net, p)
                /\ IF Argument = 0 THEN UNCHANGED call
                   ELSE Wait("publish", IF Argument = 1 THEN "PUBACK" ELSE "PUBCOMP", p, 0)
  /\ UNCHANGED <<server, seen, troubles>>

\* The message that makes the proxy of the test end the connection.
Terminate ==
  /\ Calls("terminate") /\ Proceed
  /\ IF client.isconnected /\ CanSend
     THEN /\ client' = Sent([client EXCEPT !.inflight = IF client.cleansession THEN @ ELSE NoPacket])
          /\ net' = OnWire(net, Packet("TERMINATE", 0, 0, 0))
     ELSE /\ client' = IF client.isconnected THEN closeSession(client) ELSE client
          /\ UNCHANGED net
  /\ UNCHANGED <<call, server, seen, troubles>>

\* subscribe and unsubscribe close the session when they fail.
Request(name, type, ack) ==
  /\ Calls(name) /\ Proceed
  /\ LET p == Packet(type, getNext(client), 0, ArgumentFilter)
         c == [client EXCEPT !.nextId = p.id]
     IN  CASE ~client.isconnected -> client' = closeSession(client) /\ UNCHANGED <<net, call>>
           [] client.isconnected /\ ~CanSend ->
                client' = closeSession(c) /\ UNCHANGED <<net, call>>
           [] client.isconnected /\ CanSend ->
                client' = Sent(c) /\ net' = OnWire(net, p) /\ Wait(name, ack, p, Argument)
  /\ UNCHANGED <<server, seen, troubles>>

Subscribe == Request("subscribe", "SUBSCRIBE", "SUBACK")
Unsubscribe == Request("unsubscribe", "UNSUBSCRIBE", "UNSUBACK")

Disconnect ==
  /\ Calls("disconnect") /\ Proceed
  /\ client' = closeSession(client)
  /\ net' = IF CanSend THEN OnWire(net, Packet("DISCONNECT", 0, 0, 0)) ELSE net
  /\ UNCHANGED <<call, server, seen, troubles>>

\* arrivedcount of the sample.
Arrivals == MapThenSumSet(LAMBDA n : seen.delivered[n].times, DOMAIN seen.delivered)

Yield ==
  /\ \E name \in {"yield", "await", "arrive", "stay"} :
       Calls(name) /\ Wait(name, "none", NoPacket, Argument)
  /\ Proceed
  /\ UNCHANGED <<client, net, server, seen, troubles>>

Yielding == call.name \in {"yield", "await", "arrive", "stay"}

(***************************************************************************)
(* cycle.                                                                  *)
(***************************************************************************)

\* Mutant: an unanswered ping is not a failure.
keepaliveForever(c, n) ==
  IF ~c.ping_outstanding /\ c.due # {} /\ n.state # "closed"
  THEN [ok |-> TRUE, client |-> Sent([c EXCEPT !.ping_outstanding = TRUE, !.due = @ \ {"ping"}]),
        net |-> OnWire(n, Packet("PINGREQ", 0, 0, 0))]
  ELSE [ok |-> TRUE, client |-> c, net |-> n]

\* keepalive at the end of a cycle: it fails, sends a ping, or does nothing.
keepalive(c, n) ==
  LET idle == c.due \intersect {"sent", "received"} # {}
      pinged == Sent([c EXCEPT !.ping_outstanding = TRUE, !.due = @ \ {"ping"}])
  IN  CASE c.ping_outstanding /\ "ping" \in c.due -> [ok |-> FALSE, client |-> c, net |-> n]
        [] ~c.ping_outstanding /\ idle /\ n.state = "closed" -> [ok |-> FALSE, client |-> c, net |-> n]
        [] ~c.ping_outstanding /\ idle /\ n.state # "closed" ->
             [ok |-> TRUE, client |-> pinged, net |-> OnWire(n, Packet("PINGREQ", 0, 0, 0))]
        [] OTHER -> [ok |-> TRUE, client |-> c, net |-> n]

Failed(c) == IF c.isconnected THEN closeSession(c) ELSE c
\* A call that waits ends with the failure; the application goes on calling yield.
CallFails == call' = IF Yielding THEN call ELSE [call EXCEPT !.state = "failed"]

Waiting == call.state = "waiting"

\* The network reports an error: a closed connection may, or may read as nothing come.
ReadFails ==
  /\ Waiting /\ net.state = "closed" /\ net.toClient = <<>>
  /\ client' = Failed(client) /\ CallFails
  /\ UNCHANGED <<script, net, server, seen, troubles>>

\* Nothing has come in time.
CycleIdle ==
  /\ Waiting /\ net.toClient = <<>>
  /\ LET k == keepalive(client, net)
     IN  IF k.ok THEN client' = k.client /\ net' = k.net /\ UNCHANGED call
         ELSE client' = Failed(client) /\ CallFails /\ UNCHANGED net
  /\ UNCHANGED <<script, server, seen, troubles>>

Reply(p) ==
  CASE p.type = "PUBLISH" /\ p.qos = 1 -> Packet("PUBACK", p.id, 0, p.what)
    [] p.type = "PUBLISH" /\ p.qos = 2 -> Packet("PUBREC", p.id, 0, p.what)
    [] p.type = "PUBREC" -> Packet("PUBREL", p.id, 0, p.what)
    [] p.type = "PUBREL" -> Packet("PUBCOMP", p.id, 0, p.what)
    [] OTHER -> NoPacket

\* Mutant: any entry of the table is taken for the one looked for.
isQoS2msgidFreeAny(c, id) == c.incoming = {}
isQoS2msgidFree(c, id) == id \notin c.incoming
Room(c) == Cardinality(c.incoming) < MaxIncoming

\* A message of QoS 2 is delivered when it is not in the table and there is room for it.
Delivers(c, p) == p.type = "PUBLISH" /\ (p.qos = 2 => isQoS2msgidFree(c, p.id) /\ Room(c))

\* deliverMessage: to the handlers that match, if there is one.
deliverMessage(p) ==
  LET attached == \E f \in Filter : client.handlers[f] # 0
      full == p.type = "PUBLISH" /\ p.qos = 2 /\ isQoS2msgidFree(client, p.id) /\ ~Room(client)
  IN  seen' = IF Delivers(client, p) /\ attached THEN [seen EXCEPT !.delivered[p.what].times = @ + 1]
              ELSE IF Delivers(client, p) \/ full THEN [seen EXCEPT !.dropped = @ \union {p.what}]
              ELSE seen

\* The client after a packet; answered says whether the reply could be sent.
Take(c, p, answered) ==
  LET read == [c EXCEPT !.due = @ \ {"received"}]
  IN  CASE p.type = "PINGRESP" -> [read EXCEPT !.ping_outstanding = FALSE]
        [] p.type = "PUBLISH" /\ p.qos = 2 /\ Delivers(c, p) ->
             [read EXCEPT !.incoming = @ \union {p.id}]
        [] p.type = "PUBREL" /\ answered -> [read EXCEPT !.incoming = @ \ {p.id}]
        [] OTHER -> read

\* What is left of a cycle that has read p, with the network as it is then: the reply, the
\* keep alive, and the end.
Conclude(p, taken, n) ==
  LET r == Reply(p)
      k == IF r = NoPacket THEN keepalive(taken, n)
           ELSE IF n.state # "closed" THEN keepalive(Sent(taken), OnWire(n, r))
           ELSE [ok |-> FALSE, client |-> taken, net |-> n]
  IN  /\ net' = k.net
      /\ IF k.ok
         THEN /\ client' = k.client
              /\ call' = IF p.type = call.want
                         THEN [call EXCEPT !.state = "answered", !.answer = p]
                         ELSE call
         ELSE client' = Failed(k.client) /\ CallFails
CanReply(p, n) == Reply(p) = NoPacket \/ n.state # "closed"

\* One packet is read, handled and answered.
CyclePacket ==
  /\ Waiting /\ net.toClient # <<>>
  /\ LET p == Head(net.toClient)
     IN  /\ deliverMessage(p)
         /\ Conclude(p, Take(client, p, CanReply(p, net)), [net EXCEPT !.toClient = Tail(@)])
  /\ UNCHANGED <<script, server, troubles>>

\* A connection ends in the middle of a packet.
Ended(s) == [state |-> s, toServer |-> <<>>, toClient |-> <<>>]

\* Its length has come: the session is closed, but the result is not negative, so the call
\* goes on.
ReadPart ==
  /\ Waiting /\ net.toClient # <<>> /\ Head(net.toClient).type # "PINGRESP" /\ Trouble
  /\ \E s \in {"dead", "closed"} : net' = Ended(s)
  /\ client' = Failed(client)
  /\ UNCHANGED <<script, call, server, seen>>

\* Only its header byte has come: readPacket does not look at the result of decodePacket, and
\* returns a packet of its type without a body.  The deserializers take that for success and
\* leave what they should have stored: the codes of CONNACK and SUBACK, which are set to
\* success before, and an identifier that is not initialised.
HeaderOnly(p, id) ==
  [p EXCEPT !.id = id, !.what = IF p.type \in {"CONNACK", "SUBACK"} THEN 1 ELSE @]
Identified(p) == p.type \in {"PUBLISH", "PUBREL", "PUBACK", "PUBCOMP"}

\* A PUBLISH without a topic has no handler, and 0 in the table is an entry that is free.
ReadHeader ==
  /\ Waiting /\ net.toClient # <<>> /\ Trouble
  /\ \E s \in {"dead", "closed"}, id \in 0 .. MaxPacketId :
       LET p == Head(net.toClient)
           q == HeaderOnly(p, id)
           taken == Take(client, IF q.type = "PUBLISH" /\ id = 0 THEN NoPacket ELSE q,
                         CanReply(q, Ended(s)))
       IN  /\ Identified(p) \/ id = 0
           /\ Conclude(q, taken, Ended(s))
           /\ seen' = [seen EXCEPT
                !.left = @ \union (taken.incoming \ client.incoming),
                !.again = @ \union
                  {m \in DOMAIN seen.delivered : \E i \in DOMAIN server.pending :
                     /\ server.pending[i].type = "PUBLISH" /\ server.pending[i].what = m
                     /\ server.pending[i].id \in client.incoming \ taken.incoming}]
  /\ UNCHANGED <<script, server>>

\* waitfor: its timer has expired before the answer came.
TimeOut ==
  /\ Waiting /\ ~Yielding
  /\ IF net.state = "up" /\ server.up THEN Trouble ELSE UNCHANGED troubles
  /\ call' = [call EXCEPT !.state = "failed"]
  /\ UNCHANGED <<script, client, net, server, seen>>

\* A timer expires: ping_sent when a ping is not answered, the others when the keep alive
\* interval has passed; a call that a live server answers does not last that long.
Tick ==
  /\ Waiting
  /\ IF Yielding THEN client.isconnected ELSE net.state # "up" \/ ~server.up
  /\ \/ client.ping_outstanding /\ "ping" \notin client.due
        /\ client' = [client EXCEPT !.due = @ \union {"ping"}]
        /\ IF net.state = "up" THEN Trouble ELSE UNCHANGED troubles
     \/ ~client.ping_outstanding /\ client.due \intersect {"sent", "received"} = {}
        /\ \E t \in {"sent", "received"} : client' = [client EXCEPT !.due = @ \union {t}]
        /\ UNCHANGED troubles
  /\ UNCHANGED <<script, call, net, server, seen>>

(***************************************************************************)
(* The ends of the calls.                                                  *)
(***************************************************************************)

Returns == call' = Idle
Answered == call.state = "answered"
Answer == call.answer

\* connect: a publish that was not answered is sent again, whatever the server said.
EndConnect ==
  /\ call.name \in {"connect", "connect!"} /\ call.state \in {"answered", "failed"}
  /\ LET ok == Answered /\ Answer.what = 1
         exits == call.name = "connect!" /\ ~ok
     IN  IF client.inflight = NoPacket
         THEN /\ client' = IF ok THEN [client EXCEPT !.isconnected = TRUE, !.ping_outstanding = FALSE]
                           ELSE client
              /\ script' = IF exits THEN <<>> ELSE script
              /\ Returns /\ UNCHANGED net
         ELSE IF CanSend
         THEN /\ client' = Sent(client)
              /\ net' = OnWire(net, client.inflight)
              /\ Wait("resend", IF client.inflight.qos = 1 THEN "PUBACK" ELSE "PUBCOMP", client.inflight, 0)
              /\ UNCHANGED script
         ELSE client' = closeSession(client) /\ Returns /\ UNCHANGED <<script, net>>
  /\ UNCHANGED <<server, seen, troubles>>

\* Mutant: an answer does not free the stored publish.
EndPublishKept ==
  /\ call.name \in {"publish", "resend"} /\ call.state \in {"answered", "failed"}
  /\ client' = IF ~Answered THEN closeSession(client)
               ELSE IF call.name = "resend" THEN [client EXCEPT !.isconnected = TRUE] ELSE client
  /\ Returns
  /\ UNCHANGED <<script, net, server, seen, troubles>>

\* publish with its answer, and the end of connect after it.
EndPublish ==
  /\ call.name \in {"publish", "resend"} /\ call.state \in {"answered", "failed"}
  /\ IF Answered
     THEN LET freed == [client EXCEPT !.inflight = IF @.id = Answer.id THEN NoPacket ELSE @]
          IN  /\ client' = IF call.name = "publish" THEN freed
                           ELSE [freed EXCEPT !.isconnected = TRUE, !.ping_outstanding = FALSE]
              /\ seen' = [seen EXCEPT !.confirmed = @ \union {call.packet.what}]
     ELSE client' = closeSession(client) /\ UNCHANGED seen
  /\ script' = IF ~Answered /\ call.name = "publish" THEN Unawaited(script, call.packet.qos) ELSE script
  /\ Returns
  /\ UNCHANGED <<net, server, troubles>>

\* subscribe and unsubscribe.  A refused subscription is a success without a handler; a
\* full table is a failure.
EndRequest ==
  /\ call.name \in {"subscribe", "unsubscribe"} /\ call.state \in {"answered", "failed"}
  /\ client' =
       CASE ~Answered -> closeSession(client)
         [] Answered /\ call.name = "unsubscribe" -> setMessageHandler(client, call.packet.what, 0)
         [] Answered /\ call.name = "subscribe" ->
              IF Answer.what = 0 THEN client
              ELSE IF HasSlot(client, call.packet.what)
              THEN setMessageHandler(client, call.packet.what, call.arg)
              ELSE closeSession(client)
  /\ Returns
  /\ UNCHANGED <<script, net, server, seen, troubles>>

EndYield ==
  /\ Yielding
  /\ call.name = "arrive" => Arrivals # call.arg
  /\ call.name = "await" => ~client.isconnected
  /\ Returns
  /\ UNCHANGED <<script, client, net, server, seen, troubles>>

(***************************************************************************)
(* The server and the network.                                             *)
(***************************************************************************)

ToClient(n, packets) == [n EXCEPT !.toServer = Tail(@), !.toClient = @ \o packets]
NewSession(clean) ==
  [up |-> TRUE, clean |-> clean, subs |-> {}, received |-> {}, pending |-> <<>>, nextId |-> 0]
Forward(p, id) == Packet("PUBLISH", id, p.qos, Len(seen.delivered) + 1)

\* A PUBLISH is accepted unless it is one of QoS 2 not yet released; what is accepted is
\* sent to the subscriber.
ServerAccepts(p) ==
  LET new == p.qos = 2 => p.id \notin server.received
      forwarded == new /\ server.subs # {}
      id == IF p.qos = 0 THEN 0 ELSE server.nextId + 1
      ack == CASE p.qos = 0 -> <<>>
               [] p.qos = 1 -> <<Packet("PUBACK", p.id, 0, 0)>>
               [] p.qos = 2 -> <<Packet("PUBREC", p.id, 0, 0)>>
  IN  /\ net' = ToClient(net, ack \o IF forwarded THEN <<Forward(p, id)>> ELSE <<>>)
      /\ server' = [server EXCEPT
           !.received = IF p.qos = 2 THEN @ \union {p.id} ELSE @,
           !.nextId = IF forwarded /\ p.qos # 0 THEN id ELSE @,
           !.pending = IF forwarded /\ p.qos # 0 THEN Append(@, Forward(p, id)) ELSE @]
      /\ seen' = [seen EXCEPT
           !.accepted = IF new THEN @ \union {p.what} ELSE @,
           !.delivered = IF forwarded THEN Append(@, [qos |-> p.qos, times |-> 0]) ELSE @]
      /\ UNCHANGED troubles

Has(pending, id) == \E i \in 1 .. Len(pending) : pending[i].id = id
Place(pending, id) == CHOOSE i \in 1 .. Len(pending) : pending[i].id = id
Without(pending, id) ==
  IF ~Has(pending, id) THEN pending
  ELSE [i \in 1 .. Len(pending) - 1 |-> pending[IF i < Place(pending, id) THEN i ELSE i + 1]]
Released(p) == Packet("PUBREL", p.id, 0, p.what)

ServerReads ==
  /\ net.state = "up" /\ net.toServer # <<>>
  /\ LET p == Head(net.toServer)
         Says(packets, s) == net' = ToClient(net, packets) /\ server' = s /\ UNCHANGED <<seen, troubles>>
     IN  CASE p.type = "CONNECT" ->
                LET new == p.what = 1 \/ server.clean
                    s == IF new THEN NewSession(p.what = 1) ELSE [server EXCEPT !.up = TRUE]
                IN  \/ /\ net' = ToClient(net, <<Packet("CONNACK", 0, 0, 1)>> \o s.pending)
                       /\ server' = s
                       /\ seen' = IF new THEN [seen EXCEPT !.left = client.incoming] ELSE seen
                       /\ UNCHANGED troubles
                    \/ /\ Trouble /\ UNCHANGED <<server, seen>>
                       /\ net' = ToClient(net, <<Packet("CONNACK", 0, 0, 0)>>)
           [] p.type # "CONNECT" /\ ~server.up -> Says(<<>>, server)
           [] server.up /\ p.type = "PUBLISH" -> ServerAccepts(p)
           [] server.up /\ p.type = "PUBREL" ->
                Says(<<Packet("PUBCOMP", p.id, 0, 0)>>, [server EXCEPT !.received = @ \ {p.id}])
           [] server.up /\ p.type \in {"PUBACK", "PUBCOMP"} ->
                Says(<<>>, [server EXCEPT !.pending = Without(@, p.id)])
           [] server.up /\ p.type = "PUBREC" ->
                Says(<<Released(p)>>, [server EXCEPT !.pending =
                  [i \in DOMAIN @ |-> IF @[i].id = p.id THEN Released(p) ELSE @[i]]])
           [] server.up /\ p.type = "SUBSCRIBE" ->
                \/ Says(<<Packet("SUBACK", p.id, 0, 1)>>, [server EXCEPT !.subs = @ \union {p.what}])
                \/ /\ Trouble /\ UNCHANGED <<server, seen>>
                   /\ net' = ToClient(net, <<Packet("SUBACK", p.id, 0, 0)>>)
           [] server.up /\ p.type = "UNSUBSCRIBE" ->
                Says(<<Packet("UNSUBACK", p.id, 0, 0)>>, [server EXCEPT !.subs = @ \ {p.what}])
           [] server.up /\ p.type = "PINGREQ" -> Says(<<Packet("PINGRESP", 0, 0, 0)>>, server)
           [] server.up /\ p.type = "DISCONNECT" -> Says(<<>>, [server EXCEPT !.up = FALSE])
           [] server.up /\ p.type = "TERMINATE" ->
                /\ net' \in [state : {"dead", "closed"}, toServer : {<<>>}, toClient : {net.toClient}]
                /\ UNCHANGED <<server, seen, troubles>>
  /\ UNCHANGED <<script, call, client>>

\* The connection goes silent, or is closed; what is under way is lost, but for what has
\* reached the client of a connection that is closed.
Break ==
  /\ net.state = "up" /\ Trouble
  /\ \/ net' = [state |-> "dead", toServer |-> <<>>, toClient |-> <<>>]
     \/ net' = [net EXCEPT !.state = "closed", !.toServer = <<>>]
  /\ UNCHANGED <<script, call, client, server, seen>>

Calling == Open \/ Close \/ Connect \/ Publish \/ Terminate \/ Subscribe \/ Unsubscribe \/ Disconnect \/ Yield
Cycle == ReadFails \/ CycleIdle \/ CyclePacket
Ending == EndConnect \/ EndPublish \/ EndRequest
Next ==
  \/ Calling \/ Cycle \/ ReadPart \/ ReadHeader \/ TimeOut \/ Tick \/ Ending \/ EndYield \/ ServerReads \/ Break
  \/ script = <<>> /\ call = Idle /\ UNCHANGED vars     \* the application has ended

\* Fairness: the thread of the application runs, timers expire and the server answers.  The
\* application may yield for ever.
Spec ==
  /\ Init /\ [][Next]_vars
  /\ WF_vars(Calling) /\ WF_vars(Cycle) /\ WF_vars(TimeOut) /\ WF_vars(Tick) /\ WF_vars(Ending)
  /\ WF_vars(ServerReads)

(***************************************************************************)
(* Properties.                                                             *)
(***************************************************************************)

\* Types: a call of the application, a client, a connection.
TypeOK ==
  /\ call.state \in {"none", "waiting", "answered", "failed"}
  /\ client.isconnected \in BOOLEAN /\ client.cleansession \in BOOLEAN
  /\ client.ping_outstanding \in BOOLEAN
  /\ client.handlers \in [Filter -> 0 .. 2] /\ client.nextId \in 0 .. MaxPacketId
  /\ client.incoming \subseteq Nat /\ client.due \subseteq {"sent", "received", "ping"}
  /\ Cardinality(client.incoming) <= MaxIncoming
  /\ Cardinality({f \in Filter : client.handlers[f] # 0}) <= MaxHandlers
  /\ net.state \in {"up", "dead", "closed"}
  /\ server.up \in BOOLEAN /\ server.subs \subseteq Filter
  /\ seen.confirmed \subseteq Nat /\ seen.dropped \subseteq DOMAIN seen.delivered
  /\ troubles \in 0 .. MaxTroubles

\* No message of QoS 2 is delivered twice to the application, however often the connection
\* breaks and the server sends it again, unless a PUBREL without its identifier took the one
\* of the message out of the table.
DeliveredOnce ==
  \A n \in DOMAIN seen.delivered :
    seen.delivered[n].qos = 2 => seen.delivered[n].times <= 1 \/ n \in seen.again

\* What the client acknowledges has been delivered, unless there was no room or no handler
\* for it or its identifier was left in the table by a session the server has ended or put
\* there by a PUBLISH without its own: else PUBACK and PUBREC never stand for a message that
\* got lost in the client.
AcknowledgedDelivered ==
  \A i \in DOMAIN net.toServer :
    LET p == net.toServer[i]
    IN  p.type \in {"PUBACK", "PUBREC"} => seen.delivered[p.what].times >= 1
                                         \/ p.what \in seen.dropped \/ p.id \in seen.left

\* A publish that has returned with success, or was sent again by a connect that did, has
\* been accepted by the server.
ConfirmedAccepted == seen.confirmed \subseteq seen.accepted

\* A connected client between two calls has no publish left that the server has not answered.
\* Only a connection that ended behind the header byte of the answer leaves one.
InflightSettled ==
  client.isconnected /\ call = Idle => client.inflight = NoPacket \/ net.state # "up"

\* The client that counts itself connected has been accepted on this connection.
ConnectedAccepted == client.isconnected /\ net.state = "up" /\ net.toServer = <<>> => server.up

\* In a session that is not kept, every subscription of the server has its handler between
\* two calls, so that no message comes for which there is none.
SubscriptionsHandled ==
  client.cleansession /\ client.isconnected /\ server.up /\ call = Idle =>
    server.subs \subseteq {f \in Filter : client.handlers[f] # 0}

\* What cycle promises the server.
DeliveredAsPromised == DeliveredOnce /\ AcknowledgedDelivered

\* What the calls tell the application is so: a publish with success was accepted and is not
\* kept for another time, connected is connected, a subscription has its handler.  It is so
\* also when no more than the header byte of an answer has come: what is wrong then lasts as
\* long as the connection that has ended.
CallsTruthful ==
  TypeOK /\ ConfirmedAccepted /\ InflightSettled /\ ConnectedAccepted /\ SubscriptionsHandled

\* "reconnect with cleansession true to clean up both server and client state"
\* (test/test1.cpp): what the client acknowledges in a clean session, with a handler and
\* room for it, is delivered.  It is not: connect stores the flag and cleans nothing, and an
\* identifier left in the table hides the message of the new session that has it.
CleanedByConnect ==
  client.cleansession /\ client.isconnected =>
    \A i \in DOMAIN net.toServer :
      LET p == net.toServer[i]
      IN  p.type = "PUBREC" => seen.delivered[p.what].times >= 1 \/ p.what \in seen.dropped

\* A connection that is gone is noticed as long as the application yields: a ping stays
\* without an answer, or cannot be sent.
DeadNoticed == (net.state # "up" /\ client.isconnected) ~> ~client.isconnected

\* The sample hello.cpp comes to its end.  It does not when a message is lost: the sample
\* waits for it with a client that is no longer connected.
SampleEnds == <>((script = <<>> /\ call = Idle) \/ call.name = "stay")

\* A publish of QoS 2 is accepted once.  It is not: pubrel is never set, so that the PUBLISH
\* and not the PUBREL is sent again after the server has released the message.
AcceptedOnce ==
  server.up /\ net.toServer # <<>> =>
    LET p == Head(net.toServer)
    IN  p.type = "PUBLISH" /\ p.qos = 2 => p.id \in server.received \/ p.what \notin seen.accepted
=============================================================================
