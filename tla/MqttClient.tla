----------------------------- MODULE MqttClient -----------------------------
(***************************************************************************)
(* The MQTT client: the library (paho_mqtt/MQTTClient-C/src/MQTTClient.c)  *)
(* on its OpenHarmony port, driven by mqtt_task.c: a loop task that calls  *)
(* MQTTYield every second, and one application thread that connects,       *)
(* subscribes, publishes and disconnects.  Both work on one MQTTClient     *)
(* under its mutex; the broker is at the other end of a TCP connection.    *)
(*                                                                         *)
(* cycle(), which reads and handles one packet, is the unit of progress:   *)
(* only the holder of the mutex reads the socket, so one call of it is one *)
(* step, while the network, the broker and the clock go on around it.      *)
(***************************************************************************)
EXTENDS Naturals, Sequences, FiniteSets

CONSTANTS
  Topic,         \* topic filters the application subscribes to
  NoTopic,
  MaxHandlers,   \* MAX_MESSAGE_HANDLERS
  MaxPacketId,   \* MAX_PACKET_ID
  KeepAlive,     \* keepAliveInterval, in ticks of the clock
  PublishQos,    \* the QoS the application publishes with
  Redeliver,     \* whether the broker resends a message it saw no answer to
  QueueBound     \* bound of the model: packets under way in one direction

ASSUME MqttClientAssumption ==
  /\ NoTopic \notin Topic
  /\ MaxHandlers \in Nat \ {0} /\ MaxPacketId \in Nat \ {0}
  /\ KeepAlive \in Nat \ {0} /\ QueueBound \in Nat \ {0}
  /\ PublishQos \subseteq {0, 1, 2} /\ Redeliver \in BOOLEAN

VARIABLES
  isConnected, handlers, pingOut, nextId,   \* MQTTClient
  sentLeft, recvLeft, pingAge,              \* last_sent, last_received; age of the ping
  owner, mutexLive, running,                \* the mutex, the run flag of mqtt_task.c
  loopPc,                                   \* MqttTask
  appPc, req, answer, appUp,                \* the application thread and its call
  sock, toBroker, toClient,                 \* the TCP connection
  alive, subs, outbound,                    \* the broker
  accepted, delivered                       \* history: times the broker took the message
                                            \* of this call, and times the last QoS 2
                                            \* message of the broker was delivered

client == <<isConnected, handlers, pingOut>>
timers == <<sentLeft, recvLeft, pingAge>>
locks  == <<owner, mutexLive, running>>
app    == <<appPc, req, answer, appUp>>
net    == <<sock, toBroker, toClient>>
broker == <<alive, subs, outbound>>
history == <<accepted, delivered>>
vars   == <<client, nextId, timers, locks, loopPc, app, net, broker, history>>

\* Packets carry what the program looks at; code is a QoS or a return code.
Packet(type, id, topic, code) == [type |-> type, id |-> id, topic |-> topic, code |-> code]

SubFail == 128   \* SUBFAIL, 0x80

Request(op, topic, code) == [op |-> op, topic |-> topic, code |-> code, id |-> 0]
NoRequest == Request("none", NoTopic, 0)
NoAnswer  == Packet("none", 0, NoTopic, 0)
Failure   == Packet("fail", 0, NoTopic, 0)

\* MqttTaskInit: NetworkInit, MQTTClientInit, and the loop task is created.
Init ==
  /\ isConnected = FALSE /\ handlers = {} /\ pingOut = FALSE /\ nextId = 1
  /\ sentLeft = 0 /\ recvLeft = 0 /\ pingAge = 0
  /\ owner = "none" /\ mutexLive = TRUE /\ running = TRUE
  /\ loopPc = "check"
  /\ appPc = "idle" /\ req = NoRequest /\ answer = NoAnswer /\ appUp = FALSE
  /\ sock = "closed" /\ toBroker = <<>> /\ toClient = <<>>
  /\ alive = TRUE /\ subs = {} /\ outbound = NoAnswer
  /\ accepted = 0 /\ delivered = 0

(***************************************************************************)
(* The library.                                                            *)
(***************************************************************************)

\* getNextPacketId.
NextPacketId == IF nextId = MaxPacketId THEN 1 ELSE nextId + 1

\* sendPacket succeeds and restarts last_sent.
Sends(p) ==
  /\ sock = "up" /\ Len(toBroker) < QueueBound
  /\ toBroker' = Append(toBroker, p)
  /\ sentLeft' = KeepAlive

\* It fails: the connection is broken, or the time is up before all is sent.
SendFails == UNCHANGED <<toBroker, sentLeft>>

\* Mutant: the handlers are kept.
CloseSessionKeeps ==
  /\ isConnected' = FALSE /\ pingOut' = FALSE
  /\ UNCHANGED handlers

\* MQTTCloseSession, with cleansession as MqttTaskConnect leaves it, set.
CloseSession == isConnected' = FALSE /\ pingOut' = FALSE /\ handlers' = {}

\* The failure exit of cycle(); out is ping_outstanding at this point.
CycleFails(out, rc) ==
  /\ rc = Failure
  /\ IF isConnected THEN CloseSession
     ELSE pingOut' = out /\ UNCHANGED <<isConnected, handlers>>

Ping == Packet("PINGREQ", 0, NoTopic, 0)

\* keepalive(): when a timer has expired, the last ping must have been answered
\* and another one is sent.
Keepalive(due, out, rc, result) ==
  \/ /\ ~due
     /\ rc = result /\ pingOut' = out
     /\ UNCHANGED <<isConnected, handlers, toBroker, sentLeft, pingAge>>
  \/ /\ due /\ out
     /\ CycleFails(out, rc)
     /\ UNCHANGED <<toBroker, sentLeft, pingAge>>
  \/ /\ due /\ ~out
     /\ Sends(Ping) /\ pingAge' = 0
     /\ rc = result /\ pingOut' = TRUE
     /\ UNCHANGED <<isConnected, handlers>>
  \/ /\ due /\ ~out
     /\ SendFails /\ UNCHANGED pingAge
     /\ CycleFails(out, rc)

\* Mutant: nothing read, nothing done.
CycleIdleQuiet(rc) ==
  /\ toClient = <<>> /\ sock = "up"
  /\ rc = NoAnswer
  /\ UNCHANGED <<client, toBroker, timers, toClient, delivered>>

\* cycle() reads nothing: time is up.  A connection the peer has closed looks
\* the same, since NetworkRead returns 0 for it.
CycleIdle(rc) ==
  /\ toClient = <<>> /\ sock = "up"
  /\ Keepalive(sentLeft = 0 \/ recvLeft = 0, pingOut, rc, NoAnswer)
  /\ UNCHANGED <<toClient, recvLeft, delivered>>

\* recv() reports an error.
CycleError(rc) ==
  /\ sock # "up"
  /\ CycleFails(pingOut, rc)
  /\ UNCHANGED <<toBroker, toClient, timers, delivered>>

\* What a packet that needs an answer is answered with.
Answer(p) ==
  CASE p.type = "PUBLISH" /\ p.code = 1 -> "PUBACK"
    [] p.type = "PUBLISH" /\ p.code = 2 -> "PUBREC"
    [] p.type = "PUBREC" -> "PUBREL"
    [] p.type = "PUBREL" -> "PUBCOMP"
    [] OTHER -> "none"

\* cycle() reads a packet: deliverMessage, the answer or the PINGRESP, and then
\* keepalive; after an answer that was sent both timers are fresh.
CyclePacket(rc) ==
  LET p == Head(toClient)
      out == pingOut /\ p.type # "PINGRESP" IN
  /\ toClient # <<>> /\ sock = "up"
  /\ toClient' = Tail(toClient)
  /\ recvLeft' = KeepAlive
  /\ delivered' = IF p.type = "PUBLISH" /\ p.code = 2 /\ p.topic \in handlers
                    THEN delivered + 1 ELSE delivered
  /\ \/ /\ Answer(p) # "none"
        /\ \/ Sends(Packet(Answer(p), p.id, NoTopic, 0)) /\ rc = p /\ UNCHANGED client
           \/ SendFails /\ CycleFails(out, rc)
        /\ UNCHANGED pingAge
     \/ /\ Answer(p) = "none"
        /\ Keepalive(sentLeft = 0, out, rc, p)

Cycle(rc) ==
  /\ CycleIdle(rc) \/ CycleError(rc) \/ CyclePacket(rc)
  /\ UNCHANGED <<sock, nextId, accepted>>

(***************************************************************************)
(* MqttTask, the loop of mqtt_task.c.                                      *)
(***************************************************************************)

\* A deleted mutex is not waited for.
CanLock == owner = "none" \/ ~mutexLive

\* The run flag is read under the mutex.
LoopCheck ==
  /\ loopPc = "check" /\ CanLock
  /\ loopPc' = IF running THEN "enter" ELSE "exit"
  /\ UNCHANGED <<client, nextId, timers, locks, app, net, broker, history>>

\* Mutant: the mutex is not taken for MQTTYield.
LoopEnterUnlocked ==
  /\ loopPc = "enter"
  /\ loopPc' = IF isConnected THEN "cycle" ELSE "check"
  /\ UNCHANGED <<client, nextId, timers, locks, app, net, broker, history>>

\* The mutex is taken again, and kept if there is a connection to look after.
LoopEnter ==
  /\ loopPc = "enter" /\ CanLock
  /\ IF isConnected
       THEN loopPc' = "cycle" /\ owner' = IF mutexLive THEN "loop" ELSE owner
       ELSE loopPc' = "check" /\ UNCHANGED owner
  /\ UNCHANGED <<client, nextId, timers, mutexLive, running, app, net, broker, history>>

\* Mutant: the mutex is kept when MQTTYield has failed.
LoopCycleKeeps ==
  /\ loopPc = "cycle"
  /\ \E rc \in {Failure, NoAnswer} \union {toClient[1] : i \in 1 .. Len(toClient)} :
       /\ Cycle(rc)
       /\ \/ rc # Failure /\ UNCHANGED <<loopPc, owner>>
          \/ /\ loopPc' = "check"
             /\ owner' = IF owner = "loop" /\ rc # Failure THEN "none" ELSE owner
  /\ UNCHANGED <<mutexLive, running, app, broker>>

\* MQTTYield: cycle() once or more, until a failure or the end of its time.
LoopCycle ==
  /\ loopPc = "cycle"
  /\ \E rc \in {Failure, NoAnswer} \union {toClient[1] : i \in 1 .. Len(toClient)} :
       /\ Cycle(rc)
       /\ \/ rc # Failure /\ UNCHANGED <<loopPc, owner>>
          \/ /\ loopPc' = "check"
             /\ owner' = IF owner = "loop" THEN "none" ELSE owner
  /\ UNCHANGED <<mutexLive, running, app, broker>>

Loop == LoopCheck \/ LoopEnter \/ LoopCycle

(***************************************************************************)
(* The application thread.                                                 *)
(***************************************************************************)

\* A call begins.  MqttTaskConnect is called when the last call has failed or
\* there has been none, the others at any time.
AppCall(r) ==
  /\ appPc = "idle"
  /\ r.op = "connect" => ~appUp
  /\ req' = r
  /\ appPc' = CASE r.op = "connect" -> "network" [] r.op = "deinit" -> "stop" [] OTHER -> "lock"
  /\ UNCHANGED <<client, nextId, timers, locks, loopPc, answer, appUp, net, broker, history>>

\* Mutant: a socket that is still open is used again.
NetworkConnectAgain ==
  /\ IF sock = "up" THEN UNCHANGED <<net, subs, outbound>>
     ELSE /\ sock' = "up" /\ toBroker' = <<>> /\ toClient' = <<>>
          /\ subs' = {} /\ outbound' = NoAnswer
  /\ UNCHANGED alive

\* NetworkConnect makes a new socket; the old one is forgotten, not closed.  The
\* broker begins with a clean session.
NetworkConnect ==
  /\ sock' = "up" /\ toBroker' = <<>> /\ toClient' = <<>>
  /\ subs' = {} /\ outbound' = NoAnswer
  /\ UNCHANGED alive

\* MqttTaskConnect first connects the socket, outside the mutex; when the name
\* is not found the old socket stays, when the connection fails a new one does.
AppNetwork ==
  /\ appPc = "network"
  /\ \/ NetworkConnect /\ appPc' = "lock" /\ UNCHANGED <<appUp, req>>
     \/ /\ \/ UNCHANGED net
           \/ sock' = "closed" /\ toBroker' = <<>> /\ toClient' = <<>>
        /\ appPc' = "idle" /\ appUp' = FALSE /\ req' = NoRequest
        /\ UNCHANGED broker
  /\ UNCHANGED <<client, nextId, timers, locks, loopPc, answer, history>>

\* The packet a call sends, with the identifier taken for it.
RequestPacket ==
  CASE req.op = "connect"     -> Packet("CONNECT", 0, NoTopic, 0)
    [] req.op = "subscribe"   -> Packet("SUBSCRIBE", nextId', req.topic, 2)
    [] req.op = "unsubscribe" -> Packet("UNSUBSCRIBE", nextId', req.topic, 0)
    [] req.op = "publish"     -> Packet("PUBLISH", IF req.code = 0 THEN 0 ELSE nextId', NoTopic, req.code)
    [] req.op = "disconnect"  -> Packet("DISCONNECT", 0, NoTopic, 0)

\* Mutant: the second answer of a QoS 2 publication is not waited for.
WantedEarly ==
  CASE req.op = "connect"     -> "CONNACK"
    [] req.op = "subscribe"   -> "SUBACK"
    [] req.op = "unsubscribe" -> "UNSUBACK"
    [] req.op = "publish" /\ req.code = 1 -> "PUBACK"
    [] req.op = "publish" /\ req.code = 2 -> "PUBREC"
    [] OTHER -> "none"

\* What a call waits for.
Wanted ==
  CASE req.op = "connect"     -> "CONNACK"
    [] req.op = "subscribe"   -> "SUBACK"
    [] req.op = "unsubscribe" -> "UNSUBACK"
    [] req.op = "publish" /\ req.code = 1 -> "PUBACK"
    [] req.op = "publish" /\ req.code = 2 -> "PUBCOMP"
    [] OTHER -> "none"

NeedsId == req.op \in {"subscribe", "unsubscribe"} \/ (req.op = "publish" /\ req.code > 0)

\* The call takes the mutex and sends its packet.
AppSend ==
  /\ appPc = "lock" /\ owner = "none"
  /\ IF req.op = "connect" THEN ~isConnected ELSE isConnected \/ req.op = "disconnect"
  /\ owner' = "app"
  /\ nextId' = IF NeedsId THEN NextPacketId ELSE nextId
  /\ req' = [req EXCEPT !.id = RequestPacket.id]
  /\ recvLeft' = IF req.op = "connect" THEN KeepAlive ELSE recvLeft
  /\ \/ /\ Sends(RequestPacket)
        /\ appPc' = IF Wanted = "none" THEN "done" ELSE "wait"
        /\ UNCHANGED answer
     \/ /\ SendFails
        /\ appPc' = "done" /\ answer' = Failure
  /\ UNCHANGED <<client, pingAge, mutexLive, running, loopPc, appUp, sock, toClient, broker, history>>

\* Without a connection the call fails; MQTTConnect fails with one.
AppRefused ==
  /\ appPc = "lock" /\ owner = "none"
  /\ IF req.op = "connect" THEN isConnected ELSE ~isConnected /\ req.op # "disconnect"
  /\ owner' = "app"
  /\ appPc' = "done" /\ answer' = Failure
  /\ UNCHANGED <<client, nextId, timers, mutexLive, running, loopPc, req, appUp, net, broker, history>>

\* Mutant: the first packet read is taken for the answer.
AppWaitAny ==
  /\ appPc = "wait"
  /\ \E rc \in {Failure, NoAnswer} \union {toClient[1] : i \in 1 .. Len(toClient)} :
       /\ Cycle(rc)
       /\ IF rc # NoAnswer
            THEN answer' = rc /\ appPc' = "done"
            ELSE UNCHANGED <<answer, appPc>>
  /\ UNCHANGED <<locks, loopPc, req, appUp, broker>>

\* waitfor: cycle() until the packet wanted, a failure, ...
AppWait ==
  /\ appPc = "wait"
  /\ \E rc \in {Failure, NoAnswer} \union {toClient[1] : i \in 1 .. Len(toClient)} :
       /\ Cycle(rc)
       /\ IF rc.type \in {Wanted, "fail"}
            THEN answer' = rc /\ appPc' = "done"
            ELSE UNCHANGED <<answer, appPc>>
  /\ UNCHANGED <<locks, loopPc, req, appUp, broker>>

\* ... or the end of the time for the command.
AppExpired ==
  /\ appPc = "wait"
  /\ answer' = Failure /\ appPc' = "done"
  /\ UNCHANGED <<client, nextId, timers, locks, loopPc, req, appUp, net, broker, history>>

\* MQTTSetMessageHandler finds the slot of the topic, or an empty one.
HasSlot == req.topic \in handlers \/ Cardinality(handlers) < MaxHandlers

\* Whether the call has failed: no answer, a refused connection, no slot.
Failed ==
  \/ answer = Failure
  \/ req.op = "connect" /\ answer.code # 0
  \/ req.op = "subscribe" /\ answer.code # SubFail /\ ~HasSlot

\* The handler table after a call that has not failed.
HandlersAfter ==
  CASE req.op = "subscribe" /\ answer.code # SubFail -> handlers \union {req.topic}
    [] req.op = "unsubscribe" -> handlers \ {req.topic}
    [] OTHER -> handlers

\* The rest of the call: its effect, or MQTTCloseSession; the mutex is released.
AppDone ==
  /\ appPc = "done" /\ req.op # "disconnect"
  /\ IF ~Failed
       THEN /\ isConnected' = (isConnected \/ req.op = "connect")
            /\ pingOut' = (pingOut /\ req.op # "connect")
            /\ handlers' = HandlersAfter
     ELSE IF req.op = "connect" THEN UNCHANGED client ELSE CloseSession
  /\ appUp' = ~Failed
  /\ owner' = "none" /\ appPc' = "idle"
  /\ req' = NoRequest /\ answer' = NoAnswer /\ accepted' = 0
  /\ UNCHANGED <<nextId, timers, mutexLive, running, loopPc, net, broker, delivered>>

\* MqttTaskDisconnect: the socket is closed only if the packet could be sent.
AppDisconnect ==
  /\ appPc = "done" /\ req.op = "disconnect"
  /\ CloseSession
  /\ sock' = IF answer = Failure THEN sock ELSE "closed"
  /\ appUp' = FALSE
  /\ owner' = "none" /\ appPc' = "idle" /\ req' = NoRequest /\ answer' = NoAnswer
  /\ toBroker' = (IF answer = Failure THEN toBroker ELSE <<>>)
  /\ toClient' = (IF answer = Failure THEN toClient ELSE <<>>)
  /\ UNCHANGED <<nextId, timers, mutexLive, running, loopPc, broker, history>>

\* MqttTaskDeinit clears the run flag under the mutex and deletes the mutex,
\* which fails if the loop task has taken it meanwhile.
AppStop ==
  /\ appPc = "stop" /\ owner = "none"
  /\ running' = FALSE
  /\ appPc' = "delete"
  /\ UNCHANGED <<client, nextId, timers, owner, mutexLive, loopPc, req, answer, appUp, net, broker, history>>

AppDelete ==
  /\ appPc = "delete"
  /\ mutexLive' = (owner # "none")
  /\ appPc' = "off"
  /\ UNCHANGED <<client, nextId, timers, owner, running, loopPc, req, answer, appUp, net, broker, history>>

Requests ==
  {Request(op, NoTopic, 0) : op \in {"connect", "disconnect", "deinit"}}
    \union {Request(op, t, 0) : op \in {"subscribe", "unsubscribe"}, t \in Topic}
    \union {Request("publish", NoTopic, q) : q \in PublishQos}

AppStep ==
  AppNetwork \/ AppSend \/ AppRefused \/ AppWait \/ AppExpired \/ AppDone
    \/ AppDisconnect \/ AppStop \/ AppDelete

(***************************************************************************)
(* The broker, the connection and the clock.                               *)
(***************************************************************************)

\* Replies to a packet of the client: {} when there is none to choose.
Replies(p) ==
  CASE p.type = "CONNECT"     -> {Packet("CONNACK", 0, NoTopic, c) : c \in {0, 1}}
    [] p.type = "SUBSCRIBE"   -> {Packet("SUBACK", p.id, p.topic, c) : c \in {p.code, SubFail}}
    [] p.type = "UNSUBSCRIBE" -> {Packet("UNSUBACK", p.id, p.topic, 0)}
    [] p.type = "PUBLISH" /\ p.code = 1 -> {Packet("PUBACK", p.id, NoTopic, 0)}
    [] p.type = "PUBLISH" /\ p.code = 2 -> {Packet("PUBREC", p.id, NoTopic, 0)}
    [] p.type = "PUBREL"      -> {Packet("PUBCOMP", p.id, NoTopic, 0)}
    [] p.type = "PUBREC" /\ outbound.type # "PUBREL" -> {Packet("PUBREL", p.id, NoTopic, 0)}
    [] p.type = "PINGREQ"     -> {Packet("PINGRESP", 0, NoTopic, 0)}
    [] OTHER -> {}

\* The broker takes the next packet and answers it.
BrokerHandles ==
  LET p == Head(toBroker) IN
  /\ alive /\ sock = "up" /\ toBroker # <<>> /\ Len(toClient) < QueueBound
  /\ toBroker' = Tail(toBroker)
  /\ \/ /\ Replies(p) = {}
        /\ UNCHANGED <<toClient, subs>>
     \/ \E r \in Replies(p) :
          /\ toClient' = Append(toClient, r)
          /\ subs' = IF p.type = "SUBSCRIBE" /\ r.code # SubFail THEN subs \union {p.topic}
                     ELSE IF p.type = "UNSUBSCRIBE" THEN subs \ {p.topic}
                     ELSE subs
  /\ accepted' = IF p.type = "PUBREL" \/ (p.type = "PUBLISH" /\ p.code = 1)
                    THEN accepted + 1 ELSE accepted
  /\ outbound' = CASE p.type = "PUBCOMP" -> NoAnswer
                   [] p.type = "PUBREC" -> [outbound EXCEPT !.type = "PUBREL"]
                   [] OTHER -> outbound
  /\ UNCHANGED <<client, nextId, timers, locks, loopPc, app, sock, alive, delivered>>

\* The broker sends a message to a subscriber, one at a time.
BrokerPublishes ==
  /\ alive /\ sock = "up" /\ Len(toClient) < QueueBound
  /\ outbound = NoAnswer
  /\ \E t \in subs, q \in {0, 2} :
       LET m == Packet("PUBLISH", 1, t, q) IN
       /\ toClient' = Append(toClient, m)
       /\ outbound' = IF q = 0 THEN NoAnswer ELSE m
  /\ delivered' = IF outbound' = NoAnswer THEN delivered ELSE 0
  /\ UNCHANGED <<client, nextId, timers, locks, loopPc, app, sock, toBroker, alive, subs, accepted>>

\* MQTT 3.1, which the client asks for: a message without an answer is resent.
BrokerResends ==
  /\ Redeliver /\ alive /\ sock = "up" /\ Len(toClient) < QueueBound
  /\ outbound.type = "PUBLISH"
  /\ toClient' = Append(toClient, outbound)
  /\ outbound' = [outbound EXCEPT !.type = "RESENT"]
  /\ UNCHANGED <<client, nextId, timers, locks, loopPc, app, sock, toBroker, alive, subs, history>>

\* The broker falls silent, or the connection breaks.
BrokerDies ==
  /\ alive' = FALSE /\ alive
  /\ UNCHANGED <<client, nextId, timers, locks, loopPc, app, net, subs, outbound, history>>

LinkBreaks ==
  /\ sock = "up"
  /\ sock' = "reset" /\ toBroker' = <<>> /\ toClient' = <<>>
  /\ UNCHANGED <<client, nextId, timers, locks, loopPc, app, broker, history>>

Tick ==
  /\ sentLeft + recvLeft > 0 \/ pingAge < KeepAlive
  /\ sentLeft' = IF sentLeft = 0 THEN 0 ELSE sentLeft - 1
  /\ recvLeft' = IF recvLeft = 0 THEN 0 ELSE recvLeft - 1
  /\ pingAge' = IF pingAge < KeepAlive THEN pingAge + 1 ELSE pingAge
  /\ UNCHANGED <<client, nextId, locks, loopPc, app, net, broker, history>>

Environment == BrokerHandles \/ BrokerPublishes \/ BrokerResends \/ BrokerDies \/ LinkBreaks \/ Tick

Next == Loop \/ (\E r \in Requests : AppCall(r)) \/ AppStep \/ Environment

\* Both threads run, and a thread that waits for the mutex gets it: LiteOS hands
\* it to the waiting threads in order.  A command's time runs out, and the clock
\* goes on; the broker and the application owe nothing.
Fairness ==
  /\ SF_vars(LoopCheck) /\ SF_vars(LoopEnter) /\ WF_vars(LoopCycle /\ loopPc' # loopPc)
  /\ SF_vars(AppStep) /\ WF_vars(AppExpired) /\ WF_vars(Tick)

Spec == Init /\ [][Next]_vars

FairSpec == Spec /\ Fairness

(***************************************************************************)
(* Properties.                                                             *)
(***************************************************************************)

Packets ==
  [type : {"none", "fail", "CONNECT", "CONNACK", "SUBSCRIBE", "SUBACK", "UNSUBSCRIBE", "UNSUBACK",
           "PUBLISH", "PUBACK", "PUBREC", "PUBREL", "PUBCOMP", "PINGREQ", "PINGRESP",
           "DISCONNECT", "RESENT"},
   id : 0 .. MaxPacketId, topic : Topic \union {NoTopic}, code : {0, 1, 2, SubFail}]

\* Types; a packet identifier in use is never 0 and fits its field, and the
\* handler table is not overrun.
TypeOK ==
  /\ isConnected \in BOOLEAN /\ pingOut \in BOOLEAN
  /\ handlers \subseteq Topic /\ Cardinality(handlers) <= MaxHandlers
  /\ nextId \in 1 .. MaxPacketId
  /\ {sentLeft, recvLeft, pingAge} \subseteq 0 .. KeepAlive
  /\ owner \in {"none", "loop", "app"} /\ mutexLive \in BOOLEAN /\ running \in BOOLEAN
  /\ loopPc \in {"check", "enter", "cycle", "exit"}
  /\ appPc \in {"idle", "network", "lock", "wait", "done", "stop", "delete", "off"}
  /\ req \in [op : {"none", "connect", "disconnect", "deinit", "subscribe", "unsubscribe", "publish"},
              topic : Topic \union {NoTopic}, code : {0, 1, 2}, id : 0 .. MaxPacketId]
  /\ answer \in Packets /\ appUp \in BOOLEAN
  /\ sock \in {"closed", "up", "reset"}
  /\ {toBroker, toClient} \subseteq Seq(Packets)
  /\ Len(toBroker) <= QueueBound /\ Len(toClient) <= QueueBound
  /\ alive \in BOOLEAN /\ subs \subseteq Topic /\ outbound \in Packets
  /\ accepted \in 0 .. 1 /\ delivered \in 0 .. 2

\* MQTTYield and a call of the application never work on the client at the same
\* time: whoever is inside the library holds the mutex (MqttTask, MQTTPublish).
\* The loop may outlive the mutex when the task is being stopped.  Nor does it leave
\* a variable outside its type, the identifier of the next packet among them.
OneInside ==
  /\ TypeOK
  /\ loopPc = "cycle" /\ mutexLive => owner = "loop"
  /\ appPc \in {"wait", "done"} => owner = "app"

\* Between calls, a connected client has a handler for exactly the topics the
\* broker would send it, whatever was lost, refused or timed out before
\* (MQTTSubscribe, MQTTUnsubscribe, MQTTCloseSession, MqttTaskConnect).
SubscriptionsAgree ==
  isConnected /\ appPc \notin {"wait", "done"} => handlers = subs

\* When MQTTPublish is about to report success for QoS 1 or 2, the broker has
\* taken the message, and has taken it once.
PublishAccepted ==
  appPc = "done" /\ req.op = "publish" /\ req.code > 0 /\ ~Failed => accepted = 1

\* The answer a call succeeds with is the answer to its own packet, though
\* waitfor compares packet types only: one left over from a call that timed out
\* is never taken for it (MQTTUnsubscribe says "should be the same").
AnswerIsOurs ==
  appPc = "done" /\ NeedsId /\ answer # Failure => answer.id = req.id

\* No message is dropped for want of a handler: a PUBLISH for a topic the broker
\* has subscribed, read by a connected client that is not changing its
\* subscriptions, has its handler (deliverMessage, MQTTSetMessageHandler).
MessageHasHandler ==
  [][ toClient # <<>> /\ toClient' = Tail(toClient) /\ sock = "up" /\ sock' = "up"
        /\ (appPc = "wait" => req.op = "publish") /\ isConnected
        /\ Head(toClient).type = "PUBLISH" /\ Head(toClient).topic \in subs
      => Head(toClient).topic \in handlers ]_vars

\* A broker that has fallen silent is noticed, as long as the loop task runs:
\* the client does not stay connected to it (keepalive).
DeadPeerNoticed == (<>[]~alive /\ []running) => <>[]~isConnected

\* Every call of the application returns, whatever the broker does (waitfor).
CallReturns == appPc # "idle" ~> appPc \in {"idle", "off"}

\* MqttTaskDeinit ends the loop task.
TaskEnds == ~running ~> loopPc = "exit"

\* Neither the application nor the loop task is left waiting (MQTTPublish, MqttTask).
NobodyHangs == CallReturns /\ TaskEnds

\* mqtt_task.c after MQTTSubscribe: "subscribed successfully, return 0"; the
\* topic then has its handler.
SubscribedHasHandler ==
  [][ appPc = "done" /\ appPc' = "idle" /\ req.op = "subscribe" /\ ~Failed
      => req.topic \in handlers' ]_vars

\* MQTTClient.c in keepalive: the connection is given up when the "PINGRESP [was]
\* not received in keepalive interval", so an outstanding ping has had that long.
PingGetsInterval ==
  [][ loopPc = "cycle" /\ sock = "up" /\ toClient = <<>> /\ pingOut
        /\ isConnected /\ ~isConnected'
      => pingAge = KeepAlive ]_vars

\* mqtt_task.c in MqttTaskPublish: QoS 2 makes "sure that the subscriber receives
\* the message only once".
DeliveredOnce == delivered <= 1
=============================================================================
