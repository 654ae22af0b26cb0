------------------------------- MODULE MqttApp -------------------------------
(***************************************************************************)
(* The applications on the MQTT task: mqtt_demo, the sensors that report   *)
(* every second (mqtt_gas_sensor, mqtt_human_sensor, mqtt_light_sensor,    *)
(* mqtt_temp-humi_sensor), the lamp and the screen that obey commands      *)
(* (mqtt_light, mqtt_oled).  The client below them is MqttClient; here a   *)
(* call of mqtt_task.c succeeds, or fails and has closed the session.      *)
(* What the handlers make of a payload depends on the buffer it lies in,   *)
(* which keeps the end of earlier packets and no terminating zero.         *)
(***************************************************************************)
EXTENDS Naturals, Sequences, FiniteSets

CONSTANTS
  App,        \* applications of the images
  Command,    \* payloads that are published to the board
  BufferLen,  \* characters of the payload in readbuf (512 in the code)
  MaxMessage  \* bound: messages to the board

VARIABLES
  app,        \* the application of the image
  pc,         \* where its task is
  online,     \* whether the hotspot is joined
  socket,     \* whether the network connection is open
  connected,  \* client.isconnected
  subscribed,
  fresh,      \* whether the last report has reached the broker
  measured,   \* whether its value was read from the sensor
  inbox,      \* messages under way to the board
  sent,       \* messages published to it
  readbuf,    \* the payload and what lies behind it
  longest,    \* length of the longest payload so far
  lamp,       \* the lamps, red, green and yellow
  display     \* the lines on the screen

client == <<online, socket, connected, subscribed>>
board == <<readbuf, longest, lamp, display>>
vars == <<app, pc, client, fresh, measured, inbox, sent, board>>

\* Characters: digits, the two separators, the terminating zero and any other.
Comma == 10
Bar == 11
Zero == 12
Letter == 13
Sensor == {"gas", "human", "light_sensor", "temp_humi"}
Obeying == {"light", "oled"}

Init ==
  /\ app \in App /\ pc = "hotspot"
  /\ online = FALSE /\ socket = FALSE /\ connected = FALSE /\ subscribed = FALSE
  /\ fresh = FALSE /\ measured = FALSE /\ inbox = <<>> /\ sent = 0
  /\ readbuf = [i \in 1 .. BufferLen |-> Zero] /\ longest = 0
  /\ lamp = [c \in 1 .. 3 |-> FALSE] /\ display = <<>>

(***************************************************************************)
(* mqttDemoTask.                                                           *)
(***************************************************************************)

Goes(from, to) == pc = from /\ pc' = to /\ UNCHANGED <<app, inbox, sent, board>>
\* A call that fails has closed the session: CloseSession clears isconnected and the handlers.
Closed == connected' = FALSE /\ subscribed' = FALSE /\ UNCHANGED <<online, socket>>

\* ConnectToHotspot waits for the link without a time-out, for ever if it never comes; with
\* the link up it gives back the netId, or -1 when there is none, and then the task returns.
JoinHotspot ==
  /\ \/ Goes("hotspot", "waiting") /\ UNCHANGED online
     \/ Goes("hotspot", "ended") /\ online' = TRUE
     \/ Goes("hotspot", "init") /\ online' = TRUE
  /\ UNCHANGED <<socket, connected, subscribed, fresh, measured>>

\* The client is cleared and its thread started.
MqttTaskInit == Goes("init", "connect") /\ UNCHANGED <<client, fresh, measured>>

\* NetworkConnect, then MQTTConnect; both report failure with -1.
MqttTaskConnect ==
  /\ \/ Goes("connect", "ended") /\ socket' \in BOOLEAN /\ UNCHANGED connected
     \/ /\ Goes("connect", IF app \in Sensor THEN "online" ELSE "subscribe")
        /\ socket' = TRUE /\ connected' = TRUE
  /\ UNCHANGED <<online, subscribed, fresh, measured>>

\* A failed subscription ends the task.
MqttTaskSubscribe ==
  /\ \/ Goes("subscribe", "ended") /\ Closed
     \/ Goes("subscribe", "online") /\ connected /\ subscribed' = TRUE
        /\ UNCHANGED <<online, socket, connected>>
  /\ UNCHANGED <<fresh, measured>>

\* The message that says the board is there; its failure ends the task of the light and of
\* the screen, the others only print it.
PublishOnline ==
  /\ \/ /\ Goes("online", IF app \in Sensor THEN "loop" ELSE "ended")
        /\ connected /\ UNCHANGED client
     \/ /\ Goes("online", IF app \in Sensor THEN "loop" ELSE "ended")
        /\ Closed
  /\ UNCHANGED <<fresh, measured>>

\* GetGasLevel, GetHuman, GetLightLevel: a failed conversion is a 0, which the report does
\* not tell from a level of 0.  The temperature is not reported unless it was measured.
GetLevel == IF app = "temp_humi" THEN {TRUE} ELSE BOOLEAN
\* The loop of a sensor: a report every second, whether the last one failed or not.
PublishReport ==
  /\ \/ /\ Goes("loop", "delay") /\ connected /\ measured' \in GetLevel
        /\ fresh' = TRUE /\ UNCHANGED client
     \/ Goes("loop", "delay") /\ Closed /\ fresh' = FALSE /\ UNCHANGED measured
     \/ Goes("loop", "delay") /\ app = "temp_humi" /\ UNCHANGED <<client, fresh, measured>>
Delay == Goes("delay", "loop") /\ fresh' = FALSE /\ UNCHANGED <<client, measured>>

\* The programs: one that says something once, two that wait for commands and four that
\* report.
Commanded ==
  JoinHotspot \/ MqttTaskInit \/ MqttTaskConnect \/ MqttTaskSubscribe \/ PublishOnline
Reporting ==
  JoinHotspot \/ MqttTaskInit \/ MqttTaskConnect \/ PublishOnline \/ PublishReport \/ Delay
mqtt_demo == app = "demo" /\ Commanded
mqtt_light == app = "light" /\ Commanded
mqtt_oled == app = "oled" /\ Commanded
mqtt_gas_sensor == app = "gas" /\ Reporting
mqtt_human_sensor == app = "human" /\ Reporting
mqtt_light_sensor == app = "light_sensor" /\ Reporting
mqtt_temp_humi_sensor == app = "temp_humi" /\ Reporting

Task ==
  \/ mqtt_demo \/ mqtt_light \/ mqtt_oled
  \/ mqtt_gas_sensor \/ mqtt_human_sensor \/ mqtt_light_sensor \/ mqtt_temp_humi_sensor

(***************************************************************************)
(* OnMessageArrived, called in either thread with the mutex held.          *)
(***************************************************************************)

\* The payload in the buffer: what is behind it stays.
Stored(m) == [i \in 1 .. BufferLen |-> IF i <= Len(m) THEN m[i] ELSE readbuf[i]]
Buffers == [1 .. BufferLen -> Nat]
\* The text a C function sees from position i: up to a zero or a separator.
Token[b \in Buffers, sep \in {Comma, Bar}, i \in 1 .. BufferLen] ==
  IF i = BufferLen \/ b[i] \in {Zero, sep} THEN <<>> ELSE <<b[i]>> \o Token[b, sep, i + 1]
\* atoi: the digits at the start.
Atoi[t \in Seq(Nat), value \in Nat] ==
  IF t = <<>> \/ Head(t) > 9 THEN value ELSE Atoi[Tail(t), value * 10 + Head(t)]

\* strtok: from position i, leading separators are skipped; what it returns ends at the
\* next one, which it overwrites.
Start(b, sep, i) == CHOOSE j \in i .. BufferLen :
  /\ b[j] # sep \/ j = BufferLen
  /\ \A k \in i .. j - 1 : b[k] = sep
First(b) == Start(b, Comma, 1)
AfterFirst(b) == First(b) + Len(Token[b, Comma, First(b)])
Second(b) == IF AfterFirst(b) = BufferLen \/ b[AfterFirst(b)] = Zero THEN BufferLen
             ELSE Start(b, Comma, AfterFirst(b) + 1)
Color(b) == Atoi[Token[b, Comma, First(b)], 0]
State(b) == Atoi[Token[b, Comma, Second(b)], 0]
Cut(b) == [i \in 1 .. BufferLen |-> IF b[i] = Comma /\ i \in {AfterFirst(b),
             Second(b) + Len(Token[b, Comma, Second(b)])} THEN Zero ELSE b[i]]

\* A colour or a state of 0 is an invalid command; any state but 1 lights the lamp.
SetTrafficLight(color, state) ==
  IF color \in 1 .. 3 /\ state # 0 THEN [lamp EXCEPT ![color] = state # 1] ELSE lamp

\* Mutant: the screen prints the buffer and not the copy of the payload.
LinesUncut(b, n) ==
  LET Rest[i \in 1 .. BufferLen] ==
        IF i = BufferLen \/ b[i] = Zero THEN <<>>
        ELSE IF b[i] = Bar THEN Rest[i + 1]
        ELSE LET t == Token[b, Bar, i] IN <<t>> \o Rest[i + Len(t)]
  IN  Rest[1]
\* The screen copies the payload, ends it and prints the parts between the bars.
Lines(b, n) ==
  LET copy == [i \in 1 .. BufferLen |-> IF i <= n THEN b[i] ELSE Zero]
      Rest[i \in 1 .. BufferLen] ==
        IF i = BufferLen \/ copy[i] = Zero THEN <<>>
        ELSE IF copy[i] = Bar THEN Rest[i + 1]
        ELSE LET t == Token[copy, Bar, i] IN <<t>> \o Rest[i + Len(t)]
  IN  Rest[1]

OnMessageArrived ==
  /\ inbox # <<>> /\ connected /\ subscribed
  /\ inbox' = Tail(inbox)
  /\ LET m == Head(inbox)
         b == Stored(m)
     IN  /\ longest' = IF Len(m) > longest THEN Len(m) ELSE longest
         /\ readbuf' = IF app = "light" THEN Cut(b) ELSE b
         /\ lamp' = IF app = "light" THEN SetTrafficLight(Color(b), State(b)) ELSE lamp
         /\ display' = IF app = "oled" THEN Lines(b, Len(m)) ELSE display
  /\ UNCHANGED <<app, pc, client, fresh, measured, sent>>

(***************************************************************************)
(* The broker and the network.                                             *)
(***************************************************************************)

Publish ==
  /\ subscribed /\ app \in Obeying /\ sent < MaxMessage /\ sent' = sent + 1
  /\ \E m \in Command : inbox' = Append(inbox, m)
  /\ UNCHANGED <<app, pc, client, fresh, measured, board>>

\* The thread of the client notices that the broker is gone.
Lost ==
  /\ connected /\ Closed
  /\ UNCHANGED <<app, pc, fresh, measured, inbox, sent, board>>

Next == Task \/ OnMessageArrived \/ Publish \/ Lost

Fairness == WF_vars(Task) /\ WF_vars(OnMessageArrived)
Spec == Init /\ [][Next]_vars /\ Fairness

(***************************************************************************)
(* Properties.                                                             *)
(***************************************************************************)

\* Types: the task, the client as the application sees it, the buffer and the devices.
TypeOK ==
  /\ app \in App
  /\ pc \in {"hotspot", "waiting", "init", "connect", "subscribe", "online", "loop", "delay", "ended"}
  /\ online \in BOOLEAN /\ socket \in BOOLEAN /\ connected \in BOOLEAN /\ subscribed \in BOOLEAN
  /\ fresh \in BOOLEAN /\ measured \in BOOLEAN /\ inbox \in Seq(Command) /\ sent \in 0 .. MaxMessage
  /\ readbuf \in [1 .. BufferLen -> 0 .. Letter] /\ longest \in 0 .. BufferLen
  /\ lamp \in [1 .. 3 -> BOOLEAN] /\ display \in Seq(Seq(0 .. Letter))

\* What a payload means: a lamp and a state, by the format the comment gives.
Meant(m) ==
  IF Len(m) = 3 /\ m[1] \in 1 .. 3 /\ m[2] = Comma /\ m[3] \in 1 .. 9
  THEN [lamp EXCEPT ![m[1]] = m[3] # 1] ELSE lamp
Handled(m) == inbox # <<>> /\ inbox' = Tail(inbox) /\ m = Head(inbox)

\* A command moves the lamp it names to the state it names and no other lamp, as long as
\* no longer payload has come before it.
CommandObeyed ==
  [][\A m \in Command :
       app = "light" /\ Handled(m) /\ Len(m) >= longest => lamp' = Meant(m)]_vars

\* The same after any payload.  It does not hold: the end of a longer payload is still
\* behind a shorter one, and is read with it.
CommandObeyedAlways ==
  [][\A m \in Command : app = "light" /\ Handled(m) => lamp' = Meant(m)]_vars

\* The places of the parts of a payload: what lies between two bars, or a bar and an end.
Parts(m) ==
  {p \in (DOMAIN m) \X (DOMAIN m) :
     /\ p[1] <= p[2] /\ \A k \in p[1] .. p[2] : m[k] # Bar
     /\ p[1] = 1 \/ m[p[1] - 1] = Bar
     /\ p[2] = Len(m) \/ m[p[2] + 1] = Bar}

\* After a payload the screen shows each of its parts, whole, on a line of its own and in
\* their order, and no line besides: nothing of the payloads before is left.
DisplayShows ==
  [][\A m \in Command :
       app = "oled" /\ Handled(m) =>
         /\ Len(display') = Cardinality(Parts(m))
         /\ \A p \in Parts(m) :
              display'[Cardinality({q \in Parts(m) : q[1] <= p[1]})] = SubSeq(m, p[1], p[2])]_vars

\* A sensor whose connection holds goes on reporting; the temperature may be measured in vain.
ReportsGoOn ==
  app \in Sensor \ {"temp_humi"} => (<>[]connected => []<>fresh)
\* A sensor goes on reporting whatever the network does.  It does not: nothing connects
\* again after a loss.
ReportsResume == app \in Sensor => (<>(pc = "loop") => []<>fresh)

\* What reaches the broker was read from the sensor.  It was not when the conversion failed.
ReportsMeasured == fresh => measured

\* A task that has ended unconnected has closed its network connection.  It has not when
\* the broker refused it.
SocketClosed == pc = "ended" /\ ~connected => ~socket
=============================================================================
