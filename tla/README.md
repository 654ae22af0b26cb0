# A TLA+ model of the HiSpark Pegasus applications

The repository holds the sample applications of OpenHarmony for the Hi3861
Wi-Fi board (`src/applications/sample/wifi-iot/app/`, written `app/` below):
one larger program, the astronauts game with its network component, an MQTT
client library with a port to the board and its C++ sibling, a QR code generator, and
some forty small programs that each show one facility of the RTOS or of the
hardware. This directory models them: what keeps state and shares it between
threads, callbacks, interrupts, chips and peers, and the codecs below. TLC checks the
models, and TLAPS proves the central invariants.

## 1. Inventory

Everything runs on CMSIS-RTOS2 over LiteOS-M: preemptive threads in one address
space, with callbacks run by service threads (Wi-Fi, timers) and by GPIO
interrupts. A reset starts a program anew; only `file_demo` and `kvstore_demo` find
again what an earlier boot has stored.

### 1.1 Network component of the game (`app/astronauts_game/common/netcfg`)

| part | state | operations | interacts with |
|---|---|---|---|
| TCP server, `network_server.c` | `g_netServer`: `sockfd[MAX_CONNECT]` (slot 0 for the client that has sent the special message), `connAmount`, `isActive`, `serRun` | server task (`NetServerTask`, `StartServer`, `SocketListen`, `ReadHandle`, `CheckNewSocket`); `NetServerInit/Deinit/Start/Stop/SendMsg` from other threads | TCP clients; `serRun` is set by the configuration task |
| Configuration, `network_config.c` | `g_netManager`: mode, status, run flag, Wi-Fi name and password | `NetCfgTask` (`NetCfgStartConfig`, `NetCfgSocket`, `NetCfgGetSocketValue`, `NetCfgConnect`); `NetCfgStart/Stop/SetMode/StartConnect`; `NetCfgConnectStatus` from the Wi-Fi callback | a phone over TCP, station, soft AP, server |
| Station, `wifi_sta.c` | `g_connectRetryCount`, handler registration | `WifiStaStart/Connect/Stop`, `WifiConnectionChangedHandler` | Wi-Fi service |
| Soft AP, `softap.c` | whether the hotspot is active | `SoftApStart/Stop` | Wi-Fi service |
| Manager, `network_manager_service.c` | none of its own | `NetManagerRegister/UnRegister/SetNetMode/SendMsg` | all of the above |

No lock protects either global record. *Hard here:* the API against the server
task (a slot emptied between the test and the use of it), descriptor numbers
that the socket library hands out again, clients that come and go in any order,
a connection event that arrives late, a mode changed by three threads, tasks
that block in `accept` and `recv`. *Correct means:* slots name open
descriptors, each at most one; no accepted connection is lost; the count of
connections covers the slots; requests are answered; the phone hears how its
attempt ended; a successful configuration leads to a server; stopping stops.

### 1.2 The game (`app/astronauts_game/game`)

`game_logic.c` keeps the astronaut's position, three obstacles, the distance
flown, the speeds and the difficulty flag; `main.c` runs the loop and
registers the button callback; `button.c` polls the buttons in a task of its
own and calls that callback; `music.c` plays sounds in a third task, fed by a
flag. *Hard:* buttons change the position while the loop tests for a collision;
a game restarted before the last one's effects are undone; the limits of the
screen. *Correct:* the astronaut stays on the screen while a game runs; the
difficulty belongs to the game that is being played.

### 1.3 MQTT (`app/paho_mqtt/MQTTClient-C`, `app/mqtt_*`)

`MQTTClient.c` keeps the connection flag, the next packet identifier, the
keep-alive timers, one outstanding ping and a table of message handlers;
`src/ohos/mqtt_ohos_cmsis.c` gives it a mutex, timers and a socket.
`app/mqtt_demo/mqtt_task.c` (repeated in the `mqtt_*` sensor programs) runs
the library's loop in a task and offers connect, subscribe, publish and
disconnect to others. *Hard:* the loop task and a caller read the same socket
under one mutex; acknowledgements that belong to an earlier request; lost
packets, keep-alive time-outs, duplicated QoS 2 messages; a mutex deleted while
the task may hold it. *Correct:* a successful publish was acknowledged; a
handler is in the table exactly while subscribed; a dead peer is noticed.

### 1.4 RTOS demonstrations

`semaphore_demo` (producers and consumers over two counting semaphores; workers
sharing machines), `mutex_demo`, `message_demo` (senders and receivers over a
bounded queue), `thread_demo`, `timer_demo`, `delay_demo`. *Hard:* counters that
several threads change, blocking on a full or empty queue, threads terminated
at any point. *Correct:* what the head comment of each file promises.

### 1.5 Wi-Fi demonstrations

`easy_wifi` (`wifi_connecter.c`, `wifi_starter.c`) wraps the callback interface
of the Wi-Fi service in blocking calls; `wifi_demo` uses the interface directly.
*Hard:* flags and counters set by a callback and polled by a caller, an event
that never arrives, events that come in another order. *Correct:* a caller
that is told it is connected was; a second hotspot counts its own stations.

### 1.6 C++ client and packet library (`app/paho_mqtt/MQTTClient`, `app/paho_mqtt/MQTTPacket`)

`MQTTClient.h` is one thread that blocks in each call; it keeps the table of QoS 2
identifiers it has delivered and the one publication under way, and sends the
latter again after a reconnect. `MQTTPacket` writes and reads packets in buffers
of the caller; its samples do so over sockets and serial lines that take and
give parts of them. *Hard:* what is kept over a reconnect; a packet torn by
a time-out; lengths at the steps of the length field. *Correct:* QoS 2 is
delivered once; what is acknowledged was delivered; what is read is what was
written; frames stay frames.

### 1.7 QR code (`app/qrcode_gen`)

A pure algorithm: segments, bits, Reed-Solomon words, drawing, masks. *Hard:*
limits of versions, blocks of two lengths, the penalty at the border.
*Correct:* the symbol, read back by the standard, is the text, in the
smallest version and with the mask of least penalty.

### 1.8 Devices

`pwm_demo`, `adc_demo`, `gpio_input_demo`, `led_demo`: lamps, buzzer, buttons, sensors; a
button's interrupt runs between any two lines of a task. `i2c_demo` and
`mqtt_temp-humi_sensor`: the AHT20 sensor, which may stay busy. `file_demo`,
`kvstore_demo`: storage, with a reset anywhere. `tcpserver`, `tcpclient`, `udpserver`,
`udpclient`: client and server of one exchange. `mqtt_*`: programs on the MQTT
task, with handlers that read a payload that has no end. `ssd1306_3rd_driver`,
`oled_demo`: two drivers of one screen, over a bus that may fail and whose
failures nobody looks at. `nfc_demo`: a tag of type 4 whose chip, reader and task each go
at their own pace. *Correct:* outputs agree with the last inputs; what is
opened is closed; the screen shows what was drawn; a command gets the answer to itself.

## 2. Plan

A module is written so that it can be proved about where that is in reach: no
RECURSIVE operator, assumptions named, one action per operation.

Done, in the order of importance: `NetServer`, `NetSend`, `NetConfig`, `NetManager` (the
network component); `MqttClient`; `Semaphore`, `Semp`, `Warehouse`; then `Game`; the
kernel demonstrations `MutexDemo`, `MessageDemo`, `SempBasic`, `KernelDemo`; the C++ client
`MqttCppClient`; the codecs `MqttPacket`, `PacketTest`, `PacketSample`, `MqttStream`,
`MqttTimer`, `QrCode`, `QrTest`; the devices `PwmDemo`, `ButtonDemo`, `SensorDemo`, `StorageDemo`,
`Aht20`, `SocketDemo`, `WifiDemo`, `MqttApp`, `Ssd1306`, `Ssd1306Chip`, `OledDemo`, `Nfc`.

A board runs one image at a time, and so do the modules that compose them for TLC:
`MCAstronauts`, `MCSamples`, `MCCodecs` and `MCDevices` choose an image at the start, let
that program take its steps, and keep the variables of the others at their
initial values. Nothing is shared between two images, so this checks each of them
in full.

`MCMqttCppClient` adds the script of its run; the other specifications are checked as they are.

Proved, in a module beside each component: `NetServerProofs` (the server, alone and under the
network manager), `SempProofs` with `SemaphoreProofs`, `MqttClientProofs` (the C client and the
timers), `AstronautsProofs` (network configuration, alone and under the network manager, and game),
`SamplesProofs` (the kernel demonstrations), `MqttCppClientProofs` (the C++ client),
`DevicesProofs` (storage, sockets, sensors, buttons, pulses, AHT20, Wi-Fi, the tag's memory). Section 6
has their arguments.

Not proved: what depends on recursion over data (section 6.6), and `MqttApp` and the conversation
of `Nfc`, whose properties follow payloads and files through folds and recursive functions.

## 3. How the modules correspond to the code

### 3.1 `NetServer` (`network_server.c`)

The variables `sockfd`, `connAmount`, `isActive` and `serRun` are the fields of
`g_netServer`. `task` is the place of the server task; `scan`, `curFd` and
`ready` are its locals (loop index, descriptor loaded by `ReadHandle`, result of
`select`). The socket library is external: `open` is its descriptor table,
`inbox` what the next `recv` on a descriptor returns, `backlog` the clients not
yet accepted. `accept` takes *any* descriptor that is not open, so numbers are
reused as in lwIP. `app`, `deinitIdx` and `deinitFd` are the thread inside
`NetServerDeinit`. `greeted` is a history variable: the open connections that
have sent the special message.

| code | action |
|---|---|
| `NetServerTask` | `TaskLoop`, `TaskPoll` (the two reads of the loop) |
| `StartServer` | `StartServer`; `SocketListen`'s loop is `ListenLoop`, `Select`, `ScanSlot`, `ScanEnd`; its end `ListenEnd`, `EndSlot`, `EndClose` and `EndClear` once per slot, `EndServer` |
| `ReadHandle` | `ReadLoad` (loads the descriptor), then `ReadClosed`, `ReadCleared`, `ReadUncounted` (close, -1, decrement), or `ReadSpecial`, `TakeReserved` (the two slots of the move), or `ReadData` |
| `CheckNewSocket` | `CheckNothing`, `CheckAccept`, `CheckReject` |
| `NetServerStart/Stop` | actions of the same names |
| `NetServerDeinit` | `NetServerDeinit`; `DeinitSlot`, `DeinitShut`, `DeinitClear` once per slot (test and load, shutdown, clear); `DeinitDone` |

The steps are as small as the shared accesses require: another thread can run
between the test of a slot (`ScanSlot`), the load of it (`ReadLoad`) and the
result of `recv`. Abstracted: the JSON and log text, the callback to the
application (it keeps no state here), time (a delay is the freedom to be
overtaken). Between `close` and the slot set to -1 a slot names a descriptor that is
no longer open, and `NetServerDeinit` may read it there; `Closing` is that slot.
`FD_SET` and `FD_ISSET` of -1 do nothing in lwIP; `accept` fails only for want
of a descriptor.

`NetSend` adds a thread inside `NetServerSendMsg`: test, load of the argument,
message, line end.

### 3.2 `NetConfig` (`network_config.c`, `wifi_sta.c`, `softap.c`)

`mode`, `status` and `netRun` are the fields of `g_netManager`; `pc`,
`netCfgMode`, `timecnt` and `result` belong to `NetCfgTask` and the functions
it calls; `retry` is `g_connectRetryCount`. `wifiPc` is the Wi-Fi thread inside
`NetCfgConnectStatus`: it tests the status in one step and writes it in a later
one. `station`, `registered`, `link` and `hotspot` describe the Wi-Fi service,
`phone` the peer of the configuration socket, `serRun` the field of
`g_netServer` that `NetServerStart` sets. Every early return of
`NetCfgStartConfig`, `NetCfgSocket` and `NetCfgConnect` is an alternative of an
action (`ConfigFails`, `StationOn`, `StationJoin`). The parsing of the phone's
message is the choice between `junk` and `config`. `NetCfgStart` is the initial
state. `Reply` includes the early return of
`SendLocalIp`: without an address the phone is told nothing, and the device turns to
STA all the same. A failing `accept` is not modelled (the loop goes round again).

### 3.3 `NetManager` (`network_manager_service.c`)

Instances of `NetServer` and `NetConfig` over disjoint variables except
`serRun`. `UnRegister` is `NetManagerUnRegister`: `NetServerDeinit` to its end,
then `NetCfgStop`. One registration per boot is modelled.

### 3.4 `MqttClient` (`MQTTClient.c`, `mqtt_ohos_cmsis.c`, `mqtt_task.c`)

`isConnected`, `handlers`, `pingOut` and `nextId` are fields of `MQTTClient`
(`isconnected`, `messageHandlers`, `ping_outstanding`, `next_packetid`);
`sentLeft` and `recvLeft` are what is left of the timers `last_sent` and
`last_received`, `owner` and `mutexLive` the mutex (taken by whom, not yet
deleted), `running` the run flag of `mqtt_task.c`. `loopPc` is the loop task, `appPc`
and `req` the one application thread and the call it is in, `answer` the packet
`waitfor` has found. `sock`, `toBroker` and `toClient` are the TCP connection;
`alive`, `subs` and `outbound` the broker. `pingAge`, `accepted` and
`delivered` are history variables.

| code | action |
|---|---|
| `MqttTask` | `LoopCheck` (run flag), `LoopEnter` (lock), `LoopCycle` (`MQTTYield`, unlock) |
| `cycle`, `keepalive`, `MQTTCloseSession` | `Cycle`: `CycleIdle`, `CyclePacket`, `CycleError`, with `Keepalive`, `CycleFails`, `CloseSession` |
| `MqttTaskConnect`, `...Subscribe`, `...UnSubscribe`, `...Publish` | `AppCall`, `AppNetwork` (connect only), `AppSend` or `AppRefused`, `AppWait` once per `cycle()` of `waitfor`, `AppExpired`, `AppDone` |
| `MqttTaskDisconnect`, `MqttTaskDeinit` | `AppDisconnect`; `AppStop`, `AppDelete` |

`cycle()` is one step because only the holder of the mutex reads the socket; the
network, the broker and the clock take steps between two of them. The broker
answers what it receives, may refuse a subscription, publishes one message at a
time and, with `Redeliver`, resends one that was not answered; it may fall silent
for ever, and the link may break. Packets are whole (`MqttStream` has their bytes) and
carry the type, the identifier, the topic and the QoS or return code.
`MqttTaskInit` is the initial state; there is one per boot. `MQTTRun`, which no
code of the repository starts, is left out.

### 3.5 `Semaphore`, `Semp`, `Warehouse` (`semp.c`)

`Semaphore` holds the operators of a counting semaphore as LiteOS implements it: a
count and a queue of waiters in order of arrival; a token released while a
thread waits is handed to the first of them and never becomes visible to others.
In `Semp`, `empty_id`, `filled_id` and `product_number` are the globals of the
same name; `pc` is the place of each thread in its loop and `loaded` the value that
`product_number++` or `--` has read and not yet written. `MainTerminate` is the main
thread terminating producers and then consumers wherever they are;
`MainDelete` deletes the semaphores. `product_number` wraps at `IntRange`, a bound of
the model.

`Warehouse` is what the head comment promises: a stock between nothing and
`BUFFER_SIZE`, changed by `Produce` and `Consume`. The refinement mapping is `Stock`:
a product exists from the store of the producer (`product_number++`) until
the store of the consumer, so it is the tokens of `filled_id`, the products whose
producer has yet to release, and those whose consumer has yet to count them out.

### 3.6 `Game` (`main.c`, `game_logic.c`, `button.c`, `music.c`)

Position, speeds, difficulty, distance and obstacles are the globals of
`game_logic.c`, on the screen of 128 by 64 points. A turn of `GameTask` is split
where the button task may come between: the test of the start flag, the
moving of the obstacles, `IsCollision`, `GameOver`, the clearing of the flag. A press
loads the position in one step and stores it in another. The random numbers
are drawn from `RandLeft`, `RandRight` and `Moves`. Drawing is left to `Ssd1306`.

### 3.7 Kernel demonstrations

`MutexDemo`: `Acquire`, `TimeOut`, `Load`, `Store`, `Release` and `Terminate` of any thread;
the mutex is handed to a waiter, whichever. `MessageDemo`: a sender loads the
shared count, puts, waits in a full queue, stores; the main thread terminates all.
`SempBasic`: workers created one by one over the semaphore of `Semaphore`. `KernelDemo`:
main threads of the delay, timer and thread programs, priorities, suspension,
and a tick counter that wraps (`Word`).

### 3.8 `MqttCppClient` (`MQTTClient.h`, `linux.cpp`, `hello.cpp`, `stdoutsub.cpp`, `test1.cpp`)

`client` holds the fields of the class, `call` the call in progress and what it waits for,
`net` the connection, `server` the server and the session it keeps for the client (`clean` when it
ends with the connection), `seen` the history of messages (accepted, confirmed,
delivered). `Cycle` is `cycle()` (one packet read and handled), `TimeOut` the end of a wait, `Ending`
the return of a call; `keepalive` may close the session. `ServerReads` is the server's answer to
one packet: it accepts, refuses or delays, and the connection breaks `MaxTroubles` times.
A connection may end within a packet. When its length had come, `readPacket` fails
(`ReadPart`). When only the header byte had, the packet goes on with its type and what
the buffer holds, because `readPacket` drops the result of `decodePacket` (`ReadHeader`): its identifier is any
one, and an answer to it cannot be written. Not modelled: a header byte after which
the time runs out on a connection that stays up, whose remaining bytes would then be read as a packet.
`seen.again` are the messages whose identifier such a PUBREL took out of the table.

The application is a script of calls. `Scripts` is a constant: those of the repository, which
the module has, and others. `CppClientAssumption` says of every script that the arguments are ones a
caller can give (`Arguments`), that each connection is opened and then connected once, and calls come
within a session (`InOrder`), and that a session that was kept is not taken up again once a clean one
has been asked for (`KeptOnce`). All scripts of the tests and samples observe this, and section 5 has
what happens otherwise.

### 3.9 Codecs

`MqttPacket` has every writer and reader of `MQTTPacket/src` on sequences of bytes with the
return codes; `PacketTest` writes and reads back packets chosen from sets, in a buffer
around the size that is needed; `PacketSample` is the sample clients, one step per call of their
transport or of the blocking reader; `MQTTPacket_read` goes on with whatever length it has when
`MQTTPacket_decode` fails, and so does the model (what follows a packet torn there is not followed up). `MqttStream` is `sendPacket`, `readPacket` and `decodePacket` over the networks of the three
ports, one step per `recv` or `send`; the base of the length field is `Base` in place
of 128. `MqttTimer` puts the time together from two counters read one after the
other, both of which wrap. `QrCode` is `qrcodegen.c` function by function (bytes are sets of
bit positions, a symbol the set of its black modules), `QrTest` its callers, with a step
for each pass of the encoder's loops. It reads a symbol back with a reader of its own.

### 3.10 Devices

One module per kind of program, each with a variable for the program that was
built into the image (`demo`, `program`, `proto`, `app`).

* `PwmDemo`: a program is a function from the number of its round to the pulses it starts.
  `ButtonDemo`: polled, interrupt, queue, thread and timer versions and the traffic light; the
  handler runs whole, between two accesses of the task. Any reading of the
  converter may fail, and then nothing is said; `unread` counts those. `SensorDemo`: a reading
  is any of a few values about the thresholds, or fails.
* `Aht20`: the driver's transfers as steps, each of which may fail, with a sensor that is
  busy for a while or for ever. `StorageDemo`: the calls of the two programs, a failure or a reset
  at each.
* `SocketDemo`: client and server of both protocols, streams in pieces, datagrams lost.
  `ConnectToHotspot` waits for the link without a time-out, whatever has failed before, and gives back
  the number of the network, or -1 when it was not stored: the programs then return and undo nothing, with
  the Wi-Fi enabled and the link up. A link that has ended the wait is taken to stay.
  `WifiDemo`: `easy_wifi` and `wifi_demo`; the service queues events and drops those for which no
  listener is registered. `MqttApp`: the tasks, and `OnMessageArrived` on a buffer that keeps the end
  of longer payloads; the join may wait for ever, and may fail with the link up.
* `Ssd1306`: drawing as sets of points (lines, rectangles, circles, regions, bitmaps, text, codes), and
  `UpdateScreen` as one transfer that may break off after any byte; `OledDemo`: one byte per
  transfer, any of which may be lost. `Ssd1306Chip` is the external chip: address, modes, and
  commands that wait for their arguments.
* `Nfc`: the task polls flags, empties the FIFO, answers, refills it while the chip sends,
  and writes the EEPROM in pages. Reader and chip are external and act between
  any two transfers; `reliable`, `found`, `since` are history variables.

## 4. The runs

| run | question | outcome |
|---|---|---|
| `netserver_all` | are slots and count sound and complete, is every request read, does serving stop? | holds |
| `netserver_reject` | is a client turned away only when the slots are full? | violated |
| `netsend_diverted` | does a message reach the client that introduced itself? | violated |
| `netmanager_live` | does a configuration lead to a server? | holds |
| `astronauts_all` | is the hotspot up and the handler registered while needed, every attempt answered, a mode change obeyed; does the game see every overlap, start and end as told? | holds |
| `mqtt_safe` | do client and broker agree, answers belong to their call, messages find a handler? | holds |
| `mqtt_live` | is a dead peer noticed, does every call return, does the task end? | holds |
| `mqttcpp_all` | is QoS 2 delivered once, are the results of the calls true, a dead connection noticed? | holds |
| `mqttcpp_clean` | does a clean session begin clean? | violated |
| `samples_kernel` | do the semaphores implement the warehouse; do mutex, queue, workers, timers and threads lose nothing and starve nobody? | holds |
| `codecs_all` | do packets, frames, bytes under the client, timers and QR codes come back as they went? | holds |
| `devices_all` | do outputs follow inputs, rounds give back what they took, screen and tag show what was asked? | holds |

A property of a run that composes several programs is a conjunction of the
properties of its modules, named there and commented one by one: `StockSafe`, `ConfigurationSafe`,
`PinsFollow`, `ScreenShows` and so on name their parts.

### 4.1 Bounds

*Network.* `MAX_CONNECT` is 10 in the code and 3 here: slot 0, which is special,
and two ordinary ones, so that "the first free slot" and "another slot" differ.
Two descriptors, so that a number is reused while another client is connected
(three in `netserver_reject`, which needs all slots; one, with two slots and time-out 0, in
`netmanager_live`, whose question is not about slots).
`ConnBound` bounds the clients that ever try, which `connAmount` counts because
it is never lowered after a rejection; 4 exceeds the limit of the server, so
rejections happen. `ConnectTimeout` and `RetryCount` are 1, and one more for the application that joins
networks itself, so that "not yet" and "the last one" differ. The game has the obstacles' extreme
places and the full screen; `Drift` bounds what the button task adds to a stale position.

*MQTT.* More topics than handler slots, so that a table runs full; two identifiers, so that one is
reused; `QueueBound` packets in one direction, beyond which a write fails as it does
when the send buffer is full. One tick of keep-alive makes every expiry reachable. The
C++ client runs the scripts of the repository and one that subscribes twice for a table of one
and publishes two
messages of QoS 2 for a table of one, with one trouble (a break, a refusal, a delay)
anywhere.

*Kernel.* More producers than places and more than one consumer, so that both semaphores
have a queue and a token is competed for; three senders for a queue of one; four
workers for two machines (seven and four in the code); counters up to 3 or 4. `Word`
is larger than any wait, so that the tick counter wraps within one.

*Codecs.* Payloads on both sides of the packet length at which the length field takes two
bytes, lengths on both sides of all its steps, rooms of a byte too few, just enough
and one more. Streams of two packets in and one out, with one time-out within a packet; the length
base is 2, so that a length has several bytes. The counters of the timer wrap at different
times and within an interval. Requests for codes of each mode, with one and several blocks, with
version bits, that fit and that do not; the tables are compared for all 40 versions,
four levels and eight masks.

*Devices.* Readings at, above and below each threshold and at both ends. Five presses
and a queue of three for the messages of the interrupt, so that the queue overflows.
Four boots, so that a file is written, read, deleted and written again. Retries of
3 with a sensor that is busy for up to four. Two stations at a hotspot. The screen
of the driver with a frame buffer is 16 by 16 in four pages, with a byte of 32 values, so that places
come round; the page-mode one is 48 columns of eight pages. The tag has a FIFO of 5, with
1 as its low mark, and commands of 3 and 5 bytes (32, 8 and up to 56 in the code), so that
an answer is refilled several times; files of 2 and 8 bytes, blocks of 4. One broken transfer each.

No symmetry is used: the runs are small enough without.

### 4.2 Fairness

Weak fairness of each task of the network component (the RTOS runs
every thread that is ready) and of the two callbacks once they have
begun; none for clients, the phone, the link or the application; where a
property needs `accept` or `recv` to return it says so. In `MqttClient` the loop task
and the application thread have strong fairness, because they compete for a
mutex which LiteOS hands over in the order of arrival, so neither is passed over
for ever; the clock has weak fairness and the broker none. In the kernel demonstrations
each thread has weak fairness: threads of one priority are scheduled in turn, and
the order of the queue of a semaphore is in the model; the main threads that
terminate the others have none, those of `KernelDemo` and its clock have it. The C++ client,
its time-outs and its clock go on, and its server reads what arrives. Of the
devices the tasks go on and the Wi-Fi service delivers an event for which a
listener is registered; the tag's chip goes on; users, sensors, buses, readers,
peers and the hotspot of `SocketDemo` have no fairness, so a wait for the link may last for ever.

`CHECK_DEADLOCK FALSE` stands where the program may stop: after `NetServerDeinit` or
`MqttTaskDeinit`, at the end of a program or of a bound of the model
(`MaxConnect`, presses, boots, rounds), and where a socket waits without a time-out.

## 5. What the violated properties show

* `RejectOnlyWhenFull` (`netserver_reject`): `connAmount` is raised before it is compared and stays
  raised when the client is turned away, and is not reset when the listening
  loop ends. After one rejection a later client is turned away with slots free.
* `MessageReachesFA` (`netsend_diverted`): the descriptor is passed by value; the server may close
  it and give its number to another client before `send` runs.
* `CleanedByConnect` (`mqttcpp_clean`): `connect` stores the flag `cleansession` and calls neither
  `cleanSession()` nor `closeSession()`. The QoS 2 identifiers of the session before
  stay, and a message of the new session that has one of them is acknowledged and not
  delivered.

More properties are stated in the modules, with the reason for which they do not
hold, and are not part of a run:

| module | stated and not so | because |
|---|---|---|
| `NetConfig` | `StatusTruthful` | an event between the time-out and the unregistration sets the status after it was reset |
| `NetConfig` | `StopEndsTask` | the accept loop tests the mode and not the run flag |
| `NetManager` | `UnRegisterEndsServer` | the server is stopped first, and a configuration that completes in between starts it again |
| `MqttClient` | `DeliveredOnce` | identifiers of incoming QoS 2 messages are not remembered |
| `MqttClient` | `SubscribedHasHandler` | a refusal (0x80) leaves `rc` at `SUCCESS` |
| `MqttClient` | `PingGetsInterval` | `last_received`, which caused the ping, is not restarted by it |
| `MqttCppClient` | `SampleEnds`, `AcceptedOnce` | a lost message is waited for with a broken client; `pubrel` is never set |
| `MqttStream` | `InFramesAlways`, `NothingBehind` | a time-out within a packet; a second write with the length of the whole |
| `MqttTimer` | `TimeGoesOn`, `ExpiresThough` | tick and system timer are read one after the other; the tick wraps |
| `Semp` | `NumberIsStock` | up to `BUFFER_SIZE` threads are between the semaphores at once |
| `Game` | `DifficultyRises` | the flag is not reset with the game |
| `ButtonDemo` | `PressHeard`, `PressAnswered` | a press between the end of a sounding and the clearing of its flag; a button released before it is read, and a reading that fails |
| `StorageDemo` | `WholeRead` | a reset between the opening and the writing leaves an empty file |
| `Aht20` | `PrintsFresh`, `GivenUpBusy` | the loop goes on after a failure; the answer of the last retry is thrown away |
| `SocketDemo` | `UdpEnds`, `TcpBegins` | neither `recvfrom` nor the wait for the hotspot has a time-out |
| `WifiDemo` | `StationsCountedAgain`, `WaitEnds` | the count is never reset; the wait has no time-out |
| `MqttApp` | `CommandObeyedAlways`, `ReportsResume`, `ReportsMeasured`, `SocketClosed` | a payload is read on behind its end; nobody connects again; a failed reading is reported; the socket of a refused connection stays open |
| `Ssd1306` | `HealsAtOnce`, `ScreenOn`, `CircleRoundAlways`, `RegionKept`, `AllCharsShown` | a command waits for its argument; the switching on is sent once; places are unsigned bytes; rows are counted from the data; the last place of a row takes no character |
| `OledDemo` | `OnlyTextAlways`, `OnInLoop` | the screen is never cleared again; the result of `OledInit` is dropped |
| `Nfc` | `SendEndsAlways`, `LongRight`, `OnlySelectedWritten` | a chip that ran empty keeps its bytes; one byte more is taken than the level promises; UPDATE BINARY asks neither for the file nor for the place |

`CppClientAssumption` leaves out two uses that no program of the repository makes. With two `connect`
calls on one connection, an answer of the first exchange can be taken for one of the second, since
packet types only are compared. And a client that connects with a kept session, asks for a clean one
in a connect that is lost, and then takes up the kept session again has thrown its state away while
the server has kept its own: a message of QoS 2 is then delivered twice.

Hazards that no property covers: the sockets that `MqttTaskConnect` and a failed
`MqttTaskDisconnect` forget are not counted; a second registration (`NetManagerRegister`,
`MqttTaskInit`) within the delay of the first one's task is not modelled; `MQTTRun`, which
nothing starts, leaves its loop with the mutex taken; the servers of `MQTTPacket` ask
for less room than they write, and no program is one; `tcp_client_test.c` and `udp_client_test.c` write a zero
behind an answer that fills their buffer, which no demonstration's does.

## 6. What is proved

Each module of proofs gives the inductive invariants as conjunctions of named parts, one lemma for
the initial states, one for the steps, and the theorems as consequences. TLC checks the theorems' properties on the
instances of section 4, but for the three theorems about `NetManager`, whose run asks for liveness
only. On the boards that compose several programs
(`MCAstronauts`, `MCSamples`, `MCDevices`) a program's invariant is inductive because the other
images leave its variables alone.

`NetServerProofs` proves for every `MaxConnect >= 2`, every finite descriptor
table and any number of clients that `TypeOK`, `CountCovers`, `SlotsSound`,
`NoLeak` and `ReservedForGreeter` always hold. None is inductive alone. `NoLeak` needs a free slot
whenever `CheckNewSocket` keeps a client, which follows from `CountCovers`
(`RoomMeansFree`: the count bounds the occupied slots and is below the limit).
`CountCovers` must survive `ReadUncounted`, which lowers the count for a slot that
`NetServerDeinit` may have emptied already: hence the term `Emptied` in it, and
`ReadInv`, which says what the descriptor loaded by `ReadHandle` has to do with
its slot. `ReadInv` in turn needs `SlotsSound`, so that closing the descriptor
takes it from no other slot. Between `close` and -1 that slot is the exception
`Closing` of `SlotsSound`; `CloseInv` says that the descriptor is free there, since the server task,
which alone opens sockets, does not do so in between. `WaitInv` keeps the backlog a natural number. The
conjunction `IInv` is inductive (`InitInv`, `NextInv` with one lemma per action
that touches slots or sockets, `QuietSteps` for the rest); `EmptySlot` and
`FillSlot` carry the cardinality of the occupied slots through a change of one.
The assumption is `NetServerAssumption`.

`SempProofs` proves for all finite disjoint sets of producers and consumers, every
`BufferSize` above 0 and every larger `IntRange` (`SempAssumption`) that `TypeOK`,
`TokensConserved`, `QueueSound` and `NotAllWaiting`, together `StockSafe`, always hold and that
`Spec => Implements`. The inductive invariant is `TypeOK`, `TokensConserved`,
`NoIdleToken` and `QueueSound`. `TokensConserved` needs the other two: a release hands
its token to the head of the queue, and the count is right only if that thread
was waiting, alive and not in the queue a second time (`QueueSound`); that the queue
stays such through terminations rests on `AcquireEffect`, `ReleaseEffect` and
`WithoutEffect` of `SemaphoreProofs`, which say what each operation does to the set of
waiters. `NotAllWaiting` follows from the conjunction: with everybody waiting nobody
holds a token and, by `NoIdleToken`, neither semaphore has one, so the sum would be 0
and not `BufferSize`. For the refinement, `ProduceStep` shows that the store of a
producer finds room (it is one of the holders, and the stock counts none of
them twice), `ConsumeStep` that the store of a consumer finds a product, and the
other actions leave `Stock` alone: a release moves a product from a thread to the
semaphore or, when a consumer waits, straight into its hands.

`ReservedForGreeterAlways`: an introduction belongs to a connection and not to its descriptor's number
(`Closed` takes it back), so whoever sits in slot 0 has introduced himself on that very connection; and
only `NetServerDeinit`, or the end of his connection, takes him out of it.

Under the network manager the server shares `serRun` with the configuration task and is stopped by
`NetManagerUnRegister`. `ManagerRunsServer` proves the composition to implement the server alone, step
by step: what the configuration does is `NetServerStart`, or leaves the server's variables alone.
All that is proved of the server therefore holds of it there (`SafeInManager`).

### 6.1 `MqttClientProofs`

For any topics, table sizes, identifiers, queue lengths and intervals (`MqttClientAssumption`):
`OneInside`, `SubscriptionsAgree`, `PublishAccepted`, `AnswerIsOurs` and the action property
`MessageHasHandler`. The client compares packet *types* when it waits and never
identifiers, so that an answer is that of the call is not a local fact. It
rests on three together: at most one question or reply is under way (`OneExchange`);
none is when a call begins (`QuietWhenSettled`), because a call that failed has closed the session and
with it the connection; and what is under way while a call waits is a stage of that
call (`ExchangeInv`: `AsksFor`, `AnswersTo`). `AnswersTo` also records what the broker has done when
it replied (subscribed, refused, taken the message), which is what `SubscriptionsAgree` and
`PublishAccepted` need when the reply is read. `Untaken` and `AcceptInv` make a message taken once. The
acknowledgements of the broker's own messages share the queues: `ReleaseLast` and
`CompletionLast` say where its PUBREL and the client's PUBCOMP stand, so that they are not
mistaken for those of a publication.

`TimesRight` is about the clock under the client's timers. `GetCurrentTime` puts the time together from two
counters that are read one after the other, so the pair may belong to no moment. Until
the tick counter wraps the sum is still less than a tick outside the call (`TimeRight`, by
`ReadTime`): when a tick passes between the two reads, the part is small and the whole is old, or the
other way round. A timer reads the clock twice, when it is set and when it is asked, hence two ticks for
`TimerIsExpired` and `TimerLeftMS`. What the constants have to be (`TimerConstants`) is a hypothesis
of the theorem; `CodecAssumption` in `MCCodecs` says the same of them.

### 6.2 `AstronautsProofs`

`ConfInv(T, R)` is inductive for the configuration task, its callbacks and the application, for every
time-out `T` and retry count `R`; the two applications of the board are two instances of it
(`NetConfigAssumption`). It has where the radio, the phone and the server stand at each place of the
task, from which `HotspotServes` and `OutcomeAsTold` follow: a phone that was given the address has a device
in the mode STA with the server started, one that was told of a failure a device whose mode is as it
was. `ArmedInv`, of the application that
leaves the station to the task, says where the handler is registered.

`ConfigurationSafeInManager` has the same of the task beside the server (`ManagedInv`). What
`OutcomeAsTold` says of the mode holds there; what it says of `serRun` is lost: the server task may clear the
flag between `NetServerStart` and the change of the mode, when the server cannot open its socket.

In the game, `CollisionSeen` is not obvious because `IsCollision` stops at the first obstacle in
the rows of the astronaut. It holds because the obstacle that overlaps is never behind
another one in those rows, which depends on their distances after each change of speed. `TrackInv` gives them
exactly: at the speeds of one and two rows the places follow from the distance flown
(`SlowTrack`); at three and four rows from the place of the first obstacle (`ThreeTrack`,
`FourTrack`), where the order of leaving the screen shifts the others by a row or more. `SpeedInv` ties
speed, difficulty and distance together; `GameAssumption` bounds the drawn places as
`game_logic.c` does.

### 6.3 `SamplesProofs`

For any numbers of threads and sizes (`SamplesAssumption`):

* `MutexSafeAlways`: the owner is the one thread between acquire and release, so what it loaded is
  still the value when it stores.
* `MessagesSafe`: the count of the messages is loaded, and stored after a wait, so updates are lost.
  That it never runs ahead rests on `count + Cardinality(Counting) <= put`: each thread between its
  message and its store has put one more than it has counted.
* `WorkersSafe`: tokens and machines in use add up to the machines (the queue lemmas of `SemaphoreProofs`).
* `TimersAndThreadsSafe`: the tick counter wraps; `Later(now, k)` says how far off a
  deadline is in arithmetic modulo `Word`, and each stage of a program bounds it.
* `BoardStockSafe`, `BoardImplements`: the theorems of `SempProofs` lifted to the board, whose
  other images leave the warehouse alone.

### 6.4 `MqttCppClientProofs`

For any filters, table sizes, range of identifiers, number of troubles and scripts
(`CppClientAssumption`): `DeliveredAsPromised` and `CallsTruthful`. `waitfor` compares packet types only,
and the server counts its identifiers from the beginning in each new session, so neither an answer nor an
identifier says by itself what it belongs to. The argument has three parts.

* *Calls.* One exchange at most is under way (`OneExchange`), and none when a call begins
  (`QuietWhenSettled`), because a failed call ends the session and the connection with it. What is under way
  belongs to the call that waits (`ExchangeInv`: `AsksFor` on the way out, `AnswersTo` on the way back), and
  `AnswersTo` records what the server has done; so a confirmed publish was accepted.
* *Sessions.* Client and server begin anew or go on together: `ScriptInv` says what is left of the script,
  `ConnectionInv` that CONNECT and CONNACK come first, `KeptSession`, `ReceivedInv` and `SubsInv` what the two
  remember of one another, across breaks and delayed answers.
* *Messages.* `NumberInv`: an identifier of the server stands for one message, on its way once;
  `ReleaseInv`: its PUBREL is behind it. `DeliveryInv`: a message still to come is undelivered
  or its identifier is remembered (`Undelivered`), and what is remembered was delivered or is among
  those given up (`Accounted`, `GivenUp`: no room, no handler, or an identifier left over from an ended
  session).

A connection that ends behind a header byte would break the first part, for the call takes
the torn packet for its answer: the invariants allow it where nothing is under way and nothing can be sent any more
(`Lost`), and the next connect, which asks again, restores the rest. `seen.again` is the exception in
`DeliveredOnce`; in `InflightSettled` it is a connection that is no longer up.

One lemma for each step carries `IInv`: those that read nothing (`UnreadKeeps`), each kind of packet
read, each return of a call, the calls themselves, and the server's answers.

### 6.5 `DevicesProofs`

For any readings, contents, retries and numbers of presses, boots and rounds (`DeviceAssumption`):

* `StoredWholeAlways`: the file is at every moment absent or a start of its content, of whatever length a
  reset or a full storage has left (`Written`); a start of it read at a place is a start of what
  belongs there (`PartRead`), so network and password are never mixed.
* `SocketsSafe`: of both protocols, client and server: an answer is a part of the request that was
  sent, and an ended program has closed its sockets and, unless its network was not stored, left the
  hotspot.
* `SensorsSafe`: the buzzer sounds exactly when the last reading that did not fail was above the
  threshold, since the driver's note of it (`beeping`) and the pin agree.
* `PressesSafe`: the lamp of the traffic light is the number of presses modulo 3, and answers,
  failed readings, queued presses and the one just taken together never exceed the presses; in the
  program that reads in its handler, answers and failed readings are the presses.
* `MeasurementsSafe`: five bytes hold the two values (`RawOfBytes`, by `DivMod16`, `DivMod256` and
  `UpperDigits`), and the round of the trigger is that of what is published.
* `HotspotsSafe`: while the link is not up, either its loss is the last event still to be delivered
  or no event under way can set the flag (`LossToCome`, `NothingToCome`); so no wait ends by the link of an
  earlier use.
* `PulsesSafe`: each program computes its duties within its period (`RoundsGood`, `EvenRound`,
  `SensorGood`), and a port gives pulses only in the rounds in which it is initialised and connected.
* `WritesInBlocks`: `WriteCut` is the arithmetic of `fm11_write_eep` for every block size, address and length
  (`TagAssumption`): the first page ends where a block does or is all, and the others begin where
  one does.

### 6.6 Only model-checked

Liveness under fairness, and ENABLED, which TLAPS does not do; what is model-checked of `NetManager` is
of this kind. Recursion over data, for which
an induction theorem with an operator parameter would be needed: `QrCode` and
`QrTest` (`SymbolReadable`, the only invariant of a run that no theorem states), the packets and
streams, drawing in `Ssd1306` and `OledDemo`, and `StationsCounted` of `WifiDemo`, which filters a
sequence. `MqttApp`, whose handler looks for the characters of a command, and of `Nfc` what the reader
gets. The recursion in `Ssd1306` is written with recursive functions and not with
RECURSIVE operators, so that the board it is part of can be proved about. A frame, a row of
commands or a text there is a recursive function that hands the new state on as its argument
(`AcceptAll`, `StoreAll`, `TakeAll`, `TestShowChars`), and `QrCode` combines its long sequences by
halves (`Reduce`, `Joined`): TLC evaluates a function's arguments first, so its stack stays a third
of what a thread has; a fold, whose operands TLC evaluates when they are needed, nests them all.

## 7. Not modelled

* Copies: the `mqtt_task.c` of three sensors is that of `mqtt_gas_sensor`, and their readers
  are like its reader; the games' display driver is a shortened copy of `ssd1306.c` (what
  differs is in `Ssd1306`).
* Scripts of calls of the C library (`MQTTClient-C/test`, its samples), whose every order
  `MqttClient` has; ports to boards whose network stack is not in the repository; `main.cpp`, a
  copy of `linux.cpp`.
* Texts of packets for logs, and the Python server and proxy of the tests.
* Fonts and test patterns; the floating-point functions of `libm_port` and `ssd1306_DrawArc`, which
  nobody calls and which TLC cannot compute.
* The multi-sample of `nfc_demo`, which is not compiled; the interrupt variant of the tag.
* `gn_practice`, `startup`, `component_demo`, the stubs of the product, and enumerations of pins:
  they keep no state.
* The start of the game's hardware (buzzer, buttons): one call sequence.

`PROJECT.json` names the files of each, with the reason.
