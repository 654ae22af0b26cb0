----------------------------- MODULE NetConfig -----------------------------
(***************************************************************************)
(* Network configuration by a phone (network_config.c, wifi_sta.c and      *)
(* softap.c of astronauts_game/common/netcfg).  NetCfgTask opens an access *)
(* point, takes the Wi-Fi name and password from a phone over TCP, joins   *)
(* that network and starts the TCP server.  The Wi-Fi service calls        *)
(* WifiConnectionChangedHandler from its own thread, and the application   *)
(* changes the mode from a third one; g_netManager has no lock.            *)
(***************************************************************************)
EXTENDS Naturals

CONSTANTS
  ConnectTimeout,   \* CONNECT_TIMEOUT, polls of the status before giving up
  RetryCount,       \* TEST_CONNECT_RETRY_COUNT, disconnects that are swallowed
  DirectConnect,    \* whether the application calls NetCfgStartConnect itself
  AppMode           \* the modes the application asks for

ASSUME NetConfigAssumption ==
  /\ ConnectTimeout \in Nat /\ RetryCount \in Nat
  /\ DirectConnect \in BOOLEAN
  /\ AppMode \subseteq {"IDLE", "CONFIG", "STA"}

VARIABLES
  mode, status, netRun,            \* g_netManager
  pc, netCfgMode, timecnt, result, \* NetCfgTask and the functions it calls
  wifiPc, retry,                   \* the Wi-Fi callback thread, g_connectRetryCount
  station, registered, link,       \* the Wi-Fi service: station mode, handler, link
  hotspot,                         \* the access point is active
  phone,                           \* what the phone has sent on its connection
  serRun                           \* g_netServer.serRun

mgr     == <<mode, status, netRun>>
locals  == <<netCfgMode, timecnt, result>>
wifi    == <<station, registered, link>>
handler == <<wifiPc, retry>>
vars    == <<mgr, pc, locals, handler, wifi, hotspot, phone, serRun>>

Mode   == {"IDLE", "CONFIG", "STA"}
Status == {"NULL", "CONFIG", "CONNECTTING", "CONNECTTED", "DISTCONNECT"}

\* NetCfgStart: the record is cleared, the mode is CONFIG, the task is created
\* with NET_STA_NULL, the number of NET_MODE_IDLE, as its own mode.
Init ==
  /\ mode = "CONFIG" /\ status = "NULL" /\ netRun = TRUE
  /\ pc = "loop" /\ netCfgMode = "IDLE" /\ timecnt = 0 /\ result = FALSE
  /\ wifiPc = "idle" /\ retry = 0
  /\ station = FALSE /\ registered = FALSE /\ link = "down"
  /\ hotspot = FALSE /\ phone = "away" /\ serRun = FALSE

Goto(l) == pc' = l

(***************************************************************************)
(* The station mode of wifi_sta.c.                                         *)
(***************************************************************************)

WifiStaStop ==
  /\ station' = FALSE /\ link' = "down"
  /\ registered' = (registered /\ ~station)

\* WifiStaStart succeeds: already enabled, or enabled and registered now.
WifiStaStart ==
  /\ station' = TRUE
  /\ registered' = (registered \/ ~station)

\* It fails: EnableWifi does, or RegisterWifiEvent does afterwards, or the
\* station turns out not to be active in the end.
WifiStaStartFails ==
  /\ ~station
  /\ \/ station' \in BOOLEAN /\ UNCHANGED registered
     \/ registered' = TRUE /\ UNCHANGED station
  /\ UNCHANGED link

(***************************************************************************)
(* NetCfgTask.                                                             *)
(***************************************************************************)

TaskExit ==
  /\ pc = "loop" /\ ~netRun
  /\ Goto("exit")
  /\ UNCHANGED <<mgr, locals, handler, wifi, hotspot, phone, serRun>>

\* A mode other than the one the task last acted on is adopted; only CONFIG
\* asks for work.
TaskAdopt ==
  /\ pc = "loop" /\ netRun /\ netCfgMode # mode
  /\ netCfgMode' = mode
  /\ Goto(IF mode = "CONFIG" THEN "config" ELSE "loop")
  /\ UNCHANGED <<mgr, timecnt, result, handler, wifi, hotspot, phone, serRun>>

\* NetCfgStartConfig.
StartConfig ==
  /\ pc = "config"
  /\ status' = "CONFIG"
  /\ Goto("staStop")
  /\ UNCHANGED <<mode, netRun, locals, handler, wifi, hotspot, phone, serRun>>

StationOff ==
  /\ pc = "staStop"
  /\ WifiStaStop
  /\ Goto("apStart")
  /\ UNCHANGED <<mgr, locals, handler, hotspot, phone, serRun>>

SoftApStart ==
  /\ pc = "apStart" /\ ~hotspot
  /\ hotspot' = TRUE
  /\ Goto("socket")
  /\ UNCHANGED <<mgr, locals, handler, wifi, phone, serRun>>

\* SoftApStart fails (always when the access point is still active), or one of
\* socket, bind and listen does: the access point is left as it is.
ConfigFails ==
  /\ pc \in {"apStart", "socket"}
  /\ status' = "NULL"
  /\ Goto("loop")
  /\ UNCHANGED <<mode, netRun, locals, handler, wifi, hotspot, phone, serRun>>

NetCfgSocket ==
  /\ pc = "socket"
  /\ Goto("serve")
  /\ UNCHANGED <<mgr, locals, handler, wifi, hotspot, phone, serRun>>

\* The accept loop tests the mode, and accept() returns when a phone connects.
ServeLoop ==
  /\ pc = "serve"
  /\ Goto(IF mode = "CONFIG" THEN "accept" ELSE "apStop")
  /\ UNCHANGED <<mgr, locals, handler, wifi, hotspot, phone, serRun>>

Accept ==
  /\ pc = "accept" /\ phone # "away"
  /\ result' = FALSE
  /\ Goto("value")
  /\ UNCHANGED <<mgr, netCfgMode, timecnt, handler, wifi, hotspot, phone, serRun>>

\* NetCfgGetSocketValue: the loop ends when the mode has changed, ...
ValueMode ==
  /\ pc = "value"
  /\ Goto(IF mode = "CONFIG" THEN "recv" ELSE "close")
  /\ UNCHANGED <<mgr, locals, handler, wifi, hotspot, phone, serRun>>

\* ... when the phone has gone; it goes on after a message that does not parse,
ValueRecv ==
  /\ pc = "recv" /\ phone \in {"gone", "junk"}
  /\ phone' = IF phone = "junk" THEN "quiet" ELSE phone
  /\ Goto(IF phone = "junk" THEN "value" ELSE "close")
  /\ UNCHANGED <<mgr, locals, handler, wifi, hotspot, serRun>>

\* and ends with a Wi-Fi name and password.
ValueParsed ==
  /\ pc = "recv" /\ phone = "config"
  /\ phone' = "quiet"
  /\ status' = "CONNECTTING"
  /\ result' = TRUE /\ timecnt' = 0
  /\ Goto("staStart")
  /\ UNCHANGED <<mode, netRun, netCfgMode, handler, wifi, hotspot, serRun>>

\* NetCfgConnect with wait = true: WifiStaStart, ...
StationOn ==
  /\ pc = "staStart"
  /\ \/ WifiStaStart /\ UNCHANGED link /\ Goto("join")
     \/ WifiStaStartFails /\ Goto("failed")
  /\ UNCHANGED <<mgr, locals, handler, hotspot, phone, serRun>>

\* ... WifiStaConnect, ...
StationJoin ==
  /\ pc = "join"
  /\ \/ link' = "trying" /\ Goto("poll")
     \/ UNCHANGED link /\ Goto("failed")
  /\ UNCHANGED <<mgr, locals, handler, station, registered, hotspot, phone, serRun>>

\* Mutant: the polls are not counted.
PollForever ==
  /\ pc = "poll"
  /\ Goto(IF status = "CONNECTTED" THEN "joined" ELSE "poll")
  /\ UNCHANGED <<mgr, locals, handler, wifi, hotspot, phone, serRun>>

\* ... and the status is polled until it is CONNECTTED or time is up.
Poll ==
  /\ pc = "poll"
  /\ IF status = "CONNECTTED" THEN Goto("joined") /\ UNCHANGED timecnt
     ELSE /\ timecnt' = timecnt + 1
          /\ Goto(IF timecnt' > ConnectTimeout THEN "failed" ELSE "poll")
  /\ UNCHANGED <<mgr, netCfgMode, result, handler, wifi, hotspot, phone, serRun>>

JoinFailed ==
  /\ pc = "failed"
  /\ status' = "NULL"
  /\ result' = FALSE
  /\ Goto("undo")
  /\ UNCHANGED <<mode, netRun, netCfgMode, timecnt, handler, wifi, hotspot, phone, serRun>>

\* Mutant: the station is left enabled after a failed attempt.
JoinUndoEnabled ==
  /\ pc = "undo"
  /\ Goto("reply")
  /\ UNCHANGED <<mgr, locals, handler, wifi, hotspot, phone, serRun>>

JoinUndo ==
  /\ pc = "undo"
  /\ WifiStaStop
  /\ Goto("reply")
  /\ UNCHANGED <<mgr, locals, handler, hotspot, phone, serRun>>

Joined ==
  /\ pc = "joined"
  /\ status' = "CONNECTTED"
  /\ Goto("reply")
  /\ UNCHANGED <<mode, netRun, locals, handler, wifi, hotspot, phone, serRun>>

\* SendLocalIp tells the phone the address, or that the attempt failed.  When the
\* address cannot be read it returns early: the phone is told nothing, and
\* NetCfgGetSocketValue goes on as after an answer.
Reply ==
  /\ pc = "reply"
  /\ \/ phone # "gone" /\ phone' = IF result THEN "ok" ELSE "err"
     \/ (phone = "gone" \/ result) /\ UNCHANGED phone
  /\ Goto(IF result THEN "server" ELSE "close")
  /\ UNCHANGED <<mgr, locals, handler, wifi, hotspot, serRun>>

ServerStart ==
  /\ pc = "server"
  /\ serRun' = TRUE
  /\ Goto("close")
  /\ UNCHANGED <<mgr, locals, handler, wifi, hotspot, phone>>

\* Mutant: the mode is set whatever the result.
CloseClientAnyway ==
  /\ pc = "close"
  /\ mode' = "STA"
  /\ phone' = "away"
  /\ Goto("serve")
  /\ UNCHANGED <<status, netRun, locals, handler, wifi, hotspot, serRun>>

\* Back in NetCfgSocket: after a success the mode is set, whatever it was.
CloseClient ==
  /\ pc = "close"
  /\ mode' = IF result THEN "STA" ELSE mode
  /\ phone' = "away"
  /\ Goto("serve")
  /\ UNCHANGED <<status, netRun, locals, handler, wifi, hotspot, serRun>>

SoftApStop ==
  /\ pc = "apStop"
  /\ hotspot' = FALSE
  /\ Goto("loop")
  /\ UNCHANGED <<mgr, locals, handler, wifi, phone, serRun>>

NetCfgTask ==
  \/ TaskExit \/ TaskAdopt
  \/ StartConfig \/ StationOff \/ SoftApStart \/ ConfigFails \/ NetCfgSocket
  \/ ServeLoop \/ Accept \/ ValueMode \/ ValueRecv \/ ValueParsed
  \/ StationOn \/ StationJoin \/ Poll \/ JoinFailed \/ JoinUndo \/ Joined
  \/ Reply \/ ServerStart \/ CloseClient \/ SoftApStop

(***************************************************************************)
(* The Wi-Fi service and its callback.                                     *)
(***************************************************************************)

\* The link comes up: the handler clears the retry count and passes the event
\* on to NetCfgConnectStatus, which looks at the status ...
LinkUp ==
  /\ wifiPc = "idle" /\ link = "trying"
  /\ link' = "up"
  /\ IF registered
       THEN /\ retry' = 0
            /\ wifiPc' = IF status # "CONNECTTED" THEN "connected" ELSE "idle"
       ELSE UNCHANGED handler
  /\ UNCHANGED <<mgr, pc, locals, station, registered, hotspot, phone, serRun>>

\* The handler only counts this disconnect.
Swallows == retry < RetryCount

\* The link or an attempt to join breaks; the first ones are only counted.  The
\* service tries again or gives up.
LinkDown ==
  /\ wifiPc = "idle" /\ link \in {"trying", "up"}
  /\ link' \in {"trying", "down"}
  /\ IF registered
       THEN IF Swallows
              THEN retry' = retry + 1 /\ UNCHANGED wifiPc
              ELSE wifiPc' = "lost" /\ UNCHANGED retry
       ELSE UNCHANGED handler
  /\ UNCHANGED <<mgr, pc, locals, station, registered, hotspot, phone, serRun>>

\* ... and, after the application's callback, writes it.
StatusConnected ==
  /\ wifiPc = "connected"
  /\ status' = "CONNECTTED"
  /\ wifiPc' = "idle"
  /\ UNCHANGED <<mode, netRun, pc, locals, retry, wifi, hotspot, phone, serRun>>

StatusLost ==
  /\ wifiPc = "lost"
  /\ status' = "DISTCONNECT"
  /\ wifiPc' = "giveUp"
  /\ UNCHANGED <<mode, netRun, pc, locals, retry, wifi, hotspot, phone, serRun>>

ModeLost ==
  /\ wifiPc = "giveUp"
  /\ mode' = "IDLE"
  /\ wifiPc' = "idle"
  /\ UNCHANGED <<status, netRun, pc, locals, retry, wifi, hotspot, phone, serRun>>

HandlerStep == StatusConnected \/ StatusLost \/ ModeLost

Wifi == LinkUp \/ LinkDown \/ HandlerStep

(***************************************************************************)
(* The application and the phone.                                          *)
(***************************************************************************)

NetCfgSetMode ==
  /\ mode' \in AppMode \ {mode}
  /\ UNCHANGED <<status, netRun, pc, locals, handler, wifi, hotspot, phone, serRun>>

NetCfgStop ==
  /\ netRun
  /\ netRun' = FALSE
  /\ UNCHANGED <<mode, status, pc, locals, handler, wifi, hotspot, phone, serRun>>

\* NetCfgConnect with wait = false.
NetCfgStartConnect ==
  /\ DirectConnect
  /\ \/ WifiStaStart /\ link' \in {link, "trying"}
     \/ WifiStaStartFails
  /\ UNCHANGED <<mgr, pc, locals, handler, hotspot, phone, serRun>>

App == NetCfgSetMode \/ NetCfgStop \/ NetCfgStartConnect

PhoneConnects ==
  /\ phone = "away" /\ pc = "accept"
  /\ phone' = "quiet"
  /\ UNCHANGED <<mgr, pc, locals, handler, wifi, hotspot, serRun>>

PhoneSends ==
  /\ phone = "quiet"
  /\ phone' \in {"junk", "config", "gone"}
  /\ UNCHANGED <<mgr, pc, locals, handler, wifi, hotspot, serRun>>

Phone == PhoneConnects \/ PhoneSends

Next == NetCfgTask \/ Wifi \/ App \/ Phone

\* The task and the callback run whenever they can; the link, the phone and the
\* application do as they please.
Fairness == WF_vars(NetCfgTask) /\ WF_vars(HandlerStep)

Spec == Init /\ [][Next]_vars

FairSpec == Spec /\ Fairness

(***************************************************************************)
(* Properties.                                                             *)
(***************************************************************************)

Serving == {"serve", "accept", "value", "recv", "staStart", "join", "poll",
            "failed", "undo", "joined", "reply", "server", "close", "apStop"}

Labels == {"loop", "config", "staStop", "apStart", "socket", "exit"} \union Serving

\* The type invariant; the retry count never passes its limit.
TypeOK ==
  /\ mode \in Mode /\ status \in Status /\ netRun \in BOOLEAN
  /\ pc \in Labels
  /\ netCfgMode \in Mode /\ timecnt \in 0 .. ConnectTimeout + 1 /\ result \in BOOLEAN
  /\ wifiPc \in {"idle", "connected", "lost", "giveUp"} /\ retry \in 0 .. RetryCount
  /\ station \in BOOLEAN /\ registered \in BOOLEAN
  /\ link \in {"down", "trying", "up"}
  /\ hotspot \in BOOLEAN
  /\ phone \in {"away", "quiet", "junk", "config", "gone", "ok", "err"}
  /\ serRun \in BOOLEAN

\* The access point a phone needs is up for as long as the task serves phones,
\* and a link exists only while the station is enabled.
HotspotServes == /\ pc \in Serving => hotspot
                 /\ link # "down" => station

\* While the task waits for the connection, the handler that reports it is
\* registered: WifiStaStart skips the registration when the station is already
\* enabled, which is sound as long as only the task enables it.
HandlerArmed == ~DirectConnect /\ pc \in {"join", "poll"} => registered

\* The device does what the phone has been told, whatever the application and the
\* Wi-Fi callback write meanwhile: after the address it is in the mode STA with
\* the server started, after a failure its mode is left as it was; and it never
\* turns to STA without having started the server.
OutcomeAsTold ==
  [][ pc = "close" /\ pc' # pc =>
        /\ phone = "ok" => mode' = "STA" /\ serRun
        /\ phone = "err" => mode' = mode
        /\ mode' # mode => serRun ]_vars

\* Every attempt to join ends: the phone that asked for it is told how, or is let
\* go with the device in the mode STA (SendLocalIp may have had no address for
\* it).  A failed attempt is always told.
AttemptAnswered ==
  /\ pc = "staStart" ~> \/ phone \in {"ok", "err", "gone"}
                        \/ phone = "away" /\ mode = "STA"
  /\ pc = "failed" ~> phone \in {"err", "gone"}

\* When the application or a lost connection takes the mode away from CONFIG
\* for good, and accept() and recv() do return, the access point is closed in the end,
\* or was left open by a configuration that had failed.
ModeChangeObeyed ==
  (<>[](mode # "CONFIG") /\ []<>(pc \notin {"accept", "recv"})) => <>[](pc \in {"loop", "exit"})

\* "Wifi connected" is what the comment on NET_STA_CONNECTTED says of this
\* status: with every thread between two of its updates, the station is on.
StatusTruthful ==
  (status = "CONNECTTED" /\ wifiPc = "idle" /\ pc \in {"loop", "accept"}) => station

\* NetCfgStop is documented as "stop net config task": provided accept() and
\* recv() do return, the task ends after it.
StopEndsTask == (<>[](~netRun) /\ []<>(pc \notin {"accept", "recv"})) => <>(pc = "exit")
=============================================================================
