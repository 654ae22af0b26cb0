------------------------------ MODULE WifiDemo ------------------------------
(***************************************************************************)
(* Joining and opening a hotspot: the easy_wifi library                    *)
(* (easy_wifi/src/wifi_connecter.c, wifi_starter.c) under its demos, and   *)
(* the three programs of wifi_demo.  A task calls the Wi-Fi service and    *)
(* polls a flag that the callbacks of the service set from a thread of     *)
(* their own.  The service is external: it queues events, and drops them   *)
(* when no listener is registered at their delivery.                       *)
(***************************************************************************)
EXTENDS Integers, Sequences, FiniteSets

CONSTANTS
  Demo,      \* programs of the images
  MaxRound,  \* bound: calls of the library by a program that uses it again
  MaxEvent,  \* bound: changes of the link or of the hotspot made by the outside
  Station    \* stations that may join the hotspot

VARIABLES
  demo,        \* the program of the image
  pc,          \* where its task is
  round,       \* how often the library or the loop was begun
  registered,  \* whether the listener is known to the service
  enabled,     \* whether the station or the hotspot is enabled
  link,        \* "down", "joining" or "up"; of a hotspot whether it is open
  config,      \* configurations held by the service (AddDeviceConfig, RemoveDevice)
  dhcp,        \* whether the DHCP client or server runs
  events,      \* events the service has yet to deliver
  g_connected, \* g_connected, g_scanDone or g_hotspotStarted: what the task polls
  stations,    \* stations that are joined
  g_joinedStations,
  changes      \* changes made by the outside, of MaxEvent

service == <<registered, enabled, link, config, events>>
outside == <<stations, changes>>
vars == <<demo, pc, round, service, dhcp, g_connected, g_joinedStations, outside>>

IsStation == demo \in {"easy_connect", "connect", "scan"}

Init ==
  /\ demo \in Demo /\ pc = "start" /\ round = 0
  /\ registered = FALSE /\ enabled = FALSE /\ link = "down" /\ config = 0
  /\ dhcp = FALSE /\ events = <<>> /\ g_connected = 0
  /\ stations = {} /\ g_joinedStations = 0 /\ changes = 0

Goes(from, to) == pc = from /\ pc' = to /\ UNCHANGED demo
\* A delay of a second or more outlasts the delivery of what has happened before it.
Delayed == events = <<>>
Event(e) == events' = Append(events, e)
Uses == round < MaxRound /\ round' = round + 1

(***************************************************************************)
(* The task.                                                               *)
(***************************************************************************)

\* Mutant: the flag keeps what the last use has left in it.
BeginStationKeeps ==
  /\ demo \in {"easy_connect", "connect"}
  /\ Goes("start", "wait") /\ Uses
  /\ registered' = TRUE /\ enabled' = TRUE /\ config' = config + 1
  /\ link' = "joining" /\ UNCHANGED <<dhcp, events, g_connected, g_joinedStations, outside>>

\* ConnectToHotspot, or a pass of the loop of wifi_connect_demo.c, up to ConnectTo: the
\* listener, the station, a configuration, the flag reset.  Their results are not looked at.
BeginStation ==
  /\ demo \in {"easy_connect", "connect"}
  /\ Goes("start", "wait") /\ Uses
  /\ registered' = TRUE /\ enabled' = TRUE /\ config' = config + 1
  /\ g_connected' = 0 /\ link' = "joining"
  /\ UNCHANGED <<dhcp, events, g_joinedStations, outside>>

\* WifiScanTask: the station is enabled, a second later the flag is reset and the scan begun.
BeginScan ==
  /\ demo = "scan"
  /\ Goes("start", "wait") /\ Uses
  /\ registered' = TRUE /\ enabled' = TRUE /\ g_connected' = 0 /\ link' = "joining"
  /\ UNCHANGED <<config, dhcp, events, g_joinedStations, outside>>

\* StartHotspot up to EnableHotspot.
BeginHotspot ==
  /\ ~IsStation
  /\ Goes("start", "wait") /\ Uses
  /\ registered' = TRUE /\ enabled' = TRUE /\ config' = 1 /\ g_connected' = 0
  /\ link' = "joining"
  /\ UNCHANGED <<dhcp, events, g_joinedStations, outside>>

\* The wait is over when the flag is seen set.
Connected ==
  /\ Goes("wait", IF demo = "scan" THEN "stop" ELSE "dhcp") /\ g_connected # 0
  /\ UNCHANGED <<round, service, dhcp, g_connected, g_joinedStations, outside>>

\* The address of the station, from the DHCP client of its interface.
StartDhcp ==
  /\ IsStation /\ Goes("dhcp", "online") /\ dhcp' = TRUE
  /\ UNCHANGED <<round, service, g_connected, g_joinedStations, outside>>

\* The DHCP server of the hotspot, which is stopped and started in case it ran.
StartDhcpServer ==
  /\ ~IsStation /\ Goes("dhcp", "online") /\ dhcp' = TRUE
  /\ UNCHANGED <<round, service, g_connected, g_joinedStations, outside>>

\* A minute of whatever the application does.
Online ==
  /\ Goes("online", "stop") /\ Delayed
  /\ UNCHANGED <<round, service, dhcp, g_connected, g_joinedStations, outside>>

\* DisconnectWithHotspot, or the end of the pass: the library takes its listener back
\* before the event of the disconnection is delivered.
StopStation ==
  /\ demo \in {"easy_connect", "connect"} /\ Goes("stop", "stopped")
  /\ dhcp' = FALSE /\ link' = "down"
  /\ events' = IF link = "up" THEN Append(events, "unavailable") ELSE events
  /\ registered' = (demo = "connect") /\ enabled' = FALSE /\ config' = config - 1
  /\ UNCHANGED <<round, g_connected, g_joinedStations, outside>>

StopScan ==
  /\ demo = "scan" /\ Goes("stop", "stopped")
  /\ enabled' = FALSE /\ link' = "down"
  /\ UNCHANGED <<round, registered, config, dhcp, events, g_connected, g_joinedStations, outside>>

\* StopHotspot: the stations leave after the listener is taken back.
StopHotspot ==
  /\ ~IsStation /\ Goes("stop", "stopped")
  /\ dhcp' = FALSE /\ registered' = FALSE /\ enabled' = FALSE /\ link' = "down"
  /\ config' = 0 /\ stations' = {} /\ Event("inactive")
  /\ UNCHANGED <<round, g_connected, g_joinedStations, changes>>

\* The next pass of a loop after a delay, or the next use of the library; the program of
\* wifi_hotspot_demo.c ends.
Again ==
  /\ Goes("stopped", "start") /\ Delayed
  /\ UNCHANGED <<round, service, dhcp, g_connected, g_joinedStations, outside>>

\* The library: a call begins an attempt, waits for the flag without a time-out and asks
\* for an address.
ConnectToHotspot == BeginStation \/ Connected \/ StartDhcp
DisconnectWithHotspot == StopStation
StartHotspot == BeginHotspot \/ Connected \/ StartDhcpServer

\* The programs: two of the library and the three of wifi_demo.
EasyConnectTask ==
  demo = "easy_connect" /\ (ConnectToHotspot \/ Online \/ DisconnectWithHotspot \/ Again)
EasyHotspotTask ==
  demo = "easy_hotspot" /\ (StartHotspot \/ Online \/ StopHotspot \/ Again)
WifiConnectTask ==
  demo = "connect" /\ (BeginStation \/ Connected \/ StartDhcp \/ Online \/ StopStation \/ Again)
WifiScanTask == demo = "scan" /\ (BeginScan \/ Connected \/ StopScan \/ Again)
WifiHotspotTask ==
  demo = "hotspot" /\ (BeginHotspot \/ Connected \/ StartDhcpServer \/ Online \/ StopHotspot)

Task == \/ EasyConnectTask \/ EasyHotspotTask
        \/ WifiConnectTask \/ WifiScanTask \/ WifiHotspotTask

(***************************************************************************)
(* The service and its callbacks.                                          *)
(***************************************************************************)

\* The hotspot answers: the link comes up, or the attempt fails.  A scan ends with or
\* without hotspots found.  An enabled hotspot opens.
Comes ==
  /\ link = "joining" /\ link' = "up"
  /\ Event("available")
  /\ UNCHANGED <<demo, pc, round, registered, enabled, config, dhcp, g_connected,
                 g_joinedStations, outside>>
Refused ==
  /\ link = "joining" /\ IsStation /\ changes < MaxEvent /\ link' = "down"
  /\ Event(IF demo = "scan" THEN "nothing found" ELSE "unavailable")
  /\ changes' = changes + 1
  /\ UNCHANGED <<demo, pc, round, registered, enabled, config, dhcp, g_connected,
                 g_joinedStations, stations>>

\* The link is lost, and may come back by itself.
Lost ==
  /\ link = "up" /\ IsStation /\ demo # "scan" /\ changes < MaxEvent
  /\ link' = "joining" /\ Event("unavailable") /\ changes' = changes + 1
  /\ UNCHANGED <<demo, pc, round, registered, enabled, config, dhcp, g_connected,
                 g_joinedStations, stations>>

StationChange ==
  /\ ~IsStation /\ link = "up" /\ changes < MaxEvent /\ changes' = changes + 1
  /\ \E s \in Station :
       \/ s \notin stations /\ stations' = stations \union {s} /\ Event("join")
       \/ s \in stations /\ stations' = stations \ {s} /\ Event("leave")
  /\ UNCHANGED <<demo, pc, round, registered, enabled, link, config, dhcp, g_connected,
                 g_joinedStations>>

\* The flag follows the link.
OnWifiConnectionChanged(e) ==
  /\ IsStation /\ demo # "scan"
  /\ g_connected' = IF e = "available" THEN 1 ELSE 0
  /\ UNCHANGED g_joinedStations

\* A scan is done only when it has found something.
OnWifiScanStateChanged(e) ==
  /\ demo = "scan"
  /\ g_connected' = IF e = "available" THEN 1 ELSE g_connected
  /\ UNCHANGED g_joinedStations

\* The flag follows the state of the hotspot.
OnHotspotStateChanged(e) ==
  /\ ~IsStation /\ e \in {"available", "inactive"}
  /\ g_connected' = IF e = "available" THEN 1 ELSE 0
  /\ UNCHANGED g_joinedStations

OnHotspotStaJoin(e) ==
  /\ e = "join" /\ g_joinedStations' = g_joinedStations + 1 /\ UNCHANGED g_connected

OnHotspotStaLeave(e) ==
  /\ e = "leave" /\ g_joinedStations' = g_joinedStations - 1 /\ UNCHANGED g_connected

Deliver ==
  /\ events # <<>> /\ events' = Tail(events)
  /\ IF registered
     THEN \/ OnWifiConnectionChanged(Head(events)) \/ OnWifiScanStateChanged(Head(events))
          \/ OnHotspotStateChanged(Head(events))
          \/ OnHotspotStaJoin(Head(events)) \/ OnHotspotStaLeave(Head(events))
     ELSE UNCHANGED <<g_connected, g_joinedStations>>
  /\ UNCHANGED <<demo, pc, round, registered, enabled, link, config, dhcp, outside>>

Next == Task \/ Comes \/ Refused \/ Lost \/ StationChange \/ Deliver

\* The task runs, and the service delivers its events and opens an enabled hotspot.
Fairness == WF_vars(Task) /\ WF_vars(Deliver) /\ WF_vars(Comes)
Spec == Init /\ [][Next]_vars /\ Fairness

(***************************************************************************)
(* Properties.                                                             *)
(***************************************************************************)

Pcs == {"start", "wait", "dhcp", "online", "stop", "stopped"}
\* Types: the task, the service and the counters.
TypeOK ==
  /\ demo \in Demo /\ pc \in Pcs /\ round \in 0 .. MaxRound
  /\ registered \in BOOLEAN /\ enabled \in BOOLEAN /\ dhcp \in BOOLEAN
  /\ link \in {"down", "joining", "up"} /\ config \in 0 .. 1
  /\ events \in Seq({"available", "unavailable", "inactive", "nothing found", "join", "leave"})
  /\ g_connected \in 0 .. 1 /\ stations \subseteq Station
  /\ g_joinedStations \in 0 .. MaxEvent /\ changes \in 0 .. MaxEvent

\* The task never goes on for a connection of an earlier use: at the end of its wait the
\* link is up, or its loss is an event the task has not been told of.
WaitsForThisOne ==
  pc = "wait" /\ g_connected # 0 =>
    link = "up" \/ \E i \in 1 .. Len(events) : events[i] \in {"unavailable", "inactive"}

\* What a use of the library took is given back: the configuration, the interface's DHCP,
\* the station or the hotspot itself.
GivenBack == pc \in {"start", "stopped"} => ~dhcp /\ ~enabled /\ config = 0 /\ link = "down"

\* In the first use of the hotspot the count of the callbacks differs from the stations
\* joined by the events still queued, and never falls below zero.
Queued(e) == Len(SelectSeq(events, LAMBDA x : x = e))
Counted == g_joinedStations + Queued("join") - Queued("leave") = Cardinality(stations)
StationsCounted == round = 1 /\ registered => Counted

\* A hotspot that is opened again counts from zero.  It does not: the stations that leave
\* with the first one are not reported, and the count is never reset.
StationsCountedAgain == registered => Counted

\* A link that stays up ends the wait of the task, however often it was lost before.
JoinNoticed == pc = "wait" /\ link = "up" ~> pc # "wait" \/ link # "up"

\* Every wait ends.  It does not when the hotspot refuses, or a scan finds nothing: the
\* loops wait for the flag without a time-out and nothing is tried again.
WaitEnds == pc = "wait" ~> pc # "wait"
=============================================================================
