----------------------------- MODULE NetManager -----------------------------
(***************************************************************************)
(* network_manager_service.c: the configuration task and the TCP server    *)
(* together.  They share g_netServer.serRun, which NetCfgTask sets when it *)
(* has joined a network, and NetManagerUnRegister stops both, the server   *)
(* first.                                                                  *)
(***************************************************************************)
EXTENDS Naturals

CONSTANTS FD, NoFd, Listener, MaxConnect, ConnBound,
          ConnectTimeout, RetryCount, DirectConnect, AppMode

VARIABLES
  sockfd, connAmount, isActive, serRun, task, scan, curFd, ready,
  open, inbox, backlog, app, deinitIdx, deinitFd, greeted,
  mode, status, netRun, pc, netCfgMode, timecnt, result, wifiPc, retry,
  station, registered, link, hotspot, phone

S == INSTANCE NetServer
C == INSTANCE NetConfig

\* What only one of the two components touches.
serverOnly == <<sockfd, connAmount, isActive, task, scan, curFd, ready,
                open, inbox, backlog, app, deinitIdx, deinitFd, greeted>>
configOnly == <<mode, status, netRun, pc, netCfgMode, timecnt, result, wifiPc,
                retry, station, registered, link, hotspot, phone>>
vars == <<serverOnly, serRun, configOnly>>

\* NetManagerRegister succeeds: NetServerInit, then NetCfgStart.
Init == S!Init /\ C!Init

\* NetManagerUnRegister: NetServerDeinit, and NetCfgStop when it has returned.
UnRegister ==
  \/ (S!NetServerDeinit \/ S!AppStep) /\ UNCHANGED configOnly
  \/ app = "off" /\ C!NetCfgStop /\ UNCHANGED serverOnly

ServerSide == (S!ServerTask \/ S!Client) /\ UNCHANGED configOnly

ConfigSide ==
  (C!NetCfgTask \/ C!Wifi \/ C!NetCfgSetMode \/ C!Phone) /\ UNCHANGED serverOnly

Next == ServerSide \/ ConfigSide \/ UnRegister

Fairness ==
  /\ WF_vars(S!ServerTask /\ UNCHANGED configOnly)
  /\ WF_vars(C!NetCfgTask /\ UNCHANGED serverOnly)
  /\ WF_vars(C!HandlerStep /\ UNCHANGED serverOnly)
  /\ WF_vars(S!AppStep /\ UNCHANGED configOnly)
  /\ WF_vars(app = "off" /\ C!NetCfgStop /\ UNCHANGED serverOnly)

Spec == Init /\ [][Next]_vars

FairSpec == Spec /\ Fairness

(***************************************************************************)
(* Properties.                                                             *)
(***************************************************************************)

\* A successful configuration leads to a server: when NetCfgTask has asked for
\* it, the server task is listening some time later, unless it could not open
\* its socket (which clears serRun) or the system is being shut down.
ConfiguredIsServed ==
  (pc = "close" /\ result) ~> (S!Listening \/ ~serRun \/ app # "idle")

\* NetServerDeinit is documented as "stop netserver task" and
\* NetManagerUnRegister calls it: the server task ends after it.
UnRegisterEndsServer == (app = "off") ~> (task = "exit")
=============================================================================
