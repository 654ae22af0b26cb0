--------------------------- MODULE AstronautsProofs ---------------------------
(***************************************************************************)
(* Safety of the board of the astronauts game, for every time-out, retry   *)
(* count and drawn position: the hotspot is up while a phone is served,    *)
(* the mode becomes STA only with the server started and never after the   *)
(* phone was refused, and no overlap of the astronaut and an obstacle goes *)
(* unseen.                                                                 *)
(***************************************************************************)
EXTENDS MCAstronauts, TLAPS

(***************************************************************************)
(* The configuration.  T and R bound the polls and the retries, which are  *)
(* one more each for the application that joins networks itself.           *)
(***************************************************************************)

Truths ==
  /\ netRun \in BOOLEAN /\ result \in BOOLEAN /\ hotspot \in BOOLEAN /\ serRun \in BOOLEAN
  /\ station \in BOOLEAN /\ registered \in BOOLEAN

ConfTypes(T, R) ==
  /\ mode \in Mode /\ status \in Status /\ Truths
  /\ pc \in Labels
  /\ netCfgMode \in Mode /\ timecnt \in 0 .. T + 1
  /\ wifiPc \in {"idle", "connected", "lost", "giveUp"} /\ retry \in 0 .. R
  /\ link \in {"down", "trying", "up"}
  /\ phone \in {"away", "quiet", "junk", "config", "gone", "ok", "err"}

\* The hotspot is up from its start on, the station where the task joins a network.
UpInv ==
  /\ pc \in Serving \union {"socket"} => hotspot
  /\ pc \in {"join", "poll"} => station
  /\ link # "down" => station

\* Between the start of an attempt and its end the polls are within their bound.
PollInv(T) == pc \in {"staStart", "join", "poll"} => timecnt <= T

\* What the phone is told is the result of its attempt, ...
ResultInv ==
  /\ pc \in {"value", "recv"} => result = FALSE
  /\ pc = "server" => result
  /\ phone = "ok" => pc \in {"server", "close"} /\ result
  /\ phone = "err" => pc = "close" /\ ~result

\* ... and a success has the server started, where nobody else stops it.
StartedInv == pc = "close" /\ result => serRun

\* The task's own station is registered, but where a start of it has failed half-way.
ArmedInv == station /\ pc \notin {"failed", "undo"} => registered

ConfInv(T, R) == ConfTypes(T, R) /\ UpInv /\ PollInv(T) /\ ResultInv

\* The steps that no bound and no choice of application enters.
TaskStep ==
  \/ TaskExit \/ TaskAdopt
  \/ StartConfig \/ StationOff \/ SoftApStart \/ ConfigFails \/ NetCfgSocket
  \/ ServeLoop \/ Accept \/ ValueMode \/ ValueRecv \/ ValueParsed
  \/ StationOn \/ StationJoin \/ JoinFailed \/ JoinUndo \/ Joined
  \/ Reply \/ ServerStart \/ CloseClient \/ SoftApStop
OtherStep == LinkUp \/ HandlerStep \/ NetCfgSetMode \/ NetCfgStop \/ Phone

\* Those of the application that leaves the station to the task ...
LEMMA AloneSteps ==
  Next => TaskStep \/ OtherStep \/ Poll \/ LinkDown \/ NetCfgStartConnect
BY DEF Next, NetCfgTask, Wifi, App, TaskStep, OtherStep

\* ... are those of the other but for the bounds.
LEMMA JoinsSteps ==
  Direct!Next => TaskStep \/ OtherStep \/ Direct!Poll \/ Direct!LinkDown \/ Direct!NetCfgStartConnect
<1>1. Direct!NetCfgTask => TaskStep \/ Direct!Poll
  BY DEF Direct!NetCfgTask, TaskStep, Goto, Direct!Goto,
    TaskExit, TaskAdopt, StartConfig, StationOff, SoftApStart, ConfigFails, NetCfgSocket,
    ServeLoop, Accept, ValueMode, ValueRecv, ValueParsed, StationOn, StationJoin, JoinFailed,
    JoinUndo, Joined, Reply, ServerStart, CloseClient, SoftApStop,
    Direct!TaskExit, Direct!TaskAdopt, Direct!StartConfig, Direct!StationOff, Direct!SoftApStart,
    Direct!ConfigFails, Direct!NetCfgSocket, Direct!ServeLoop, Direct!Accept, Direct!ValueMode,
    Direct!ValueRecv, Direct!ValueParsed, Direct!StationOn, Direct!StationJoin, Direct!JoinFailed,
    Direct!JoinUndo, Direct!Joined, Direct!Reply, Direct!ServerStart, Direct!CloseClient,
    Direct!SoftApStop, WifiStaStop, Direct!WifiStaStop, WifiStaStart, Direct!WifiStaStart,
    WifiStaStartFails, Direct!WifiStaStartFails,
    mgr, locals, wifi, handler, Direct!mgr, Direct!locals, Direct!wifi, Direct!handler
<1>2. Direct!LinkUp \/ Direct!HandlerStep \/ Direct!Phone => OtherStep
  BY DEF OtherStep, LinkUp, HandlerStep, Phone, StatusConnected, StatusLost, ModeLost,
    PhoneConnects, PhoneSends, Direct!LinkUp, Direct!HandlerStep, Direct!Phone,
    Direct!StatusConnected, Direct!StatusLost, Direct!ModeLost, Direct!PhoneConnects,
    Direct!PhoneSends, mgr, locals, wifi, handler, Direct!mgr, Direct!locals, Direct!wifi,
    Direct!handler
<1>3. Direct!NetCfgSetMode \/ Direct!NetCfgStop => OtherStep
  BY DEF OtherStep, NetCfgSetMode, NetCfgStop, Direct!NetCfgSetMode, Direct!NetCfgStop,
    mgr, locals, wifi, handler, Direct!mgr, Direct!locals, Direct!wifi, Direct!handler
<1> QED BY <1>1, <1>2, <1>3 DEF Direct!Next, Direct!Wifi, Direct!App

(***************************************************************************)
(* The invariant of the configuration.                                     *)
(***************************************************************************)

\* Flags stay flags.
LEMMA TruthsKept ==
  ASSUME Truths, TaskStep \/ OtherStep \/ Poll \/ LinkDown \/ NetCfgStartConnect
                   \/ Direct!Poll \/ Direct!LinkDown \/ Direct!NetCfgStartConnect
  PROVE  Truths'
<1> USE DEF Truths, mgr, locals, wifi, handler, Direct!mgr, Direct!locals, Direct!wifi,
      Direct!handler
<1>1. CASE UNCHANGED <<netRun, result, hotspot, serRun, station, registered>>
  BY <1>1
<1>2. CASE TaskExit \/ TaskAdopt \/ StartConfig \/ ConfigFails \/ NetCfgSocket \/ ServeLoop
             \/ ValueMode \/ ValueRecv \/ StationJoin \/ Joined \/ Reply \/ CloseClient
  BY <1>1, <1>2 DEF TaskExit, TaskAdopt, StartConfig, ConfigFails, NetCfgSocket, ServeLoop,
    ValueMode, ValueRecv, StationJoin, Joined, Reply, CloseClient
<1>3. CASE StationOff BY <1>3 DEF StationOff, WifiStaStop
<1>4. CASE JoinUndo BY <1>4 DEF JoinUndo, WifiStaStop
<1>5. CASE SoftApStart BY <1>5 DEF SoftApStart
<1>6. CASE Accept BY <1>6 DEF Accept
<1>7. CASE ValueParsed BY <1>7 DEF ValueParsed
<1>8. CASE StationOn BY <1>8 DEF StationOn, WifiStaStart, WifiStaStartFails
<1>9. CASE JoinFailed BY <1>9 DEF JoinFailed
<1>10. CASE ServerStart BY <1>10 DEF ServerStart
<1>11. CASE SoftApStop BY <1>11 DEF SoftApStop
<1>12. CASE LinkUp \/ HandlerStep \/ NetCfgSetMode \/ Phone
  BY <1>1, <1>12 DEF LinkUp, HandlerStep, StatusConnected, StatusLost, ModeLost, NetCfgSetMode,
    Phone, PhoneConnects, PhoneSends
<1>13. CASE NetCfgStop BY <1>13 DEF NetCfgStop
<1>14. CASE Poll \/ LinkDown \/ Direct!Poll \/ Direct!LinkDown
  BY <1>1, <1>14 DEF Poll, LinkDown, Direct!Poll, Direct!LinkDown
<1>15. CASE NetCfgStartConnect
  BY <1>15 DEF NetCfgStartConnect, WifiStaStart, WifiStaStartFails
<1>16. CASE Direct!NetCfgStartConnect
  BY <1>16 DEF Direct!NetCfgStartConnect, Direct!WifiStaStart, Direct!WifiStaStartFails
<1> QED
  BY <1>2, <1>3, <1>4, <1>5, <1>6, <1>7, <1>8, <1>9, <1>10, <1>11, <1>12, <1>13, <1>14, <1>15,
     <1>16 DEF TaskStep, OtherStep

\* It holds at the start, whatever the bounds.
LEMMA ConfInit == ASSUME NEW T \in Nat, NEW R \in Nat PROVE Init => ConfInv(T, R) /\ ArmedInv /\ StartedInv
<1>1. Init => Truths BY DEF Init, Truths
<1> QED BY <1>1 DEF Init, ConfInv, ConfTypes, UpInv, PollInv, ResultInv, ArmedInv,
     StartedInv, Mode, Status, Labels, Serving

\* The steps without a bound keep it.
LEMMA TaskKeeps ==
  ASSUME NEW T \in Nat, NEW R \in Nat, ConfInv(T, R), TaskStep
  PROVE  ConfInv(T, R)'
<1>0. Truths /\ Truths' BY TruthsKept DEF ConfInv, ConfTypes
<1> USE <1>0 DEF ConfInv, ConfTypes, UpInv, PollInv, ResultInv, Mode, Status, Labels, Serving,
      mgr, locals, wifi, handler, Goto
<1>1. CASE TaskExit BY <1>1 DEF TaskExit
<1>2. CASE TaskAdopt BY <1>2 DEF TaskAdopt
<1>3. CASE StartConfig BY <1>3 DEF StartConfig
<1>4. CASE StationOff BY <1>4 DEF StationOff, WifiStaStop
<1>5. CASE SoftApStart BY <1>5 DEF SoftApStart
<1>6. CASE ConfigFails BY <1>6 DEF ConfigFails
<1>7. CASE NetCfgSocket BY <1>7 DEF NetCfgSocket
<1>8. CASE ServeLoop BY <1>8 DEF ServeLoop
<1>9. CASE Accept BY <1>9 DEF Accept
<1>10. CASE ValueMode BY <1>10 DEF ValueMode
<1>11. CASE ValueRecv BY <1>11 DEF ValueRecv
<1>12. CASE ValueParsed BY <1>12 DEF ValueParsed
<1>13. CASE StationOn BY <1>13 DEF StationOn, WifiStaStart, WifiStaStartFails
<1>14. CASE StationJoin BY <1>14 DEF StationJoin
<1>15. CASE JoinFailed BY <1>15 DEF JoinFailed
<1>16. CASE JoinUndo BY <1>16 DEF JoinUndo, WifiStaStop
<1>17. CASE Joined BY <1>17 DEF Joined
<1>18. CASE Reply BY <1>18 DEF Reply
<1>19. CASE ServerStart BY <1>19 DEF ServerStart
<1>20. CASE CloseClient BY <1>20 DEF CloseClient
<1>21. CASE SoftApStop BY <1>21 DEF SoftApStop
<1> QED
  BY <1>1, <1>2, <1>3, <1>4, <1>5, <1>6, <1>7, <1>8, <1>9, <1>10, <1>11, <1>12, <1>13, <1>14,
     <1>15, <1>16, <1>17, <1>18, <1>19, <1>20, <1>21 DEF TaskStep

\* The server is started before a success is the result.
LEMMA StartedKept ==
  ASSUME Truths, ResultInv, StartedInv,
         TaskStep \/ OtherStep \/ Poll \/ LinkDown \/ NetCfgStartConnect
           \/ Direct!Poll \/ Direct!LinkDown \/ Direct!NetCfgStartConnect
  PROVE  StartedInv'
<1> USE DEF Truths, ResultInv, StartedInv, mgr, locals, wifi, handler, Goto, Direct!mgr,
      Direct!locals, Direct!wifi, Direct!handler, Direct!Goto
<1>1. CASE pc' # "close"
  BY <1>1
<1>2. CASE pc' = pc /\ UNCHANGED <<result, serRun>>
  BY <1>2
<1>3. CASE TaskStep /\ pc' = "close"
  BY <1>3 DEF TaskStep, TaskExit, TaskAdopt, StartConfig, StationOff, SoftApStart, ConfigFails,
    NetCfgSocket, ServeLoop, Accept, ValueMode, ValueRecv, ValueParsed, StationOn, StationJoin,
    JoinFailed, JoinUndo, Joined, Reply, ServerStart, CloseClient, SoftApStop
<1>4. CASE OtherStep
  BY <1>2, <1>4 DEF OtherStep, LinkUp, HandlerStep, StatusConnected, StatusLost, ModeLost,
    NetCfgSetMode, NetCfgStop, Phone, PhoneConnects, PhoneSends
<1>5. CASE Poll \/ LinkDown \/ NetCfgStartConnect \/ Direct!Poll \/ Direct!LinkDown
             \/ Direct!NetCfgStartConnect
  BY <1>1, <1>2, <1>5 DEF Poll, LinkDown, NetCfgStartConnect, Direct!Poll, Direct!LinkDown,
    Direct!NetCfgStartConnect
<1> QED BY <1>1, <1>3, <1>4, <1>5

\* So do those of the callback, the application and the phone, but for a broken link.
LEMMA OtherKeeps ==
  ASSUME NEW T \in Nat, NEW R \in Nat, NetConfigAssumption, ConfInv(T, R), OtherStep
  PROVE  ConfInv(T, R)'
<1>0. Truths /\ Truths' BY TruthsKept DEF ConfInv, ConfTypes
<1> USE <1>0 DEF ConfInv, ConfTypes, UpInv, PollInv, ResultInv, Mode, Status, Labels, Serving,
      mgr, locals, wifi, handler
<1>1. CASE LinkUp BY <1>1 DEF LinkUp
<1>2. CASE HandlerStep BY <1>2 DEF HandlerStep, StatusConnected, StatusLost, ModeLost
<1>3. CASE NetCfgSetMode BY <1>3 DEF NetCfgSetMode, NetConfigAssumption
<1>4. CASE NetCfgStop BY <1>4 DEF NetCfgStop
<1>5. CASE Phone BY <1>5 DEF Phone, PhoneConnects, PhoneSends
<1> QED BY <1>1, <1>2, <1>3, <1>4, <1>5 DEF OtherStep

\* The polls and the retries keep it with the bounds of the application, ...
LEMMA AloneKeeps ==
  ASSUME NetConfigAssumption, ConfInv(ConnectTimeout, RetryCount), Next
  PROVE  ConfInv(ConnectTimeout, RetryCount)'
<1>0. ConnectTimeout \in Nat /\ RetryCount \in Nat BY DEF NetConfigAssumption
<1>1. CASE TaskStep BY <1>0, <1>1, TaskKeeps
<1>2. CASE OtherStep BY <1>0, <1>2, OtherKeeps
<1>b. Truths /\ Truths' BY TruthsKept, AloneSteps, JoinsSteps DEF ConfInv, ConfTypes
<1> USE <1>b DEF ConfInv, ConfTypes, UpInv, PollInv, ResultInv, Mode, Status, Labels, Serving,
      mgr, locals, wifi, handler, Goto
<1>3. CASE Poll BY <1>0, <1>3 DEF Poll
<1>4. CASE LinkDown BY <1>0, <1>4 DEF LinkDown, Swallows
<1>5. CASE NetCfgStartConnect
  BY <1>0, <1>5 DEF NetCfgStartConnect, WifiStaStart, WifiStaStartFails
<1> QED BY <1>1, <1>2, <1>3, <1>4, <1>5, AloneSteps

\* ... whichever it is.
LEMMA JoinsKeeps ==
  ASSUME NetConfigAssumption, ConfInv(ConnectTimeout + 1, RetryCount + 1), Direct!Next
  PROVE  ConfInv(ConnectTimeout + 1, RetryCount + 1)'
<1>0. ConnectTimeout + 1 \in Nat /\ RetryCount + 1 \in Nat BY DEF NetConfigAssumption
<1>1. CASE TaskStep BY <1>0, <1>1, TaskKeeps
<1>2. CASE OtherStep BY <1>0, <1>2, OtherKeeps
<1>b. Truths /\ Truths' BY TruthsKept, AloneSteps, JoinsSteps DEF ConfInv, ConfTypes
<1> USE <1>b DEF ConfInv, ConfTypes, UpInv, PollInv, ResultInv, Mode, Status, Labels, Serving,
      Direct!mgr, Direct!locals, Direct!wifi, Direct!handler, Direct!Goto
<1>3. CASE Direct!Poll BY <1>0, <1>3 DEF Direct!Poll
<1>4. CASE Direct!LinkDown BY <1>0, <1>4 DEF Direct!LinkDown, Direct!Swallows
<1>5. CASE Direct!NetCfgStartConnect
  BY <1>0, <1>5 DEF Direct!NetCfgStartConnect, Direct!WifiStaStart, Direct!WifiStaStartFails
<1> QED BY <1>1, <1>2, <1>3, <1>4, <1>5, JoinsSteps

\* Only the task enables the station, so its handler is registered while it waits.
LEMMA AloneArmed ==
  ASSUME ConfInv(ConnectTimeout, RetryCount), ArmedInv, TaskStep \/ OtherStep \/ Poll \/ LinkDown
  PROVE  ArmedInv'
<1> USE DEF ArmedInv, ConfInv, ConfTypes, UpInv, mgr, locals, wifi, handler, Goto
<1>1. CASE TaskStep
  BY <1>1 DEF TaskStep, TaskExit, TaskAdopt, StartConfig, StationOff, SoftApStart, ConfigFails,
    NetCfgSocket, ServeLoop, Accept, ValueMode, ValueRecv, ValueParsed, StationOn, StationJoin,
    JoinFailed, JoinUndo, Joined, Reply, ServerStart, CloseClient, SoftApStop,
    WifiStaStop, WifiStaStart, WifiStaStartFails
<1>2. CASE OtherStep
  BY <1>2 DEF OtherStep, LinkUp, HandlerStep, StatusConnected, StatusLost, ModeLost,
    NetCfgSetMode, NetCfgStop, Phone, PhoneConnects, PhoneSends
<1>3. CASE Poll BY <1>3 DEF Poll
<1>4. CASE LinkDown BY <1>4 DEF LinkDown
<1> QED BY <1>1, <1>2, <1>3, <1>4

(***************************************************************************)
(* The configuration on the board.                                         *)
(***************************************************************************)

BoardInv ==
  /\ image \in {"alone", "joins", "game"}
  /\ IF image = "joins" THEN ConfInv(ConnectTimeout + 1, RetryCount + 1)
     ELSE ConfInv(ConnectTimeout, RetryCount)
  /\ StartedInv
  /\ image # "joins" /\ ~DirectConnect => ArmedInv

LEMMA BoardInvInit == NetConfigAssumption /\ BoardInit => BoardInv
BY ConfInit DEF BoardInit, BoardInv, NetConfigAssumption

LEMMA BoardInvNext ==
  ASSUME NetConfigAssumption, BoardInv, [BoardNext]_<<image, vars, gameVars>>
  PROVE  BoardInv'
<1>1. CASE image = "alone" /\ Next /\ UNCHANGED image
  <2>1. StartedInv'
    BY <1>1, StartedKept, AloneSteps DEF BoardInv, ConfInv, ConfTypes
  <2>2. ~DirectConnect => TaskStep \/ OtherStep \/ Poll \/ LinkDown
    BY <1>1, AloneSteps DEF NetCfgStartConnect
  <2> QED BY <1>1, <2>1, <2>2, AloneKeeps, AloneArmed DEF BoardInv
<1>2. CASE image = "joins" /\ Direct!Next /\ UNCHANGED image
  <2>1. StartedInv'
    BY <1>2, StartedKept, JoinsSteps DEF BoardInv, ConfInv, ConfTypes
  <2> QED BY <1>2, <2>1, JoinsKeeps DEF BoardInv
<1>3. CASE UNCHANGED <<image, vars>>
  BY <1>3 DEF BoardInv, ConfInv, ConfTypes, Truths, UpInv, PollInv, ResultInv, StartedInv,
    ArmedInv, vars,
    mgr, locals, wifi, handler
<1> QED BY <1>1, <1>2, <1>3 DEF BoardNext

LEMMA BoardAlways == NetConfigAssumption /\ BoardSpec => []BoardInv
<1>1. NetConfigAssumption /\ BoardInit => BoardInv BY BoardInvInit
<1>2. NetConfigAssumption /\ BoardInv /\ [BoardNext]_<<image, vars, gameVars>> => BoardInv'
  BY BoardInvNext
<1> QED BY <1>1, <1>2, NetConfigAssumption, PTL DEF BoardSpec

\* For every time-out and retry count: the hotspot is up while a phone is served, and the
\* handler that reports the connection is registered while the task waits for it.
THEOREM ConfigurationSafeAlways == BoardSpec => []ConfigurationSafe
<1>1. BoardInv => ConfigurationSafe
  BY DEF BoardInv, ConfInv, ConfTypes, Truths, UpInv, ArmedInv, ConfigurationSafe, TypeOK,
    Direct!TypeOK, HotspotServes, HandlerArmed, Mode, Status, Labels, Serving, Direct!Mode,
    Direct!Status, Direct!Labels, Direct!Serving
<1> QED BY <1>1, BoardAlways, NetConfigAssumption, PTL

\* With either application the device does what the phone has been told: STA with the server
\* started after the address, the mode left after a failure (NetCfgGetSocketValue and
\* NetCfgSocket of network_config.c).
THEOREM OutcomeAsToldAlways == BoardSpec => OutcomeAsTold
<1>1. ASSUME BoardInv, [BoardNext]_<<image, vars, gameVars>>
      PROVE  [pc = "close" /\ pc' # pc => /\ phone = "ok" => mode' = "STA" /\ serRun
                                          /\ phone = "err" => mode' = mode
                                          /\ mode' # mode => serRun]_vars
  <2>1. SUFFICES ASSUME pc = "close", pc' # pc
                 PROVE  /\ phone = "ok" => mode' = "STA" /\ serRun
                        /\ phone = "err" => mode' = mode
                        /\ mode' # mode => serRun
    OBVIOUS
  <2>2. /\ result \in BOOLEAN /\ (result => serRun)
        /\ (phone = "ok" => result) /\ (phone = "err" => ~result)
    BY <1>1, <2>1 DEF BoardInv, ConfInv, ConfTypes, Truths, ResultInv, StartedInv
  <2>3. Next \/ Direct!Next BY <1>1, <2>1 DEF BoardNext, vars
  <2>4. CloseClient
    BY <2>1, <2>3, AloneSteps, JoinsSteps DEF TaskStep, OtherStep, TaskExit, TaskAdopt,
      StartConfig, StationOff, SoftApStart, ConfigFails, NetCfgSocket, ServeLoop, Accept,
      ValueMode, ValueRecv, ValueParsed, StationOn, StationJoin, JoinFailed, JoinUndo, Joined,
      Reply, ServerStart, CloseClient, SoftApStop, LinkUp, HandlerStep, StatusConnected,
      StatusLost, ModeLost, NetCfgSetMode, NetCfgStop, Phone, PhoneConnects, PhoneSends, Poll,
      LinkDown, NetCfgStartConnect, Direct!Poll, Direct!LinkDown, Direct!NetCfgStartConnect
  <2> QED BY <2>2, <2>4 DEF CloseClient
<1> QED BY <1>1, BoardAlways, NetConfigAssumption, PTL DEF BoardSpec, OutcomeAsTold

(***************************************************************************)
(* The configuration under the network manager (NetManager).  The server   *)
(* shares its run flag with it, which the server task clears when it       *)
(* cannot open its socket; of what the flag says nothing is left, all else *)
(* holds as it does alone.                                                 *)
(***************************************************************************)

CONSTANTS FD, NoFd, Listener, MaxConnect, ConnBound
VARIABLES sockfd, connAmount, isActive, task, scan, curFd, ready, open, inbox, backlog, app,
  deinitIdx, deinitFd, greeted

Manager == INSTANCE NetManager

\* What the task, the Wi-Fi, the application and the phone do is what they do alone.
LEMMA ConfigSame ==
  Manager!C!NetCfgTask \/ Manager!C!Wifi \/ Manager!C!NetCfgSetMode \/ Manager!C!Phone
    \/ Manager!C!NetCfgStop
    => Next /\ (TaskStep \/ OtherStep \/ Poll \/ LinkDown)
<1> USE DEF Manager!C!mgr, Manager!C!locals, Manager!C!wifi, Manager!C!handler, Manager!C!Goto,
      mgr, locals, wifi, handler, Goto
<1>1. Manager!C!TaskExit \/ Manager!C!TaskAdopt \/ Manager!C!StartConfig \/ Manager!C!SoftApStart
        \/ Manager!C!ConfigFails \/ Manager!C!NetCfgSocket \/ Manager!C!ServeLoop
        \/ Manager!C!Accept \/ Manager!C!ValueMode \/ Manager!C!ValueRecv \/ Manager!C!ValueParsed
        => TaskExit \/ TaskAdopt \/ StartConfig \/ SoftApStart \/ ConfigFails \/ NetCfgSocket
             \/ ServeLoop \/ Accept \/ ValueMode \/ ValueRecv \/ ValueParsed
  BY DEF Manager!C!TaskExit, Manager!C!TaskAdopt, Manager!C!StartConfig, Manager!C!SoftApStart,
    Manager!C!ConfigFails, Manager!C!NetCfgSocket, Manager!C!ServeLoop, Manager!C!Accept,
    Manager!C!ValueMode, Manager!C!ValueRecv, Manager!C!ValueParsed, TaskExit, TaskAdopt,
    StartConfig, SoftApStart, ConfigFails, NetCfgSocket, ServeLoop, Accept, ValueMode, ValueRecv,
    ValueParsed
<1>2. Manager!C!StationOff \/ Manager!C!StationOn \/ Manager!C!StationJoin \/ Manager!C!Poll
        \/ Manager!C!JoinFailed \/ Manager!C!JoinUndo \/ Manager!C!Joined \/ Manager!C!Reply
        \/ Manager!C!ServerStart \/ Manager!C!CloseClient \/ Manager!C!SoftApStop
        => StationOff \/ StationOn \/ StationJoin \/ Poll \/ JoinFailed \/ JoinUndo \/ Joined
             \/ Reply \/ ServerStart \/ CloseClient \/ SoftApStop
  BY DEF Manager!C!StationOff, Manager!C!StationOn, Manager!C!StationJoin, Manager!C!Poll,
    Manager!C!JoinFailed, Manager!C!JoinUndo, Manager!C!Joined, Manager!C!Reply,
    Manager!C!ServerStart, Manager!C!CloseClient, Manager!C!SoftApStop, Manager!C!WifiStaStop,
    Manager!C!WifiStaStart, Manager!C!WifiStaStartFails, StationOff, StationOn, StationJoin, Poll,
    JoinFailed, JoinUndo, Joined, Reply, ServerStart, CloseClient, SoftApStop, WifiStaStop,
    WifiStaStart, WifiStaStartFails
<1>3. Manager!C!Wifi => LinkUp \/ LinkDown \/ HandlerStep
  BY DEF Manager!C!Wifi, Manager!C!LinkUp, Manager!C!LinkDown, Manager!C!Swallows,
    Manager!C!HandlerStep, Manager!C!StatusConnected, Manager!C!StatusLost, Manager!C!ModeLost,
    LinkUp, LinkDown, Swallows, HandlerStep, StatusConnected, StatusLost, ModeLost
<1>4. Manager!C!NetCfgSetMode \/ Manager!C!NetCfgStop \/ Manager!C!Phone
        => NetCfgSetMode \/ NetCfgStop \/ Phone
  BY DEF Manager!C!NetCfgSetMode, Manager!C!NetCfgStop, Manager!C!Phone, Manager!C!PhoneConnects,
    Manager!C!PhoneSends, NetCfgSetMode, NetCfgStop, Phone, PhoneConnects, PhoneSends
<1> HIDE DEF Manager!C!mgr, Manager!C!locals, Manager!C!wifi, Manager!C!handler, Manager!C!Goto,
      mgr, locals, wifi, handler, Goto
<1>5. Manager!C!NetCfgTask => NetCfgTask /\ (TaskStep \/ Poll)
  BY <1>1, <1>2 DEF Manager!C!NetCfgTask, NetCfgTask, TaskStep
<1> QED BY <1>3, <1>4, <1>5 DEF Next, Wifi, App, OtherStep

\* The server touches nothing else of the configuration than its run flag.
LEMMA ServerLeaves ==
  Manager!S!ServerTask \/ Manager!S!Client \/ Manager!S!NetServerDeinit \/ Manager!S!AppStep
    => serRun' = serRun \/ serRun' = FALSE
BY DEF Manager!S!ServerTask, Manager!S!TaskLoop, Manager!S!TaskPoll, Manager!S!StartServer,
  Manager!S!ListenLoop, Manager!S!ListenEnd, Manager!S!EndSlot, Manager!S!EndClose,
  Manager!S!EndClear, Manager!S!EndServer, Manager!S!Select, Manager!S!ScanSlot,
  Manager!S!ScanEnd, Manager!S!ReadLoad, Manager!S!ReadClosed, Manager!S!ReadCleared,
  Manager!S!ReadUncounted, Manager!S!ReadSpecial, Manager!S!TakeReserved, Manager!S!ReadData, Manager!S!CheckNothing, Manager!S!CheckAccept, Manager!S!CheckReject,
  Manager!S!Client, Manager!S!ClientConnect, Manager!S!ClientInput, Manager!S!NetServerDeinit,
  Manager!S!AppStep, Manager!S!DeinitSlot, Manager!S!DeinitShut, Manager!S!DeinitClear,
  Manager!S!DeinitDone, Manager!S!flags

ManagedInv == ConfInv(ConnectTimeout, RetryCount) /\ ArmedInv

LEMMA ManagedInit == NetConfigAssumption /\ Manager!Init => ManagedInv
<1>1. Manager!Init => Init
  BY DEF Manager!Init, Manager!C!Init, Init
<1> QED BY <1>1, ConfInit DEF NetConfigAssumption, ManagedInv

\* A step of the composition is one of the configuration or changes the run flag only.
LEMMA ManagedNext ==
  ASSUME NetConfigAssumption, ManagedInv, [Manager!Next]_(Manager!vars)
  PROVE  /\ ManagedInv'
         /\ TaskStep \/ OtherStep \/ Poll \/ LinkDown \/ UNCHANGED Manager!configOnly
<1>1. CASE Manager!C!NetCfgTask \/ Manager!C!Wifi \/ Manager!C!NetCfgSetMode
             \/ Manager!C!Phone \/ Manager!C!NetCfgStop
  BY <1>1, ConfigSame, AloneKeeps, AloneArmed DEF ManagedInv
<1>2. CASE UNCHANGED Manager!configOnly /\ serRun' \in BOOLEAN
  BY <1>2 DEF Manager!configOnly, ManagedInv, ConfInv, ConfTypes, Truths, UpInv, PollInv,
    ResultInv, ArmedInv
<1>3. CASE (Manager!S!ServerTask \/ Manager!S!Client \/ Manager!S!NetServerDeinit
              \/ Manager!S!AppStep) /\ UNCHANGED Manager!configOnly
  BY <1>2, <1>3, ServerLeaves DEF ManagedInv, ConfInv, ConfTypes, Truths
<1>4. CASE UNCHANGED Manager!vars
  BY <1>2, <1>4 DEF Manager!vars, ManagedInv, ConfInv, ConfTypes, Truths
<1> QED
  BY <1>1, <1>3, <1>4 DEF Manager!Next, Manager!ServerSide, Manager!ConfigSide,
    Manager!UnRegister

\* Beside the server, too, the hotspot is up while a phone is served, the handler that reports
\* the connection is registered while the task waits for it, and the mode is STA for a phone
\* that has its address and left for one that was refused (network_manager_service.c).
THEOREM ConfigurationSafeInManager ==
  Manager!Spec =>
    /\ [](HotspotServes /\ (pc \in {"join", "poll"} => registered))
    /\ [][pc = "close" /\ pc' # pc =>
             (phone = "ok" => mode' = "STA") /\ (phone = "err" => mode' = mode)]_vars
<1> DEFINE A == pc = "close" /\ pc' # pc =>
                  (phone = "ok" => mode' = "STA") /\ (phone = "err" => mode' = mode)
<1>1. ManagedInv => HotspotServes /\ (pc \in {"join", "poll"} => registered)
  BY DEF ManagedInv, ConfInv, UpInv, ArmedInv, HotspotServes
<1>2. NetConfigAssumption /\ ManagedInv /\ [Manager!Next]_(Manager!vars) => ManagedInv' /\ [A]_vars
  <2> SUFFICES ASSUME NetConfigAssumption, ManagedInv, [Manager!Next]_(Manager!vars),
                      pc = "close", pc' # pc
               PROVE  /\ phone = "ok" => mode' = "STA"
                      /\ phone = "err" => mode' = mode
    BY ManagedNext
  <2>1. result \in BOOLEAN /\ (phone = "ok" => result) /\ (phone = "err" => ~result)
    BY DEF ManagedInv, ConfInv, ConfTypes, Truths, ResultInv
  <2>2. TaskStep \/ OtherStep \/ Poll \/ LinkDown
    BY ManagedNext DEF Manager!configOnly
  <2>3. CloseClient
    BY <2>2 DEF TaskStep, OtherStep, TaskExit, TaskAdopt, StartConfig, StationOff, SoftApStart,
      ConfigFails, NetCfgSocket, ServeLoop, Accept, ValueMode, ValueRecv, ValueParsed, StationOn,
      StationJoin, JoinFailed, JoinUndo, Joined, Reply, ServerStart, CloseClient, SoftApStop,
      LinkUp, HandlerStep, StatusConnected, StatusLost, ModeLost, NetCfgSetMode, NetCfgStop,
      Phone, PhoneConnects, PhoneSends, Poll, LinkDown
  <2> QED BY <2>1, <2>3 DEF CloseClient
<1> QED BY <1>1, <1>2, ManagedInit, NetConfigAssumption, PTL DEF Manager!Spec

(***************************************************************************)
(* The game.  The obstacles run on a fixed track: the distance flown tells *)
(* where they are until the second tag, and the first one tells where the  *)
(* others are after it.                                                    *)
(***************************************************************************)

Flying(d) ==
  \/ speedY = 1 /\ difficulty \in {0, 2} /\ d \in 0 .. 50
  \/ speedY = 1 /\ difficulty = 1 /\ d \in 0 .. 200
  \/ speedY = 2 /\ difficulty = 1 /\ \E k \in 25 .. 99 : d = 2 * k + 1
  \/ speedY \in {3, 4} /\ difficulty = 2 /\ d = 201

\* Between a move and the change of the difficulty the distance is one step ahead.
Flown(d) ==
  \/ speedY = 1 /\ difficulty \in {0, 2} /\ d \in 1 .. 51
  \/ speedY = 1 /\ difficulty = 1 /\ d \in 1 .. 201
  \/ speedY = 2 /\ difficulty = 1 /\ \E k \in 26 .. 100 : d = 2 * k + 1
  \/ speedY \in {3, 4} /\ difficulty = 2 /\ d = 201

SpeedInv ==
  /\ speedX = speedY + 1
  /\ gamePc \in {"loop", "over", "reset"} => Flying(flyDistance)
  /\ gamePc = "refresh" => Flown(flyDistance)
  /\ gamePc \in {"pending", "clear"} => speedY = 1

\* The row of obstacle i at distance d, at the speeds of one and two rows.
Row(i, d) == IF d < 65 + 40 * i THEN d - 40 * i ELSE d - 40 * i - 145
SlowTrack(a, b, c, d) == a = Row(0, d) /\ b = Row(1, d) /\ c = Row(2, d)

\* At four rows, 64 is followed by -80 and all rows are multiples of four.
FourTrack(a, b, c) ==
  /\ \E k \in -20 .. 16 : a = 4 * k
  /\ b = IF a < -40 THEN a + 108 ELSE a - 40
  /\ c = IF a < 0 THEN a + 68 ELSE a - 80

\* At three rows the first obstacle leaves from row 62, the others from 64 and 63.
ThreeTrack(a, b, c) ==
  \/ a \in {56, 59, 62} /\ b = a - 40 /\ c = a - 80
  \/ /\ \E k \in -27 .. 21 : a = 3 * k + 1
     /\ b = IF a < -40 THEN a + 105 ELSE a - 42
     /\ IF a < 0 THEN c \in {a + 65, a + 66} ELSE c = a - 81

Track(a, b, c, d) ==
  \/ speedY \in {1, 2} /\ SlowTrack(a, b, c, d)
  \/ speedY = 3 /\ ThreeTrack(a, b, c)
  \/ speedY = 4 /\ FourTrack(a, b, c)

Rows(o) == o \in [0 .. 2 -> [X : 0 .. 128, Y : -80 .. 64]]

GameTypes ==
  /\ gamePc \in {"pending", "loop", "refresh", "over", "reset", "clear"}
  /\ speedY \in 1 .. 4 /\ difficulty \in 0 .. 2 /\ flyDistance \in 0 .. 204
  /\ posX \in -Drift .. 112 + Drift /\ moved \in -Drift .. 112 + Drift
  /\ buttonPc \in {"poll", "store"}
  /\ Rows(obstacles)

GameTruths ==
  running \in BOOLEAN /\ collided \in BOOLEAN /\ musicFlag \in BOOLEAN /\ playing \in BOOLEAN

TrackInv ==
  gamePc \in {"loop", "refresh"} =>
    Track(obstacles[0].Y, obstacles[1].Y, obstacles[2].Y, flyDistance)

GameInv == GameTypes /\ GameTruths /\ SpeedInv /\ TrackInv

Moved(y) == IF y + speedY > 64 THEN -80 ELSE y + speedY

\* Where a step of the game leaves every obstacle.
LEMMA MoveFacts ==
  ASSUME GameAssumption, GameTypes, Play!GameLoop
  PROVE  /\ Rows(obstacles')
         /\ \A i \in 0 .. 2 : obstacles'[i].Y = Moved(obstacles[i].Y)
<1> USE DEF Play!Pipes
<1>1. PICK x \in [{i \in Play!Pipes : Play!Leaves(i)} -> RandLeft \union RandRight] :
         obstacles' = Play!MoveObstacles(x)
  BY DEF Play!GameLoop
<1>2. RandLeft \union RandRight \subseteq 0 .. 128
  BY DEF GameAssumption, Play!Width, Play!AstronautWidth
<1>3. ASSUME NEW i \in 0 .. 2
      PROVE  /\ obstacles'[i] \in [X : 0 .. 128, Y : -80 .. 64]
             /\ obstacles'[i].Y = Moved(obstacles[i].Y)
  <2>1. /\ obstacles[i] \in [X : 0 .. 128, Y : -80 .. 64]
        /\ obstacles[i].X \in 0 .. 128 /\ obstacles[i].Y \in -80 .. 64
        /\ speedY \in 1 .. 4
    BY DEF GameTypes, Rows
  <2>2. obstacles'[i] = IF obstacles[i].Y + speedY > 64 THEN [X |-> x[i], Y |-> -80]
                        ELSE [X |-> obstacles[i].X, Y |-> obstacles[i].Y + speedY]
    BY <1>1 DEF Play!MoveObstacles, Play!Generated, Play!Height, Play!Interval
  <2>3. CASE obstacles[i].Y + speedY > 64
    <3>1. x[i] \in 0 .. 128
      BY <1>1, <1>2, <2>3 DEF Play!Leaves, Play!Height
    <3> QED BY <2>2, <2>3, <3>1 DEF Moved
  <2>4. CASE ~(obstacles[i].Y + speedY > 64)
    BY <2>1, <2>2, <2>4 DEF Moved
  <2> QED BY <2>3, <2>4
<1>4. obstacles' = [i \in 0 .. 2 |-> obstacles'[i]]
  BY <1>1 DEF Play!MoveObstacles
<1> QED BY <1>3, <1>4 DEF Rows

\* The distance after a move.
Onward(d) == IF d > 200 THEN d ELSE d + speedY

\* A move keeps the obstacles on their track.
LEMMA TrackStep ==
  ASSUME NEW a \in -80 .. 64, NEW b \in -80 .. 64, NEW c \in -80 .. 64, NEW d \in 0 .. 204,
         speedY \in 1 .. 4, Flying(d), Track(a, b, c, d)
  PROVE  Flown(Onward(d)) /\ Track(Moved(a), Moved(b), Moved(c), Onward(d))
<1>1. CASE speedY = 1
  BY <1>1 DEF Flying, Flown, Onward, Moved, Track, SlowTrack, Row
<1>2. CASE speedY = 2
  <2>1. PICK k \in 25 .. 99 : d = 2 * k + 1 BY <1>2 DEF Flying
  <2>2. Onward(d) = 2 * (k + 1) + 1 /\ k + 1 \in 26 .. 100 BY <1>2, <2>1 DEF Onward
  <2>3. Flown(Onward(d)) BY <1>2, <2>2 DEF Flown, Flying
  <2>4. SlowTrack(Moved(a), Moved(b), Moved(c), Onward(d))
    BY <1>2, <2>1, <2>2 DEF Track, SlowTrack, Row, Moved
  <2> QED BY <1>2, <2>3, <2>4 DEF Track
<1>3. CASE speedY = 3
  <2>1. d = 201 /\ Onward(d) = 201 /\ Flown(201) BY <1>3 DEF Flying, Flown, Onward
  <2>2. CASE a \in {56, 59, 62} /\ b = a - 40 /\ c = a - 80
    <3>1. -80 = 3 * (-27) + 1 OBVIOUS
    <3> QED BY <1>3, <2>1, <2>2, <3>1 DEF Track, ThreeTrack, Moved
  <2>3. CASE ~(a \in {56, 59, 62} /\ b = a - 40 /\ c = a - 80)
    <3>1. PICK k \in -27 .. 21 : a = 3 * k + 1 BY <1>3, <2>3 DEF Track, ThreeTrack
    <3>2. /\ b = IF a < -40 THEN a + 105 ELSE a - 42
          /\ IF a < 0 THEN c \in {a + 65, a + 66} ELSE c = a - 81
      BY <1>3, <2>3 DEF Track, ThreeTrack
    <3>3. \E m \in -27 .. 21 : Moved(a) = 3 * m + 1
      <4>1. CASE k = 21 BY <1>3, <3>1, <4>1 DEF Moved
      <4>2. CASE k # 21
        <5>1. k + 1 \in -27 .. 21 /\ Moved(a) = 3 * (k + 1) + 1 BY <1>3, <3>1, <4>2 DEF Moved
        <5> QED BY <5>1
      <4> QED BY <4>1, <4>2
    <3>4. Moved(b) = IF Moved(a) < -40 THEN Moved(a) + 105 ELSE Moved(a) - 42
      BY <1>3, <3>1, <3>2 DEF Moved
    <3>5. IF Moved(a) < 0 THEN Moved(c) \in {Moved(a) + 65, Moved(a) + 66}
          ELSE Moved(c) = Moved(a) - 81
      BY <1>3, <3>1, <3>2 DEF Moved
    <3>6. ThreeTrack(Moved(a), Moved(b), Moved(c)) BY <3>3, <3>4, <3>5 DEF ThreeTrack
    <3> QED BY <1>3, <2>1, <3>6 DEF Track
  <2> QED BY <2>2, <2>3
<1>4. CASE speedY = 4
  <2>1. d = 201 /\ Onward(d) = 201 /\ Flown(201) BY <1>4 DEF Flying, Flown, Onward
  <2>2. PICK k \in -20 .. 16 : a = 4 * k BY <1>4 DEF Track, FourTrack
  <2>3. /\ b = IF a < -40 THEN a + 108 ELSE a - 40
        /\ c = IF a < 0 THEN a + 68 ELSE a - 80
    BY <1>4 DEF Track, FourTrack
  <2>4. \E m \in -20 .. 16 : Moved(a) = 4 * m
    <3>1. CASE k = 16 BY <1>4, <2>2, <3>1 DEF Moved
    <3>2. CASE k # 16
      <4>1. k + 1 \in -20 .. 16 /\ Moved(a) = 4 * (k + 1) BY <1>4, <2>2, <3>2 DEF Moved
      <4> QED BY <4>1
    <3> QED BY <3>1, <3>2
  <2>5. /\ Moved(b) = IF Moved(a) < -40 THEN Moved(a) + 108 ELSE Moved(a) - 40
        /\ Moved(c) = IF Moved(a) < 0 THEN Moved(a) + 68 ELSE Moved(a) - 80
    BY <1>4, <2>2, <2>3 DEF Moved
  <2> QED BY <1>4, <2>1, <2>4, <2>5 DEF Track, FourTrack
<1> QED BY <1>1, <1>2, <1>3, <1>4

LEMMA GameInit == GameAssumption /\ Play!Init => GameInv
<1>1. SUFFICES ASSUME GameAssumption, Play!Init PROVE GameInv
  OBVIOUS
<1>2. GameTruths BY <1>1 DEF Play!Init, GameTruths
<1>3. Rows(obstacles)
  <2>1. [X |-> 0, Y |-> 0] \in [X : 0 .. 128, Y : -80 .. 64] OBVIOUS
  <2> QED BY <1>1, <2>1 DEF Play!Init, Play!Pipes, Rows
<1> QED
  BY <1>1, <1>2, <1>3 DEF Play!Init, Play!InitX, GameAssumption, GameInv, GameTypes, SpeedInv,
    TrackInv, Flying

\* Flags stay flags.
LEMMA GameTruthsKept == GameTruths /\ Play!Next => GameTruths'
<1>1. SUFFICES ASSUME GameTruths, Play!Next PROVE GameTruths'
  OBVIOUS
<1> USE <1>1 DEF GameTruths, Play!logic, Play!button, Play!music
<1>2. CASE Play!GameStart BY <1>2 DEF Play!GameStart
<1>3. CASE Play!GameLoop BY <1>3 DEF Play!GameLoop, Play!IsCollision
<1>4. CASE Play!RefreshGameDifficulty BY <1>4 DEF Play!RefreshGameDifficulty
<1>5. CASE Play!CollisionMusic BY <1>5 DEF Play!CollisionMusic
<1>6. CASE Play!GameOver BY <1>6 DEF Play!GameOver
<1>7. CASE Play!ClearRunning BY <1>7 DEF Play!ClearRunning
<1>8. CASE Play!PressUser BY <1>8 DEF Play!PressUser
<1>9. CASE Play!PressMove BY <1>9 DEF Play!PressMove
<1>10. CASE Play!StoreMove BY <1>10 DEF Play!StoreMove
<1>11. CASE Play!StartPlayback BY <1>11 DEF Play!StartPlayback
<1>12. CASE Play!EndPlayback BY <1>12 DEF Play!EndPlayback
<1> QED
  BY <1>2, <1>3, <1>4, <1>5, <1>6, <1>7, <1>8, <1>9, <1>10, <1>11, <1>12
    DEF Play!Next, Play!GameTask, Play!ButtonTask, Play!BeeperMusicTask

\* A game starts with its obstacles an interval apart, whatever the last one left.
LEMMA StartKeeps ==
  ASSUME GameAssumption, GameInv, GameTruths', Play!GameStart PROVE GameInv'
<1> USE DEF GameInv, Play!Pipes
<1>1. RandLeft \union RandRight \subseteq 0 .. 128
  BY DEF GameAssumption, Play!Width, Play!AstronautWidth
<1>2. PICK x \in [Play!Pipes -> RandLeft \union RandRight] :
         obstacles' = [i \in Play!Pipes |-> [X |-> x[i], Y |-> -(i * Play!Interval)]]
  BY DEF Play!GameStart
<1>3. ASSUME NEW i \in 0 .. 2
      PROVE  /\ obstacles'[i] \in [X : 0 .. 128, Y : -80 .. 64]
             /\ obstacles'[i].Y = -(i * 40)
  <2>1. obstacles'[i] = [X |-> x[i], Y |-> -(i * 40)] BY <1>2 DEF Play!Interval
  <2>2. x[i] \in 0 .. 128 BY <1>1, <1>2
  <2>3. -(i * 40) \in -80 .. 64 OBVIOUS
  <2> QED BY <2>1, <2>2, <2>3
<1>4. obstacles' = [i \in 0 .. 2 |-> obstacles'[i]] BY <1>2
<1>5. Rows(obstacles') BY <1>3, <1>4 DEF Rows
<1>6. obstacles'[0].Y = 0 /\ obstacles'[1].Y = -40 /\ obstacles'[2].Y = -80 BY <1>3
<1>7. /\ speedY' = 1 /\ speedX' = 2 /\ difficulty' \in 0 .. 2 /\ flyDistance' = 0
      /\ gamePc' = "loop" /\ posX' = 52 /\ UNCHANGED <<moved, buttonPc>>
  BY DEF Play!GameStart, Play!InitX, SpeedInv, GameTypes, Play!button
<1>8. GameTypes' BY <1>5, <1>7 DEF GameTypes, GameAssumption
<1>9. SpeedInv' BY <1>7 DEF SpeedInv, Flying
<1>10. TrackInv' BY <1>6, <1>7 DEF TrackInv, Track, SlowTrack, Row
<1> QED BY <1>8, <1>9, <1>10

LEMMA LoopKeeps ==
  ASSUME GameAssumption, GameInv, GameTruths', Play!GameLoop PROVE GameInv'
<1> USE DEF GameInv
<1>1. /\ gamePc = "loop" /\ gamePc' = "refresh" /\ flyDistance' = Onward(flyDistance)
      /\ UNCHANGED <<posX, speedX, speedY, difficulty, moved, buttonPc>>
  BY DEF Play!GameLoop, Play!button, Onward, Play!Tag2
<1>2. /\ Rows(obstacles')
      /\ \A i \in 0 .. 2 : obstacles'[i].Y = Moved(obstacles[i].Y)
  BY MoveFacts
<1>3. /\ obstacles[0].Y \in -80 .. 64 /\ obstacles[1].Y \in -80 .. 64
      /\ obstacles[2].Y \in -80 .. 64
  BY DEF GameTypes, Rows
<1>4. /\ Flown(flyDistance')
      /\ Track(Moved(obstacles[0].Y), Moved(obstacles[1].Y), Moved(obstacles[2].Y), flyDistance')
  BY ZenonT(60), <1>1, <1>3, TrackStep DEF SpeedInv, TrackInv, GameTypes
<1>5. flyDistance' \in 0 .. 204 BY <1>4, <1>1 DEF Flown, Onward, GameTypes
<1>6. GameTypes' BY <1>1, <1>2, <1>5 DEF GameTypes
<1>7. SpeedInv' BY <1>1, <1>4 DEF SpeedInv, Flown
<1>8. TrackInv'
  <2>1. Track(obstacles'[0].Y, obstacles'[1].Y, obstacles'[2].Y, flyDistance')
    BY <1>2, <1>4
  <2> QED BY <2>1, <1>1 DEF TrackInv, Track
<1> QED BY <1>6, <1>7, <1>8

\* A change of the speed finds the obstacles where the next track goes on.
LEMMA RefreshKeeps ==
  ASSUME GameInv, GameTruths', Play!RefreshGameDifficulty PROVE GameInv'
<1> USE DEF GameInv
<1>1. /\ gamePc = "refresh" /\ gamePc' \in {"loop", "over"}
      /\ UNCHANGED <<posX, flyDistance, obstacles, moved, buttonPc>>
      /\ difficulty' = Play!NextDifficulty
      /\ speedY' = IF difficulty' # difficulty THEN speedY + difficulty' ELSE speedY
      /\ speedX' = IF difficulty' # difficulty THEN speedX + difficulty' ELSE speedX
  BY DEF Play!RefreshGameDifficulty, Play!button
<1>2. Flown(flyDistance) /\ speedX = speedY + 1 /\ speedY \in 1 .. 4 /\ difficulty \in 0 .. 2
  BY <1>1 DEF SpeedInv, GameTypes
<1>3. speedX' = speedY' + 1 /\ speedY' \in 1 .. 4 /\ difficulty' \in 0 .. 2
  BY <1>1, <1>2 DEF Play!NextDifficulty, Flown, Play!Tag1, Play!Tag2
<1>4. Flying(flyDistance)'
  <2>1. CASE speedY = 1
    <3>1. CASE flyDistance = 51 /\ difficulty # 1
      <4>1. 25 \in 25 .. 99 /\ flyDistance' = 2 * 25 + 1 BY <1>1, <3>1
      <4>2. \E k \in 25 .. 99 : flyDistance' = 2 * k + 1 BY <4>1
      <4> QED BY <1>1, <1>2, <2>1, <3>1, <4>2 DEF Play!NextDifficulty, Play!Tag1, Play!Tag2, Flying
    <3>2. CASE ~(flyDistance = 51 /\ difficulty # 1)
      BY <1>1, <1>2, <2>1, <3>2 DEF Play!NextDifficulty, Play!Tag1, Play!Tag2, Flying, Flown
    <3> QED BY <3>1, <3>2
  <2>2. CASE speedY = 2
    <3>1. PICK k \in 26 .. 100 : flyDistance = 2 * k + 1 BY <1>2, <2>2 DEF Flown
    <3>2. difficulty = 1 BY <1>2, <2>2 DEF Flown
    <3>3. CASE k = 100
      BY <1>1, <2>2, <3>1, <3>2, <3>3 DEF Play!NextDifficulty, Play!Tag1, Play!Tag2, Flying
    <3>4. CASE k # 100
      <4>1. k \in 25 .. 99 /\ flyDistance' = 2 * k + 1 BY <1>1, <3>1, <3>4
      <4>2. \E m \in 25 .. 99 : flyDistance' = 2 * m + 1 BY <4>1
      <4>3. speedY' = 2 /\ difficulty' = 1
        BY <1>1, <2>2, <3>1, <3>2, <3>4 DEF Play!NextDifficulty, Play!Tag2
      <4> QED BY <4>2, <4>3 DEF Flying
    <3> QED BY <3>3, <3>4
  <2>3. CASE speedY \in {3, 4}
    BY <1>1, <1>2, <2>3 DEF Play!NextDifficulty, Play!Tag1, Play!Tag2, Flying, Flown
  <2> QED BY <1>2, <2>1, <2>2, <2>3
<1>5. GameTypes' BY <1>1, <1>3 DEF GameTypes
<1>6. SpeedInv' BY <1>1, <1>3, <1>4 DEF SpeedInv
<1>7. TrackInv'
  <2>1. Track(obstacles[0].Y, obstacles[1].Y, obstacles[2].Y, flyDistance)
    BY <1>1 DEF TrackInv
  <2>2. CASE speedY' = speedY
    BY <1>1, <2>1, <2>2 DEF TrackInv, Track
  <2>3. CASE speedY' # speedY
    <3>1. CASE speedY' = 2
      BY <1>1, <1>2, <2>1, <2>3, <3>1 DEF TrackInv, Track, Flown, Play!NextDifficulty
    <3>2. CASE speedY' \in {3, 4}
      <4>1. flyDistance = 201 /\ speedY \in {1, 2}
        BY <1>1, <1>2, <2>3, <3>2 DEF Flown, Play!NextDifficulty, Play!Tag1, Play!Tag2
      <4>2. obstacles[0].Y = 56 /\ obstacles[1].Y = 16 /\ obstacles[2].Y = -24
        BY <2>1, <4>1 DEF Track, SlowTrack, Row
      <4>3. ThreeTrack(56, 16, -24) BY DEF ThreeTrack
      <4>4. FourTrack(56, 16, -24)
        <5>1. 14 \in -20 .. 16 /\ 56 = 4 * 14 OBVIOUS
        <5> QED BY <5>1 DEF FourTrack
      <4>5. speedY' = 3 \/ speedY' = 4 BY <3>2
      <4> QED BY <1>1, <4>2, <4>3, <4>4, <4>5 DEF TrackInv, Track
    <3>3. speedY' # 1 BY <1>1, <1>2, <2>3 DEF Play!NextDifficulty
    <3> QED BY <1>3, <3>1, <3>2, <3>3
  <2> QED BY <2>2, <2>3
<1> QED BY <1>5, <1>6, <1>7

LEMMA GameKeeps ==
  ASSUME GameAssumption, GameInv, Play!Next PROVE GameInv'
<1>1. GameTruths' BY GameTruthsKept DEF GameInv
<1> USE <1>1 DEF GameInv, GameTypes, SpeedInv, TrackInv, Flying, Flown, Track, Play!logic,
      Play!button, Play!music
<1>2. CASE Play!CollisionMusic BY <1>2 DEF Play!CollisionMusic
<1>3. CASE Play!GameOver BY <1>3 DEF Play!GameOver
<1>4. CASE Play!ClearRunning BY <1>4 DEF Play!ClearRunning
<1>5. CASE Play!PressUser BY <1>5 DEF Play!PressUser
<1>6. CASE Play!PressMove
  <2>1. moved' \in -Drift .. 112 + Drift
    BY <1>6 DEF Play!PressMove, Play!Width, Play!AstronautWidth
  <2> QED BY <1>6, <2>1 DEF Play!PressMove
<1>7. CASE Play!StoreMove BY <1>7 DEF Play!StoreMove, Play!InitX, GameAssumption
<1>8. CASE Play!StartPlayback BY <1>8 DEF Play!StartPlayback
<1>9. CASE Play!EndPlayback BY <1>9 DEF Play!EndPlayback
<1> QED
  BY <1>2, <1>3, <1>4, <1>5, <1>6, <1>7, <1>8, <1>9, StartKeeps, LoopKeeps, RefreshKeeps
    DEF Play!Next, Play!GameTask, Play!ButtonTask, Play!BeeperMusicTask

(***************************************************************************)
(* What the track shows.                                                   *)
(***************************************************************************)

\* Two obstacles are never both in the rows of the astronaut.
LEMMA OneInBand ==
  ASSUME NEW a \in -80 .. 64, NEW b \in -80 .. 64, NEW c \in -80 .. 64, NEW d \in 0 .. 204,
         speedY \in 1 .. 4, Track(a, b, c, d)
  PROVE  /\ ~(a > 24 /\ a < 64 /\ b > 32 /\ b < 64)
         /\ ~(a > 24 /\ a < 64 /\ c > 26 /\ c < 64)
         /\ ~(b > 32 /\ b < 64 /\ c > 26 /\ c < 64)
<1>1. CASE speedY \in {1, 2} BY <1>1 DEF Track, SlowTrack, Row
<1>2. CASE speedY = 3 BY <1>2 DEF Track, ThreeTrack
<1>3. CASE speedY = 4 BY <1>3 DEF Track, FourTrack
<1> QED BY <1>1, <1>2, <1>3

\* So the first obstacle in the band decides: an overlap is a collision.
LEMMA OverlapSeen ==
  ASSUME NEW o, Rows(o), NEW x \in Int, NEW i \in Play!Pipes, Play!Overlap(i, o, x),
         speedY \in 1 .. 4, NEW d \in 0 .. 204, Track(o[0].Y, o[1].Y, o[2].Y, d)
  PROVE  Play!IsCollision(o, x)
<1> USE DEF Play!Pipes
<1>1. ASSUME NEW j \in 0 .. 2
      PROVE  o[j].X \in 0 .. 128 /\ o[j].Y \in -80 .. 64
  BY DEF Rows
<1>2. /\ Play!ObstacleHeight[1] = 16 /\ Play!ObstacleHeight[2] = 8
      /\ Play!ObstacleHeight[3] = 14
  BY DEF Play!ObstacleHeight
<1>3. /\ Play!InBand(0, o) <=> o[0].Y > 24 /\ o[0].Y < 64
      /\ Play!InBand(1, o) <=> o[1].Y > 32 /\ o[1].Y < 64
      /\ Play!InBand(2, o) <=> o[2].Y > 26 /\ o[2].Y < 64
  BY <1>1, <1>2 DEF Play!InBand, Play!Height, Play!AstronautHeight
<1>4. /\ ~(Play!InBand(0, o) /\ Play!InBand(1, o))
      /\ ~(Play!InBand(0, o) /\ Play!InBand(2, o))
      /\ ~(Play!InBand(1, o) /\ Play!InBand(2, o))
  <2>1. /\ ~(o[0].Y > 24 /\ o[0].Y < 64 /\ o[1].Y > 32 /\ o[1].Y < 64)
        /\ ~(o[0].Y > 24 /\ o[0].Y < 64 /\ o[2].Y > 26 /\ o[2].Y < 64)
        /\ ~(o[1].Y > 32 /\ o[1].Y < 64 /\ o[2].Y > 26 /\ o[2].Y < 64)
    <3>1. o[0].Y \in -80 .. 64 /\ o[1].Y \in -80 .. 64 /\ o[2].Y \in -80 .. 64 BY <1>1
    <3> QED BY <3>1, OneInBand
  <2> QED BY <1>3, <2>1
<1>5. Play!InBand(i, o)
  <2>1. i = 0 \/ i = 1 \/ i = 2 OBVIOUS
  <2> QED
    BY <1>1, <1>2, <1>3, <2>1 DEF Play!Overlap, Play!AstronautY, Play!AstronautHeight
<1>6. ~Play!Beside(i, o, x)
  <2>1. o[i].X \in 0 .. 128 BY <1>1
  <2>2. x < o[i].X + 16 /\ o[i].X < x + 16
    BY DEF Play!Overlap, Play!ObstacleWidth, Play!AstronautWidth
  <2> QED BY <2>1, <2>2 DEF Play!Beside, Play!ObstacleWidth, Play!AstronautWidth
<1>7. \A j \in 0 .. i - 1 : ~Play!InBand(j, o)
  <2>1. i = 0 \/ i = 1 \/ i = 2 OBVIOUS
  <2>2. SUFFICES ASSUME NEW j \in 0 .. i - 1 PROVE ~Play!InBand(j, o)
    OBVIOUS
  <2>3. (i = 1 /\ j = 0) \/ (i = 2 /\ j = 0) \/ (i = 2 /\ j = 1) BY <2>1
  <2> QED BY <1>4, <1>5, <2>3
<1> QED BY <1>5, <1>6, <1>7 DEF Play!IsCollision

LEMMA GameAlways == GameAssumption /\ BoardSpec => []GameInv
<1>1. GameAssumption /\ BoardInit => GameInv BY GameInit DEF BoardInit
<1>2. ASSUME GameAssumption, GameInv, [BoardNext]_<<image, vars, gameVars>> PROVE GameInv'
  <2>1. CASE Play!Next BY <1>2, <2>1, GameKeeps
  <2>2. CASE UNCHANGED gameVars
    BY <1>2, <2>2 DEF gameVars, GameInv, GameTypes, GameTruths, SpeedInv, TrackInv, Flying, Flown,
      Track
  <2> QED BY <1>2, <2>1, <2>2 DEF BoardNext
<1> QED BY <1>1, <1>2, GameAssumption, PTL DEF BoardSpec

\* For every drawn position and every play: a game starts at the first speed, exceeds it only
\* beyond the tags, and a frame in which the astronaut and an obstacle overlap ends it.
THEOREM RulesKeptAlways == BoardSpec => RulesKept
<1>1. GameInv => Play!TypeOK /\ Play!SpeedOfGame
  <2>1. SUFFICES ASSUME GameInv PROVE Play!TypeOK /\ Play!SpeedOfGame
    OBVIOUS
  <2> USE <2>1 DEF GameInv
  <2>2. Play!SpeedOfGame
    BY DEF Play!SpeedOfGame, SpeedInv, GameTypes, Flying, Flown, Play!Tag1, Play!Tag2
  <2>3. {posX, moved} \subseteq -Drift .. Play!Width - Play!AstronautWidth + Drift
    BY GameAssumption DEF GameTypes, Play!Width, Play!AstronautWidth, GameAssumption
  <2>4. speedX \in 2 .. 5 BY DEF GameTypes, SpeedInv
  <2>5. obstacles \in [Play!Pipes -> [X : 0 .. Play!Width,
                                      Y : -(2 * Play!Interval) .. Play!Height]]
    BY DEF GameTypes, Rows, Play!Pipes, Play!Width, Play!Interval, Play!Height
  <2>6. Play!TypeOK
    BY <2>3, <2>4, <2>5 DEF Play!TypeOK, GameTypes, GameTruths, Play!Tag2
  <2> QED BY <2>2, <2>6
<1>2. ASSUME GameAssumption, GameInv, GameInv', [BoardNext]_<<image, vars, gameVars>>
      PROVE  [gamePc = "loop" /\ gamePc' = "refresh" =>
                ((\E i \in Play!Pipes : Play!Overlap(i, obstacles', posX)) => collided')]_Play!vars
  <2>1. SUFFICES ASSUME gamePc = "loop", gamePc' = "refresh",
                        NEW i \in Play!Pipes, Play!Overlap(i, obstacles', posX)
                 PROVE  collided'
    OBVIOUS
  <2>2. Play!Next BY <1>2, <2>1 DEF BoardNext, gameVars
  <2>3. Play!GameLoop
    BY <2>1, <2>2 DEF Play!Next, Play!GameTask, Play!ButtonTask, Play!BeeperMusicTask,
      Play!GameStart, Play!RefreshGameDifficulty, Play!CollisionMusic, Play!GameOver,
      Play!ClearRunning, Play!PressUser, Play!PressMove, Play!StoreMove, Play!StartPlayback,
      Play!EndPlayback
  <2>4. collided' = Play!IsCollision(obstacles', posX) /\ speedY' = speedY
    BY <2>3 DEF Play!GameLoop
  <2>5. posX \in Int BY <1>2, GameAssumption DEF GameInv, GameTypes, GameAssumption
  <2>6. Rows(obstacles') /\ speedY \in 1 .. 4 /\ flyDistance' \in 0 .. 204
    BY <1>2, <2>4 DEF GameInv, GameTypes, Rows
  <2>7. Track(obstacles'[0].Y, obstacles'[1].Y, obstacles'[2].Y, flyDistance')
    BY <1>2, <2>1, <2>4 DEF GameInv, TrackInv, Track
  <2>8. Play!IsCollision(obstacles', posX) BY <2>1, <2>5, <2>6, <2>7, OverlapSeen
  <2> QED BY <2>4, <2>8
<1> QED BY <1>1, <1>2, GameAlways, GameAssumption, PTL DEF BoardSpec, RulesKept, Play!CollisionSeen
=============================================================================
