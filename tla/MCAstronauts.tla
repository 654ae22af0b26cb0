---------------------------- MODULE MCAstronauts ----------------------------
(***************************************************************************)
(* Instance: the board of the astronauts game while it is configured for a *)
(* network, and while the game is played; the two share no state.  The     *)
(* configuration runs with an application that leaves the station to the   *)
(* task, as the game does, and with one that also joins networks itself    *)
(* (and a task that waits longer).                                         *)
(***************************************************************************)
EXTENDS NetConfig, Integers

CONSTANTS RandLeft, RandRight, Moves, Drift

VARIABLES
  image,      \* "alone" and "joins", the two applications, or "game"
  gamePc, running, posX, speedX, speedY, difficulty, flyDistance, obstacles, collided,
  buttonPc, moved, musicFlag, playing

Play == INSTANCE Game
gameVars == <<gamePc, running, posX, speedX, speedY, difficulty, flyDistance, obstacles, collided,
              buttonPc, moved, musicFlag, playing>>

\* The values are of those the game draws.
ASSUME GameAssumption ==
  /\ RandLeft \subseteq 1 .. Play!Width \div 2
  /\ RandRight \subseteq Play!Width \div 2 - 1 .. Play!Width - Play!AstronautWidth - 2
  /\ RandLeft # {} /\ RandRight # {}
  /\ Moves \subseteq {-1, 1} /\ Drift \in Nat

\* The application also calls NetCfgStartConnect.
Direct == INSTANCE NetConfig
  WITH DirectConnect <- TRUE, ConnectTimeout <- ConnectTimeout + 1, RetryCount <- RetryCount + 1

BoardInit == image \in {"alone", "joins", "game"} /\ Init /\ Play!Init
BoardNext ==
  \/ image = "alone" /\ Next /\ UNCHANGED <<image, gameVars>>
  \/ image = "joins" /\ Direct!Next /\ UNCHANGED <<image, gameVars>>
  \/ image = "game" /\ Play!Next /\ UNCHANGED <<image, vars>>

\* The tasks are scheduled, and so is the thread of the Wi-Fi service.
BoardFairness ==
  /\ WF_vars(image = "alone" /\ NetCfgTask) /\ WF_vars(image = "alone" /\ HandlerStep)
  /\ WF_gameVars(image = "game" /\ Play!GameTask) /\ WF_gameVars(image = "game" /\ Play!StoreMove)
  /\ WF_gameVars(image = "game" /\ Play!BeeperMusicTask)

BoardSpec == BoardInit /\ [][BoardNext]_<<image, vars, gameVars>> /\ BoardFairness

\* The hotspot is up while a phone is served, and the station reports to the task that waits
\* for it, which an application that joins networks itself may prevent (NetConfig).
ConfigurationSafe ==
  /\ IF image = "joins" THEN Direct!TypeOK ELSE TypeOK
  /\ HotspotServes
  /\ image = "alone" => HandlerArmed

\* Every attempt to join ends, a failed one with an answer, and a change of the mode ends the configuration, with an
\* application that leaves the station to the task (NetConfig).
ConfigurationGoesOn == image = "alone" => AttemptAnswered /\ ModeChangeObeyed

\* The rules: the speed belongs to the game being played, and no overlap goes unseen (Game).
RulesKept == [](Play!TypeOK /\ Play!SpeedOfGame) /\ Play!CollisionSeen

\* A press of USER starts a game and a collision ends it (Game).
GamesStartAndEnd == image = "game" => Play!PressStarts /\ Play!CollisionEnds
=============================================================================
