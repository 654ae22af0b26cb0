-------------------------------- MODULE Game --------------------------------
(***************************************************************************)
(* The astronauts game (astronauts_game/game/src): GameTask of main.c with *)
(* the rules of game_logic.c, the task of button.c that moves the          *)
(* astronaut and starts the game, and the task of music.c.  The three      *)
(* share the position, the speed and two flags, and no lock.               *)
(***************************************************************************)
EXTENDS Integers

CONSTANTS
  RandLeft, RandRight,   \* the values SetRandPosition draws, of 1 .. 64 and 63 .. 110
  Moves,                 \* the directions of the buttons pressed: -1 for S1, 1 for S2
  Drift                  \* bound of the model: how far off the screen the position gets

Width == 128              \* SSD1306_WIDTH
Height == 64              \* SSD1306_HEIGHT
AstronautWidth == 16
AstronautHeight == 24
InitX == 52               \* ASTRONAUTS_INIT_POSITION_X
AstronautY == 40          \* ASTRONAUTS_INIT_POSITION_Y
Interval == 40            \* OBSTACLE_INTERVAL
Tag1 == 50                \* FLY_DISTANCE_TAG_1
Tag2 == 200               \* FLY_DISTANCE_TAG_2
Pipes == 0 .. 2
ObstacleWidth == 16
ObstacleHeight == <<16, 8, 14>>   \* of pipe 0, 1, 2

VARIABLES
  gamePc, running,                 \* GameTask; g_gameRunningStatus
  posX, speedX, speedY, difficulty, flyDistance, obstacles,   \* game_logic.c
  collided,                        \* isCollision of the loop
  buttonPc, moved,                 \* ButtonTask; the position it is about to store
  musicFlag, playing               \* music_playback_flag; BeeperMusicTask plays

logic == <<speedX, speedY, difficulty, flyDistance, obstacles, collided>>
button == <<buttonPc, moved>>
music == <<musicFlag, playing>>
vars == <<gamePc, running, posX, logic, button, music>>

Init ==
  /\ gamePc = "pending" /\ running = FALSE
  /\ posX = InitX /\ speedX = 2 /\ speedY = 1
  /\ difficulty = 0 /\ flyDistance = 0 /\ collided = FALSE
  /\ obstacles = [i \in Pipes |-> [X |-> 0, Y |-> 0]]
  /\ buttonPc = "poll" /\ moved = InitX
  /\ musicFlag = FALSE /\ playing = FALSE

(***************************************************************************)
(* The rules.                                                              *)
(***************************************************************************)

\* SetRandPosition: the odd obstacle keeps to the left half.
RandPosition(i) == IF i % 2 = 1 THEN RandLeft ELSE RandRight

\* An obstacle in the rows of the astronaut; the remainder keeps the sign of Y.
InBand(i, o) ==
  /\ o[i].Y < Height
  /\ o[i].Y > Height - AstronautHeight - ObstacleHeight[i + 1]

Beside(i, o, x) == x > o[i].X + ObstacleWidth \/ x < o[i].X - AstronautWidth

\* IsCollision: the first obstacle in the band decides.
IsCollision(o, x) ==
  \/ x < 0 \/ x > Width - AstronautWidth
  \/ \E i \in Pipes : /\ InBand(i, o) /\ ~Beside(i, o, x)
                      /\ \A j \in 0 .. i - 1 : ~InBand(j, o)

\* Mutant: an obstacle comes back two intervals too low.
GeneratedLow(i, x) == [X |-> x, Y |-> 0]

\* GenerateObstacle.
Generated(i, x) == [X |-> x, Y |-> -(Interval * 2)]

\* One move of the obstacles, which draws a new position for one that leaves.
MoveObstacles(x) ==
  [i \in Pipes |->
     LET y == obstacles[i].Y + speedY IN
     IF y > Height THEN Generated(i, x[i]) ELSE [X |-> obstacles[i].X, Y |-> y]]

Leaves(i) == obstacles[i].Y + speedY > Height

\* RefreshGameDifficulty, as it changes the flag.
NextDifficulty ==
  IF difficulty # 1
  THEN IF flyDistance > Tag1 /\ flyDistance < Tag2 THEN 1 ELSE difficulty
  ELSE IF flyDistance > Tag2 THEN 2 ELSE difficulty

(***************************************************************************)
(* GameTask.                                                               *)
(***************************************************************************)

\* GameStart and SetupMusicPlaybackFlag.
GameStart ==
  /\ gamePc = "pending" /\ running
  /\ \E x \in [Pipes -> RandLeft \union RandRight] :
       /\ \A i \in Pipes : x[i] \in RandPosition(i)
       /\ obstacles' = [i \in Pipes |-> [X |-> x[i], Y |-> -(i * Interval)]]
  /\ posX' = InitX /\ flyDistance' = 0
  /\ musicFlag' = TRUE
  /\ gamePc' = "loop"
  /\ UNCHANGED <<running, speedX, speedY, difficulty, collided, button, playing>>

\* GameLoop.  The distance matters up to the second tag.
GameLoop ==
  /\ gamePc = "loop"
  /\ flyDistance' = IF flyDistance > Tag2 THEN flyDistance ELSE flyDistance + speedY
  /\ \E x \in [{i \in Pipes : Leaves(i)} -> RandLeft \union RandRight] :
       /\ \A i \in DOMAIN x : x[i] \in RandPosition(i)
       /\ obstacles' = MoveObstacles(x)
  /\ collided' = IsCollision(obstacles', posX)
  /\ gamePc' = "refresh"
  /\ UNCHANGED <<running, posX, speedX, speedY, difficulty, button, music>>

RefreshGameDifficulty ==
  /\ gamePc = "refresh"
  /\ difficulty' = NextDifficulty
  /\ speedY' = IF difficulty' # difficulty THEN speedY + difficulty' ELSE speedY
  /\ speedX' = IF difficulty' # difficulty THEN speedX + difficulty' ELSE speedX
  /\ gamePc' = IF collided THEN "over" ELSE "loop"
  /\ UNCHANGED <<running, posX, flyDistance, obstacles, collided, button, music>>

\* The game is over: the music starts, then GameOver, which shows a text before it
\* resets the speeds, then the flag that a press of USER sets.
CollisionMusic ==
  /\ gamePc = "over"
  /\ musicFlag' = TRUE
  /\ gamePc' = "reset"
  /\ UNCHANGED <<running, posX, logic, button, playing>>

GameOver ==
  /\ gamePc = "reset"
  /\ speedY' = 1 /\ speedX' = 2
  /\ gamePc' = "clear"
  /\ UNCHANGED <<running, posX, difficulty, flyDistance, obstacles, collided, button, music>>

ClearRunning ==
  /\ gamePc = "clear"
  /\ running' = FALSE
  /\ gamePc' = "pending"
  /\ UNCHANGED <<posX, logic, button, music>>

GameTask ==
  GameStart \/ GameLoop \/ RefreshGameDifficulty \/ CollisionMusic \/ GameOver \/ ClearRunning

(***************************************************************************)
(* The other tasks.                                                        *)
(***************************************************************************)

\* Mutant: USER stops a game as well.
PressUserToggles ==
  /\ buttonPc = "poll"
  /\ running' = ~running
  /\ UNCHANGED <<gamePc, posX, logic, button, music>>

\* Button_Callback for USER.
PressUser ==
  /\ buttonPc = "poll"
  /\ running' = TRUE
  /\ UNCHANGED <<gamePc, posX, logic, button, music>>

\* AstronautMove reads position and speed, and stores the sum later.
PressMove ==
  /\ buttonPc = "poll"
  /\ \E m \in Moves :
       /\ posX + m * speedX \in -Drift .. Width - AstronautWidth + Drift
       /\ moved' = posX + m * speedX
  /\ buttonPc' = "store"
  /\ UNCHANGED <<gamePc, running, posX, logic, music>>

StoreMove ==
  /\ buttonPc = "store"
  /\ posX' = moved
  /\ buttonPc' = "poll" /\ moved' = InitX
  /\ UNCHANGED <<gamePc, running, logic, music>>

ButtonTask == PressUser \/ PressMove \/ StoreMove

\* BeeperMusicTask.
StartPlayback ==
  /\ musicFlag /\ ~playing
  /\ playing' = TRUE
  /\ UNCHANGED <<gamePc, running, posX, logic, button, musicFlag>>

EndPlayback ==
  /\ playing
  /\ playing' = FALSE /\ musicFlag' = FALSE
  /\ UNCHANGED <<gamePc, running, posX, logic, button>>

BeeperMusicTask == StartPlayback \/ EndPlayback

Next == GameTask \/ ButtonTask \/ BeeperMusicTask

Fairness == WF_vars(GameTask) /\ WF_vars(StoreMove) /\ WF_vars(BeeperMusicTask)

Spec == Init /\ [][Next]_vars
FairSpec == Spec /\ Fairness

(***************************************************************************)
(* Properties.                                                             *)
(***************************************************************************)

TypeOK ==
  /\ gamePc \in {"pending", "loop", "refresh", "over", "reset", "clear"}
  /\ running \in BOOLEAN /\ collided \in BOOLEAN
  /\ {posX, moved} \subseteq -Drift .. Width - AstronautWidth + Drift
  /\ speedX \in 2 .. 5 /\ speedY \in 1 .. 4
  /\ difficulty \in 0 .. 2 /\ flyDistance \in 0 .. Tag2 + 4
  /\ obstacles \in [Pipes -> [X : 0 .. Width, Y : -(2 * Interval) .. Height]]
  /\ buttonPc \in {"poll", "store"}
  /\ musicFlag \in BOOLEAN /\ playing \in BOOLEAN

\* The pictures of the astronaut and of an obstacle have a pixel in common.
Overlap(i, o, x) ==
  /\ x < o[i].X + ObstacleWidth /\ o[i].X < x + AstronautWidth
  /\ o[i].Y < AstronautY + AstronautHeight /\ AstronautY < o[i].Y + ObstacleHeight[i + 1]

\* IsCollision looks no further than the first obstacle in the rows of the astronaut,
\* which hides no collision as the obstacles keep their distance through every change
\* of the speed: a frame in which two pictures overlap ends the game.
CollisionSeen ==
  [][gamePc = "loop" /\ gamePc' = "refresh" =>
       ((\E i \in Pipes : Overlap(i, obstacles', posX)) => collided')]_vars

\* However many games have been played, and whatever difficulty the last one left
\* behind, a game starts at the first speed and never exceeds the sum of the steps.
SpeedOfGame ==
  /\ speedX = speedY + 1
  /\ gamePc \in {"pending", "clear"} => speedY = 1
  /\ speedY > 1 => flyDistance > Tag1
  /\ speedY > 2 => flyDistance > Tag2

\* A USER press while the game waits for one starts a game, whatever the other tasks do.
PressStarts == (gamePc = "pending" /\ running) ~> gamePc = "loop"

\* A collision ends the game: the task waits for USER again.
CollisionEnds == (gamePc = "refresh" /\ collided) ~> (gamePc = "pending")

\* The README of the game: the difficulty rises with the score.
DifficultyRises == gamePc = "loop" /\ flyDistance \in Tag1 + 5 .. Tag2 => speedY > 1
=============================================================================
