------------------------------ MODULE PwmDemo ------------------------------
(***************************************************************************)
(* The demonstrations that drive lamps and the buzzer with pulses          *)
(* (pwm_demo/pwm_led.c, pwm_volume.c, pwm_buz.c, pwm_music.c and           *)
(* adc_demo/rgb_light.c).  One of them is built into an image.  A program  *)
(* is a function from the number of its round to the pulses it starts in   *)
(* it; every round starts them, waits and stops them.                      *)
(***************************************************************************)
EXTENDS Naturals, Sequences

CONSTANTS
  Reading   \* values of the analogue converter that rgb_light may read

VARIABLES
  demo,     \* the program of the image
  round,    \* its round; 0 is the setting up
  function, \* what each pin is connected to
  ready,    \* the ports initialised
  pulse     \* what each port gives: the duty and the period, or Off

vars == <<demo, round, function, ready, pulse>>

Port == 0 .. 3          \* HI_PWM_PORT_PWM0 the buzzer, 1 to 3 the lamps
Lamp == 1 .. 3
Off == <<0, 0>>
MaxDivisor == 65535

\* The pulses of a round: of each port that is started, duty and period.
Pulses(ports, duty, period) == [p \in ports |-> <<duty[p], period>>]
One(port, duty, period) == [p \in {port} |-> <<duty, period>>]

\* Doubling up to 4096 and back: 26 rounds.
demo1(n) == One(1, IF n <= 13 THEN 2 ^ (n - 1) ELSE 2 ^ (26 - n), 64000)
demo2(n) == One(1, IF n <= 99 THEN n ELSE 199 - n, 100)
\* One lamp stays low, one fades and one grows; they change places every 99 rounds.
demo3(n) ==
  LET i == ((n - 1) % 99) + 1
      duties == CASE n <= 99 -> <<1, 100 - i, i>>
                  [] n \in 100 .. 198 -> <<i, 1, 100 - i>>
                  [] OTHER -> <<100 - i, i, 1>>
  IN  Pulses(Lamp, duties, 100)

numLevels == 100
pwm_volume(n) ==
  One(0, (65400 \div numLevels) * (IF n <= 100 THEN 101 - n ELSE n - 100), 65400)
pwm_buz(n) == One(0, 50, 100)

g_tuneFreqs == <<38223, 34052, 30338, 28635, 25511, 22728, 20249, 51020>>
g_scoreNotes ==
  <<1, 2, 3, 1, 1, 2, 3, 1, 3, 4, 5, 3, 4, 5,
    5, 6, 5, 4, 3, 1, 5, 6, 5, 4, 3, 1, 1, 8, 1, 1, 8, 1>>
pwm_music(n) ==
  LET divisor == g_tuneFreqs[g_scoreNotes[n]] IN One(0, divisor \div 2, divisor)

Rounds ==
  [demo1 |-> 26, demo2 |-> 198, demo3 |-> 297, pwm_volume |-> 200, pwm_buz |-> 1,
   pwm_music |-> Len(g_scoreNotes), rgb_light |-> 12 + 13 + 2]
Endless == {"demo1", "demo2", "demo3", "pwm_volume"}
Ports == [demo1 |-> Lamp, demo2 |-> Lamp, demo3 |-> Lamp, pwm_volume |-> {0}, pwm_buz |-> {0},
          pwm_music |-> {0}, rgb_light |-> Lamp]

Init ==
  /\ demo \in DOMAIN Rounds
  /\ round = 0 /\ function = [p \in Port |-> "none"] /\ ready = {} /\ pulse = [p \in Port |-> Off]

(***************************************************************************)
(* Steps.                                                                  *)
(***************************************************************************)

\* The pins are given their function and the ports are initialised; rgb_light begins with
\* its lamps as outputs.
SetUp ==
  /\ round = 0
  /\ function' = [p \in Port |-> CASE p \notin Ports[demo] -> "none"
                                    [] demo = "rgb_light" -> "gpio"
                                    [] OTHER -> "pwm"]
  /\ ready' = IF demo = "rgb_light" THEN {} ELSE Ports[demo]
  /\ round' = 1
  /\ UNCHANGED <<demo, pulse>>

Silent == \A p \in Port : pulse[p] = Off
Start(pulses) ==
  /\ pulse' = [p \in Port |-> IF p \in DOMAIN pulses THEN pulses[p] ELSE Off]
  /\ UNCHANGED <<demo, round, function, ready>>

Play ==
  /\ round \in 1 .. Rounds[demo] /\ Silent
  /\ CASE demo = "demo1" -> Start(demo1(round))
       [] demo = "demo2" -> Start(demo2(round))
       [] demo = "demo3" -> Start(demo3(round))
       [] demo = "pwm_volume" -> Start(pwm_volume(round))
       [] demo = "pwm_buz" -> Start(pwm_buz(round))
       [] demo = "pwm_music" -> Start(pwm_music(round))
       [] demo = "rgb_light" -> FALSE

\* The duty of a lamp that follows a sensor.
SensorDuty(data) == (64000 * data) \div 4096

\* rgb_light: twelve rounds in which an output lights and goes dark, then the pins change
\* to pulses; thirteen rounds that double the blue lamp; then red and green follow the
\* sensors for ever, dark where the converter cannot be read.
rgb_light ==
  /\ demo = "rgb_light" /\ Silent
  /\ \/ round \in 1 .. 11 /\ round' = round + 1 /\ UNCHANGED <<demo, function, ready, pulse>>
     \/ /\ round = 12 /\ round' = 13
        /\ function' = [p \in Port |-> IF p \in Lamp THEN "pwm" ELSE function[p]]
        /\ ready' = Lamp
        /\ UNCHANGED <<demo, pulse>>
     \/ round \in 13 .. 25 /\ Start(One(3, 2 ^ (round - 13), 64000))
     \/ /\ round \in {26, 27}
        /\ \E data \in Reading \union {0} : Start(One(round - 25, SensorDuty(data), 64000))

\* The wait is over.  pwm_buz leaves its pin an output that keeps the buzzer silent.
Stop ==
  /\ ~Silent
  /\ pulse' = [p \in Port |-> Off]
  /\ round' = CASE round < Rounds[demo] -> round + 1
                [] demo = "rgb_light" /\ round = 27 -> 26
                [] demo \in Endless -> 1
                [] OTHER -> round + 1
  /\ function' = IF demo = "pwm_buz" THEN [function EXCEPT ![0] = "high"] ELSE function
  /\ UNCHANGED <<demo, ready>>

Next == SetUp \/ Play \/ rgb_light \/ Stop

Spec == Init /\ [][Next]_vars /\ WF_vars(Next)

(***************************************************************************)
(* Properties.                                                             *)
(***************************************************************************)

\* Types: the pins, the ports and what they give.
TypeOK ==
  /\ round \in 0 .. 298
  /\ function \in [Port -> {"none", "gpio", "pwm", "high"}]
  /\ ready \subseteq Port
  /\ \A p \in Port : pulse[p] \in Seq(Nat) /\ Len(pulse[p]) = 2

\* A port is started only when it is initialised and its pin is connected to it.
PulseOnPin == \A p \in Port : pulse[p] # Off => p \in ready /\ function[p] = "pwm"

\* Every duty computed lies in its period, and the period in the sixteen bits of the port.
DutyInPeriod == \A p \in Port : pulse[p][1] <= pulse[p][2] /\ pulse[p][2] <= MaxDivisor

\* The three lamps are as bright together in every round of demo3.
EvenLight ==
  demo = "demo3" /\ ~Silent => pulse[1][1] + pulse[2][1] + pulse[3][1] = 101

\* What was started is stopped: the buzzer and the lamps never stay on.
PulseEnds == \A p \in Port : pulse[p] # Off ~> pulse[p] = Off
=============================================================================
