------------------------------ MODULE SensorDemo ------------------------------
(***************************************************************************)
(* Programs that act on what the analogue sensors read (adc_demo), and the *)
(* blinking lamp of led_demo: gas_alarm sounds a buzzer, night_light       *)
(* lights a lamp, gas_sensor, human_sensor and light_sensor print.  The    *)
(* sensor may read anything at any time, and any reading may fail.         *)
(***************************************************************************)
EXTENDS Naturals

CONSTANTS Level   \* values that the analogue converter may read

VARIABLES
  demo,      \* the program of the image
  pc,        \* the sensor it reads next, or what it does
  dataHuman, \* the reading night_light holds
  beeping,   \* its note that the buzzer sounds
  out,       \* the outputs: buzzer and lamp
  basis      \* history: the readings the outputs were last set by, or the last printed

vars == <<demo, pc, dataHuman, beeping, out, basis>>

Threshold == 600
Near == 1200
Dark == 1200
Reads == [gas_alarm |-> "gas", gas |-> "gas", human |-> "human", light |-> "light",
          night |-> "human", led |-> "on"]
Nothing == [gas |-> 0, human |-> 0, light |-> 0]

\* The pins are set up and the outputs are off.
Init ==
  /\ demo \in DOMAIN Reads /\ pc = Reads[demo]
  /\ dataHuman = 0 /\ beeping = FALSE
  /\ out = [buzzer |-> FALSE, lamp |-> FALSE] /\ basis = Nothing

Goes(p, from, to) == demo = p /\ pc = from /\ pc' = to /\ UNCHANGED demo

\* The buzzer is switched when the flag says that it is not yet as it has to be.
Alarm(v) ==
  /\ beeping' = (v > Threshold)
  /\ out' = [out EXCEPT !.buzzer = IF (v > Threshold) # beeping THEN v > Threshold ELSE @]

\* ADCGasTask of gas_alarm.  A reading that fails changes nothing.
GasAlarmTask ==
  /\ Goes("gas_alarm", "gas", "delay")
  /\ \/ \E v \in Level : Alarm(v) /\ basis' = [basis EXCEPT !.gas = v]
     \/ UNCHANGED <<beeping, out, basis>>
  /\ UNCHANGED dataHuman

\* NightLightTask.  After a reading that fails the loop begins again, without its delay.
ReadHuman ==
  /\ \/ Goes("night", "human", "light") /\ dataHuman' \in Level
     \/ Goes("night", "human", "human") /\ UNCHANGED dataHuman
  /\ UNCHANGED <<beeping, out, basis>>
Lit(h, l) == h > Near /\ l > Dark
ReadLight ==
  /\ \/ /\ Goes("night", "light", "delay")
        /\ \E v \in Level :
             /\ out' = [out EXCEPT !.lamp = Lit(dataHuman, v)]
             /\ basis' = [basis EXCEPT !.human = dataHuman, !.light = v]
     \/ Goes("night", "light", "human") /\ UNCHANGED <<out, basis>>
  /\ UNCHANGED <<dataHuman, beeping>>

\* The programs that print.
GasTask ==
  /\ Goes("gas", "gas", "delay")
  /\ \/ \E v \in Level : basis' = [basis EXCEPT !.gas = v]
     \/ UNCHANGED basis
  /\ UNCHANGED <<dataHuman, beeping, out>>
ADCHumanTask ==
  /\ Goes("human", "human", "delay")
  /\ \/ \E v \in Level : basis' = [basis EXCEPT !.human = v]
     \/ UNCHANGED basis
  /\ UNCHANGED <<dataHuman, beeping, out>>
ADCLightTask ==
  /\ Goes("light", "light", "delay")
  /\ \/ \E v \in Level : basis' = [basis EXCEPT !.light = v]
     \/ UNCHANGED basis
  /\ UNCHANGED <<dataHuman, beeping, out>>

\* LedTask: half a second on, a second off.
LedTask ==
  /\ \/ Goes("led", "on", "off") /\ out' = [out EXCEPT !.lamp = TRUE]
     \/ Goes("led", "off", "on") /\ out' = [out EXCEPT !.lamp = FALSE]
  /\ UNCHANGED <<dataHuman, beeping, basis>>

Delay == Goes(demo, "delay", Reads[demo]) /\ UNCHANGED <<dataHuman, beeping, out, basis>>

Task ==
  \/ GasAlarmTask \/ ReadHuman \/ ReadLight \/ GasTask \/ ADCHumanTask \/ ADCLightTask
  \/ LedTask \/ Delay

Next == Task

(***************************************************************************)
(* Properties.                                                             *)
(***************************************************************************)

\* Types: the program, the reading held, the flag and the outputs.
TypeOK ==
  /\ demo \in DOMAIN Reads /\ pc \in {"gas", "human", "light", "on", "off", "delay"}
  /\ dataHuman \in Level \union {0} /\ beeping \in BOOLEAN
  /\ out \in [buzzer : BOOLEAN, lamp : BOOLEAN]
  /\ basis \in [{"gas", "human", "light"} -> Level \union {0}]

\* However readings fail and levels change, the buzzer sounds exactly when the last reading
\* that succeeded was above the threshold: the flag and the buzzer do not part.
AlarmAsRead == demo = "gas_alarm" => out.buzzer = (basis.gas > Threshold)

\* The night light is lit only for a person that was there in the dark, by one pass of the
\* loop: it is not lit by a person of one pass and the darkness of another.
NightLightAsRead == demo = "night" => out.lamp = (basis.human > Near /\ basis.light > Dark)
=============================================================================
