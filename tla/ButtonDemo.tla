----------------------------- MODULE ButtonDemo -----------------------------
(***************************************************************************)
(* The demonstrations of buttons: an input that is polled or interrupts    *)
(* (gpio_input_demo), buttons told apart by their voltage                  *)
(* (adc_demo/voltage_buttons_*.c) and the traffic light that an interrupt  *)
(* switches while a task drives it (pwm_demo/traffic_light.c).  One of     *)
(* them is built into an image.  An interrupt handler runs to its end      *)
(* between two steps of a task; a task loses the processor between any     *)
(* two accesses to what it shares with the handler.                        *)
(***************************************************************************)
EXTENDS Naturals

CONSTANTS
  Demo,       \* the programs of the images
  QueueSize,  \* messages that buttons_queue holds (100 in the code)
  MaxPress    \* bound: presses of the user

VARIABLES
  demo,     \* the program of the image
  pc,       \* where its task is
  button,   \* the button held: "up" for none
  presses,  \* the edges the pin has seen
  pin,      \* the output GPIO9 of the polled and interrupting inputs
  g_ledPinValue,
  queue,    \* messages in buttons_queue
  said,     \* readings of the converter that were answered
  unread,   \* presses whose reading failed
  g_ledStates, g_currentBright, g_beepState,
  lamp,     \* the outputs of the three lamps
  beeper    \* whether the buzzer sounds

inputs == <<button, presses>>
level == <<pin, g_ledPinValue>>
voltage == <<queue, said, unread>>
light == <<g_ledStates, g_currentBright, g_beepState, lamp, beeper>>
vars == <<demo, pc, inputs, level, voltage, light>>

Button == {"USER", "S1", "S2"}
Lamp == 0 .. 2
Dark == [i \in Lamp |-> 0]

\* GPIO5 and GPIO8 are pulled up: a button held makes them low.
Level(b) == IF b = "up" THEN 1 ELSE 0

\* What the converter gives for a button, and what the program calls it.
Voltage == [up |-> 700, USER |-> 100, S1 |-> 300, S2 |-> 500]
Named(data) ==
  CASE data \in 5 .. 227 -> "USER"
    [] data \in 228 .. 454 -> "S1"
    [] data \in 455 .. 681 -> "S2"
    [] OTHER -> "up"

Init ==
  /\ demo \in Demo
  /\ pc = "setup"
  /\ button = "up" /\ presses = 0
  /\ pin = 0 /\ g_ledPinValue = 0
  /\ queue = 0 /\ said = 0 /\ unread = 0
  /\ g_ledStates = Dark /\ g_currentBright = 0 /\ g_beepState = 0
  /\ lamp = Dark /\ beeper = FALSE

(***************************************************************************)
(* The user, and OnButtonPressed at the falling edge.                      *)
(***************************************************************************)

\* gpio_input_int.c turns the value over ...
Toggled ==
  /\ g_ledPinValue' = 1 - g_ledPinValue
  /\ UNCHANGED <<pin, voltage, light>>

\* ... and gpio_input_int_lpc.c also drives the output itself.
ToggledOut ==
  /\ g_ledPinValue' = 1 - g_ledPinValue
  /\ pin' = g_ledPinValue'
  /\ UNCHANGED <<voltage, light>>

\* The queue version only puts a message, and never waits for room.
Queued ==
  /\ queue' = IF queue < QueueSize THEN queue + 1 ELSE queue
  /\ UNCHANGED <<said, unread, level, light>>

\* hi_adc_read fails, and nothing is said; or the button is named whose voltage is read,
\* and none when the pin is free by then.
Answer(b) ==
  \/ unread' = unread + 1 /\ UNCHANGED said
  \/ said' = (IF Named(Voltage[b]) # "up" THEN said + 1 ELSE said) /\ UNCHANGED unread

\* One version reads the converter in the handler.
ReadAtOnce(b) == Answer(b) /\ UNCHANGED <<queue, level, light>>

\* Mutant: the lamp that was lit stays lit.
SwitchedKept ==
  /\ g_ledStates' = [g_ledStates EXCEPT ![g_currentBright] = 1]
  /\ g_currentBright' = (g_currentBright + 1) % 3 /\ g_beepState' = 1
  /\ UNCHANGED <<lamp, beeper, level, voltage>>

\* The traffic light lights the lamp of the turn and leaves the rest to its task.
Switched ==
  /\ g_ledStates' = [i \in Lamp |-> IF i = g_currentBright THEN 1 ELSE 0]
  /\ g_currentBright' = (g_currentBright + 1) % 3
  /\ g_beepState' = 1
  /\ UNCHANGED <<lamp, beeper, level, voltage>>

\* A press that comes before the handler is registered is not seen.
Press(b) ==
  /\ button = "up" /\ presses < MaxPress /\ pc \notin {"setup", "off"}
  /\ button' = b /\ presses' = presses + 1
  /\ CASE demo = "int" -> Toggled
       [] demo = "int_lpc" -> ToggledOut
       [] demo = "v_queue" -> Queued
       [] demo = "v_int" -> ReadAtOnce(b)
       [] demo = "traffic" -> Switched
       [] OTHER -> UNCHANGED <<level, voltage, light>>
  /\ UNCHANGED <<demo, pc>>

Release ==
  /\ button # "up" /\ button' = "up"
  /\ UNCHANGED <<demo, pc, presses, level, voltage, light>>

(***************************************************************************)
(* The tasks.                                                              *)
(***************************************************************************)

\* The pins are given their function and direction, the handler is registered, and the
\* task begins its work or ends.
Ready(d, to) == demo = d /\ pc = "setup" /\ pc' = to /\ UNCHANGED <<demo, inputs, level, voltage, light>>
GetReady == Ready("get", "loop")
IntReady == Ready("int", "loop")
LpcReady == Ready("int_lpc", "ended")
AtOnceReady == Ready("v_int", "ended")
ThreadReady == Ready("v_thread", "loop")
\* The queue, or the timer, may not be had: then nothing more happens.
QueueReady == Ready("v_queue", "loop") \/ Ready("v_queue", "off")
TimerReady == Ready("v_timer", "loop") \/ Ready("v_timer", "off")
LightReady == Ready("traffic", "beep")
SetUp ==
  GetReady \/ IntReady \/ LpcReady \/ AtOnceReady \/ ThreadReady \/ QueueReady \/ TimerReady \/ LightReady

\* Every 100 ms the output is driven, from the input ...
GpioTask(d, value) ==
  /\ demo = d
  /\ \/ pc = "loop" /\ pc' = "delay" /\ pin' = value
     \/ pc = "delay" /\ pc' = "loop" /\ UNCHANGED pin
  /\ UNCHANGED <<demo, inputs, g_ledPinValue, voltage, light>>
GetTask == GpioTask("get", Level(button))

\* ... or from the value the handler turns over.
IntTask == GpioTask("int", g_ledPinValue)

\* VoltageButtonTask of the queue version waits for a message and then reads the
\* converter: by then the button may be released, or be another one.
VoltageButtonTask ==
  /\ demo = "v_queue"
  /\ \/ pc = "loop" /\ queue > 0 /\ queue' = queue - 1 /\ pc' = "read" /\ UNCHANGED <<said, unread>>
     \/ pc = "read" /\ Answer(button) /\ pc' = "loop" /\ UNCHANGED queue
  /\ UNCHANGED <<demo, inputs, level, light>>

\* The thread and the timer read every 100 ms, with or without success; said counts here the
\* presses noticed, once for each.
Noticed(d) ==
  /\ demo = d /\ pc = "loop"
  /\ said' \in {said, IF Named(Voltage[button]) # "up" THEN presses ELSE said}
  /\ UNCHANGED <<demo, pc, inputs, queue, unread, level, light>>
ThreadPoll == Noticed("v_thread")
TimerPoll == Noticed("v_timer")

\* TrafficLightTask: a second of the buzzer, four rounds of the lamps (none lit at their
\* end), then for ever the outputs one by one and the buzzer when it is asked for.
Goes(from, to) == pc = from /\ pc' = to /\ UNCHANGED <<demo, inputs, level, voltage>>

Beep ==
  \/ Goes("beep", "beeping") /\ beeper' = TRUE /\ UNCHANGED <<g_ledStates, g_currentBright, g_beepState, lamp>>
  \/ Goes("beeping", "out0") /\ beeper' = FALSE /\ UNCHANGED <<g_ledStates, g_currentBright, g_beepState, lamp>>

Out == <<"out0", "out1", "out2", "sound">>

SetLamp ==
  \E j \in Lamp :
    /\ Goes(Out[j + 1], Out[j + 2])
    /\ lamp' = [lamp EXCEPT ![j] = g_ledStates[j]]
    /\ UNCHANGED <<g_ledStates, g_currentBright, g_beepState, beeper>>

Sound ==
  /\ \/ Goes("sound", "sounding") /\ g_beepState = 1 /\ beeper' = TRUE /\ UNCHANGED g_beepState
     \/ Goes("sound", "delay") /\ g_beepState = 0 /\ UNCHANGED <<beeper, g_beepState>>
     \/ Goes("sounding", "clear") /\ beeper' = FALSE /\ UNCHANGED g_beepState
     \/ Goes("clear", "delay") /\ g_beepState' = 0 /\ UNCHANGED beeper
  /\ UNCHANGED <<g_ledStates, g_currentBright, lamp>>

TrafficLightTask ==
  /\ demo = "traffic"
  /\ \/ Beep \/ SetLamp \/ Sound
     \/ Goes("delay", "out0") /\ UNCHANGED light

Task ==
  SetUp \/ GetTask \/ IntTask \/ VoltageButtonTask \/ ThreadPoll \/ TimerPoll \/ TrafficLightTask

Next == (\E b \in Button : Press(b)) \/ Release \/ Task

Fairness == WF_vars(Task)
Spec == Init /\ [][Next]_vars /\ Fairness

(***************************************************************************)
(* Properties.                                                             *)
(***************************************************************************)

\* Types: the pins, the counters and the flags of the programs.
TypeOK ==
  /\ demo \in Demo /\ button \in Button \union {"up"} /\ presses \in 0 .. MaxPress
  /\ pc \in {"setup", "off", "ended", "loop", "delay", "read", "beep", "beeping", "out0", "out1", "out2",
             "sound", "sounding", "clear"}
  /\ pin \in 0 .. 1 /\ g_ledPinValue \in 0 .. 1
  /\ queue \in 0 .. QueueSize /\ said \in 0 .. MaxPress /\ unread \in 0 .. MaxPress
  /\ g_ledStates \in [Lamp -> 0 .. 1] /\ g_currentBright \in Lamp /\ g_beepState \in 0 .. 1
  /\ lamp \in [Lamp -> 0 .. 1] /\ beeper \in BOOLEAN

\* At most one lamp is asked for, the one whose turn the number of presses says: an
\* interrupt between two steps of the task never leaves the states of two turns.
OneTurn ==
  demo = "traffic" /\ presses > 0 =>
    \A i \in Lamp : g_ledStates[i] = 1 <=> i = (presses - 1) % 3

\* No press is answered twice.  The handler that reads at once answers each but those for
\* which the converter failed; the queue version answers at most the presses that the queue
\* had room for, with one reading for each, failed or not.
AnswerPerPress ==
  /\ demo = "v_int" => said + unread = presses
  /\ demo = "v_queue" => said + unread + queue + (IF pc = "read" THEN 1 ELSE 0) <= presses

\* The outputs settle on what the handler asked for: the lamps on their states, the pin on
\* the value turned over, however the presses fell between the steps of the task.  In
\* between, presses that fall into the driving of the outputs light more than one lamp.
OutputsFollow ==
  /\ demo = "traffic" => []<>(lamp = g_ledStates)
  /\ demo \in {"int", "int_lpc"} => []<>(pin = g_ledPinValue)

\* Every press of the queue version is taken, in time for the reading or not.
QueueDrained == demo = "v_queue" => []<>(queue = 0)

\* The buzzer never stays on, also when presses fall into its sounding.
BeeperStops == beeper ~> ~beeper

\* A press is heard.  It is not when it falls between the end of a sounding and the
\* clearing of the flag, or into a sounding.
PressHeard == g_beepState = 1 ~> beeper

\* Every press of the queue version is answered.  It is not when the button is released
\* before the task reads the converter, or the reading fails.
PressAnswered == demo = "v_queue" => <>[](said = presses)
=============================================================================
