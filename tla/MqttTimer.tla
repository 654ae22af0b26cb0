----------------------------- MODULE MqttTimer -----------------------------
(***************************************************************************)
(* The timers of the MQTT client on OpenHarmony                            *)
(* (MQTTClient-C/src/ohos/mqtt_ohos_cmsis.c).  The time of day is put      *)
(* together from two counters of the kernel, the tick and the system       *)
(* timer, which are read one after the other while both go on, and which   *)
(* wrap around at different times.  A unit of time is one count of the     *)
(* system timer; seconds and microseconds only divide it.                  *)
(***************************************************************************)
EXTENDS Integers

CONSTANTS
  sysPerTick,  \* g_sysPerTick
  TickWrap,    \* values of the tick counter (2^32 in the code)
  SysWrap,     \* values of the system timer's lower word (2^32)
  Interval,    \* lengths of the timers that are started
  MaxNow       \* bound of the model: the clock

VARIABLES
  now,         \* the time since the start of the board
  pc,          \* "idle"; between the two reads; the time is known
  call,        \* which function of the timer asks for the time
  begun,       \* history: when it asked
  tickCount,   \* the tick it has read
  time,        \* what GetCurrentTime returned last
  endTime, interval,   \* the timer
  started, armed, \* history: when TimerCountdown was called, and when it was done
  left, expired\* what TimerLeftMS and TimerIsExpired return, until the next call

asking == <<pc, call, begun, tickCount, time>>
timer == <<endTime, interval, started, armed>>
vars == <<now, asking, timer, left, expired>>

Tick == (now \div sysPerTick) % TickWrap
SysTimer == now % SysWrap

\* TimerInit: the end is 0, which is past.
Init ==
  /\ now = 0 /\ pc = "idle" /\ call = "none" /\ begun = 0 /\ tickCount = 0 /\ time = 0
  /\ endTime = 0 /\ interval = 0 /\ started = 0 /\ armed = 0 /\ left = 0 /\ expired = TRUE

Clock == now < MaxNow /\ now' = now + 1 /\ UNCHANGED <<asking, timer, left, expired>>

\* GetCurrentTime: the tick, ...
ReadTick ==
  /\ pc = "idle" /\ pc' = "between"
  /\ call' \in {"countdown", "expired", "left"} /\ (call' # "countdown" => armed # 0)
  /\ begun' = now /\ tickCount' = Tick /\ left' = 0 /\ expired' = TRUE
  /\ UNCHANGED <<now, time, timer>>

\* ... and the part of a tick that the system timer says has gone by.
ReadSysTimer ==
  /\ pc = "between" /\ pc' = "known"
  /\ time' = tickCount * sysPerTick + (SysTimer % sysPerTick)
  /\ tickCount' = 0 /\ UNCHANGED <<now, call, begun, timer, left, expired>>

\* Mutant: a timer that has run out is started from its last end.
TimerCountdownOn ==
  /\ pc = "known" /\ call = "countdown"
  /\ \E i \in Interval :
       endTime' = (IF endTime = 0 THEN time ELSE endTime) + i /\ interval' = i
  /\ started' = begun /\ armed' = now /\ pc' = "idle"
  /\ UNCHANGED <<now, call, begun, tickCount, time, left, expired>>

\* TimerCountdownMS and TimerCountdown.
TimerCountdown ==
  /\ pc = "known" /\ call = "countdown"
  /\ \E i \in Interval : endTime' = time + i /\ interval' = i
  /\ started' = begun /\ armed' = now /\ pc' = "idle"
  /\ UNCHANGED <<now, call, begun, tickCount, time, left, expired>>

TimerIsExpired ==
  /\ pc = "known" /\ call = "expired" /\ pc' = "idle"
  /\ expired' = (endTime - time <= 0)
  /\ UNCHANGED <<now, call, begun, tickCount, time, timer, left>>

\* Never less than nothing.
TimerLeftMS ==
  /\ pc = "known" /\ call = "left" /\ pc' = "idle"
  /\ left' = IF endTime < time THEN 0 ELSE endTime - time
  /\ UNCHANGED <<now, call, begun, tickCount, time, timer, expired>>

Next == Clock \/ ReadTick \/ ReadSysTimer \/ TimerCountdown \/ TimerIsExpired \/ TimerLeftMS
Spec == Init /\ [][Next]_vars

(***************************************************************************)
(* Properties.                                                             *)
(***************************************************************************)

\* Types: the clock, the call and the timer.
TypeOK ==
  /\ now \in 0 .. MaxNow /\ pc \in {"idle", "between", "known"}
  /\ call \in {"none", "countdown", "expired", "left"}
  /\ begun <= now /\ started <= armed /\ armed <= now /\ tickCount < TickWrap
  /\ time \in 0 .. MaxNow /\ left \in 0 .. 2 * MaxNow /\ expired \in BOOLEAN

\* Before the tick counter wraps, the time a call is given is less than a tick before the
\* call and not after its end, whichever of the counters moves on between the two reads and
\* wherever the system timer has wrapped.
Wrapped == now >= TickWrap * sysPerTick
TimeWithinTick ==
  pc = "known" /\ ~Wrapped => begun - sysPerTick < time /\ time < now + sysPerTick

\* A timer is not seen to have run out two ticks or more before it has, nor seen to run on
\* two ticks after.
ExpiresInTime ==
  [][pc = "known" /\ pc' = "idle" /\ call = "expired" /\ ~Wrapped =>
       /\ expired' => now - started > interval - 2 * sysPerTick
       /\ ~expired' => begun - armed < interval + 2 * sysPerTick]_vars

\* What is left of a timer is not below nothing, and is right to two ticks.
LeftInTime ==
  [][pc = "known" /\ pc' = "idle" /\ call = "left" /\ ~Wrapped =>
       /\ left' >= 0
       /\ left' < interval - (begun - armed) + 2 * sysPerTick \/ left' = 0
       /\ left' > interval - (now - started) - 2 * sysPerTick]_vars

\* Time goes on.  It does not: a call that reads the tick before it moves on and the
\* system timer after is given a time a tick too early.
TimeGoesOn == [][time' >= time]_vars
\* A timer that was started before the tick counter wraps runs out.  It does not: the time
\* starts again from 0 and the end of the timer stays.
ExpiresThough ==
  [][pc = "known" /\ pc' = "idle" /\ call = "expired" /\ ~expired' =>
       begun - armed < interval + 2 * sysPerTick]_vars
=============================================================================
