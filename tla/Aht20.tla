------------------------------- MODULE Aht20 -------------------------------
(***************************************************************************)
(* The driver of the AHT20 temperature and humidity sensor                 *)
(* (i2c_demo/aht20.c and its copy in mqtt_temp-humi_sensor) with the two   *)
(* loops that use it: tempHumiTask of i2c_demo, which goes on after a      *)
(* failure, and GetTempHumiLevel, which gives up.  The bus may fail; the   *)
(* sensor is busy for some time after a trigger and may stay busy.         *)
(***************************************************************************)
EXTENDS Naturals, Sequences

CONSTANTS
  MAX_RETRY,  \* AHT20_MAX_RETRY (10 in the code)
  Sample,     \* pairs of twenty-bit values, humidity and temperature, that are measured
  MaxBusy,    \* bound: reads that a measurement takes at least; it may never end
  MaxFail,    \* bound: failures of the bus
  MaxRound    \* bound: measurements

VARIABLES
  program,    \* "i2c" for tempHumiTask, "mqtt" for GetTempHumiLevel
  pc,         \* where the task is
  retry,      \* i of AHT20_GetMeasureResult
  buffer,     \* what the last read gave: busy bit, calibration bit and five bytes
  shown,      \* the values printed or published, raw
  calibrated, \* whether the sensor is calibrated
  busy,       \* reads to come that find it busy
  measured,   \* the values of its last measurement
  trigger,    \* the pass in which it was last triggered
  round,      \* passes of the loop begun
  answered,   \* the pass whose measurement the values shown belong to
  fails       \* failures of the bus so far

device == <<calibrated, busy, measured, trigger>>
vars == <<program, pc, retry, buffer, shown, device, round, answered, fails>>

Nothing == <<0, 0>>

\* The answer of the sensor: two values of twenty bits in five bytes.
Bytes(v) ==
  <<v[1] \div 4096, (v[1] \div 16) % 256, ((v[1] % 16) * 16) + (v[2] \div 65536),
    (v[2] \div 256) % 256, v[2] % 256>>
Status == [busy |-> busy > 0, calibrated |-> calibrated, data |-> Bytes(measured)]

\* humiRaw and tempRaw, put together from the bytes.
Raw(b) ==
  << ((b[1] * 256 + b[2]) * 16) + (b[3] \div 16), ((b[3] % 16) * 256 + b[4]) * 256 + b[5] >>

Init ==
  /\ program \in {"i2c", "mqtt"} /\ pc = "status" /\ retry = 0
  /\ buffer = [busy |-> FALSE, calibrated |-> FALSE, data |-> Bytes(Nothing)]
  /\ shown = Nothing /\ answered = 0
  /\ calibrated \in BOOLEAN /\ busy \in 0 .. 1 /\ measured = Nothing
  /\ trigger = 0 /\ round = 0 /\ fails = 0

\* A call of the bus succeeds, or fails while failures are left.
Works(from, to) == pc = from /\ pc' = to /\ UNCHANGED <<program, fails>>
Fails(from, to) == pc = from /\ pc' = to /\ fails < MaxFail /\ fails' = fails + 1 /\ UNCHANGED program
\* A measurement goes on, or the sensor hangs.
Waits == busy' \in {busy, IF busy > 0 THEN busy - 1 ELSE 0}

(***************************************************************************)
(* AHT20_Calibrate; a failure is tried again after 100 ms.                 *)
(***************************************************************************)

StatusCommand ==
  /\ Works("status", "status read") \/ Fails("status", "status")
  /\ UNCHANGED <<retry, buffer, shown, device, round, answered>>

ReadStatus ==
  /\ \/ Fails("status read", "status") /\ UNCHANGED buffer
     \/ /\ Works("status read", IF busy > 0 \/ ~calibrated THEN "reset" ELSE "start")
        /\ buffer' = Status
  /\ UNCHANGED <<retry, shown, device, round, answered>>

ResetCommand ==
  /\ \/ Fails("reset", "status") /\ UNCHANGED <<calibrated, busy>>
     \/ Works("reset", "calibrate") /\ calibrated' = FALSE /\ busy' = 0
  /\ UNCHANGED <<retry, buffer, shown, measured, trigger, round, answered>>

CalibrateCommand ==
  /\ \/ Fails("calibrate", "status") /\ UNCHANGED calibrated
     \/ Works("calibrate", "start") /\ calibrated' = TRUE
  /\ UNCHANGED <<retry, buffer, shown, busy, measured, trigger, round, answered>>

AHT20_Calibrate == StatusCommand \/ ReadStatus \/ ResetCommand \/ CalibrateCommand

(***************************************************************************)
(* AHT20_StartMeasure and AHT20_GetMeasureResult.                          *)
(***************************************************************************)

\* Mutant: both programs go on after a failed trigger.
StartMeasureAlways ==
  /\ round < MaxRound /\ round' = round + 1 /\ retry' = 0
  /\ \/ Fails("start", "read") /\ UNCHANGED device
     \/ /\ Works("start", "read") /\ trigger' = round'
        /\ measured' \in Sample /\ busy' \in 1 .. MaxBusy /\ UNCHANGED calibrated
  /\ UNCHANGED <<buffer, shown, answered>>

\* The trigger makes the sensor busy with a new measurement.  tempHumiTask reads also
\* after a trigger that failed, GetTempHumiLevel returns.
StartMeasure ==
  /\ round < MaxRound /\ round' = round + 1 /\ retry' = 0
  /\ \/ Fails("start", IF program = "i2c" THEN "read" ELSE "delay") /\ UNCHANGED device
     \/ /\ Works("start", "read") /\ trigger' = round'
        /\ measured' \in Sample /\ busy' \in 1 .. MaxBusy /\ UNCHANGED calibrated
  /\ UNCHANGED <<buffer, shown, answered>>

\* A read; a failure of the bus ends the measurement.
ReadResult ==
  /\ \/ Fails("read", IF program = "i2c" THEN "show" ELSE "delay") /\ UNCHANGED <<buffer, busy>>
     \/ Works("read", "test") /\ buffer' = Status /\ Waits
  /\ UNCHANGED <<retry, shown, calibrated, measured, trigger, round, answered>>

\* Another retry while busy and below the limit; at the limit a failure, whatever the last
\* read has found; otherwise the values.
TestResult ==
  /\ \/ /\ Works("test", "read") /\ buffer.busy /\ retry < MAX_RETRY
        /\ retry' = retry + 1 /\ UNCHANGED <<shown, answered>>
     \/ /\ Works("test", IF program = "i2c" THEN "show" ELSE "delay") /\ retry >= MAX_RETRY
        /\ UNCHANGED <<retry, shown, answered>>
     \/ /\ Works("test", "show") /\ ~buffer.busy /\ retry < MAX_RETRY
        /\ shown' = Raw(buffer.data) /\ answered' = trigger /\ UNCHANGED retry
  /\ UNCHANGED <<buffer, device, round>>

AHT20_GetMeasureResult == ReadResult \/ TestResult

\* The values are printed or published, and a second passes.
Show == Works("show", "delay") /\ UNCHANGED <<retry, buffer, shown, device, round, answered>>
Delay == Works("delay", "start") /\ Waits /\ UNCHANGED <<retry, buffer, shown, calibrated, measured, trigger, round, answered>>

Next == AHT20_Calibrate \/ StartMeasure \/ AHT20_GetMeasureResult \/ Show \/ Delay

Spec == Init /\ [][Next]_vars /\ WF_vars(Next)

(***************************************************************************)
(* Properties.                                                             *)
(***************************************************************************)

\* Types: the task, its buffer and the sensor.
TypeOK ==
  /\ program \in {"i2c", "mqtt"}
  /\ pc \in {"status", "status read", "reset", "calibrate", "start", "read", "test", "show", "delay"}
  /\ retry \in 0 .. MAX_RETRY
  /\ buffer.busy \in BOOLEAN /\ buffer.calibrated \in BOOLEAN
  /\ buffer.data \in Seq(0 .. 255) /\ Len(buffer.data) = 5
  /\ shown \in Sample \union {Nothing} /\ measured \in Sample \union {Nothing}
  /\ calibrated \in BOOLEAN /\ busy \in 0 .. MaxBusy
  /\ trigger \in 0 .. MaxRound /\ round \in 0 .. MaxRound /\ answered \in 0 .. MaxRound /\ fails \in 0 .. MaxFail

\* What GetTempHumiLevel publishes is the measurement it has triggered, complete and put
\* together as the sensor gave it.
PublishesFresh ==
  program = "mqtt" /\ pc = "show" => answered = round /\ shown = measured

\* The same of tempHumiTask.  It does not hold: after a failure it prints what it has.
PrintsFresh ==
  program = "i2c" /\ pc = "show" => answered = round /\ shown = measured

\* The sensor is calibrated before its first measurement, whichever call has failed.
CalibratedFirst == trigger > 0 => calibrated

\* A measurement that is given up has found the sensor busy to the last.  It does not hold:
\* the answer of the last retry is thrown away with the retries.
GivenUpBusy == pc = "test" /\ retry = MAX_RETRY => buffer.busy

\* Every measurement ends, also when the sensor never gets ready.
MeasureEnds == pc = "read" ~> pc = "delay"
=============================================================================
