----------------------------- MODULE MCCodecs -----------------------------
(***************************************************************************)
(* Instance: the test program of the MQTT packets, the samples of the      *)
(* packet library, the bytes and the timers under the MQTT client, and the *)
(* QR code programs.  The image is chosen when the board starts; the state *)
(* of the others rests at its start.                                       *)
(***************************************************************************)
EXTENDS QrTest

CONSTANTS BufLen, MaxBegun, MaxSent, Strings, Ids, Payloads, Lengths, Slack,
  Port, Base, Remaining, OwnLength, ReadBufSize, MaxIn, MaxOut, MaxCut,
  sysPerTick, TickWrap, SysWrap, Interval, MaxNow

\* The constants are as the modules take them.
ASSUME CodecAssumption ==
  /\ Base \in Nat \ {0, 1} /\ Remaining \subseteq 0 .. Base ^ 4 - 1
  /\ OwnLength \subseteq Nat \ {0} /\ ReadBufSize \in Nat \ {0}
  /\ sysPerTick \in Nat \ {0} /\ TickWrap \in Nat \ {0} /\ SysWrap \in Nat \ {0}
  /\ Interval \subseteq Nat

VARIABLES image,
  testPhase, packet, room, written, parsed,
  prog, pc, toStop, buf, from, howmany, trp, incoming, outgoing, begun, got, sent, read, torn,
  port, streamPc, streamExpired, packets, arrived, taken, open, bytes, rem_len, count, result,
  length, streamSent, wire, types, starts, streamTorn, outs, cuts,
  now, timerPc, call, timerBegun, tickCount, time, endTime, interval, started, armed, left, expired

Sample == INSTANCE PacketSample
Packets == INSTANCE PacketTest WITH phase <- testPhase
Streams == INSTANCE MqttStream WITH
  pc <- streamPc, expired <- streamExpired, sent <- streamSent, torn <- streamTorn
Timers == INSTANCE MqttTimer WITH pc <- timerPc, begun <- timerBegun

\* Strings: none, an empty one, and one with a byte above 127.
MCStrings == {Sample!NoString, <<>>, <<7, 200>>}
MCIds == {0, 255, 256, 65535}
\* Payloads on both sides of the packet length whose length field grows to two bytes.
MCPayloads == {<<>>, <<1, 2>>} \union {[i \in 1 .. n |-> 9] : n \in 120 .. 127}
\* Both sides of each step of the length field.
MCLengths == {0, 1, 2, 126, 127, 128, 129, 16382, 16383, 16384, 16385,
            2097150, 2097151, 2097152, 268435455}
MCSlack == {-1, 0, 1}

Repeat(c, n) == [i \in 1 .. n |-> c]
Url == <<104, 116, 116, 112, 115, 58, 47, 47, 119, 119, 119, 46, 111, 112, 101, 110, 104, 97, 114,
         109, 111, 110, 121, 46, 99, 110>>
Square == <<84, 72, 69, 32, 83, 81, 85, 65, 82, 69>>
Rest == <<52, 49, 52, 50, 49, 51, 53>>
Kana == <<227, 129, 130>>
Kanji == <<53, 1056, 8191>>

Ask(kind, chars, e, lo, hi, m, b) ==
  [kind |-> kind, chars |-> chars, ecl |-> e, min |-> lo, max |-> hi, mask |-> m, boost |-> b]

KanjiSegment ==
  [mode |-> "KANJI", numChars |-> 3,
   data |-> Bits(Kanji[1], 13) \o Bits(Kanji[2], 13) \o Bits(Kanji[3], 13)]

\* A request that just fits its version and one that does not fit any; texts for each of
\* the modes; segments of several modes; versions with the version blocks, with several
\* blocks of one length, and of two; all masks.
MCRequest == {
  Ask("text", Url, 0, 3, 40, -1, TRUE),
  Ask("binary", Kana, 3, 2, 7, 4, FALSE),
  Ask("text", Repeat(49, 34), 1, 1, 40, 0, FALSE),
  Ask("text", <<>>, 0, 1, 40, 3, TRUE),
  Ask("text", Square, 2, 1, 3, -1, FALSE),
  Ask("text", Repeat(120, 20), 3, 1, 1, 2, FALSE),
  Ask("text", Repeat(120, 60), 0, 1, 1, 2, FALSE),
  Ask("bytes", Kana \o Repeat(97, 40), 2, 1, 7, 5, FALSE),
  Ask("bytes", Url, 3, 5, 5, 6, FALSE),
  Ask("text", Repeat(65, 9), 1, 7, 7, 7, FALSE),
  [segs |-> <<makeAlphanumeric(Square), makeNumeric(Rest)>>,
   kind |-> "segments", chars |-> Square \o Rest, ecl |-> 0, min |-> 1, max |-> 40, mask |-> -1, boost |-> TRUE],
  [segs |-> <<KanjiSegment, makeEci(26), makeBytes(Kana)>>,
   kind |-> "segments", chars |-> Kanji \o Kana, ecl |-> 1, min |-> 1, max |-> 40, mask |-> 1, boost |-> TRUE]}

testVars == <<testPhase, packet, room, written, parsed>>
sampleVars == <<prog, pc, toStop, buf, from, howmany, trp, incoming, outgoing, begun, got, sent, read, torn>>
streamVars == <<port, streamPc, streamExpired, packets, arrived, taken, open, bytes, rem_len,
  count, result, length, streamSent, wire, types, starts, streamTorn, outs, cuts>>
timerVars == <<now, timerPc, call, timerBegun, tickCount, time, endTime, interval, started,
  armed, left, expired>>
boardVars == <<image, testVars, sampleVars, vars, streamVars, timerVars>>

BoardInit ==
  /\ image \in {"test", "sample", "qr", "stream", "timer"}
  /\ Packets!Init /\ Sample!Init /\ Init /\ Timers!Init
  /\ Streams!Init /\ (image # "stream" => port = "ohos")

TestStep ==
  /\ image = "test" /\ Packets!Next
  /\ UNCHANGED <<image, sampleVars, vars, streamVars, timerVars>>
SampleStep ==
  /\ image = "sample" /\ Sample!Next
  /\ UNCHANGED <<image, testVars, vars, streamVars, timerVars>>
QrStep ==
  image = "qr" /\ Next /\ UNCHANGED <<image, testVars, sampleVars, streamVars, timerVars>>
StreamStep ==
  /\ image = "stream" /\ Streams!Next
  /\ UNCHANGED <<image, testVars, sampleVars, vars, timerVars>>
TimerStep ==
  /\ image = "timer" /\ Timers!Next
  /\ UNCHANGED <<image, testVars, sampleVars, vars, streamVars>>

BoardNext == TestStep \/ SampleStep \/ QrStep \/ StreamStep \/ TimerStep

\* The sample runs, and the server reads what has come.
Fairness ==
  /\ WF_sampleVars(image = "sample" /\ Sample!sample)
  /\ WF_sampleVars(image = "sample" /\ Sample!ServerReads)

BoardSpec == BoardInit /\ [][BoardNext]_boardVars /\ Fairness

\* The properties of the modules, by library; the invariants hold in the state the others
\* rest in, too.

\* PacketTest and PacketSample: what is read from a packet is what was written into it, which
\* is done exactly when it fits; frames that come in any pieces are read one by one, packets
\* are sent whole and once, and a message of the server is read or the sample ends.
PacketsKept ==
  /\ [](Packets!TypeOK /\ Packets!RoundTrip /\ Packets!FitsBuffer /\ Packets!LengthField)
  /\ [](Sample!TypeOK /\ Sample!FramesKept /\ Sample!SendsWhole)
  /\ (image = "sample" => Sample!MessageAnswered)

\* MqttStream and MqttTimer: packets are read one after the other unless a time-out tears one,
\* what is reported as sent is on the wire, once, and a timer runs out when it should, to two
\* ticks.
PortsKept ==
  /\ [](Streams!TypeOK /\ Streams!InFrames /\ Streams!FitsReadBuf)
  /\ [](Timers!TypeOK /\ Timers!TimeWithinTick)
  /\ Streams!SentIsSent /\ Timers!ExpiresInTime /\ Timers!LeftInTime
=============================================================================
