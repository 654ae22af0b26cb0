----------------------------- MODULE MCDevices -----------------------------
(***************************************************************************)
(* Instance: one board, whose image is one of the programs that drive a    *)
(* device or the network.  The image is chosen when the board starts, and  *)
(* nothing else then runs: the state of the others rests at its start.     *)
(***************************************************************************)
EXTENDS Integers, Sequences

CONSTANTS
  RgbReading, ButtonImage, QueueSize, MaxPress, SensorLevel, Data, Offset, MaxBoot,
  MAX_RETRY, Sample, MaxBusy, MaxFail, MaxRound, Request, WifiImage, MaxEvent, Station,
  App, BufferLen, MaxMessage,
  DisplayWidth, DisplayPages, DisplayBits, BYTE, FirstChar, LastChar, Glyph, Wide, Narrow, Title,
  Subtitle, Chinese1, Chinese2, QrBitmap, Code, CodeSize, Shape, MaxLost,
  OledWidth, OledPages, OledBits, F8X16, F6x8, Fonts1, Fonts2, OledTitle, OledRow, Digits, Label,
  OledVoltage, DropStep,
  FIFO, LOW, TAKEN, LEVEL, BLOCK, USER, MANUF, Address, Length, CcSize, NdefSize, MaxCommand,
  NfcFail, Early

VARIABLES image,
  pwmDemo, pwmRound, function, ready, pulse,
  buttonDemo, buttonPc, button, presses, pin, g_ledPinValue, queue, said, unread, g_ledStates, g_currentBright, g_beepState, buttonLamp, beeper,
  sensorDemo, sensorPc, dataHuman, beeping, out, basis,
  storageProgram, storagePc, file, fd, position, ssid, password, value, boots,
  ahtProgram, ahtPc, retry, ahtBuffer, shown, calibrated, busy, ahtMeasured, trigger, ahtRound, answered, ahtFails,
  proto, client, server, sockfd, port, conn, up, down,
  wifiDemo, wifiPc, wifiRound, registered, enabled, link, config, dhcp, events, g_connected, stations, g_joinedStations, changes,
  displayProgram, displayPc, displayAsked, displayBuffer, cursor, displayChip, good, displayLost,
  oledProgram, oledPc, oledAsked, oledHeard, oledChip, oledLost,
  nfcProgram, written, nfcAsked, air, nfcHeard, fifo, flags, level, sending, nfcPc, irq, irq_data_wl, irq_data_in, rbuf, temp, current_file, ndef_file, sbuf, nfcFails, found, since, reliable, answer, cut,
  app, appPc, online, socket, connected, subscribed, fresh, appMeasured, inbox, sent, readbuf, longest, appLamp, display

\* The range of the values that the sensor measures.
TwentyBits == {n \in Nat : n < 1048576}

\* The constants are as the modules take them.
ASSUME DeviceAssumption ==
  /\ RgbReading \subseteq 0 .. 4095 /\ QueueSize \in Nat \ {0} /\ MaxPress \in Nat
  /\ Data \in Seq(Nat) /\ Offset \in 1 .. Len(Data) /\ MaxBoot \in Nat \ {0}
  /\ Request \in Nat \ {0, 1} /\ SensorLevel \subseteq 0 .. 4095 /\ 0 \in SensorLevel /\ MaxLost \in Nat
  /\ Sample \subseteq TwentyBits \X TwentyBits /\ MAX_RETRY \in Nat /\ MaxBusy \in Nat \ {0}
  /\ MaxFail \in Nat /\ MaxRound \in Nat
  /\ ButtonImage \subseteq {"get", "int", "int_lpc", "v_int", "v_queue", "v_thread", "v_timer", "traffic"}
  /\ WifiImage \subseteq {"easy_connect", "connect", "scan", "easy_hotspot", "hotspot"}

\* So are those of the tag's memory.
ASSUME TagAssumption ==
  /\ BLOCK \in Nat \ {0} /\ USER \in Nat /\ MANUF \in Nat
  /\ Address \subseteq Nat /\ Length \subseteq Nat

\* Humidity and temperature as the sensor measures them: both ends of the range, and all digits.
Samples == {<<0, 1048575>>, <<74565, 703710>>}
\* The file of the storage program: a network of two bytes, the separator and a password.
FileData == <<1, 2, 0, 3, 4>>
\* Commands to the lamp and to the screen: right, short, and ones that are read on behind
\* their end (10 is the comma, 11 the bar, 13 a letter).
Command == {<<1, 10, 2>>, <<1, 10, 1>>, <<3, 10, 1>>, <<1>>, <<1, 2, 10, 1>>, <<11, 7, 11, 13>>}

\* A screen of 16 columns and four pages of four pixels, with characters of four pixels'
\* height and letters from 32 to 52; the shapes lie within it, at its edges and beyond.
WideFont == [w |-> 3, h |-> 4]
NarrowFont == [w |-> 2, h |-> 3]
GlyphOf ==
  [ch \in 32 .. 52 |->
     {p \in (0 .. 2) \X (0 .. 3) : (ch \div (2 ^ (p[1] + 2 * (p[2] % 2)))) % 2 = 1 \/ p = <<0, 0>>}]
TitleText == <<33, 34, 35, 36>>
SubtitleText == <<52, 40, 41, 42, 43>>
FullBitmaps == <<<<{0}, {1, 2}, {}, {0, 3}>>, <<{0, 1, 2, 3}, {2}, {3}, {}>>>>
NarrowBitmaps == <<<<{0, 1}, {}, {0, 1, 2}>>, <<{1}, {0, 2}, {1}>>>>
HalfBitmap == [i \in 1 .. 32 |-> {j \in 0 .. 3 : (i * (j + 3)) % 5 < 2}]
DarkModules == {p \in (0 .. 4) \X (0 .. 4) : (p[1] * 3 + p[2] * 2) % 5 < 2}
Place == {0, 1, 2, 5, 8, 15, 16, 31}
Columns(n) == [i \in 1 .. n |-> {j \in 0 .. 3 : (i * (j + 2)) % 7 < 3}]
Shapes ==
  [op : {"line"}, x1 : Place, y1 : Place, x2 : Place, y2 : Place, color : {TRUE}]
  \union [op : {"rectangle"}, x1 : {0, 3, 15}, y1 : {0, 5, 16}, x2 : {0, 3, 8, 20}, y2 : {0, 5, 9},
          color : BOOLEAN]
  \union [op : {"circle"}, x : {0, 1, 7, 15, 16}, y : {0, 8, 15}, r : 0 .. 18, color : BOOLEAN]
  \union [op : {"region"}, x : {0, 3, 8, 13}, y : {0, 6, 14}, w : {0, 3, 4, 8}, h : {0, 2, 4},
          data : {Columns(n) : n \in {2, 4, 8}}, stride : {0, 4, 8}]
  \union [op : {"at"}, x : {0, 5, 13, 16, 29, 31}, y : {0, 7, 14, 30}, w : {4, 8, 3}, h : {3, 4},
          data : {Columns(8)}]
  \union [op : {"game", "string"}, x : {0, 4, 14, 16}, y : {0, 12, 13},
          str : {TitleText, SubtitleText \o TitleText, <<33, 10, 34>>, <<>>}, font : {WideFont}]
  \union [op : {"qr"}, x : {0, 6, 15, 28}, y : {0, 9}, zoom : 0 .. 4]
  \union [op : {"bitmap"}, data : {Columns(n) : n \in {0, 4, 8, 60, 64, 80, 128, 132}}]
  \union {[op |-> "polyline", vertex |-> v, color |-> TRUE] :
           v \in {<<>>, <<<<1, 1>>>>, <<<<1, 1>>, <<5, 9>>, <<20, 3>>>>}}

\* Fonts for a screen of 48 columns and eight pages of a pixel: no two characters alike.
Ink(n, k, m) == IF ((n * k) \div 2) % m < 2 THEN {0} ELSE {}
BigFont == [ch \in 33 .. 38 |-> [i \in 1 .. 16 |-> Ink(ch, i, 5)]]
SmallFont == [ch \in 33 .. 38 |-> [i \in 1 .. 6 |-> Ink(ch + 1, i, 4)]]
ChineseFont1 == <<[i \in 1 .. 32 |-> Ink(3, i, 7)]>>
ChineseFont2 == [i \in 1 .. 32 |-> Ink(5, i, 3)]
OledTitleText == <<33, 34>>
RowText == <<33, 34, 35, 36, 37, 38>>
DigitText == <<38, 36>>
LabelText == <<35, 34>>
\* What a reader asks of the tag: files of two and eight bytes, read in a short and in a long
\* answer, and written by a command that fills the FIFO.
Select(name) == [ins |-> "select", file |-> name, bytes |-> 3]
NfcCommand ==
  {Select("cc"), Select("ndef"), Select("unknown"),
   [ins |-> "read", off |-> 0, len |-> 2, bytes |-> 3],
   [ins |-> "read", off |-> 1, len |-> 7, bytes |-> 3],
   [ins |-> "update", off |-> 1, len |-> 1, bytes |-> 3],
   [ins |-> "update", off |-> 0, len |-> 3, bytes |-> 5],
   [ins |-> "other", bytes |-> 3]}

VoltageText == << <<36, 37>>, <<38, 33>> >>

Pwm == INSTANCE PwmDemo WITH demo <- pwmDemo, round <- pwmRound, Reading <- RgbReading
Button == INSTANCE ButtonDemo WITH demo <- buttonDemo, pc <- buttonPc, lamp <- buttonLamp, Demo <- ButtonImage
Sensor == INSTANCE SensorDemo WITH demo <- sensorDemo, pc <- sensorPc, Level <- SensorLevel
Storage == INSTANCE StorageDemo WITH program <- storageProgram, pc <- storagePc
Aht == INSTANCE Aht20 WITH program <- ahtProgram, pc <- ahtPc, buffer <- ahtBuffer, measured <- ahtMeasured, round <- ahtRound, fails <- ahtFails
Socket == INSTANCE SocketDemo
Wifi == INSTANCE WifiDemo WITH demo <- wifiDemo, pc <- wifiPc, round <- wifiRound, Demo <- WifiImage
Display == INSTANCE Ssd1306 WITH program <- displayProgram, pc <- displayPc, asked <- displayAsked, buffer <- displayBuffer, chip <- displayChip, lost <- displayLost, WIDTH <- DisplayWidth, PAGES <- DisplayPages, BITS <- DisplayBits
Oled == INSTANCE OledDemo WITH program <- oledProgram, pc <- oledPc, asked <- oledAsked, heard <- oledHeard, chip <- oledChip, lost <- oledLost, WIDTH <- OledWidth, PAGES <- OledPages, BITS <- OledBits, Title <- OledTitle, Row <- OledRow, Voltage <- OledVoltage
Nfc == INSTANCE Nfc WITH program <- nfcProgram, asked <- nfcAsked, heard <- nfcHeard, pc <- nfcPc, fails <- nfcFails, MaxFail <- NfcFail, Command <- NfcCommand
Application == INSTANCE MqttApp WITH pc <- appPc, measured <- appMeasured, lamp <- appLamp

pwmVars == <<pwmDemo, pwmRound, function, ready, pulse>>
buttonVars == <<buttonDemo, buttonPc, button, presses, pin, g_ledPinValue, queue, said, unread, g_ledStates, g_currentBright, g_beepState, buttonLamp, beeper>>
sensorVars == <<sensorDemo, sensorPc, dataHuman, beeping, out, basis>>
storageVars == <<storageProgram, storagePc, file, fd, position, ssid, password, value, boots>>
ahtVars == <<ahtProgram, ahtPc, retry, ahtBuffer, shown, calibrated, busy, ahtMeasured, trigger, ahtRound, answered, ahtFails>>
socketVars == <<proto, client, server, sockfd, port, conn, up, down>>
wifiVars == <<wifiDemo, wifiPc, wifiRound, registered, enabled, link, config, dhcp, events, g_connected, stations, g_joinedStations, changes>>
displayVars == <<displayProgram, displayPc, displayAsked, displayBuffer, cursor, displayChip, good, displayLost>>
oledVars == <<oledProgram, oledPc, oledAsked, oledHeard, oledChip, oledLost>>
nfcVars == <<nfcProgram, written, nfcAsked, air, nfcHeard, fifo, flags, level, sending, nfcPc, irq, irq_data_wl, irq_data_in, rbuf, temp, current_file, ndef_file, sbuf, nfcFails, found, since, reliable, answer, cut>>
appVars == <<app, appPc, online, socket, connected, subscribed, fresh, appMeasured, inbox, sent, readbuf, longest, appLamp, display>>
boardVars == <<image, pwmVars, buttonVars, sensorVars, storageVars, ahtVars, socketVars, wifiVars, displayVars, oledVars, nfcVars, appVars>>

BoardInit ==
  /\ image \in {"pwm", "button", "sensor", "storage", "aht", "socket", "wifi", "display", "oled", "nfc", "app"}
  /\ Pwm!Init /\ (image # "pwm" => pwmDemo = "demo1")
  /\ Button!Init /\ (image # "button" => buttonDemo = "get")
  /\ Sensor!Init /\ (image # "sensor" => sensorDemo = "led")
  /\ Storage!Init /\ (image # "storage" => storageProgram = "file")
  /\ Aht!Init /\ (image # "aht" => ahtProgram = "i2c" /\ calibrated /\ busy = 0)
  /\ Socket!Init /\ (image # "socket" => proto = "tcp")
  /\ Wifi!Init /\ (image # "wifi" => wifiDemo = "scan")
  /\ Display!Init /\ (image # "display" => displayProgram = "qr" /\ displayChip = Display!Reset({}))
  /\ Oled!Init /\ (image # "oled" => oledProgram = "oled" /\ oledChip = Oled!Reset({}))
  /\ Nfc!Init /\ (image # "nfc" => nfcProgram = "tag")
  /\ Application!Init /\ (image # "app" => app = "demo")

\* The sizes of the two screens.
ASSUME ScreenSizes == Display!DisplaySizes /\ Oled!OledSizes

PwmStep ==
  image = "pwm" /\ Pwm!Next
  /\ UNCHANGED <<image, buttonVars, sensorVars, storageVars, ahtVars, socketVars, wifiVars, displayVars, oledVars, nfcVars, appVars>>
ButtonStep ==
  image = "button" /\ Button!Next
  /\ UNCHANGED <<image, pwmVars, sensorVars, storageVars, ahtVars, socketVars, wifiVars, displayVars, oledVars, nfcVars, appVars>>
SensorStep ==
  image = "sensor" /\ Sensor!Next
  /\ UNCHANGED <<image, pwmVars, buttonVars, storageVars, ahtVars, socketVars, wifiVars, displayVars, oledVars, nfcVars, appVars>>
StorageStep ==
  image = "storage" /\ Storage!Next
  /\ UNCHANGED <<image, pwmVars, buttonVars, sensorVars, ahtVars, socketVars, wifiVars, displayVars, oledVars, nfcVars, appVars>>
AhtStep ==
  image = "aht" /\ Aht!Next
  /\ UNCHANGED <<image, pwmVars, buttonVars, sensorVars, storageVars, socketVars, wifiVars, displayVars, oledVars, nfcVars, appVars>>
SocketStep ==
  image = "socket" /\ Socket!Next
  /\ UNCHANGED <<image, pwmVars, buttonVars, sensorVars, storageVars, ahtVars, wifiVars, displayVars, oledVars, nfcVars, appVars>>
WifiStep ==
  image = "wifi" /\ Wifi!Next
  /\ UNCHANGED <<image, pwmVars, buttonVars, sensorVars, storageVars, ahtVars, socketVars, displayVars, oledVars, nfcVars, appVars>>
DisplayStep ==
  image = "display" /\ Display!Next
  /\ UNCHANGED <<image, pwmVars, buttonVars, sensorVars, storageVars, ahtVars, socketVars, wifiVars, oledVars, nfcVars, appVars>>
OledStep ==
  image = "oled" /\ Oled!Next
  /\ UNCHANGED <<image, pwmVars, buttonVars, sensorVars, storageVars, ahtVars, socketVars, wifiVars, displayVars, nfcVars, appVars>>
NfcStep ==
  image = "nfc" /\ Nfc!Next
  /\ UNCHANGED <<image, pwmVars, buttonVars, sensorVars, storageVars, ahtVars, socketVars, wifiVars, displayVars, oledVars, appVars>>
ApplicationStep ==
  image = "app" /\ Application!Next
  /\ UNCHANGED <<image, pwmVars, buttonVars, sensorVars, storageVars, ahtVars, socketVars, wifiVars, displayVars, oledVars, nfcVars>>

BoardNext ==
  \/ PwmStep \/ ButtonStep \/ SensorStep \/ StorageStep \/ AhtStep \/ SocketStep \/ WifiStep \/ DisplayStep \/ OledStep \/ NfcStep \/ ApplicationStep

\* The tasks of an image are scheduled, and what the service has for a listener is delivered.
BoardFairness ==
  /\ WF_pwmVars(image = "pwm" /\ Pwm!Next)
  /\ WF_buttonVars(image = "button" /\ Button!Task)
  /\ WF_ahtVars(image = "aht" /\ Aht!Next)
  /\ WF_socketVars(image = "socket" /\ Socket!Client)
  /\ WF_socketVars(image = "socket" /\ Socket!Server)
  /\ WF_wifiVars(image = "wifi" /\ Wifi!Task)
  /\ WF_wifiVars(image = "wifi" /\ Wifi!Deliver)
  /\ WF_wifiVars(image = "wifi" /\ Wifi!Comes)
  /\ WF_nfcVars(image = "nfc" /\ Nfc!Driver)
  /\ WF_nfcVars(image = "nfc" /\ Nfc!Chip)
  /\ WF_appVars(image = "app" /\ Application!Task)
  /\ WF_appVars(image = "app" /\ Application!OnMessageArrived)

BoardSpec == BoardInit /\ [][BoardNext]_boardVars /\ BoardFairness

\* The properties of the modules, by the kind of program; the invariants hold in the state the
\* others rest in, too.

\* PwmDemo and ButtonDemo: a pulse is given only on a pin that is connected to it, with a duty
\* no longer than its period and in even steps, and a program that ends leaves none on; a press is
\* answered at most once, and when it is read at once but for a failing converter; lamp, buzzer
\* and output follow what the interrupt has set, and the buzzer stops.
PinsFollow ==
  /\ [](Pwm!TypeOK /\ Pwm!PulseOnPin /\ Pwm!DutyInPeriod /\ Pwm!EvenLight)
  /\ [](Button!TypeOK /\ Button!OneTurn /\ Button!AnswerPerPress)
  /\ (image = "pwm" => Pwm!PulseEnds)
  /\ (image = "button" => Button!OutputsFollow)
  /\ (image = "button" => Button!QueueDrained)
  /\ (image = "button" => Button!BeeperStops)

\* SensorDemo and Aht20: alarm and lamp stand as the readings of one pass have it, whichever of
\* them failed; nothing is measured before the calibration or published without having been
\* measured for it, and a measurement comes to an end.
ReadingsFresh ==
  /\ [](Sensor!TypeOK /\ Sensor!AlarmAsRead /\ Sensor!NightLightAsRead)
  /\ [](Aht!TypeOK /\ Aht!PublishesFresh /\ Aht!CalibratedFirst)
  /\ (image = "aht" => Aht!MeasureEnds)

\* StorageDemo: what is read at a later boot was written as such, wherever a reset has fallen.
StoredWhole == Storage!TypeOK /\ Storage!PartsKept

\* SocketDemo and WifiDemo: the client gets back what it sent, a client that has joined ends
\* and so does the server that accepts it, and what was opened, enabled or registered is given
\* back on every path behind a stored network; a wait is ended by an event of its own
\* round, which comes when the hotspot is joined, and the stations are counted.
RoundsComplete ==
  /\ [](Socket!TypeOK /\ Socket!EchoOfRequest /\ Socket!Released)
  /\ [](Wifi!TypeOK /\ Wifi!WaitsForThisOne /\ Wifi!GivenBack /\ Wifi!StationsCounted)
  /\ (image = "socket" => Socket!TcpEnds)
  /\ (image = "wifi" => Wifi!JoinNoticed)

\* MqttApp: a command moves the lamp it names and no other, the screen shows the payload that
\* came last, and a sensor with a connection goes on reporting.
PayloadsObeyed ==
  /\ []Application!TypeOK
  /\ Application!CommandObeyed
  /\ Application!DisplayShows
  /\ (image = "app" => Application!ReportsGoOn)

\* Ssd1306 and OledDemo: lines, rectangles, circles, regions, bitmaps and texts are on the screen
\* where they are asked for, cut at its edges, the code with its dark modules black; a call of which
\* nothing is lost shows what it should, and what a broken transfer has left is repaired.
ScreenShows ==
  /\ [](Display!TypeOK /\ Display!LineJoins /\ Display!RectangleClosed /\ Display!CircleRound
        /\ Display!RegionShown /\ Display!BitmapAtShown /\ Display!TextWhole /\ Display!QrShown)
  /\ [](Oled!TypeOK /\ Oled!ShownWhole /\ Oled!OnlyText)
  /\ Display!Heals

\* Nfc: a command is answered by what those before it selected and wrote, the bytes of a long
\* answer come in order, no page of a write crosses a block, after a fault reader and tag come into
\* step again, and the loop that refills the FIFO ends.
TagAnswers ==
  /\ [](Nfc!TypeOK /\ Nfc!PagesInBlocks /\ Nfc!RightAnswer /\ Nfc!SentInOrder /\ Nfc!InStepAgain)
  /\ (image = "nfc" => Nfc!SendEnds)
=============================================================================
