SPECIFICATION BoardSpec
CONSTANTS
  RgbReading = {0, 1, 4095}
  ButtonImage = {"get", "int", "int_lpc", "v_int", "v_queue", "v_thread", "v_timer", "traffic"}
  QueueSize = 3
  MaxPress = 5
  SensorLevel = {0, 600, 601, 1200, 1201}
  Data <- FileData
  Offset = 3
  MaxBoot = 4
  MAX_RETRY = 3
  Sample <- Samples
  MaxBusy = 4
  MaxFail = 3
  MaxRound = 3
  Request = 4
  WifiImage = {"easy_connect", "connect", "scan", "easy_hotspot", "hotspot"}
  MaxEvent = 4
  Station = {s1, s2}
  App = {"demo", "gas", "human", "light_sensor", "temp_humi", "light", "oled"}
  BufferLen = 6
  MaxMessage = 3
  FIFO = 5
  LOW = 1
  TAKEN = 5
  LEVEL = 4
  BLOCK = 4
  USER = 4
  MANUF = 19
  Address = {0, 3, 4, 5, 7, 9, 18, 19}
  Length = {0, 1, 2, 3, 4, 5, 9}
  CcSize = 2
  NdefSize = 8
  MaxCommand = 3
  NfcFail = 1
  Early = 1
  DisplayWidth = 16
  DisplayPages = 4
  DisplayBits = 4
  BYTE = 32
  FirstChar = 32
  LastChar = 52
  Glyph <- GlyphOf
  Wide <- WideFont
  Narrow <- NarrowFont
  Title <- TitleText
  Subtitle <- SubtitleText
  Chinese1 <- FullBitmaps
  Chinese2 <- NarrowBitmaps
  QrBitmap <- HalfBitmap
  Code <- DarkModules
  CodeSize = 5
  Shape <- Shapes
  MaxLost = 1
  OledWidth = 48
  OledPages = 8
  OledBits = 1
  F8X16 <- BigFont
  F6x8 <- SmallFont
  Fonts1 <- ChineseFont1
  Fonts2 <- ChineseFont2
  OledTitle <- OledTitleText
  OledRow <- RowText
  Digits <- DigitText
  Label <- LabelText
  OledVoltage <- VoltageText
  DropStep = 11
INVARIANTS StoredWhole
PROPERTIES PinsFollow ReadingsFresh RoundsComplete PayloadsObeyed ScreenShows TagAnswers
CHECK_DEADLOCK FALSE
