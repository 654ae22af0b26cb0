------------------------------ MODULE Ssd1306 ------------------------------
(***************************************************************************)
(* The driver of the OLED that keeps a frame buffer: drawing changes the   *)
(* buffer, and UpdateScreen sends all of it to the chip in one transfer.   *)
(* Its programs are the driver's demonstration, the start of the game, the *)
(* QR code on the screen, and any shape drawn on its own.  The bus may     *)
(* break off a transfer, MaxLost times; no caller looks at the result.     *)
(***************************************************************************)
EXTENDS Integers, FiniteSets, SequencesExt

CONSTANTS
  WIDTH, PAGES, BITS,  \* of the screen: 128 columns, 8 pages of 8 rows
  BYTE,                \* values of an uint8_t
  FirstChar, LastChar, \* the printable characters: 32 to 126
  Glyph,               \* what of a cell a character lights
  Wide, Narrow,        \* two fonts: width and height of a character
  Title, Subtitle,     \* texts of the programs
  Chinese1, Chinese2,  \* bitmaps of the demonstration, full and narrow
  QrBitmap,            \* its QR code, half the screen wide
  Code, CodeSize,      \* a QR code: its dark modules, its size
  Shape,               \* calls tried on their own
  MaxLost              \* bound: transfers broken off

\* What the driver takes the sizes to be.
DisplaySizes ==
  /\ WIDTH \in Nat \ {0} /\ PAGES \in Nat \ {0} /\ BITS \in Nat \ {0}
  /\ 2 * WIDTH <= BYTE /\ PAGES * BITS < BYTE

INSTANCE Ssd1306Chip

VARIABLES
  program, \* which program runs
  pc,      \* how many of its calls are done
  asked,   \* the last call
  buffer,  \* SSD1306_Buffer, as the set of lit pixels
  cursor,  \* CurrentX, CurrentY
  chip,
  good,    \* updates that got through, one after the other, 2 for more
  lost     \* transfers broken off

vars == <<program, pc, asked, buffer, cursor, chip, good, lost>>

White == TRUE
Black == FALSE
U8(n) == n % BYTE
Abs(n) == IF n < 0 THEN -n ELSE n

\* A pixel that is not on the screen is left out.
DrawPixels(buf, points, color) ==
  LET seen == {<<U8(p[1]), U8(p[2])>> : p \in points} \intersect Screen
  IN IF color THEN buf \union seen ELSE buf \ seen

Fill(color) == IF color THEN Screen ELSE {}

\* Bresenham's line: the end first, then from the start on.
LineFrom(x1, y1, x2, y2) ==
  LET deltaX == Abs(x2 - x1)
      deltaY == Abs(y2 - y1)
      signX == IF x1 < x2 THEN 1 ELSE -1
      signY == IF y1 < y2 THEN 1 ELSE -1
      From[x \in Int, y \in Int, error \in Int] ==
        LET aside == 2 * error > -deltaY
            along == 2 * error < deltaX
        IN IF x = x2 /\ y = y2 THEN {}
           ELSE {<<x, y>>} \union
                From[IF aside THEN x + signX ELSE x, IF along THEN y + signY ELSE y,
                     error - (IF aside THEN deltaY ELSE 0) + (IF along THEN deltaX ELSE 0)]
  IN From[x1, y1, deltaX - deltaY]
LinePoints(x1, y1, x2, y2) == {<<x2, y2>>} \union LineFrom(x1, y1, x2, y2)

DrawLine(buf, x1, y1, x2, y2, color) == DrawPixels(buf, LinePoints(x1, y1, x2, y2), color)

DrawPolyline(buf, vertex, color) ==
  FoldLeft(LAMBDA b, i : DrawLine(b, vertex[i][1], vertex[i][2], vertex[i + 1][1], vertex[i + 1][2], color),
           buf, [i \in 1 .. Len(vertex) - 1 |-> i])

RectanglePoints(x1, y1, x2, y2) ==
  LinePoints(x1, y1, x2, y1) \union LinePoints(x2, y1, x2, y2)
    \union LinePoints(x2, y2, x1, y2) \union LinePoints(x1, y2, x1, y1)

\* The circle, four pixels at a time, x coming up from -par_r.
CirclePoints(par_r) ==
  LET Round[x \in Int, y \in Int, err \in Int] ==
        LET up == err <= y
            y1 == IF up THEN y + 1 ELSE y
            err1 == IF up THEN err + 2 * y1 + 1 ELSE err
            e2 == IF up /\ -x = y1 /\ err <= x THEN 0 ELSE err
            x1 == IF e2 > x THEN x + 1 ELSE x
            err2 == IF e2 > x THEN err1 + 2 * x1 + 1 ELSE err1
        IN {<<-x, y>>, <<x, y>>, <<x, -y>>, <<-x, -y>>}
             \union (IF x1 <= 0 THEN Round[x1, y1, err2] ELSE {})
  IN Round[-par_r, 0, 2 - 2 * par_r]
DrawCircle(buf, par_x, par_y, par_r, color) ==
  IF par_x >= WIDTH \/ par_y >= HEIGHT THEN buf
  ELSE DrawPixels(buf, {<<par_x + p[1], par_y + p[2]>> : p \in CirclePoints(par_r)}, color)

\* A picture: its lit places go white, the others black.
Picture(buf, x, y, places, lit) ==
  LET At(points) == {<<x + p[1], y + p[2]>> : p \in points}
  IN DrawPixels(DrawPixels(buf, At(places \intersect lit), White), At(places \ lit), Black)

\* The places that bytes of BITS pixels each light, with rows of wide pixels.
LitBy(data, wide, places) ==
  {p \in places :
     LET idx == (p[2] * wide) \div BITS + p[1] \div BITS
     IN idx < Len(data) /\ (p[1] % BITS) \in data[idx + 1]}

DrawBitmap(buf, bitmap) ==
  LET rows == U8((Len(bitmap) * BITS) \div WIDTH)
      shown == IF rows > HEIGHT THEN HEIGHT ELSE rows
      places == (0 .. WIDTH - 1) \X (0 .. shown - 1)
  IN Picture(buf, 0, 0, places, LitBy(bitmap, WIDTH, places))

RegionOf(buf, x, y, w, h, data, wide) ==
  LET rows == U8((Len(data) * BITS) \div wide)
      places == (0 .. w - 1) \X (0 .. rows - 1)
  IN IF x + w > WIDTH \/ y + h > HEIGHT \/ w * h = 0 THEN buf
     ELSE Picture(buf, x, y, places, LitBy(data, wide, places))
DrawRegion(buf, x, y, w, h, data, stride) ==
  RegionOf(buf, x, y, w, h, data, IF stride = 0 THEN w ELSE stride)

\* The game's bitmaps: the place is an int8_t, so a picture may stand out of the screen on the
\* left and at the top as well.
Signed(n) == IF n >= BYTE \div 2 THEN n - BYTE ELSE n
PictureAt(buf, bitmap, width, height, xo, yo, wide) ==
  LET places == {p \in (0 .. width - 1) \X (0 .. height - 1) :
                   /\ Signed(xo) + p[1] \in 0 .. WIDTH
                   /\ Signed(yo) + p[2] \in 0 .. HEIGHT}
  IN Picture(buf, Signed(xo), Signed(yo), places, LitBy(bitmap, wide, places))
DrawBitmapAtPosition(buf, bitmap, width, height, xo, yo) ==
  PictureAt(buf, bitmap, width, height, xo, yo, width)

\* The text: s is what drawing a string changes, and whether the last character could be drawn.
Drawing == [buf : SUBSET Screen, x : Nat, y : Nat, ok : BOOLEAN]
Fits(s, font) == s.x + font.w <= WIDTH /\ s.y + font.h <= HEIGHT

DrawGlyph(s, ch, font) ==
  LET cell == (0 .. font.w - 1) \X (0 .. font.h - 1)
  IN [s EXCEPT !.buf = Picture(s.buf, s.x, s.y, cell, Glyph[ch]),
               !.x = s.x + font.w]

DrawChar(s, ch, font) ==
  IF ch = 10 THEN [s EXCEPT !.x = 0, !.y = s.y + font.h]
  ELSE IF ch = 13 THEN [s EXCEPT !.x = 0]
  ELSE IF ch \in FirstChar .. LastChar /\ Fits(s, font) THEN DrawGlyph(s, ch, font)
  ELSE [s EXCEPT !.ok = FALSE]

\* The game's driver knows no line ends.
GameDrawChar(s, ch, font) ==
  IF ch \in FirstChar .. LastChar /\ Fits(s, font) THEN DrawGlyph(s, ch, font)
  ELSE [s EXCEPT !.ok = FALSE]

DrawString(s, str, font) ==
  FoldLeft(LAMBDA t, ch : IF t.ok THEN DrawChar(t, ch, font) ELSE t, s, str)
GameDrawString(s, str) ==
  FoldLeft(LAMBDA t, ch : IF t.ok THEN GameDrawChar(t, ch, Wide) ELSE t, s, str)

\* Every printable character at its place, from the left to the right and down.
TestShowChars(s, font, w, h) ==
  LET Show[ch \in Nat, x \in Nat, y \in Nat, t \in Drawing] ==
        LET x1 == U8(x + w)
            next == IF x1 >= WIDTH THEN <<0, U8(y + h)>> ELSE <<x1, y>>
        IN IF ch > LastChar THEN t
           ELSE Show[ch + 1, next[1], next[2],
                     DrawChar([t EXCEPT !.x = x, !.y = y, !.ok = TRUE], ch, font)]
  IN Show[FirstChar, 0, 0, s]

\* A module of the code is zoom pixels wide and high; a dark one is black.
PrintQr(buf, x_start, y_start, dark, side, zoom) ==
  LET times == IF zoom = 0 THEN 1 ELSE zoom
      size == side * times
      places == (0 .. size - 1) \X (0 .. size - 1)
  IN Picture(buf, x_start, y_start, places,
             {p \in places : <<p[1] \div times, p[2] \div times>> \notin dark})

----------------------------------------------------------------------------
\* Mutant: the pages are not set again.
FrameCommandsColumns == <<33, 0, WIDTH - 1>>
\* One transfer: where the columns and pages begin and end, and the frame behind it.
FrameCommands == <<33, 0, WIDTH - 1, 34, 0, PAGES - 1>>
FrameSize == WIDTH * PAGES
FrameByte(buf, k) ==
  {r \in 0 .. BITS - 1 : <<k % WIDTH, (k \div WIDTH) * BITS + r>> \in buf}

\* The chip has taken the first n bytes of the transfer.
UpdateScreen(c, buf, n) ==
  LET data == n - Len(FrameCommands)
      ready == AcceptAll(c, SubSeq(FrameCommands, 1, IF data < 0 THEN n ELSE Len(FrameCommands)))
  IN StoreAll(ready, [k \in 1 .. data |-> FrameByte(buf, k - 1)])

\* Where a transfer breaks off: in the commands, in the frame, or not at all.
Whole == Len(FrameCommands) + FrameSize
Cuts == IF lost < MaxLost THEN 0 .. Whole ELSE {Whole}

\* The commands of ssd1306_Init, each in a transfer whose result is dropped.
InitCommands ==
  <<174, 32, 0, 176, 200, 0, 16, 64, 129, 255, 161, 166, 168, 63, 164, 211, 0, 213, 240,
    217, 17, 218, 18, 219, 48, 141, 20, 175>>
Drops == IF lost < MaxLost THEN 0 .. Len(InitCommands) ELSE {0}

\* All but the k-th of the commands reach the chip.
Commanded(c, k) ==
  AcceptAll(c, IF k = 0 THEN InitCommands ELSE RemoveAt(InitCommands, k))

\* What a call makes of the buffer and the cursor.
Perform(call, s) ==
  CASE call.op = "fill" -> [s EXCEPT !.buf = Fill(call.color)]
    [] call.op = "cursor" -> [s EXCEPT !.x = U8(call.x), !.y = U8(call.y)]
    [] call.op = "string" -> DrawString(s, call.str, call.font)
    [] call.op = "game" -> GameDrawString(s, call.str)
    [] call.op = "chars" -> TestShowChars(s, call.font, call.font.w, call.font.h)
    [] call.op = "line" -> [s EXCEPT !.buf = DrawLine(@, call.x1, call.y1, call.x2, call.y2, call.color)]
    [] call.op = "polyline" -> [s EXCEPT !.buf = DrawPolyline(@, call.vertex, call.color)]
    [] call.op = "rectangle" ->
         [s EXCEPT !.buf = DrawPixels(@, RectanglePoints(call.x1, call.y1, call.x2, call.y2), call.color)]
    [] call.op = "circle" -> [s EXCEPT !.buf = DrawCircle(@, call.x, call.y, call.r, call.color)]
    [] call.op = "bitmap" -> [s EXCEPT !.buf = DrawBitmap(@, call.data)]
    [] call.op = "region" ->
         [s EXCEPT !.buf = DrawRegion(@, call.x, call.y, call.w, call.h, call.data, call.stride)]
    [] call.op = "at" ->
         [s EXCEPT !.buf = DrawBitmapAtPosition(@, call.data, call.w, call.h, call.x, call.y)]
    [] call.op = "qr" -> [s EXCEPT !.buf = PrintQr(@, call.x, call.y, Code, CodeSize, call.zoom)]
    [] OTHER -> s

----------------------------------------------------------------------------
\* The programs, as the calls they make one after the other; "init" and "update" use the bus.
Only(op) == [op |-> op]
FillWith(color) == [op |-> "fill", color |-> color]
SetCursor(x, y) == [op |-> "cursor", x |-> x, y |-> y]
String(str) == [op |-> "string", str |-> str, font |-> Wide]
Region(x, y, w, h, data, stride) ==
  [op |-> "region", x |-> x, y |-> y, w |-> w, h |-> h, data |-> data, stride |-> stride]
Qr(x, zoom) == [op |-> "qr", x |-> x, y |-> 0, zoom |-> zoom]

TestDrawChinese1 ==
  <<FillWith(Black)>>
    \o [i \in 1 .. Len(Chinese1) |-> Region((i - 1) * BITS, 0, BITS, BITS, Chinese1[i], BITS)]
    \o <<SetCursor(WIDTH \div 2, 0),
         Region(WIDTH \div 2, 0, WIDTH \div 2, HEIGHT, QrBitmap, WIDTH \div 2), Only("update")>>

\* The narrow ones have a byte a row all the same.
TestDrawChinese2 ==
  <<FillWith(Black)>>
    \o [i \in 1 .. Len(Chinese2) |->
          Region((i - 1) * (BITS - 1), 0, BITS - 1, BITS - 1, Chinese2[i], BITS)]
    \o <<SetCursor(WIDTH \div 2, 0),
         Region(WIDTH \div 2, 0, WIDTH \div 2, HEIGHT, QrBitmap, WIDTH \div 2),
         SetCursor(0, HEIGHT - 2 * Wide.h), String(Subtitle),
         SetCursor(0, HEIGHT - Wide.h), String(Subtitle), Only("update")>>

ShowChars(font) == <<FillWith(Black), [op |-> "chars", font |-> font], Only("update")>>

Ssd1306TestTask ==
  [first |-> <<Only("init"), FillWith(Black), Only("update"), SetCursor(0, 0),
               FillWith(Black), SetCursor(0, 0), String(Title), Only("update")>>,
   loop |-> TestDrawChinese1 \o TestDrawChinese2 \o ShowChars(Narrow) \o ShowChars(Wide)]

\* The last code of a round is of other data; one stands for both.
QrTask ==
  [first |-> <<Only("init"), FillWith(Black), Only("update"), SetCursor(0, 0), FillWith(Black)>>,
   loop |-> <<Qr(0, 1), Only("update"), FillWith(Black), Qr(0, 2), Only("update"),
              FillWith(Black), FillWith(White), Qr(WIDTH - 2 * CodeSize, 2), Only("update"),
              FillWith(Black), Qr(0, 2), Only("update"), FillWith(Black)>>]

\* The start of the game; after it the screen rests until the game draws.
OledInit ==
  [first |-> <<Only("init"), FillWith(Black), Only("update"), SetCursor(0, 0), FillWith(Black),
               SetCursor(0, Wide.h), [op |-> "game", str |-> Title],
               SetCursor(0, 3 * Wide.h), [op |-> "game", str |-> Subtitle], Only("update")>>,
   loop |-> <<>>]

Calls(p) ==
  CASE p = "ssd1306" -> Ssd1306TestTask [] p = "qr" -> QrTask [] p = "game" -> OledInit
    [] OTHER -> [first |-> <<>>, loop |-> <<>>]

\* The call at place n, the loop coming round.
CallAt(p, n) ==
  LET c == Calls(p) IN
  IF n < Len(c.first) THEN c.first[n + 1] ELSE c.loop[n - Len(c.first) + 1]
After(p, n) ==
  LET c == Calls(p) IN
  IF n + 1 = Len(c.first) + Len(c.loop) /\ c.loop # <<>> THEN Len(c.first) ELSE n + 1

\* Nothing is known of the chip's memory before the first update.
Init ==
  /\ program \in {"ssd1306", "qr", "game", "shape"}
  /\ pc = 0 /\ asked = Only("none") /\ buffer = {} /\ cursor = <<0, 0>>
  /\ chip \in {Reset({}), Reset(Screen)} /\ good = 0 /\ lost = 0

\* A call that draws.
Draw(call) ==
  LET s == Perform(call, [buf |-> buffer, x |-> cursor[1], y |-> cursor[2], ok |-> TRUE])
  IN /\ buffer' = s.buf /\ cursor' = <<s.x, s.y>>
     /\ UNCHANGED <<chip, good, lost>>

ssd1306_Init ==
  \E k \in Drops :
    /\ chip' = Commanded(chip, k) /\ lost' = IF k = 0 THEN lost ELSE lost + 1
    /\ UNCHANGED <<buffer, cursor, good>>

ssd1306_UpdateScreen ==
  \E n \in Cuts :
    /\ chip' = UpdateScreen(chip, buffer, n)
    /\ good' = IF n < Whole THEN 0 ELSE IF good = 2 THEN 2 ELSE good + 1
    /\ lost' = IF n < Whole THEN lost + 1 ELSE lost
    /\ UNCHANGED <<buffer, cursor>>

Task ==
  /\ pc < Len(Calls(program).first) + Len(Calls(program).loop)
  /\ asked' = CallAt(program, pc) /\ pc' = After(program, pc)
  /\ IF asked'.op = "init" THEN ssd1306_Init
     ELSE IF asked'.op = "update" THEN ssd1306_UpdateScreen ELSE Draw(asked')
  /\ UNCHANGED program

\* One shape, on a screen that is black or white.
Try ==
  /\ program = "shape" /\ pc = 0 /\ pc' = 1
  /\ \E call \in Shape, under \in {{}, Screen} :
       LET at == IF call.op \in {"string", "game"} THEN <<call.x, call.y>> ELSE <<0, 0>>
           s == Perform(call, [buf |-> under, x |-> at[1], y |-> at[2], ok |-> TRUE])
       IN /\ asked' = [call |-> call, op |-> call.op, under |-> under]
          /\ buffer' = s.buf /\ cursor' = <<s.x, s.y>>
  /\ UNCHANGED <<program, chip, good, lost>>

Next == Task \/ Try
Spec == Init /\ [][Next]_vars

----------------------------------------------------------------------------
\* Types: the buffer and the glass are pixels of the screen.
TypeOK ==
  /\ program \in {"ssd1306", "qr", "game", "shape"} /\ pc \in Nat
  /\ buffer \subseteq Screen /\ chip.ram \subseteq Screen
  /\ cursor \in (0 .. BYTE - 1) \X (0 .. BYTE - 1)
  /\ chip.col \in 0 .. WIDTH - 1 /\ chip.page \in 0 .. PAGES - 1
  /\ good \in 0 .. 2 /\ lost \in 0 .. MaxLost

Updated == asked'.op = "update" /\ lost' = lost /\ chip.mode = "horizontal"

\* After a transfer that broke off, two that get through put the buffer on the glass, wherever
\* it broke off: UpdateScreen sets the columns and the pages each time.  One is enough when it
\* broke off between commands or in the frame.
Heals == [][Updated /\ (good > 0 \/ chip.pending = <<>>) => chip'.ram = buffer']_vars

\* Stated but not so: one update is always enough (a broken transfer may leave a command
\* that takes the first byte of the next for its argument).
HealsAtOnce == [][Updated => chip'.ram = buffer']_vars

\* Stated but not so: the screen is on once it has been updated (the command that turns it on
\* may be lost in ssd1306_Init, and so may the addressing mode).
ScreenOn == asked.op = "update" /\ good > 0 => Visible(chip) /\ chip.mode = "horizontal"

\* What the last shape, drawn in one colour, has changed.
Tried(op) == program = "shape" /\ pc = 1 /\ asked.op = op
call == asked.call
Drawn(points) == IF call.color THEN asked.under \union points ELSE asked.under \ points

\* A line runs from the one end to the other, a pixel a step of the longer way and none
\* further than half a pixel from the straight line; what is off the screen is left out.
LineJoins ==
  Tried("line") =>
    LET dx == Abs(call.x2 - call.x1)
        dy == Abs(call.y2 - call.y1)
        long == IF dx > dy THEN dx ELSE dy
        points == LinePoints(call.x1, call.y1, call.x2, call.y2)
    IN /\ {<<call.x1, call.y1>>, <<call.x2, call.y2>>} \subseteq points
       /\ Cardinality(points) = long + 1
       /\ \A p \in points :
            2 * Abs((p[1] - call.x1) * (call.y2 - call.y1) - (p[2] - call.y1) * (call.x2 - call.x1)) <= long
       /\ buffer = Drawn(points \intersect Screen)

\* The four lines of a rectangle are its border, all of it and nothing else.
RectangleClosed ==
  Tried("rectangle") =>
    LET left == IF call.x1 < call.x2 THEN call.x1 ELSE call.x2
        right == IF call.x1 < call.x2 THEN call.x2 ELSE call.x1
        top == IF call.y1 < call.y2 THEN call.y1 ELSE call.y2
        bottom == IF call.y1 < call.y2 THEN call.y2 ELSE call.y1
    IN buffer = Drawn({p \in Screen :
         /\ p[1] \in left .. right /\ p[2] \in top .. bottom
         /\ p[1] \in {left, right} \/ p[2] \in {top, bottom}})

\* A circle whose radius is at most BYTE - WIDTH is drawn about its middle: all four sides, each
\* pixel within one of the radius, and nothing that comes round from the other side.
Circle(r) ==
  (program = "shape" /\ pc = 1 /\ asked.op = "circle" /\ call.r <= r) =>
    LET changed == {p \in Screen : (p \in buffer) # (p \in asked.under)}
        middle == call.x < WIDTH /\ call.y < HEIGHT
        far(p) == (p[1] - call.x) * (p[1] - call.x) + (p[2] - call.y) * (p[2] - call.y)
    IN /\ \A p \in changed : /\ middle /\ far(p) <= (call.r + 1) * (call.r + 1)
                             /\ (call.r > 0 => far(p) >= (call.r - 1) * (call.r - 1))
       /\ (middle /\ asked.under = IF call.color THEN {} ELSE Screen) =>
            Screen \intersect {<<call.x + call.r, call.y>>, <<call.x - call.r, call.y>>,
              <<call.x, call.y + call.r>>, <<call.x, call.y - call.r>>} \subseteq changed
CircleRound == Circle(BYTE - WIDTH)
\* Stated but not so: with a longer radius as well (the sum of an uint8_t comes round).
CircleRoundAlways == Circle(BYTE)

\* The picture at a place: inside it the bits, outside nothing changes.
Shows(x, y, w, h, Lit(_, _)) ==
  buffer = {p \in Screen :
    IF p[1] \in x .. x + w - 1 /\ p[2] \in y .. y + h - 1
    THEN Lit(p[1] - x, p[2] - y) ELSE p \in asked.under}
RowBit(data, bytes, x, y) ==
  LET i == y * bytes + x \div BITS + 1 IN i <= Len(data) /\ x % BITS \in data[i]

\* A region of the screen shows its data and nothing beside it changes, when a row of the
\* data is whole bytes and the data has no more rows than the region.
RegionShown ==
  Tried("region") /\ call.x + call.w <= WIDTH /\ call.y + call.h <= HEIGHT =>
    LET wide == IF call.stride = 0 THEN call.w ELSE call.stride
    IN (wide % BITS = 0 /\ Len(call.data) * BITS = wide * call.h) =>
         Shows(call.x, call.y, call.w, call.h, LAMBDA x, y : RowBit(call.data, wide \div BITS, x, y))
\* Stated but not so: nothing outside the region changes (rows are counted from the data only).
RegionKept ==
  Tried("region") =>
    \A p \in Screen \ ((call.x .. call.x + call.w - 1) \X (call.y .. call.y + call.h - 1)) :
      p \in buffer <=> p \in asked.under

\* A bitmap of the game is shown where it is, also when it stands out of the screen.
BitmapAtShown ==
  Tried("at") /\ call.w % BITS = 0 =>
    Shows(Signed(call.x), Signed(call.y), call.w, call.h,
          LAMBDA x, y : RowBit(call.data, call.w \div BITS, x, y))

\* A text of the game: as many characters as there is room for, up to the first that cannot be
\* printed, whole and side by side, and the cursor behind the last of them.
TextWhole ==
  Tried("game") =>
    LET room == IF call.y + Wide.h <= HEIGHT /\ call.x <= WIDTH
                THEN (WIDTH - call.x) \div Wide.w ELSE 0
        odd == {i \in 1 .. Len(call.str) : call.str[i] \notin FirstChar .. LastChar}
        n == CHOOSE k \in 0 .. Len(call.str) :
               /\ k <= room /\ \A i \in odd : k < i
               /\ k = room \/ k = Len(call.str) \/ k + 1 \in odd
    IN /\ cursor = <<call.x + n * Wide.w, call.y>>
       /\ Shows(call.x, call.y, n * Wide.w, Wide.h,
                LAMBDA x, y : <<x % Wide.w, y>> \in Glyph[call.str[(x \div Wide.w) + 1]])

\* Each module of a QR code is a square of zoom pixels, dark ones black, as long as its last
\* column is one of an uint8_t.
QrShown ==
  Tried("qr") =>
    LET times == IF call.zoom = 0 THEN 1 ELSE call.zoom
        size == CodeSize * times
    IN call.x + size <= BYTE =>
         Shows(call.x, call.y, size, size, LAMBDA x, y : <<x \div times, y \div times>> \notin Code)

\* Stated but not so: all printable characters are shown (the last place of a row, into which
\* no character fits, takes one that DrawChar refuses).
AllCharsShown ==
  asked.op = "chars" =>
    \A ch \in FirstChar .. LastChar :
      \E p \in (0 .. WIDTH - asked.font.w) \X (0 .. HEIGHT - asked.font.h) :
        \A q \in (0 .. asked.font.w - 1) \X (0 .. asked.font.h - 1) :
          <<p[1] + q[1], p[2] + q[2]>> \in buffer <=> q \in Glyph[ch]
=============================================================================
