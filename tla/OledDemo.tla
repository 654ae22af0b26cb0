------------------------------ MODULE OledDemo ------------------------------
(***************************************************************************)
(* The OLED without a frame buffer: each byte goes to the chip in a        *)
(* transfer of its own, and only OledInit looks at the result.  Characters *)
(* are put at a column of a page.  Two programs: the text and the voltage, *)
(* and the same with Chinese characters.  A step is a call of the program, *)
(* in which one transfer may be lost, MaxLost times.                       *)
(***************************************************************************)
EXTENDS Naturals, SequencesExt

CONSTANTS
  WIDTH, PAGES, BITS,    \* of the screen: 128 columns, 8 pages of 8 rows
  F8X16, F6x8,           \* the fonts: columns of a character, 16 and 6 of them
  Fonts1, Fonts2,        \* the Chinese characters, 32 columns each
  Title, Row, Digits,    \* texts of the programs
  Label, Voltage,        \* what stands before the voltage, and it, by reading
  DropStep,              \* bound: of the transfers of a call, which may be lost
  MaxLost                \* bound: transfers lost

\* What the programs take the sizes to be.
OledSizes ==
  /\ WIDTH \in Nat \ {0} /\ PAGES \in Nat \ {0} /\ BITS \in Nat \ {0} /\ DropStep \in Nat \ {0}
  /\ WIDTH % 16 = 0

INSTANCE Ssd1306Chip

VARIABLES
  program, pc,
  asked,   \* the last call
  heard,   \* the chip has got all of it
  chip, lost

vars == <<program, pc, asked, heard, chip, lost>>

\* What a call sends: pieces, each of commands (WriteCmd) and of columns of pixels behind them
\* (WriteData), every byte in a transfer of its own.
Piece(cmds, data) == [cmds |-> cmds, data |-> data]

OledSetPosition(x, y) == <<176 + y, x % 16, 16 + ((x \div 16) % 16)>>

OledFillScreen(fillData) ==
  [m \in 1 .. PAGES |-> Piece(<<176 + m - 1, 0, 16>>, [n \in 1 .. WIDTH |-> fillData])]

\* Upper and lower half, each in its page.
Halves(x, y, data, half) ==
  <<Piece(OledSetPosition(x, y), SubSeq(data, 1, half)),
    Piece(OledSetPosition(x, y + 1), SubSeq(data, half + 1, 2 * half))>>

OledShowChar(x, y, ch, font) ==
  IF font = "8x16" THEN Halves(x, y, F8X16[ch], 8)
  ELSE <<Piece(OledSetPosition(x, y), F6x8[ch])>>

\* Eight columns a character in either font; a row that is full goes on two pages below.
OledShowString(x, y, str, font) ==
  LET Show(s, ch) ==
        LET full == s.x + 8 > WIDTH - 8
        IN [x |-> IF full THEN 0 ELSE s.x + 8, y |-> IF full THEN s.y + 2 ELSE s.y,
            out |-> s.out \o OledShowChar(s.x, s.y, ch, font)]
  IN FoldLeft(Show, [x |-> x, y |-> y, out |-> <<>>], str).out

OledShowChinese1(x, y, idx) == Halves(x, y, Fonts1[idx], 16)
\* The other font is one array: character idx begins at 32 * idx.
OledShowChinese2(x, y, idx) == Halves(x, y, SubSeq(Fonts2, 32 * (idx - 1) + 1, 32 * idx), 16)

InitCmds ==
  <<174, 0, 16, 64, 176, 129, 255, 161, 166, 168, 63, 200, 211, 0, 213, 128, 216, 5, 217, 241,
    218, 18, 219, 48, 141, 20, 175>>
\* OledInit ends at the first byte that fails; its caller goes on all the same.
OledInit == <<Piece(InitCmds, <<>>)>>

----------------------------------------------------------------------------
Fill == [op |-> "fill"]
String(x, y, str, font) == [op |-> "string", x |-> x, y |-> y, str |-> str, font |-> font]
Chinese(op, x, y, idx) == [op |-> op, x |-> x, y |-> y, idx |-> idx]

Pieces(call) ==
  CASE call.op = "init" -> OledInit
    [] call.op = "fill" -> OledFillScreen({})
    [] call.op = "string" -> OledShowString(call.x, call.y, call.str, call.font)
    [] call.op = "chinese1" -> OledShowChinese1(call.x, call.y, call.idx)
    [] call.op = "chinese2" -> OledShowChinese2(call.x, call.y, call.idx)

\* In the middle of the screen.
Middle(n, step, last) == (WIDTH - (step * (n - 1) + last)) \div 2

OledTask ==
  LET screen == <<Fill>> \o [y \in 1 .. PAGES |-> String(0, y - 1, Row, "6x8")]
  IN <<[op |-> "init"], Fill, String(Middle(Len(Title), 8, 8), 3, Title, "8x16")>>
       \o screen \o screen \o screen \o <<Fill>>

\* The characters of both fonts side by side in the middle, the title, a countdown, the label.
OledTaskChinese ==
  LET n == Len(Fonts1)
      at == Middle(2 * n, 18, 16)
  IN <<[op |-> "init"], Fill>>
       \o [i \in 1 .. n |-> Chinese("chinese1", at + 18 * (i - 1), 3, i)]
       \o [i \in 1 .. n |-> Chinese("chinese2", at + 18 * (n + i - 1), 3, i)]
       \o <<String(Middle(Len(Title), 8, 8), 5, Title, "8x16")>>
       \o [i \in 1 .. Len(Digits) |-> String(0, 0, <<Digits[i]>>, "6x8")]
       \o <<Fill>> \o [i \in 1 .. n |-> Chinese("chinese2", 18 * (i - 1), 0, i)]

Calls(p) == IF p = "oled" THEN OledTask ELSE OledTaskChinese

\* The loop: the voltage as it is read, 0 when the reading fails.
Reading(p, r) ==
  IF p = "oled" THEN String(0, 1, Label \o Voltage[r], "6x8")
  ELSE String(18 * Len(Fonts1), 0, Voltage[r], "8x16")

Init ==
  /\ program \in {"oled", "chinese"} /\ pc = 1
  /\ asked = [op |-> "none"] /\ heard = TRUE /\ chip \in {Reset({}), Reset(Screen)} /\ lost = 0

\* The call when the j-th transfer of its i-th piece is lost.
Lose(call, i, j) ==
  LET piece == Pieces(call)[i]
      n == Len(piece.cmds)
  IN [Pieces(call) EXCEPT ![i] =
        IF call.op = "init" THEN Piece(SubSeq(InitCmds, 1, j - 1), <<>>)
        ELSE IF j <= n THEN Piece(RemoveAt(piece.cmds, j), piece.data)
        ELSE Piece(piece.cmds, RemoveAt(piece.data, j - n))]

Take(c, piece) == StoreInPage(AcceptAll(c, piece.cmds), piece.data)
TakeAll(c, pieces) ==
  LET From[i \in Nat, d \in Chip] ==
        IF i > Len(pieces) THEN d ELSE From[i + 1, Take(d, pieces[i])]
  IN From[1, c]

\* What is sent of a call, and whether it all gets through.
Sent(call) ==
  {[pieces |-> Pieces(call), all |-> TRUE]} \union
    IF lost = MaxLost THEN {}
    ELSE UNION {{[pieces |-> Lose(call, i, j), all |-> FALSE] :
                   j \in {k \in 1 .. Len(Pieces(call)[i].cmds) + Len(Pieces(call)[i].data) :
                            k <= 4 \/ k % DropStep = 0}} : i \in 1 .. Len(Pieces(call))}

Task ==
  /\ \/ pc <= Len(Calls(program)) /\ asked' = Calls(program)[pc] /\ pc' = pc + 1
     \/ pc > Len(Calls(program)) /\ pc' = pc
        /\ \E r \in DOMAIN Voltage : asked' = Reading(program, r)
  /\ \E sent \in Sent(asked') :
       /\ chip' = TakeAll(chip, sent.pieces)
       /\ heard' = sent.all /\ lost' = IF sent.all THEN lost ELSE lost + 1
  /\ UNCHANGED program

Next == Task
Spec == Init /\ [][Next]_vars

----------------------------------------------------------------------------
\* Types: the chip's address is on the screen, and one byte at most waits for its argument.
TypeOK ==
  /\ program \in {"oled", "chinese"} /\ pc \in 1 .. Len(Calls(program)) + 1
  /\ heard \in BOOLEAN /\ lost \in 0 .. MaxLost
  /\ chip.ram \subseteq Screen /\ chip.col \in 0 .. WIDTH - 1 /\ chip.page \in 0 .. PAGES - 1
  /\ Len(chip.pending) <= 1

\* Column i of a page shows the rows.
ColumnShown(x, page, rows) ==
  \A r \in 0 .. BITS - 1 : <<x, page * BITS + r>> \in chip.ram <=> r \in rows
CharShown(x, y, ch, font) ==
  IF font = "8x16"
  THEN \A i \in 0 .. 7 : /\ ColumnShown(x + i, y, F8X16[ch][i + 1])
                        /\ ColumnShown(x + i, y + 1, F8X16[ch][i + 9])
  ELSE \A i \in 0 .. 5 : ColumnShown(x + i, y, F6x8[ch][i + 1])
ChineseShown(x, y, font) ==
  \A i \in 0 .. 15 : ColumnShown(x + i, y, font[i + 1]) /\ ColumnShown(x + i, y + 1, font[i + 17])

CallShown(call) ==
  CASE call.op = "fill" -> chip.ram = {}
    [] call.op = "string" ->
         \A j \in 1 .. Len(call.str) : CharShown(call.x + 8 * (j - 1), call.y, call.str[j], call.font)
    [] call.op = "chinese1" -> ChineseShown(call.x, call.y, Fonts1[call.idx])
    [] call.op = "chinese2" ->
         ChineseShown(call.x, call.y, SubSeq(Fonts2, 32 * (call.idx - 1) + 1, 32 * call.idx))
    [] OTHER -> TRUE

\* A call of which nothing is lost shows what it should, whatever was lost before it, but for
\* the first after OledInit, whose first byte may be taken for an argument.
ShownWhole == heard /\ (asked.op = "fill" => lost = 0 \/ pc > 3) => CallShown(asked)

\* In the loop, when nothing was lost, the screen shows the label and the voltage, and nothing
\* of a text that stood there before.
OnlyText ==
  (pc > Len(Calls(program)) /\ asked.op = "string" /\ lost = 0) =>
    LET right == asked.x + 8 * Len(asked.str)
        high == IF asked.font = "8x16" THEN 2 ELSE 1
        label == IF program = "chinese" THEN (0 .. asked.x - 1) \X (0 .. 2 * BITS - 1) ELSE {}
    IN /\ Visible(chip) /\ CallShown(asked)
       /\ chip.ram \subseteq label \union
            (asked.x .. right - 1) \X (asked.y * BITS .. (asked.y + high) * BITS - 1)

\* Stated but not so: also when a byte was lost before (what it has put elsewhere stays).
OnlyTextAlways ==
  (pc > Len(Calls(program)) /\ asked.op = "string" /\ heard) =>
    LET right == asked.x + 8 * Len(asked.str)
        high == IF asked.font = "8x16" THEN 2 ELSE 1
        label == IF program = "chinese" THEN (0 .. asked.x - 1) \X (0 .. 2 * BITS - 1) ELSE {}
    IN chip.ram \subseteq label \union
         (asked.x .. right - 1) \X (asked.y * BITS .. (asked.y + high) * BITS - 1)

\* Stated but not so: the screen is on in the loop (OledTask drops the result of OledInit).
OnInLoop == pc > Len(Calls(program)) => Visible(chip)
=============================================================================
