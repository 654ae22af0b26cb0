---------------------------- MODULE Ssd1306Chip ----------------------------
(***************************************************************************)
(* The SSD1306 chip of the displays, as the drivers use it: commands of a  *)
(* byte or more, each byte in a transfer of its own or several in one, and *)
(* data bytes, each a column of BITS pixels that goes where the address    *)
(* points and moves it on.  The chip is external.                          *)
(***************************************************************************)
EXTENDS Naturals, Sequences

CONSTANTS
  WIDTH,    \* columns of the screen
  PAGES,    \* rows of bytes
  BITS      \* rows of pixels in a page, eight on the chip

HEIGHT == PAGES * BITS
Screen == (0 .. WIDTH - 1) \X (0 .. HEIGHT - 1)

\* The chip: what is on the glass is ram, the set of lit pixels, while it is on and pumped.
\* What is in ram at power-on is left open.
Reset(ram) ==
  [mode |-> "page", on |-> FALSE, pump |-> FALSE, col |-> 0, page |-> 0,
   cols |-> <<0, WIDTH - 1>>, pages |-> <<0, PAGES - 1>>, pending |-> <<>>, ram |-> ram]

\* The states of a chip.
Chip ==
  [mode : {"page", "horizontal", "vertical"}, on : BOOLEAN, pump : BOOLEAN,
   col : 0 .. WIDTH - 1, page : 0 .. PAGES - 1,
   cols : (0 .. WIDTH - 1) \X (0 .. WIDTH - 1), pages : (0 .. PAGES - 1) \X (0 .. PAGES - 1),
   pending : Seq(Nat), ram : SUBSET Screen]

Visible(chip) == chip.on /\ chip.pump

\* How many bytes a command takes behind its first.
Arguments(b) ==
  IF b \in {33, 34} THEN 2
  ELSE IF b \in {32, 129, 141, 168, 211, 213, 216, 217, 218, 219} THEN 1 ELSE 0

Execute(chip, c) ==
  LET b == c[1] IN
  CASE b = 32 -> [chip EXCEPT !.mode = IF c[2] % 4 = 0 THEN "horizontal"
                                       ELSE IF c[2] % 4 = 1 THEN "vertical" ELSE "page"]
    [] b = 33 -> [chip EXCEPT !.cols = <<c[2] % WIDTH, c[3] % WIDTH>>, !.col = c[2] % WIDTH]
    [] b = 34 -> [chip EXCEPT !.pages = <<c[2] % PAGES, c[3] % PAGES>>, !.page = c[2] % PAGES]
    [] b = 141 -> [chip EXCEPT !.pump = (c[2] \div 4) % 2 = 1]
    [] b = 174 -> [chip EXCEPT !.on = FALSE]
    [] b = 175 -> [chip EXCEPT !.on = TRUE]
    [] b \in 176 .. 175 + PAGES /\ chip.mode = "page" -> [chip EXCEPT !.page = b - 176]
    [] b \in 0 .. 15 /\ chip.mode = "page" ->
         [chip EXCEPT !.col = (16 * (chip.col \div 16) + b) % WIDTH]
    [] b \in 16 .. 31 /\ chip.mode = "page" ->
         [chip EXCEPT !.col = (16 * (b - 16) + (chip.col % 16)) % WIDTH]
    [] OTHER -> chip

\* A command byte comes: it may be the argument that an earlier one waits for.
Accept(chip, b) ==
  LET c == Append(chip.pending, b) IN
  IF Len(c) <= Arguments(c[1]) THEN [chip EXCEPT !.pending = c]
  ELSE Execute([chip EXCEPT !.pending = <<>>], c)

\* Command bytes one after the other, from the first on: none of them changes the ram.
AcceptAll(chip, bytes) ==
  LET From[i \in Nat, c \in Chip] ==
        IF i > Len(bytes) THEN c ELSE From[i + 1, Accept(c, bytes[i])]
  IN [From[1, [chip EXCEPT !.ram = {}]] EXCEPT !.ram = chip.ram]

\* The address after a byte: in a page it comes round to the first column.
Advance(chip) ==
  IF chip.mode # "horizontal" THEN [chip EXCEPT !.col = (chip.col + 1) % WIDTH]
  ELSE IF chip.col # chip.cols[2] THEN [chip EXCEPT !.col = (chip.col + 1) % WIDTH]
  ELSE [chip EXCEPT !.col = chip.cols[1],
                    !.page = IF chip.page = chip.pages[2] THEN chip.pages[1]
                             ELSE (chip.page + 1) % PAGES]

\* A data byte: the rows it lights in the column of the address.
Store(chip, rows) ==
  LET cell == {<<chip.col, chip.page * BITS + r>> : r \in 0 .. BITS - 1}
      lit == {<<chip.col, chip.page * BITS + r>> : r \in rows}
  IN Advance([chip EXCEPT !.ram = (@ \ cell) \union lit])

\* Data bytes one after the other, from the first on.
StoreAll(chip, data) ==
  LET From[i \in Nat, c \in Chip] ==
        IF i > Len(data) THEN c ELSE From[i + 1, Store(c, data[i])]
  IN From[1, chip]

\* The same in page mode, no more bytes than a page has columns.
StoreInPage(chip, data) ==
  LET At(i) == (chip.col + i - 1) % WIDTH
      cells == {<<At(i), chip.page * BITS + r>> : i \in 1 .. Len(data), r \in 0 .. BITS - 1}
      lit == UNION {{<<At(i), chip.page * BITS + r>> : r \in data[i]} : i \in 1 .. Len(data)}
  IN [chip EXCEPT !.ram = (@ \ cells) \union lit, !.col = (@ + Len(data)) % WIDTH]
=============================================================================
