------------------------------- MODULE QrCode -------------------------------
(***************************************************************************)
(* The functions of the QR Code generator (qrcode_gen/src/qrcodegen.c).    *)
(* Bits are sequences of 0 and 1.  A byte, like any word that is XORed, is *)
(* the set of the positions of its ones.  A symbol is the set of its black *)
(* modules <<x, y>>.  The levels 0 to 3 are LOW, MEDIUM, QUARTILE, HIGH.   *)
(***************************************************************************)
EXTENDS Integers, Sequences, FiniteSets, SequencesExt, Functions, Folds

\* The elements of s combined from the left; by halves, for the long sequences here, and
\* with the first half as the one element of a set, so that TLC has its value at once.
Reduce(op(_, _), base, s) ==
  LET RECURSIVE over(_, _, _)
      over(a, from, to) ==
        LET mid == (from + to) \div 2
        IN  IF from > to THEN a ELSE IF from = to THEN op(a, s[from])
            ELSE CHOOSE r \in {over(half, mid + 1, to) : half \in {over(a, from, mid)}} : TRUE
  IN  over(base, 1, Len(s))

\* The sequences of s one behind the other.
Joined(s) == Reduce(LAMBDA a, b : a \o b, <<>>, s)

\* s, of which TLC then evaluates each element once.
Strict(s) == SubSeq(s, 1, Len(s))

INT16_MAX == 32767
SIZE_MAX == -2          \* what calcSegmentBufferSize answers for too much

Size(version) == 4 * version + 17
BUFFER_LEN(version) == (Size(version) * Size(version) + 7) \div 8 + 1

Row(s) == [v \in 1 .. 40 |-> s[v]]

\* By level and version.
ECC_CODEWORDS_PER_BLOCK ==
  <<Row(<<7, 10, 15, 20, 26, 18, 20, 24, 30, 18, 20, 24, 26, 30, 22, 24, 28, 30, 28, 28,
          28, 28, 30, 30, 26, 28, 30, 30, 30, 30, 30, 30, 30, 30, 30, 30, 30, 30, 30, 30>>),
    Row(<<10, 16, 26, 18, 24, 16, 18, 22, 22, 26, 30, 22, 22, 24, 24, 28, 28, 26, 26, 26,
          26, 28, 28, 28, 28, 28, 28, 28, 28, 28, 28, 28, 28, 28, 28, 28, 28, 28, 28, 28>>),
    Row(<<13, 22, 18, 26, 18, 24, 18, 22, 20, 24, 28, 26, 24, 20, 30, 24, 28, 28, 26, 30,
          28, 30, 30, 30, 30, 28, 30, 30, 30, 30, 30, 30, 30, 30, 30, 30, 30, 30, 30, 30>>),
    Row(<<17, 28, 22, 16, 22, 28, 26, 26, 24, 28, 24, 28, 22, 24, 24, 30, 28, 28, 26, 28,
          30, 24, 30, 30, 30, 30, 30, 30, 30, 30, 30, 30, 30, 30, 30, 30, 30, 30, 30, 30>>)>>

NUM_ERROR_CORRECTION_BLOCKS ==
  <<Row(<<1, 1, 1, 1, 1, 2, 2, 2, 2, 4, 4, 4, 4, 4, 6, 6, 6, 6, 7, 8,
          8, 9, 9, 10, 12, 12, 12, 13, 14, 15, 16, 17, 18, 19, 19, 20, 21, 22, 24, 25>>),
    Row(<<1, 1, 1, 2, 2, 4, 4, 4, 5, 5, 5, 8, 9, 9, 10, 10, 11, 13, 14, 16,
          17, 17, 18, 20, 21, 23, 25, 26, 28, 29, 31, 33, 35, 37, 38, 40, 43, 45, 47, 49>>),
    Row(<<1, 1, 2, 2, 4, 4, 6, 6, 8, 8, 8, 10, 12, 16, 12, 17, 16, 18, 21, 20,
          23, 23, 25, 27, 29, 34, 34, 35, 38, 40, 43, 45, 48, 51, 53, 56, 59, 62, 65, 68>>),
    Row(<<1, 1, 2, 4, 4, 4, 5, 6, 8, 8, 11, 11, 16, 16, 18, 16, 19, 21, 25, 25,
          25, 34, 30, 32, 35, 37, 40, 42, 45, 48, 51, 54, 57, 60, 63, 66, 70, 74, 77, 81>>)>>

(***************************************************************************)
(* Bits and segments.                                                      *)
(***************************************************************************)

\* appendBitsToBuffer: the n low bits of val, the highest first.
Bits(val, n) == [i \in 1 .. n |-> (val \div 2^(n - i)) % 2]

Byte(bits) == {8 - i : i \in {k \in 1 .. 8 : bits[k] = 1}}
BitsOf(byte) == [i \in 1 .. 8 |-> IF 8 - i \in byte THEN 1 ELSE 0]
Codewords(bits) == [i \in 1 .. Len(bits) \div 8 |-> Byte(SubSeq(bits, 8 * i - 7, 8 * i))]

Digits == [i \in 1 .. 10 |-> 47 + i]
ALPHANUMERIC_CHARSET ==
  Digits \o [i \in 1 .. 26 |-> 64 + i] \o <<32, 36, 37, 42, 43, 45, 46, 47, 58>>

isNumeric(text) == ToSet(text) \subseteq ToSet(Digits)
isAlphanumeric(text) == ToSet(text) \subseteq ToSet(ALPHANUMERIC_CHARSET)

\* -1: too long.
calcSegmentBitLength(mode, numChars) ==
  LET length == CASE mode = "NUMERIC" -> (numChars * 10 + 2) \div 3
                  [] mode = "ALPHANUMERIC" -> (numChars * 11 + 1) \div 2
                  [] mode = "BYTE" -> numChars * 8
                  [] mode = "KANJI" -> numChars * 13
                  [] mode = "ECI" -> 24
  IN  IF numChars > INT16_MAX \/ length > INT16_MAX THEN -1 ELSE length

calcSegmentBufferSize(mode, numChars) ==
  LET length == calcSegmentBitLength(mode, numChars)
  IN  IF length = -1 THEN SIZE_MAX ELSE (length + 7) \div 8

\* The characters n at a time, as numbers to the base of the character set: the bits of
\* each group are given by how many characters it has.
Grouped(text, n, width) ==
  LET group(k) == SubSeq(text, n * k - n + 1, IF n * k < Len(text) THEN n * k ELSE Len(text))
      base == IF n = 3 THEN 10 ELSE 45
      value(g) == Reduce(LAMBDA a, c : a * base
                             + (CHOOSE i \in 1 .. 45 : ALPHANUMERIC_CHARSET[i] = c) - 1, 0, g)
  IN  Joined([k \in 1 .. (Len(text) + n - 1) \div n |-> Bits(value(group(k)), width[Len(group(k))])])

makeNumeric(digits) ==
  [mode |-> "NUMERIC", numChars |-> Len(digits), data |-> Grouped(digits, 3, <<4, 7, 10>>)]
makeAlphanumeric(text) ==
  [mode |-> "ALPHANUMERIC", numChars |-> Len(text), data |-> Grouped(text, 2, <<6, 11>>)]
makeBytes(bytes) ==
  [mode |-> "BYTE", numChars |-> Len(bytes),
   data |-> Joined([i \in 1 .. Len(bytes) |-> Bits(bytes[i], 8)])]
makeEci(assignVal) ==
  [mode |-> "ECI", numChars |-> 0,
   data |-> IF assignVal < 2^7 THEN Bits(assignVal, 8)
            ELSE IF assignVal < 2^14 THEN <<1, 0>> \o Bits(assignVal, 14)
            ELSE <<1, 1, 0>> \o Bits(assignVal, 21)]

numCharCountBits(mode, version) ==
  LET i == (version + 7) \div 17 + 1
  IN  CASE mode = "NUMERIC" -> <<10, 12, 14>>[i]
        [] mode = "ALPHANUMERIC" -> <<9, 11, 13>>[i]
        [] mode = "BYTE" -> <<8, 16, 16>>[i]
        [] mode = "KANJI" -> <<8, 10, 12>>[i]
        [] mode = "ECI" -> 0

\* segs: their modes, characters and bit lengths.
getTotalBits(segs, version) ==
  Reduce(LAMBDA total, seg :
             LET ccbits == numCharCountBits(seg.mode, version)
             IN  IF \/ total = -1 \/ seg.numChars >= 2^ccbits
                    \/ total + 4 + ccbits + seg.bitLength > INT16_MAX
                 THEN -1 ELSE total + 4 + ccbits + seg.bitLength,
           0, segs)

Measured(segs) == [i \in 1 .. Len(segs) |->
  [mode |-> segs[i].mode, numChars |-> segs[i].numChars, bitLength |-> Len(segs[i].data)]]

Indicator(mode) == CASE mode = "NUMERIC" -> 1 [] mode = "ALPHANUMERIC" -> 2 [] mode = "BYTE" -> 4
                     [] mode = "KANJI" -> 8 [] mode = "ECI" -> 7

Concatenated(segs, version) ==
  Joined([i \in 1 .. Len(segs) |->
                Bits(Indicator(segs[i].mode), 4)
                \o Bits(segs[i].numChars, numCharCountBits(segs[i].mode, version)) \o segs[i].data])

\* The terminator, zeros up to the byte, and the two bytes in turn up to the capacity.
Padded(bits, capacity) ==
  LET room == capacity - Len(bits)
      terminator == IF room > 4 THEN 4 ELSE room
      zeros == terminator + ((8 - ((Len(bits) + terminator) % 8)) % 8)
      start == bits \o [i \in 1 .. zeros |-> 0]
  IN  start \o Joined([k \in 1 .. (capacity - Len(start)) \div 8 |-> Bits(IF k % 2 = 1 THEN 236 ELSE 17, 8)])

(***************************************************************************)
(* Error correction.                                                       *)
(***************************************************************************)

getNumRawDataModules(ver) ==
  LET numAlign == ver \div 7 + 2
  IN  (16 * ver + 128) * ver + 64
      - (IF ver >= 2 THEN (25 * numAlign - 10) * numAlign - 55 ELSE 0)
      - (IF ver >= 7 THEN 36 ELSE 0)

getNumDataCodewords(version, ecl) ==
  getNumRawDataModules(version) \div 8
  - ECC_CODEWORDS_PER_BLOCK[ecl + 1][version] * NUM_ERROR_CORRECTION_BLOCKS[ecl + 1][version]

Xor(a, b) == (a \ b) \union (b \ a)

\* A word shifted by one, and reduced by the polynomial whose degree it reaches.
Shift(word, poly, degree) ==
  LET s == {i + 1 : i \in word} IN IF degree \in s THEN Xor(s, poly) ELSE s

Double(byte) == Shift(byte, {0, 2, 3, 4, 8}, 8)

\* Russian peasant multiplication.
reedSolomonMultiply(x, y) ==
  Reduce(LAMBDA z, i : IF i \in y THEN Xor(Double(z), x) ELSE Double(z),
           {}, <<7, 6, 5, 4, 3, 2, 1, 0>>)

\* One pass of the outer loop; the new coefficient is added to the old one behind it.
TimesRoot(poly, root) ==
  Strict([j \in DOMAIN poly |->
     Xor(reedSolomonMultiply(poly[j], root), IF j < Len(poly) THEN poly[j + 1] ELSE {})])

reedSolomonComputeDivisor(degree) ==
  Reduce(LAMBDA p, i : [poly |-> TimesRoot(p.poly, p.root), root |-> Double(p.root)],
           [poly |-> [j \in 1 .. degree |-> IF j = degree THEN {0} ELSE {}], root |-> {0}],
           [i \in 1 .. degree |-> i]).poly

reedSolomonComputeRemainder(data, generator) ==
  Reduce(LAMBDA r, d :
             LET factor == Xor(d, Head(r))
                 moved == Append(Tail(r), {})
             IN  Strict([j \in DOMAIN r |-> Xor(moved[j], reedSolomonMultiply(generator[j], factor))]),
           [j \in DOMAIN generator |-> {}], data)

\* How the codewords of a version are divided into blocks.
Blocks(version, ecl) ==
  LET raw == getNumRawDataModules(version) \div 8
      num == NUM_ERROR_CORRECTION_BLOCKS[ecl + 1][version]
      eccLen == ECC_CODEWORDS_PER_BLOCK[ecl + 1][version]
  IN  [raw |-> raw, num |-> num, eccLen |-> eccLen, dataLen |-> getNumDataCodewords(version, ecl),
       short |-> num - (raw % num), shortLen |-> raw \div num - eccLen]

DatLen(b, i) == b.shortLen + (IF i < b.short THEN 0 ELSE 1)

\* The data of the blocks 0, 1, ...
Split(data, b) ==
  [i \in 0 .. b.num - 1 |->
     LET start == i * b.shortLen + (IF i > b.short THEN i - b.short ELSE 0)
     IN  SubSeq(data, start + 1, start + DatLen(b, i))]

\* The two copying loops, block by block.
InterleaveBlocks(b, dat, ecc) ==
  LET write(r, i) ==
        LET d == dat[i]
            e == ecc[i]
            data == Reduce(LAMBDA q, j :
                               [q EXCEPT ![1 + i + j * b.num - (IF j >= b.shortLen THEN b.short ELSE 0)]
                                           = d[j + 1]],
                             r, [j \in 1 .. DatLen(b, i) |-> j - 1])
        IN  Reduce(LAMBDA q, j : [q EXCEPT ![1 + b.dataLen + i + j * b.num] = e[j + 1]],
                     data, [j \in 1 .. b.eccLen |-> j - 1])
  IN  Reduce(write, Strict([k \in 1 .. b.raw |-> {}]), [i \in 1 .. b.num |-> i - 1])

(***************************************************************************)
(* Function modules.                                                       *)
(***************************************************************************)

\* In ascending order.
getAlignmentPatternPositions(version) ==
  IF version = 1 THEN <<>>
  ELSE LET numAlign == version \div 7 + 2
           step == IF version = 32 THEN 26
                   ELSE ((version * 4 + numAlign * 2 + 1) \div (numAlign * 2 - 2)) * 2
       IN  [i \in 1 .. numAlign |->
              IF i = 1 THEN 6 ELSE version * 4 + 10 - (numAlign - i) * step]

\* The centres: not on the corners of the finders.
AlignmentCentres(version) ==
  LET pos == getAlignmentPatternPositions(version)
      n == Len(pos)
  IN  {<<pos[i], pos[j]>> : <<i, j>> \in
         ((1 .. n) \X (1 .. n)) \ {<<1, 1>>, <<1, n>>, <<n, 1>>}}

fillRectangle(left, top, width, height) ==
  (left .. left + width - 1) \X (top .. top + height - 1)

initializeFunctionModules(version) ==
  LET size == Size(version)
  IN  fillRectangle(6, 0, 1, size) \union fillRectangle(0, 6, size, 1)
      \union fillRectangle(0, 0, 9, 9)
      \union fillRectangle(size - 8, 0, 8, 9) \union fillRectangle(0, size - 8, 9, 8)
      \union UNION {fillRectangle(c[1] - 2, c[2] - 2, 5, 5) : c \in AlignmentCentres(version)}
      \union (IF version >= 7
              THEN fillRectangle(size - 11, 0, 3, 6) \union fillRectangle(0, size - 11, 6, 3)
              ELSE {})

Word(val) == {i \in 0 .. 17 : (val \div 2^i) % 2 = 1}

\* The remainder of a word: n times shifted.
Remainder(word, poly, n) == Reduce(LAMBDA r, i : Shift(r, poly, n), word, [i \in 1 .. n |-> i])
Moved(word, n) == {i + n : i \in word}

VersionWord(version) ==
  Moved(Word(version), 12)
  \union Remainder(Word(version), {0, 2, 5, 8, 9, 10, 11, 12}, 12)

\* What is drawn into a symbol whose function modules are all black; the alignment
\* patterns and the version blocks are drawn over the rest.
drawWhiteFunctionModules(symbol, version) ==
  LET size == Size(version)
      timing == {i \in 7 .. size - 8 : i % 2 = 1}
      ring == {d \in (-4 .. 4) \X (-4 .. 4) :
                 LET dist == IF d[1] * d[1] > d[2] * d[2] THEN d[1] * d[1] ELSE d[2] * d[2]
                 IN  dist \in {4, 16}}
      around(x, y) == {<<x + d[1], y + d[2]>> : d \in ring}
      white == {<<6, i>> : i \in timing} \union {<<i, 6>> : i \in timing}
               \union around(3, 3) \union around(size - 4, 3) \union around(3, size - 4)
      inner == UNION {fillRectangle(c[1] - 1, c[2] - 1, 3, 3) : c \in AlignmentCentres(version)}
      k(n) == <<size - 11 + (n % 3), n \div 3>>         \* of the n-th bit
      block == IF version >= 7 THEN {k(n) : n \in 0 .. 17} \union {<<k(n)[2], k(n)[1]>> : n \in 0 .. 17} ELSE {}
      bits == IF version >= 7
              THEN {k(n) : n \in VersionWord(version)} \union {<<k(n)[2], k(n)[1]>> : n \in VersionWord(version)}
              ELSE {}
  IN  ((((symbol \ white) \ inner) \union AlignmentCentres(version)) \ block) \union bits

FormatWord(ecl, mask) ==
  LET data == Word(<<1, 0, 3, 2>>[ecl + 1] * 8 + mask)
  IN  Xor(Moved(data, 10) \union Remainder(data, {0, 1, 2, 4, 5, 8, 10}, 10), {1, 4, 10, 12, 14})

FormatFirst(i) ==
  CASE i <= 5 -> <<8, i>> [] i = 6 -> <<8, 7>> [] i = 7 -> <<8, 8>> [] i = 8 -> <<7, 8>>
    [] i >= 9 -> <<14 - i, 8>>
FormatSecond(i, size) == IF i < 8 THEN <<size - 1 - i, 8>> ELSE <<8, size - 15 + i>>

\* Both copies are drawn over what they had before.
drawFormatBits(ecl, mask, symbol, size) ==
  LET places(is) == {FormatFirst(i) : i \in is} \union {FormatSecond(i, size) : i \in is}
  IN  (symbol \ places(0 .. 14)) \union places(FormatWord(ecl, mask)) \union {<<8, size - 8>>}

(***************************************************************************)
(* Codewords and masks.                                                    *)
(***************************************************************************)

\* The modules in the order of the zigzag scan.
Scan(size) ==
  [n \in 1 .. size * (size - 1) |->
     LET r == size - 1 - 2 * ((n - 1) \div (2 * size))
         right == IF r <= 6 THEN r - 1 ELSE r
         vert == ((n - 1) % (2 * size)) \div 2
     IN  <<right - ((n - 1) % 2), IF ((right + 1) \div 2) % 2 = 0 THEN size - 1 - vert ELSE vert>>]

\* The remainder bits behind the last codeword stay white.
drawCodewords(codewords, func, size) ==
  LET places == SelectSeq(Scan(size), LAMBDA p : p \notin func)
      bits == Joined([i \in 1 .. Len(codewords) |-> BitsOf(codewords[i])])
  IN  func \union {places[i] : i \in {k \in 1 .. Len(bits) : bits[k] = 1}}

Invert(mask, x, y) ==
  CASE mask = 0 -> (x + y) % 2 = 0
    [] mask = 1 -> y % 2 = 0
    [] mask = 2 -> x % 3 = 0
    [] mask = 3 -> (x + y) % 3 = 0
    [] mask = 4 -> (x \div 3 + y \div 2) % 2 = 0
    [] mask = 5 -> ((x * y) % 2) + ((x * y) % 3) = 0
    [] mask = 6 -> (((x * y) % 2) + ((x * y) % 3)) % 2 = 0
    [] mask = 7 -> (((x + y) % 2) + ((x * y) % 3)) % 2 = 0

applyMask(func, symbol, mask, size) ==
  Xor(symbol, {p \in ((0 .. size - 1) \X (0 .. size - 1)) \ func : Invert(mask, p[1], p[2])})

(***************************************************************************)
(* The penalty of a symbol.                                                *)
(***************************************************************************)

\* The white border counts as part of the first run.
AddHistory(run, history, size) ==
  <<IF history[1] = 0 THEN run + size ELSE run>> \o SubSeq(history, 1, 6)

Flag(b) == IF b THEN 1 ELSE 0

CountPatterns(h) ==
  LET n == h[2]
      core == n > 0 /\ h[3] = n /\ h[4] = n * 3 /\ h[5] = n /\ h[6] = n
  IN  Flag(core /\ h[1] >= n * 4 /\ h[7] >= n) + Flag(core /\ h[7] >= n * 4 /\ h[1] >= n)

TerminateAndCount(color, run, history, size) ==
  LET ended == IF color THEN AddHistory(run, history, size) ELSE history
  IN  CountPatterns(AddHistory((IF color THEN 0 ELSE run) + size, ended, size))

\* Runs of five and more, and patterns like a finder's, in a row or column.
LinePenalty(line) ==
  LET size == Len(line)
      step(s, c) ==
        IF c = s.color
        THEN [s EXCEPT !.run = @ + 1, !.result = @ + (IF s.run = 4 THEN 3 ELSE IF s.run > 4 THEN 1 ELSE 0)]
        ELSE LET h == AddHistory(s.run, s.history, size)
             IN  [color |-> c, run |-> 1, history |-> h,
                  result |-> s.result + (IF s.color THEN 0 ELSE 40 * CountPatterns(h))]
      end == Reduce(step, [color |-> FALSE, run |-> 0, history |-> <<0, 0, 0, 0, 0, 0, 0>>, result |-> 0], line)
  IN  end.result + 40 * TerminateAndCount(end.color, end.run, end.history, size)

RowLine(symbol, size, y) == [x \in 1 .. size |-> <<x - 1, y - 1>> \in symbol]
ColumnLine(symbol, size, x) == [y \in 1 .. size |-> <<x - 1, y - 1>> \in symbol]

SquarePenalty(symbol, size) ==
  3 * Cardinality({p \in (0 .. size - 2) \X (0 .. size - 2) :
        LET color == p \in symbol
        IN  /\ (<<p[1] + 1, p[2]>> \in symbol) = color
            /\ (<<p[1], p[2] + 1>> \in symbol) = color
            /\ (<<p[1] + 1, p[2] + 1>> \in symbol) = color})

BalancePenalty(symbol, size) ==
  LET total == size * size
      off == Cardinality(symbol) * 20 - total * 10
  IN  10 * (((IF off < 0 THEN -off ELSE off) + total - 1) \div total - 1)

getPenaltyScore(symbol, size) ==
  Reduce(LAMBDA sum, i : sum + LinePenalty(RowLine(symbol, size, i)) + LinePenalty(ColumnLine(symbol, size, i)),
           0, [i \in 1 .. size |-> i])
  + SquarePenalty(symbol, size) + BalancePenalty(symbol, size)
=============================================================================
