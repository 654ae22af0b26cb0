------------------------------- MODULE QrTest -------------------------------
(***************************************************************************)
(* The programs around the QR Code generator (qrcode_gen): the worker and  *)
(* the demonstrations, which have a text, a binary or a list of segments   *)
(* made into a symbol, and the test program, which calls the functions one *)
(* by one.  The encoder's loops over versions and masks take a step for    *)
(* each pass.                                                              *)
(***************************************************************************)
EXTENDS QrCode

CONSTANTS
  Request,     \* what the worker is asked for and what the demonstrations ask
  Middle       \* the number of modules that vary in the lines of the penalty tests

VARIABLES
  phase, request,
  segs, version, ecl,
  data,        \* qrcode as a bit buffer
  ecc,         \* the remainders of the blocks so far
  codewords, func,   \* tempBuffer: first the words to draw, then the function modules
  symbol, mask, msk, minPenalty,
  trial        \* what the test program calls

encoderVars == <<request, segs, version, ecl, data, ecc, codewords, func, symbol, mask, msk, minPenalty>>
vars == <<phase, encoderVars, trial>>

AUTO == -1
LONG_MAX == 2147483647
NoRequest == [kind |-> "none"]
NoTrial == [call |-> "none"]

Init ==
  /\ phase = "start" /\ request = NoRequest
  /\ segs = <<>> /\ version = 1 /\ ecl = 0 /\ data = <<>>
  /\ ecc = <<>> /\ codewords = <<>> /\ func = {}
  /\ symbol = {} /\ mask = AUTO /\ msk = 0 /\ minPenalty = LONG_MAX
  /\ trial = NoTrial

(***************************************************************************)
(* The calls.                                                              *)
(***************************************************************************)

\* The request of the worker is a text when no byte is 0 or above 127.
isAscii(bytes) == \A i \in 1 .. Len(bytes) : bytes[i] \in 1 .. 127

Mode(text) == IF isNumeric(text) THEN "NUMERIC"
              ELSE IF isAlphanumeric(text) THEN "ALPHANUMERIC" ELSE "BYTE"

\* encodeText: the segment is made in a buffer of the size of the largest symbol.
TooLong(r) ==
  LET bufLen == BUFFER_LEN(r.max)
      size == calcSegmentBufferSize(Mode(r.chars), Len(r.chars))
  IN  IF Mode(r.chars) = "BYTE"
      THEN Len(r.chars) > bufLen \/ size = SIZE_MAX
      ELSE size = SIZE_MAX \/ size > bufLen

Segments(r) ==
  CASE r.kind = "segments" -> r.segs
    [] r.kind = "text" /\ r.chars = <<>> -> <<>>
    [] r.kind = "text" /\ Mode(r.chars) = "NUMERIC" -> <<makeNumeric(r.chars)>>
    [] r.kind = "text" /\ Mode(r.chars) = "ALPHANUMERIC" -> <<makeAlphanumeric(r.chars)>>
    [] OTHER -> <<makeBytes(r.chars)>>

Kind(r) == IF r.kind = "bytes" THEN [r EXCEPT !.kind = IF isAscii(r.chars) THEN "text" ELSE "binary"]
           ELSE r

\* The worker reads a request, a demonstration makes its next call.
Call ==
  /\ phase = "start"
  /\ \E r \in {Kind(q) : q \in Request} :
       /\ request' = r
       /\ IF \/ r.kind = "text" /\ r.chars # <<>> /\ TooLong(r)
             \/ r.kind = "binary" /\ Len(r.chars) > BUFFER_LEN(r.max)
          THEN phase' = "failed" /\ UNCHANGED <<segs, version, ecl, mask>>
          ELSE /\ phase' = "version" /\ segs' = Segments(r)
               /\ version' = r.min /\ ecl' = r.ecl /\ mask' = r.mask
  /\ UNCHANGED <<data, ecc, codewords, func, symbol, msk, minPenalty, trial>>

(***************************************************************************)
(* encodeSegmentsAdvanced.                                                 *)
(***************************************************************************)

Fits(used, v, e) == used # -1 /\ used <= getNumDataCodewords(v, e) * 8

\* One pass of the search.
FindVersion ==
  /\ phase = "version"
  /\ LET used == getTotalBits(Measured(segs), version)
     IN  IF Fits(used, version, ecl) THEN phase' = "level" /\ UNCHANGED version
         ELSE IF version >= request.max THEN phase' = "failed" /\ UNCHANGED version
         ELSE version' = version + 1 /\ UNCHANGED phase
  /\ UNCHANGED <<request, segs, ecl, data, ecc, codewords, func, symbol, mask, msk, minPenalty, trial>>

\* The level is raised as far as the version allows, and the segments are put together.
Fill ==
  /\ phase = "level"
  /\ LET used == getTotalBits(Measured(segs), version)
         best == {i \in 1 .. 3 : request.boost /\ Fits(used, version, i)}
     IN  ecl' = IF best = {} THEN ecl ELSE CHOOSE i \in best : \A j \in best : j <= i
  /\ data' = Padded(Concatenated(segs, version), getNumDataCodewords(version, ecl') * 8)
  /\ phase' = "ecc"
  /\ UNCHANGED <<request, segs, version, ecc, codewords, func, symbol, mask, msk, minPenalty, trial>>

\* A pass over a block: its remainder.
AddEcc ==
  /\ phase = "ecc"
  /\ LET b == Blocks(version, ecl)
     IN  /\ Len(ecc) < b.num
         /\ ecc' = Append(ecc, reedSolomonComputeRemainder(Split(Codewords(data), b)[Len(ecc)],
                                                          reedSolomonComputeDivisor(b.eccLen)))
  /\ UNCHANGED <<phase, request, segs, version, ecl, data, codewords, func, symbol, mask, msk, minPenalty, trial>>

\* The words of all blocks into the one sequence.
Interleaving ==
  /\ phase = "ecc"
  /\ LET b == Blocks(version, ecl)
     IN  /\ Len(ecc) = b.num
         /\ codewords' = InterleaveBlocks(b, Split(Codewords(data), b), [i \in 0 .. b.num - 1 |-> ecc[i + 1]])
  /\ phase' = "draw"
  /\ UNCHANGED <<request, segs, version, ecl, data, ecc, func, symbol, mask, msk, minPenalty, trial>>

Draw ==
  /\ phase = "draw"
  /\ func' = initializeFunctionModules(version)
  /\ symbol' = drawWhiteFunctionModules(drawCodewords(codewords, func', Size(version)), version)
  /\ phase' = "mask"
  /\ UNCHANGED <<request, segs, version, ecl, data, ecc, codewords, mask, msk, minPenalty, trial>>

Masked(m) == drawFormatBits(ecl, m, applyMask(func, symbol, m, Size(version)), Size(version))

\* Mutant: the least penalty so far is not kept.
TryMaskForgets ==
  /\ phase = "mask" /\ request.mask = AUTO /\ msk < 8
  /\ LET drawn == Masked(msk)
         penalty == getPenaltyScore(drawn, Size(version))
     IN  /\ mask' = IF penalty < LONG_MAX THEN msk ELSE mask
         /\ minPenalty' = penalty
         /\ symbol' = applyMask(func, drawn, msk, Size(version))
  /\ msk' = msk + 1
  /\ UNCHANGED <<phase, request, segs, version, ecl, data, ecc, codewords, func, trial>>

\* One pass of the choice; the mask is taken off again, the format bits stay.
TryMask ==
  /\ phase = "mask" /\ request.mask = AUTO /\ msk < 8
  /\ LET drawn == Masked(msk)
         penalty == getPenaltyScore(drawn, Size(version))
     IN  /\ IF penalty < minPenalty THEN mask' = msk /\ minPenalty' = penalty
            ELSE UNCHANGED <<mask, minPenalty>>
         /\ symbol' = applyMask(func, drawn, msk, Size(version))
  /\ msk' = msk + 1
  /\ UNCHANGED <<phase, request, segs, version, ecl, data, ecc, codewords, func, trial>>

Finish ==
  /\ phase = "mask" /\ (request.mask # AUTO \/ msk = 8)
  /\ symbol' = Masked(mask)
  /\ phase' = "done"
  /\ UNCHANGED <<request, segs, version, ecl, data, ecc, codewords, func, mask, msk, minPenalty, trial>>

encodeSegmentsAdvanced ==
  FindVersion \/ Fill \/ AddEcc \/ Interleaving \/ Draw \/ TryMask \/ Finish

(***************************************************************************)
(* The tests: a call and what the test program expects of it.              *)
(***************************************************************************)

\* Characters and bits, for the three modes that count them and for kanji.
BitLengths ==
  [NUMERIC |-> {<<0, 0>>, <<1, 4>>, <<2, 7>>, <<3, 10>>, <<4, 14>>, <<5, 17>>, <<6, 20>>,
                <<1472, 4907>>, <<2097, 6990>>, <<5326, 17754>>, <<9828, 32760>>, <<9829, 32764>>,
                <<9830, 32767>>, <<9831, -1>>, <<9832, -1>>, <<12000, -1>>, <<28453, -1>>},
   ALPHANUMERIC |-> {<<0, 0>>, <<1, 6>>, <<2, 11>>, <<3, 17>>, <<4, 22>>, <<5, 28>>, <<6, 33>>,
                     <<1472, 8096>>, <<2097, 11534>>, <<5326, 29293>>, <<5955, 32753>>, <<5956, 32758>>,
                     <<5957, 32764>>, <<5958, -1>>, <<5959, -1>>, <<12000, -1>>, <<28453, -1>>},
   BYTE |-> {<<0, 0>>, <<1, 8>>, <<2, 16>>, <<3, 24>>, <<1472, 11776>>, <<2097, 16776>>, <<4094, 32752>>,
             <<4095, 32760>>, <<4096, -1>>, <<4097, -1>>, <<5957, -1>>, <<12000, -1>>, <<28453, -1>>},
   KANJI |-> {<<0, 0>>, <<1, 13>>, <<2, 26>>, <<3, 39>>, <<1472, 19136>>, <<2097, 27261>>, <<2519, 32747>>,
              <<2520, 32760>>, <<2521, -1>>, <<5957, -1>>, <<2522, -1>>, <<12000, -1>>, <<28453, -1>>},
   ECI |-> {<<0, 24>>}]

\* Characters and bytes.
BufferSizes ==
  [NUMERIC |-> {<<0, 0>>, <<1, 1>>, <<2, 1>>, <<3, 2>>, <<4, 2>>, <<5, 3>>, <<6, 3>>, <<1472, 614>>,
                <<2097, 874>>, <<5326, 2220>>, <<9828, 4095>>, <<9830, 4096>>, <<9831, SIZE_MAX>>},
   ALPHANUMERIC |-> {<<0, 0>>, <<1, 1>>, <<2, 2>>, <<3, 3>>, <<4, 3>>, <<5, 4>>, <<6, 5>>, <<1472, 1012>>,
                     <<2097, 1442>>, <<5326, 3662>>, <<5955, 4095>>, <<5957, 4096>>, <<5958, SIZE_MAX>>},
   BYTE |-> {<<0, 0>>, <<1, 1>>, <<1472, 1472>>, <<4095, 4095>>, <<4096, SIZE_MAX>>, <<28453, SIZE_MAX>>},
   KANJI |-> {<<0, 0>>, <<1, 2>>, <<2, 4>>, <<3, 5>>, <<1472, 2392>>, <<2097, 3408>>, <<2519, 4094>>,
              <<2520, 4095>>, <<2521, SIZE_MAX>>, <<28453, SIZE_MAX>>},
   ECI |-> {<<0, 3>>}]

DataCodewords ==
  {<<3, 1, 44>>, <<3, 2, 34>>, <<3, 3, 26>>, <<6, 0, 136>>, <<7, 0, 156>>, <<9, 0, 232>>, <<9, 1, 182>>,
   <<12, 3, 158>>, <<15, 0, 523>>, <<16, 2, 325>>, <<19, 3, 341>>, <<21, 0, 932>>, <<22, 0, 1006>>,
   <<22, 1, 782>>, <<22, 3, 442>>, <<24, 0, 1174>>, <<24, 3, 514>>, <<28, 0, 1531>>, <<30, 3, 745>>,
   <<32, 3, 845>>, <<33, 0, 2071>>, <<33, 3, 901>>, <<35, 0, 2306>>, <<35, 1, 1812>>, <<35, 2, 1286>>,
   <<36, 3, 1054>>, <<37, 3, 1096>>, <<39, 1, 2216>>, <<40, 1, 2334>>}

RawDataModules ==
  {<<1, 208>>, <<2, 359>>, <<3, 567>>, <<6, 1383>>, <<7, 1568>>, <<12, 3728>>, <<15, 5243>>, <<18, 7211>>,
   <<22, 10068>>, <<26, 13652>>, <<32, 19723>>, <<37, 25568>>, <<40, 29648>>}

Positions ==
  {<<1, <<>>>>, <<2, <<6, 18>>>>, <<3, <<6, 22>>>>, <<6, <<6, 34>>>>, <<7, <<6, 22, 38>>>>,
   <<8, <<6, 24, 42>>>>, <<16, <<6, 26, 50, 74>>>>, <<25, <<6, 32, 58, 84, 110>>>>,
   <<32, <<6, 34, 60, 86, 112, 138>>>>, <<33, <<6, 30, 58, 86, 114, 142>>>>,
   <<39, <<6, 26, 54, 82, 110, 138, 166>>>>, <<40, <<6, 30, 58, 86, 114, 142, 170>>>>}

Products ==
  {<<0, 0, 0>>, <<1, 1, 1>>, <<2, 2, 4>>, <<0, 110, 0>>, <<178, 221, 230>>, <<65, 17, 37>>, <<176, 31, 17>>,
   <<5, 117, 188>>, <<82, 181, 174>>, <<168, 32, 164>>, <<14, 68, 159>>, <<212, 19, 160>>, <<49, 16, 55>>,
   <<108, 88, 203>>, <<182, 117, 62>>, <<255, 255, 226>>}

\* Degrees and the coefficients looked at.
Divisors ==
  {<<1, 1, 1>>, <<2, 1, 3>>, <<2, 2, 2>>, <<5, 1, 31>>, <<5, 2, 198>>, <<5, 3, 63>>, <<5, 4, 147>>, <<5, 5, 116>>,
   <<30, 1, 212>>, <<30, 2, 246>>, <<30, 6, 192>>, <<30, 13, 22>>, <<30, 14, 217>>, <<30, 21, 18>>,
   <<30, 28, 106>>, <<30, 30, 150>>}

Remainders ==
  {<<(<<>>), <<0, 0, 0>>>>, <<(<<3, 58, 96, 18, 199>>), <<203, 54, 22, 250, 157>>>>}

\* Digits and letters of the texts, and the bytes of the segment.
NumericSegments ==
  {<<(<<>>), <<>>>>, <<(<<57>>), <<144>>>>, <<(<<56, 49>>), <<162>>>>, <<(<<54, 55, 51>>), <<168, 64>>>>,
   <<(<<51, 49, 52, 49, 53, 57, 50, 54, 53, 51>>), <<78, 137, 244, 36, 192>>>>}
AlphanumericSegments ==
  {<<(<<>>), <<>>>>, <<(<<65>>), <<40>>>>, <<(<<37, 58>>), <<219, 64>>>>, <<(<<81, 32, 82>>), <<150, 205, 128>>>>}
ByteSegments == {<<(<<>>), <<>>>>, <<(<<0>>), <<0>>>>, <<(<<239, 187, 191>>), <<239, 187, 191>>>>}
EciSegments == {<<127, <<127>>>>, <<10345, <<168, 105>>>>, <<999999, <<207, 66, 63>>>>}

Seg(mode, numChars, bitLength) == [mode |-> mode, numChars |-> numChars, bitLength |-> bitLength]
TotalBits ==
  {<<(<<>>), 1, 0>>, <<(<<>>), 40, 0>>}
  \union ({<<Seg("BYTE", 3, 24)>>} \X {2} \X {36}) \union ({<<Seg("BYTE", 3, 24)>>} \X {10, 39} \X {44})
  \union {<<(<<Seg("ECI", 0, 8), Seg("NUMERIC", 7, 24), Seg("ALPHANUMERIC", 1, 6), Seg("KANJI", 4, 52)>>),
            c[1], c[2]>> : c \in {<<9, 133>>, <<21, 139>>, <<27, 145>>}}
  \union {<<(<<Seg("BYTE", 4093, 32744)>>), c[1], c[2]>> : c \in {<<1, -1>>, <<10, 32764>>, <<27, 32764>>}}
  \union {<<[i \in 1 .. 5 |-> IF i < 5 THEN Seg("NUMERIC", 2047, 6824) ELSE Seg("NUMERIC", 1617, 5390)],
            c[1], c[2]>> : c \in {<<1, -1>>, <<10, 32766>>, <<27, -1>>}}
  \union {<<[i \in 1 .. 10 |-> IF i < 10 THEN Seg("KANJI", 255, 3315) ELSE Seg("ALPHANUMERIC", 511, 2811)],
            c[1], c[2]>> : c \in {<<9, 32767>>, <<26, -1>>, <<40, -1>>}}

Trials ==
  UNION {[call : {"bitLength"}, mode : {m}, with : BitLengths[m]] : m \in DOMAIN BitLengths}
  \union UNION {[call : {"bufferSize"}, mode : {m}, with : BufferSizes[m]] : m \in DOMAIN BufferSizes}
  \union [call : {"dataCodewords"}, with : DataCodewords]
  \union [call : {"rawDataModules"}, with : RawDataModules]
  \union [call : {"positions"}, with : Positions]
  \union [call : {"multiply"}, with : Products]
  \union [call : {"divisor"}, with : Divisors]
  \union [call : {"remainder"}, with : Remainders]
  \union [call : {"numeric"}, with : NumericSegments]
  \union [call : {"alphanumeric"}, with : AlphanumericSegments]
  \union [call : {"bytes"}, with : ByteSegments]
  \union [call : {"eci"}, with : EciSegments]
  \union [call : {"totalBits"}, with : TotalBits]
  \union [call : {"tables"}, version : 1 .. 40, ecl : 0 .. 3]
  \union [call : {"format"}, ecl : 0 .. 3, mask : 0 .. 7]
  \union [call : {"line"}, before : BOOLEAN, middle : [1 .. Middle -> BOOLEAN], after : BOOLEAN]

Test ==
  /\ phase = "start"
  /\ trial' \in Trials
  /\ phase' = "test"
  /\ UNCHANGED encoderVars

\* The answer of the function called.
Val(byte) == FoldSet(LAMBDA i, sum : sum + 2^i, 0, byte)
Filled(bits) == Codewords(bits \o [i \in 1 .. (8 - (Len(bits) % 8)) % 8 |-> 0])
Bytes(seg) == [i \in DOMAIN Filled(seg.data) |-> Val(Filled(seg.data)[i])]
Words(vals) == [i \in DOMAIN vals |-> Word(vals[i])]

AsExpected(t) ==
  CASE t.call = "bitLength" -> calcSegmentBitLength(t.mode, t.with[1]) = t.with[2]
    [] t.call = "bufferSize" -> calcSegmentBufferSize(t.mode, t.with[1]) = t.with[2]
    [] t.call = "dataCodewords" -> getNumDataCodewords(t.with[1], t.with[2]) = t.with[3]
    [] t.call = "rawDataModules" -> getNumRawDataModules(t.with[1]) = t.with[2]
    [] t.call = "positions" -> getAlignmentPatternPositions(t.with[1]) = t.with[2]
    [] t.call = "multiply" -> reedSolomonMultiply(Word(t.with[1]), Word(t.with[2])) = Word(t.with[3])
    [] t.call = "divisor" -> reedSolomonComputeDivisor(t.with[1])[t.with[2]] = Word(t.with[3])
    [] t.call = "remainder" ->
         reedSolomonComputeRemainder(Words(t.with[1]), reedSolomonComputeDivisor(Len(t.with[2]))) = Words(t.with[2])
    [] t.call = "numeric" -> Bytes(makeNumeric(t.with[1])) = t.with[2]
    [] t.call = "alphanumeric" -> Bytes(makeAlphanumeric(t.with[1])) = t.with[2]
    [] t.call = "bytes" -> Bytes(makeBytes(t.with[1])) = t.with[2]
    [] t.call = "eci" -> Bytes(makeEci(t.with[1])) = t.with[2]
    [] t.call = "totalBits" -> getTotalBits(t.with[1], t.with[2]) = t.with[3]
    [] OTHER -> TRUE

Next == Call \/ encodeSegmentsAdvanced \/ Test

Spec == Init /\ [][Next]_vars
(***************************************************************************)
(* A reader of symbols, written from the layout and not from the encoder.  *)
(***************************************************************************)

\* Pairs of columns from the right, the timing column left out; up and down in turn.
ReadOrder(size) ==
  LET cols == SelectSeq([i \in 1 .. size |-> size - i], LAMBDA c : c # 6)
      pair(p) == [n \in 1 .. 2 * size |->
                    <<cols[IF n % 2 = 1 THEN 2 * p - 1 ELSE 2 * p],
                      IF p % 2 = 1 THEN size - (n + 1) \div 2 ELSE (n - 1) \div 2>>]
  IN  Joined([p \in 1 .. (size - 1) \div 2 |-> pair(p)])

\* What the two copies say of level and mask.
FormatRead(place(_)) ==
  LET word == {i \in 0 .. 14 : place(i) \in symbol}
  IN  CHOOSE em \in (0 .. 3) \X (0 .. 7) : FormatWord(em[1], em[2]) = word

WordsRead ==
  LET size == Size(version)
      em == FormatRead(FormatFirst)
      places == SelectSeq(ReadOrder(size), LAMBDA p : p \notin func)
      bits == [i \in DOMAIN places |->
                 Flag((places[i] \in symbol) # Invert(em[2], places[i][1], places[i][2]))]
  IN  Strict(Codewords(Strict(bits)))

\* The blocks as they are dealt out: a word to each in turn, the last data words to the
\* long blocks only.
BlocksRead ==
  LET b == Blocks(version, ecl)
      words == WordsRead
  IN  Strict([i \in 1 .. b.num |->
         Strict([j \in 1 .. DatLen(b, i - 1) + b.eccLen |->
           LET k == j - DatLen(b, i - 1)
           IN  words[IF k > 0 THEN b.dataLen + (k - 1) * b.num + i
                     ELSE IF j <= b.shortLen THEN (j - 1) * b.num + i
                     ELSE b.shortLen * b.num + i - b.short]])])

\* The characters of the segments from the bits on.
RECURSIVE Parsed(_)
Parsed(bits) ==
  LET value(from, n) == Reduce(LAMBDA v, b : 2 * v + b, 0, SubSeq(bits, from, from + n - 1))
      mode == CASE value(1, 4) = 1 -> "NUMERIC" [] value(1, 4) = 2 -> "ALPHANUMERIC"
                [] value(1, 4) = 4 -> "BYTE" [] value(1, 4) = 8 -> "KANJI" [] value(1, 4) = 7 -> "ECI"
      ccbits == numCharCountBits(mode, version)
      count == value(5, ccbits)
      start == 5 + ccbits
      rest(n) == Parsed(SubSeq(bits, start + n, Len(bits)))
      char(v) == ALPHANUMERIC_CHARSET[v + 1]
      \* What is left of a group of digits or letters gives one character each.
      digits == Joined([k \in 1 .. (count + 2) \div 3 |->
                  LET left == IF 3 * k <= count THEN 3 ELSE count - 3 * k + 3
                      v == value(start + 10 * (k - 1), 3 * left + 1)
                  IN  [i \in 1 .. left |-> 48 + ((v \div 10^(left - i)) % 10)]])
      letters == Joined([k \in 1 .. (count + 1) \div 2 |->
                   LET v == value(start + 11 * (k - 1), IF 2 * k <= count THEN 11 ELSE 6)
                   IN  IF 2 * k <= count THEN <<char(v \div 45), char(v % 45)>> ELSE <<char(v)>>])
  IN  IF Len(bits) < 4 \/ value(1, 4) = 0 THEN <<>>
      ELSE CASE mode = "NUMERIC" -> digits \o rest((10 * count + 2) \div 3)
             [] mode = "ALPHANUMERIC" -> letters \o rest((11 * count + 1) \div 2)
             [] mode = "BYTE" -> [i \in 1 .. count |-> value(start + 8 * i - 8, 8)] \o rest(8 * count)
             [] mode = "KANJI" -> [i \in 1 .. count |-> value(start + 13 * i - 13, 13)] \o rest(13 * count)
             [] mode = "ECI" -> rest(8)

(***************************************************************************)
(* Properties.                                                             *)
(***************************************************************************)

TypeOK ==
  /\ phase \in {"start", "version", "level", "ecc", "draw", "mask", "done", "failed", "test"}
  /\ version \in 1 .. 40 /\ ecl \in 0 .. 3 /\ mask \in AUTO .. 7 /\ msk \in 0 .. 8
  /\ request # NoRequest => version <= request.max
  /\ symbol \subseteq (0 .. Size(version) - 1) \X (0 .. Size(version) - 1)

\* A reader of the symbol finds level and mask in both copies of the format bits, and the
\* characters that were to be encoded, whatever the version, the level, the mask and the
\* division into blocks.
RoundTrip ==
  phase = "done" =>
    /\ FormatRead(FormatFirst) = <<ecl, mask>>
    /\ FormatRead(LAMBDA i : FormatSecond(i, Size(version))) = <<ecl, mask>>
    /\ LET b == Blocks(version, ecl)
           blocks == BlocksRead
           words == Strict(Joined([i \in 1 .. b.num |-> SubSeq(blocks[i], 1, DatLen(b, i - 1))]))
       IN  Parsed(Joined([i \in DOMAIN words |-> BitsOf(words[i])])) = request.chars

\* Every block read from the symbol is a codeword of the Reed-Solomon code: as a
\* polynomial it is zero at the powers of two, as many as it has words of correction.
CodewordsDivide ==
  phase = "done" =>
    LET b == Blocks(version, ecl)
        blocks == BlocksRead
        power[n \in 0 .. b.eccLen - 1] == IF n = 0 THEN {0} ELSE Double(power[n - 1])
        at(block, x) == Reduce(LAMBDA a, w : Xor(reedSolomonMultiply(a, x), w), {}, block)
    IN  \A i \in 1 .. b.num : \A n \in 0 .. b.eccLen - 1 : at(blocks[i], power[n]) = {}

\* The bits a version needs for what is asked, counted from the characters.
Needed(v) ==
  LET part(kind, n) == 4 + numCharCountBits(kind, v) + calcSegmentBitLength(kind, n)
  IN  IF request.kind = "segments"
      THEN Reduce(LAMBDA sum, s : sum + 4 + numCharCountBits(s.mode, v) + Len(s.data), 0, request.segs)
      ELSE IF request.kind = "text" /\ request.chars = <<>> THEN 0
      ELSE part(IF request.kind = "text" THEN Mode(request.chars) ELSE "BYTE", Len(request.chars))

Holds(v, e) == Needed(v) <= getNumDataCodewords(v, e) * 8

\* The symbol has the smallest version of the range that holds the data at the level asked
\* for, and the highest level this version has room for when the level may be raised;
\* what is refused, by whichever of the checks, no version of the range would have held.
SmallestVersion ==
  /\ phase = "done" =>
       /\ Holds(version, ecl) /\ ecl >= request.ecl
       /\ \A v \in request.min .. version - 1 : ~Holds(v, request.ecl)
       /\ IF request.boost THEN \A e \in ecl + 1 .. 3 : ~Holds(version, e) ELSE ecl = request.ecl
  /\ phase = "failed" => \A v \in request.min .. request.max : ~Holds(v, request.ecl)

\* The lengths of the runs of a line between borders of its own length.
Runs(line) ==
  Reduce(LAMBDA rs, c : IF Last(rs).color = c THEN [rs EXCEPT ![Len(rs)].len = @ + 1]
                          ELSE Append(rs, [color |-> c, len |-> 1]),
           <<[color |-> FALSE, len |-> Len(line)]>>,
           line \o [i \in 1 .. Len(line) |-> FALSE])

\* Three and one more for every module beyond five of a color, and forty for every
\* pattern 1:1:3:1:1 with four light modules on one side and one at least on the other.
LineScore(line) ==
  LET rs == Runs(line)
      inside == {i \in 1 .. Len(line) - 4 : \A k \in 0 .. 4 : line[i + k] = line[i]}
      starts == {i \in inside : i - 1 \notin inside}
      cores == {i \in 2 .. Len(rs) - 5 : rs[i].color /\ \A k \in 0 .. 4 :
                  rs[i + k].len = (IF k = 2 THEN 3 ELSE 1) * rs[i].len}
      wide(i, k, n) == rs[k].len >= n * rs[i].len
  IN  Cardinality(inside) + 2 * Cardinality(starts)
      + 40 * (Cardinality({i \in cores : wide(i, i - 1, 4) /\ wide(i, i + 5, 1)})
              + Cardinality({i \in cores : wide(i, i + 5, 4) /\ wide(i, i - 1, 1)}))

Score(s, size) ==
  LET n == Cardinality(s)
      total == size * size
      off(k) == n * 100 >= total * (45 - 5 * k) /\ n * 100 <= total * (55 + 5 * k)
  IN  Reduce(LAMBDA sum, i : sum + LineScore(RowLine(s, size, i)) + LineScore(ColumnLine(s, size, i)),
               0, [i \in 1 .. size |-> i])
      + SquarePenalty(s, size)
      + 10 * (CHOOSE k \in 0 .. 9 : off(k) /\ \A j \in 0 .. k - 1 : ~off(j))

\* "Automatically choose best mask": of the eight symbols the one that is kept has the
\* lowest score, as counted from its lines and not by the history of the runs.
BestMask ==
  phase = "done" /\ request.mask = AUTO =>
    LET size == Size(version)
        modules(set) == {p : p \in set}
        drawn(bare, m) == modules(drawFormatBits(ecl, m, modules(applyMask(func, bare, m, size)), size))
    IN  \A bare \in {modules(applyMask(func, symbol, mask, size))} : \A m \in 0 .. 7 :
          \A s \in {drawn(bare, m)} : \A score \in {Score(s, size)} :
            score >= minPenalty /\ (m = mask => score = minPenalty)

\* The penalty of a line as the history of its runs gives it is the one counted from the
\* whole line, at the borders as well.
LinePenaltyCounts ==
  phase = "test" /\ trial.call = "line" =>
    LET line == [i \in 1 .. 5 |-> trial.before] \o trial.middle \o [i \in 1 .. 5 |-> trial.after]
    IN  LinePenalty(line) = LineScore(line)

\* addEccAndInterleaveReference of the tests: row by row through the blocks, the word that
\* a short block lacks left out.
Dealt(b, dat, corr) ==
  LET row(j) == [i \in 1 .. b.num |->
        IF j <= b.shortLen THEN <<dat[i - 1][j]>>
        ELSE IF j > b.shortLen + 1 THEN <<corr[i - 1][j - b.shortLen - 1]>>
        ELSE IF i - 1 < b.short THEN <<>> ELSE <<dat[i - 1][j]>>]
  IN  Joined([j \in 1 .. b.shortLen + 1 + b.eccLen |-> Joined(row(j))])

\* For every version and level the words of the blocks come where the reference puts
\* them, and no two in one place.
Interleaved ==
  phase = "test" /\ trial.call = "tables" =>
    LET b == Blocks(trial.version, trial.ecl)
        dat == Split([i \in 1 .. b.dataLen |-> {i}], b)
        corr == [i \in 0 .. b.num - 1 |-> [j \in 1 .. b.eccLen |-> {b.dataLen + i * b.eccLen + j}]]
        all == InterleaveBlocks(b, dat, corr)
    IN  all = Dealt(b, dat, corr) /\ ToSet(all) = {{i} : i \in 1 .. b.raw}

\* The formula for the number of data modules agrees with the modules that are drawn, the
\* scan passes each of these once, and the buffer is large enough for the codewords.
RawModulesCounted ==
  phase = "test" /\ trial.call = "tables" =>
    LET v == trial.version
        size == Size(v)
    IN  /\ getNumRawDataModules(v) = size * size - Cardinality(initializeFunctionModules(v))
        /\ trial.ecl = 0 /\ v <= 7 => ToSet(Scan(size)) = ((0 .. size - 1) \ {6}) \X (0 .. size - 1)
        /\ getNumRawDataModules(v) \div 8 <= BUFFER_LEN(v)

\* Two different levels or masks have format bits that differ in seven places at least.
FormatApart ==
  phase = "test" /\ trial.call = "format" =>
    \A other \in (0 .. 3) \X (0 .. 7) :
      other # <<trial.ecl, trial.mask>> =>
        Cardinality(Xor(FormatWord(trial.ecl, trial.mask), FormatWord(other[1], other[2]))) >= 7

\* The tables of the test program: what it expects of the lengths, the tables, the
\* polynomials and the segments is what the functions answer.
KnownAnswers == phase = "test" => AsExpected(trial)

\* The functions below the encoder, over all versions, levels and masks.
TablesAgree == LinePenaltyCounts /\ Interleaved /\ RawModulesCounted /\ FormatApart /\ KnownAnswers

\* What qrcodegen.h promises of a symbol: read back it is the text, in the smallest version
\* that holds it, with words that the divisor divides and the mask of the least penalty; and
\* what the test program expects of the functions below it.
SymbolReadable ==
  TypeOK /\ RoundTrip /\ CodewordsDivide /\ SmallestVersion /\ BestMask /\ TablesAgree
=============================================================================
