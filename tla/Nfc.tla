-------------------------------- MODULE Nfc --------------------------------
(***************************************************************************)
(* The NFC tag of nfc_demo: a reader sends commands over the air into the  *)
(* FIFO of the chip, the task polls the chip's flags over I2C, takes the   *)
(* frame out of the FIFO, answers as a type 4 tag, and refills the FIFO    *)
(* while the answer goes out.  The bus may fail, MaxFail times; no result  *)
(* of the bus is looked at.  The chip and the reader are external.         *)
(***************************************************************************)
EXTENDS Naturals, SequencesExt

CONSTANTS
  FIFO, LOW,   \* bytes the chip holds, 32, and how few of them call for more, 8
  TAKEN,       \* bytes taken when it is nearly full, 25
  LEVEL,       \* bytes at which the chip says so
  BLOCK, USER, MANUF, \* the EEPROM: bytes of a block, where it begins and ends
  Address, Length,    \* writes to the EEPROM tried on their own
  Command,     \* what a reader may ask
  CcSize, NdefSize, \* bytes of the two files
  MaxCommand, MaxFail, Early \* bounds: commands, transfers that fail, and commands by which
                             \* they have, or that are too long for the FIFO

VARIABLES
  program,   \* "tag", or "eep" for a write to the EEPROM
  written,   \* the address and the length of it, and its pages
  asked,     \* the reader's commands
  air,       \* the bytes of the last that are still on their way
  heard,     \* what the reader has got of the answer
  fifo, flags, level, sending, \* the chip: FIFO, MAIN_IRQ, FIFO_IRQ_WL, the answer goes out
  pc, irq, irq_data_wl, irq_data_in, rbuf, temp, \* fm11_data_recv
  current_file, ndef_file, \* fm11_t4t: the selected file, by which command each byte was written
  sbuf,      \* fm11_data_send: what is left to send
  fails,
  found, since, \* history: the last command found the FIFO empty; fails when it was sent
  reliable,  \* history: so did all before it, and nothing failed
  answer,    \* history: the answer to it
  cut        \* history: the chip ran empty before the answer was all in

reader == <<asked, air, heard>>
chip == <<fifo, flags, level, sending>>
history == <<found, since, reliable>>
recv == <<irq, irq_data_wl, irq_data_in, rbuf, temp>>
vars == <<program, written, reader, chip, pc, recv, current_file, ndef_file, sbuf, fails, history,
          answer, cut>>

Min2(m, n) == IF m < n THEN m ELSE n

\* The pages of a write that begins in the EEPROM; the first ends where a block does.
fm11_write_eep(addr, len) ==
  LET offset == IF addr % BLOCK = 0 THEN 0 ELSE Min2(len, BLOCK - (addr % BLOCK))
      blocks == (len - offset + BLOCK - 1) \div BLOCK
      Page(i) == <<addr + offset + (i - 1) * BLOCK, Min2(BLOCK, len - offset - (i - 1) * BLOCK)>>
  IN IF addr < USER \/ addr >= MANUF THEN <<>>
     ELSE (IF offset > 0 THEN <<<<addr, offset>>>> ELSE <<>>) \o [i \in 1 .. blocks |-> Page(i)]

Init ==
  /\ program \in {"tag", "eep"} /\ written = <<>>
  /\ asked = <<>> /\ air = <<>> /\ heard = <<>>
  /\ fifo = <<>> /\ flags = {} /\ level = FALSE /\ sending = FALSE
  /\ pc = "irq" /\ irq = {} /\ irq_data_wl = FALSE /\ irq_data_in = FALSE /\ rbuf = <<>> /\ temp = 0
  /\ current_file = "none" /\ ndef_file = [i \in 0 .. NdefSize - 1 |-> 0]
  /\ sbuf = <<>> /\ fails = 0 /\ found = TRUE /\ since = 0 /\ reliable = TRUE
  /\ answer = <<>> /\ cut = FALSE

Try ==
  /\ program = "eep" /\ pc = "irq" /\ pc' = "tried"
  /\ \E addr \in Address, len \in Length : written' = <<addr, len, fm11_write_eep(addr, len)>>
  /\ UNCHANGED <<program, reader, chip, recv, current_file, ndef_file, sbuf, fails, history, answer, cut>>

----------------------------------------------------------------------------
\* The reader and the chip.  A byte of a frame is its command's number and its place.
InStep == found /\ fails = since /\ ~cut
Quiet == pc = "irq" /\ irq = {} /\ flags = {} /\ ~sending /\ air = <<>>

\* What the reader has selected, before its k-th command.
Latest(S) == IF S = {} THEN 0 ELSE Max(S)
Selected(k) ==
  LET j == Latest({i \in 1 .. k - 1 : asked[i].ins = "select" /\ asked[i].file # "application"})
  IN IF j = 0 \/ asked[j].file = "unknown" THEN "none" ELSE asked[j].file

\* A command is sent when the last is answered, or when nothing has come for it; a file is
\* not read past its end.
Asks ==
  /\ program = "tag" /\ Quiet /\ Len(asked) + fails < MaxCommand
  /\ \E c \in Command : LET n == Len(asked) + 1 IN
       /\ c.bytes >= LEVEL => n <= Early
       /\ c.ins = "read" /\ Selected(n) = "cc" => c.off + c.len <= CcSize
       /\ asked' = Append(asked, c) /\ air' = [i \in 1 .. c.bytes |-> <<"in", n, i>>]
  /\ found' = (fifo = <<>>) /\ since' = fails /\ reliable' = (reliable /\ InStep)
  /\ heard' = <<>> /\ answer' = <<>> /\ cut' = FALSE
  /\ UNCHANGED <<program, written, chip, pc, recv, current_file, ndef_file, sbuf, fails>>

\* Faults come early, so that they are seen with what follows.
MayFail == fails < MaxFail /\ Len(asked) <= Early

\* A byte comes in; the last one completes the frame, or the frame is found broken.
Arrives ==
  /\ air # <<>> /\ air' = Tail(air)
  /\ fifo' = IF Len(fifo) < FIFO THEN Append(fifo, Head(air)) ELSE fifo
  /\ level' = (level \/ Len(fifo') >= LEVEL)
  /\ LET full == IF ~level /\ level' THEN {"fifo"} ELSE {}
         begun == IF Head(air)[3] = 1 THEN {"start"} ELSE {}
     IN \/ /\ flags' = flags \union full \union begun \union (IF Len(air) = 1 THEN {"done"} ELSE {})
           /\ UNCHANGED fails
        \/ /\ Len(air) = 1 /\ MayFail /\ fails' = fails + 1
           /\ flags' = flags \union full \union begun \union {"aux"}
  /\ UNCHANGED <<program, written, asked, heard, sending, pc, recv, current_file, ndef_file, sbuf,
                 history, answer, cut>>

\* A byte of the answer goes out; when there is no other the answer ends.
Drains ==
  /\ sending
  /\ IF fifo = <<>> THEN sending' = FALSE /\ cut' = (cut \/ sbuf # <<>>) /\ UNCHANGED <<fifo, heard>>
     ELSE fifo' = Tail(fifo) /\ heard' = Append(heard, Head(fifo)) /\ UNCHANGED <<sending, cut>>
  /\ UNCHANGED <<program, written, asked, air, flags, level, pc, recv, current_file, ndef_file,
                 sbuf, fails, history, answer>>

----------------------------------------------------------------------------
\* A transfer that fails reads zeros.
Transfer(Works, Fails) ==
  \/ Works /\ UNCHANGED fails
  \/ Fails /\ MayFail /\ fails' = fails + 1

rest == <<program, written, reader, current_file, ndef_file, history>>

\* MAIN_IRQ is cleared by reading it.
ReadIrq ==
  /\ program = "tag" /\ pc = "irq" /\ flags # {} /\ pc' = "level"
  /\ irq_data_wl' = FALSE
  /\ Transfer(irq' = flags /\ flags' = {}, irq' = {} /\ UNCHANGED flags)
  /\ UNCHANGED <<rest, fifo, level, sending, irq_data_in, rbuf, temp, sbuf, answer, cut>>

\* The level is read when the chip speaks of its FIFO.
ReadLevel ==
  /\ pc = "level" /\ pc' = IF "aux" \in irq THEN "flush" ELSE "take"
  /\ IF "fifo" \in irq
     THEN Transfer(irq_data_wl' = level /\ level' = FALSE, UNCHANGED <<irq_data_wl, level>>)
     ELSE UNCHANGED <<irq_data_wl, level, fails>>
  /\ irq_data_in' = (irq_data_in \/ "start" \in irq)
  /\ UNCHANGED <<rest, fifo, flags, sending, irq, rbuf, temp, sbuf, answer, cut>>

\* A broken frame is thrown away.
Flush ==
  /\ pc = "flush" /\ pc' = "take" /\ Transfer(fifo' = <<>>, UNCHANGED fifo)
  /\ UNCHANGED <<rest, flags, level, sending, recv, sbuf, answer, cut>>

Junk(n) == [i \in 1 .. n |-> <<"junk">>]
\* n bytes out of the FIFO; there may be fewer in it.
fm11_read_fifo(n) ==
  LET m == Min2(n, Len(fifo)) IN
  Transfer(rbuf' = rbuf \o SubSeq(fifo, 1, m) \o Junk(n - m) /\ fifo' = SubSeq(fifo, m + 1, Len(fifo)),
           rbuf' = rbuf \o Junk(n) /\ UNCHANGED fifo)

Take ==
  /\ pc = "take"
  /\ pc' = IF "done" \in irq THEN "count" ELSE "irq"
  /\ irq' = IF "done" \in irq THEN irq ELSE {}
  /\ IF irq_data_in /\ irq_data_wl THEN fm11_read_fifo(TAKEN) ELSE UNCHANGED <<rbuf, fifo, fails>>
  /\ UNCHANGED <<rest, flags, level, sending, irq_data_wl, irq_data_in, temp, sbuf, answer, cut>>

\* Mutant: the frame is taken to be what came up to the level.
CountTaken ==
  /\ pc = "count" /\ pc' = "last" /\ temp' = Min2(Len(fifo), LOW)
  /\ UNCHANGED <<rest, chip, irq, irq_data_wl, irq_data_in, rbuf, sbuf, fails, answer, cut>>
\* FIFO_WORDCNT, when the frame is complete.
Count ==
  /\ pc = "count" /\ pc' = "last"
  /\ Transfer(temp' = Len(fifo), temp' = 0)
  /\ UNCHANGED <<rest, chip, irq, irq_data_wl, irq_data_in, rbuf, sbuf, answer, cut>>

\* The rest of it; what is no longer than its check sum is not answered.
TakeLast ==
  /\ pc = "last" /\ fm11_read_fifo(temp)
  /\ pc' = IF Len(rbuf') > 2 THEN "t4t" ELSE "irq"
  /\ irq' = {} /\ irq_data_in' = FALSE
  /\ UNCHANGED <<rest, flags, level, sending, irq_data_wl, temp, sbuf, answer, cut>>

----------------------------------------------------------------------------
\* The answers: the first byte of the command, the data, the status.
status_ok == << <<"90">>, <<"00">> >>
status_word == << <<"6A">>, <<"82">> >>
status_word2 == << <<"6A">>, <<"00">> >>
File(f, nf, off, len) == [i \in 1 .. len |-> IF f = "cc" THEN <<f, off + i - 1>> ELSE <<f, off + i - 1, nf[off + i - 1]>>]

\* What a command makes of the tag: the answer, how it is sent, the file, the contents.
Done(file, nf, out, whole) == [file |-> file, ndef |-> nf, out |-> out, whole |-> whole]
T4t(n, c, file, nf, buf, unselected) ==
  LET Says(status) == << <<"pcb">> >> \o status IN
  CASE c.ins = "select" /\ c.file \in {"cc", "ndef"} -> Done(c.file, nf, Says(status_ok), TRUE)
    [] c.ins = "select" /\ c.file = "unknown" -> Done(unselected, nf, Says(status_word2), TRUE)
    [] c.ins = "select" /\ c.file = "application" -> Done(file, nf, Says(status_ok), TRUE)
    [] c.ins = "read" /\ file = "none" -> Done(file, nf, Says(status_word), TRUE)
    [] c.ins = "read" /\ file # "none" ->
         Done(file, nf, Says(File(file, nf, c.off, c.len) \o status_ok), file = "cc")
    [] c.ins = "update" ->
         Done(file, [i \in DOMAIN nf |-> IF i \in c.off .. c.off + c.len - 1 THEN n ELSE nf[i]],
                 Says(status_ok), TRUE)
    [] OTHER -> Done(file, nf, SubSeq(buf, 1, Len(buf) - 2), FALSE)
fm11_t4t(n, c, file, nf, buf) == T4t(n, c, file, nf, buf, "none")

\* Into the FIFO goes what there is room for.
Put(seq) == fifo \o SubSeq(seq, 1, Min2(Len(seq), FIFO - Len(fifo)))

\* What a transfer that fails leaves of bytes to be written: a part of the CC file is written
\* in three.
Left(bytes) ==
  LET n == Len(bytes) IN
  {<<>>} \union (IF n < 4 \/ bytes[2][1] # "cc" THEN {}
                 ELSE {Tail(bytes), SubSeq(bytes, 1, n - 2), <<bytes[1], bytes[n - 1], bytes[n]>>})
\* The answer, or as much of it as the FIFO holds, and the register that starts it.
Begin(out, whole) ==
  LET first == IF whole THEN Len(out) ELSE Min2(FIFO, Len(out))
      bytes == SubSeq(out, 1, first)
  IN /\ Transfer(fifo' = Put(bytes) /\ sending' = TRUE,
                 \/ fifo' = Put(bytes) /\ UNCHANGED sending
                 \/ \E left \in Left(bytes) : fifo' = Put(left) /\ sending' = TRUE)
     /\ sbuf' = SubSeq(out, first + 1, Len(out)) /\ pc' = IF sbuf' = <<>> THEN "irq" ELSE "send"

\* The frame is the first command in it that is whole; anything may be read into a garbled one.
Frame(n) == [i \in 1 .. asked[n].bytes |-> <<"in", n, i>>]
Meant ==
  LET heads == {n \in 1 .. Len(asked) : IsPrefix(Frame(n), rbuf)}
  IN IF heads = {} THEN {<<Len(asked), c>> : c \in Command} ELSE {<<n, asked[n]>> : n \in heads}

Answers ==
  /\ pc = "t4t"
  /\ \E m \in Meant : LET t == fm11_t4t(m[1], m[2], current_file, ndef_file, rbuf) IN
       /\ current_file' = t.file /\ ndef_file' = t.ndef /\ answer' = t.out
       /\ Begin(t.out, t.whole)
  /\ rbuf' = <<>>
  /\ UNCHANGED <<program, written, reader, flags, level, irq, irq_data_wl, irq_data_in, temp, history, cut>>

\* The loop of fm11_data_send: a word count that cannot be read is 0.
Refill ==
  /\ pc = "send"
  /\ Transfer(Len(fifo) <= LOW, Len(fifo) > LOW)
  /\ LET n == Min2(FIFO - LOW, Len(sbuf)) IN
       /\ fifo' = Put(SubSeq(sbuf, 1, n)) /\ sbuf' = SubSeq(sbuf, n + 1, Len(sbuf))
  /\ pc' = IF sbuf' = <<>> THEN "irq" ELSE "send"
  /\ UNCHANGED <<rest, flags, level, sending, recv, answer, cut>>

Driver == ReadIrq \/ ReadLevel \/ Flush \/ Take \/ Count \/ TakeLast \/ Answers \/ Refill
Chip == Arrives \/ Drains
Next == Try \/ Asks \/ Chip \/ Driver

\* The task runs, and bytes go over the air while the reader is there.
Spec == Init /\ [][Next]_vars /\ WF_vars(Driver) /\ WF_vars(Chip)

----------------------------------------------------------------------------
\* Types: the FIFO holds no more than it can, and a frame is bytes of the commands.
TypeOK ==
  /\ program \in {"tag", "eep"} /\ Len(asked) <= MaxCommand /\ fails \in 0 .. MaxFail
  /\ Len(fifo) <= FIFO /\ flags \subseteq {"fifo", "aux", "start", "done"} /\ level \in BOOLEAN
  /\ pc \in {"irq", "level", "flush", "take", "count", "last", "t4t", "send", "tried"}
  /\ current_file \in {"none", "cc", "ndef"} /\ ndef_file \in [0 .. NdefSize - 1 -> 0 .. MaxCommand]
  /\ sending \in BOOLEAN /\ cut \in BOOLEAN /\ temp \in 0 .. FIFO

\* The pages of a write make up the range, in order, and none crosses the end of a block (the
\* chip would go on at the beginning of the block).
PagesInBlocks ==
  pc = "tried" /\ written[1] \in USER .. MANUF - 1 =>
    LET pages == written[3]
        Begins(i) == IF i = 1 THEN written[1] ELSE pages[i - 1][1] + pages[i - 1][2]
    IN /\ \A i \in 1 .. Len(pages) :
            /\ pages[i][1] = Begins(i) /\ pages[i][2] > 0
            /\ pages[i][1] \div BLOCK = (pages[i][1] + pages[i][2] - 1) \div BLOCK
       /\ Begins(Len(pages) + 1) = written[1] + written[2]

\* What a tag should answer to the k-th command, from the commands before it.
Writer(k, at) ==
  Latest({i \in 1 .. k - 1 : asked[i].ins = "update" /\ at \in asked[i].off .. asked[i].off + asked[i].len - 1})
Right(k) ==
  LET c == asked[k] IN
  CASE c.ins = "select" -> << <<"pcb">> >> \o (IF c.file = "unknown" THEN status_word2 ELSE status_ok)
    [] c.ins = "read" /\ Selected(k) = "none" -> << <<"pcb">> >> \o status_word
    [] c.ins = "read" /\ Selected(k) # "none" ->
         << <<"pcb">> >> \o [i \in 1 .. c.len |-> IF Selected(k) = "cc" THEN <<"cc", c.off + i - 1>>
                         ELSE <<"ndef", c.off + i - 1, Writer(k, c.off + i - 1)>>] \o status_ok
    [] c.ins = "update" -> << <<"pcb">> >> \o status_ok
    [] OTHER -> [i \in 1 .. c.bytes - 2 |-> <<"in", k, i>>]

Answered == Quiet /\ asked # <<>>
Short == \A k \in 1 .. Len(asked) : asked[k].bytes < LEVEL

\* While nothing fails and the task keeps up with the chip, each short command is answered
\* by what the commands before it have selected and written.
RightAnswer == Answered /\ reliable /\ InStep /\ Short => heard = Right(Len(asked))

\* What goes out is the answer in order, and all of it unless the chip ran empty (the CC file
\* is answered whole, and a reader that has lost a select can ask for too much of it).
SentInOrder ==
  /\ found /\ fails = since
  /\ \A i \in DOMAIN answer : answer[i][1] # "cc"
  => IsPrefix(heard, answer) /\ (Quiet /\ ~cut => heard = answer)

\* Whatever a fault has left in the FIFO, one command without a fault brings reader and tag
\* into step again.
InStepAgain == Answered /\ fails = since /\ ~cut => fifo = <<>> /\ heard # <<>>

\* The loop that refills the FIFO ends, unless the chip ran empty or a transfer failed.
SendEnds == pc = "send" ~> (pc # "send" \/ cut \/ fails > since)

\* Stated but not so: the loop always ends (a chip that has stopped sending keeps more than LOW
\* bytes for ever).
SendEndsAlways == pc = "send" ~> pc # "send"

\* Stated but not so: a long command is read whole (at the level there is one byte less than is
\* taken).
LongRight == Answered /\ reliable /\ InStep => heard = Right(Len(asked))

\* Stated but not so: only the selected file is written.
OnlySelectedWritten == [][ndef_file' # ndef_file => current_file = "ndef"]_vars
=============================================================================
