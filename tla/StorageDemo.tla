------------------------------ MODULE StorageDemo ------------------------------
(***************************************************************************)
(* The programs that keep something over a restart: file_demo/file.c       *)
(* writes a file at one boot and reads and deletes it at the next,         *)
(* kvstore_demo/kvstore.c stores a value once.  The board may be reset     *)
(* between any two calls, and a write may fail or be cut short.            *)
(***************************************************************************)
EXTENDS Integers, Sequences

CONSTANTS
  Data,     \* dataWrite: the network, the separator and the password
  Offset,   \* where the password begins; what is before it but one is the network
  MaxBoot   \* bound: starts of the board

VARIABLES
  program,  \* "file" or "kv"
  pc,       \* the place in entry() or test()
  file,     \* the file, or Absent
  fd,       \* the descriptor: open or not
  position, \* where it reads or writes
  ssid, password,  \* what was read
  value,    \* of the key, or Absent
  boots     \* starts so far

vars == <<program, pc, file, fd, position, ssid, password, value, boots>>
Absent == "absent"

Init ==
  /\ program \in {"file", "kv"} /\ pc = "stat" /\ boots = 1
  /\ file = Absent /\ fd = FALSE /\ position = 0
  /\ ssid = <<>> /\ password = <<>> /\ value = Absent

Goes(from, to) == pc = from /\ pc' = to /\ UNCHANGED <<program, boots>>

\* UtilsFileStat decides: the file is there or not.
UtilsFileStat ==
  /\ program = "file" /\ Goes("stat", IF file = Absent THEN "create" ELSE "open")
  /\ UNCHANGED <<file, fd, position, ssid, password, value>>

\* O_CREAT_FS and O_TRUNC_FS.
Create ==
  /\ Goes("create", "write") /\ file' = <<>> /\ fd' = TRUE /\ position' = 0
  /\ UNCHANGED <<ssid, password, value>>

\* The result of the write is printed: a failure leaves the file as it was, a full storage a
\* part of the data.
Write ==
  /\ Goes("write", "close")
  /\ \E n \in 0 .. Len(Data) :
       file' = SubSeq(file, 1, position) \o SubSeq(Data, 1, n) /\ position' = position + n
  /\ UNCHANGED <<fd, ssid, password, value>>
CloseWritten ==
  /\ Goes("close", "ended") /\ fd' = FALSE
  /\ UNCHANGED <<file, position, ssid, password, value>>

Open ==
  /\ Goes("open", "ssid") /\ fd' = TRUE /\ position' = 0
  /\ UNCHANGED <<file, ssid, password, value>>

\* UtilsFileRead from a position: as many of the bytes as there are.
ReadAt(p, n) == SubSeq(file, p + 1, IF p + n < Len(file) THEN p + n ELSE Len(file))
ReadSsid ==
  /\ Goes("ssid", "password")
  /\ ssid' = ReadAt(0, Offset - 1) /\ position' = Len(ssid')
  /\ UNCHANGED <<file, fd, password, value>>
\* Mutant: the position is not set anew before the password is read.
ReadPasswordOn ==
  /\ Goes("password", "delete")
  /\ password' = ReadAt(position, Len(Data) - Offset) /\ position' = position + Len(password')
  /\ UNCHANGED <<file, fd, ssid, value>>
ReadPassword ==
  /\ Goes("password", "delete")
  /\ password' = ReadAt(Offset, Len(Data) - Offset) /\ position' = Offset + Len(password')
  /\ UNCHANGED <<file, fd, ssid, value>>
\* Closed, and deleted.
Delete ==
  /\ Goes("delete", "ended") /\ fd' = FALSE /\ file' = Absent
  /\ UNCHANGED <<position, ssid, password, value>>

\* UtilsGetValue fails for a key that is not there; then the value is stored.
UtilsGetValue ==
  /\ program = "kv" /\ Goes("stat", IF value = Absent THEN "set" ELSE "ended")
  /\ UNCHANGED <<file, fd, position, ssid, password, value>>
UtilsSetValue ==
  /\ Goes("set", "ended") /\ value' \in {Absent, "OpenHarmony"}
  /\ UNCHANGED <<file, fd, position, ssid, password>>

\* The board is reset anywhere; what it has in memory is gone.
Reset ==
  /\ boots < MaxBoot /\ boots' = boots + 1
  /\ pc' = "stat" /\ fd' = FALSE /\ position' = 0 /\ ssid' = <<>> /\ password' = <<>>
  /\ UNCHANGED <<program, file, value>>

Entry ==
  \/ UtilsFileStat \/ Create \/ Write \/ CloseWritten
  \/ Open \/ ReadSsid \/ ReadPassword \/ Delete \/ UtilsGetValue \/ UtilsSetValue
Next == Entry \/ Reset

(***************************************************************************)
(* Properties.                                                             *)
(***************************************************************************)

Bytes == {Data[i] : i \in DOMAIN Data} \union {0}

\* Types: the storage, the descriptor and what was read.
TypeOK ==
  /\ program \in {"file", "kv"} /\ boots \in 1 .. MaxBoot
  /\ pc \in {"stat", "create", "write", "close", "open", "ssid", "password", "delete", "set", "ended"}
  /\ file = Absent \/ file \in Seq(Bytes)
  /\ fd \in BOOLEAN /\ position \in 0 .. Len(Data) + 1
  /\ ssid \in Seq(Bytes) /\ password \in Seq(Bytes) /\ value \in {Absent, "OpenHarmony"}

\* Whatever resets and failed writes a file has behind it, what is read of it as network and
\* password is a start of what was written as such: the parts are never mixed.
Starts(s, t) == Len(s) <= Len(t) /\ s = SubSeq(t, 1, Len(s))
PartsKept ==
  /\ Starts(ssid, SubSeq(Data, 1, Offset - 1))
  /\ Starts(password, SubSeq(Data, Offset + 1, Len(Data)))

\* What is read is the whole of it.  It is not after a reset between the opening and the
\* writing: the next boot takes the empty file for the one it waited for.
WholeRead == pc = "delete" => Len(password) = Len(Data) - Offset
=============================================================================
