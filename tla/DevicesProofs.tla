---------------------------- MODULE DevicesProofs ----------------------------
(***************************************************************************)
(* Safety of the programs that drive a device or the network, each with    *)
(* the inductive invariant it rests on.                                    *)
(***************************************************************************)
EXTENDS MCDevices, SequenceTheorems, TLAPS

(***************************************************************************)
(* The storage.  Whatever a reset or a full storage has left of it, the    *)
(* file is a start of what is written to it.                               *)
(***************************************************************************)

\* A part of a part, counted from the start of the whole.
LEMMA PartOfPart ==
  ASSUME NEW S, NEW s \in Seq(S), NEW i \in 1 .. Len(s) + 1, NEW j \in i - 1 .. Len(s),
         NEW m \in 1 .. j - i + 2, NEW n \in m - 1 .. j - i + 1
  PROVE  SubSeq(SubSeq(s, i, j), m, n) = SubSeq(s, i + m - 1, i + n - 1)
<1> DEFINE part == SubSeq(s, i, j)
           left == SubSeq(part, m, n)
           right == SubSeq(s, i + m - 1, i + n - 1)
<1>0. Len(s) \in Nat /\ i \in Int /\ j \in Int /\ m \in Int /\ n \in Int
      /\ i + m - 1 \in Int /\ i + n - 1 \in Int
  OBVIOUS
<1>1. \A k \in i .. j : s[k] \in S BY <1>0, ElementOfSeq
<1>2. /\ part \in Seq(S) /\ Len(part) = j - i + 1
      /\ \A k \in 1 .. j - i + 1 : part[k] = s[i + k - 1]
  BY <1>0, <1>1, SubSeqProperties
<1>3. \A k \in m .. n : part[k] \in S BY <1>0, <1>2, ElementOfSeq
<1>4. /\ left \in Seq(S) /\ Len(left) = n - m + 1
      /\ \A k \in 1 .. n - m + 1 : left[k] = part[m + k - 1]
  BY <1>0, <1>3, SubSeqProperties
<1>5. \A k \in i + m - 1 .. i + n - 1 : s[k] \in S BY <1>0, <1>1
<1>6. /\ right \in Seq(S) /\ Len(right) = n - m + 1
      /\ \A k \in 1 .. n - m + 1 : right[k] = s[i + m - 1 + k - 1]
  BY <1>0, <1>5, SubSeqProperties
<1>7. \A k \in 1 .. Len(left) : left[k] = right[k]
  <2>1. TAKE k \in 1 .. Len(left)
  <2>2. m + k - 1 \in 1 .. j - i + 1 /\ k \in 1 .. n - m + 1 BY <1>0, <1>4
  <2>3. left[k] = s[i + (m + k - 1) - 1] BY <1>2, <1>4, <2>2
  <2>4. i + (m + k - 1) - 1 = i + m - 1 + k - 1 BY <1>0, <2>2
  <2> QED BY <1>6, <2>2, <2>3, <2>4
<1>8. Len(left) = Len(right) BY <1>4, <1>6
<1> QED BY <1>4, <1>6, <1>7, <1>8, SeqEqual


\* As much of the data as a write got in.
Written == \E n \in 0 .. Len(Data) : file = SubSeq(Data, 1, n)

StorageInv ==
  /\ Storage!TypeOK /\ Storage!PartsKept
  /\ file = Storage!Absent \/ Written
  /\ storagePc \in {"open", "ssid", "password", "delete"} => Written
  /\ storagePc = "write" => file = <<>> /\ position = 0

\* The parts of the data, as sequences of its bytes.
LEMMA DataParts ==
  ASSUME NEW i \in 1 .. Len(Data) + 1, NEW j \in i - 1 .. Len(Data)
  PROVE  /\ SubSeq(Data, i, j) \in Seq(Storage!Bytes) /\ Len(SubSeq(Data, i, j)) = j - i + 1
         /\ Data \in Seq(Nat) /\ Len(Data) \in Nat
<1>1. Data \in Seq(Nat) /\ Len(Data) \in Nat BY DeviceAssumption DEF DeviceAssumption
<1>2. i \in Int /\ j \in Int BY <1>1
<1>3. DOMAIN Data = 1 .. Len(Data) BY <1>1, LenProperties
<1>4. ASSUME NEW k \in i .. j PROVE Data[k] \in Storage!Bytes
  <2>1. k \in DOMAIN Data BY <1>1, <1>2, <1>3
  <2> QED BY ONLY <2>1 DEF Storage!Bytes
<1> QED BY <1>1, <1>2, <1>4, SubSeqProperties

\* What is read of a start of the data, from a place within it, is a start of what follows.
LEMMA PartRead ==
  ASSUME Written, NEW p \in 0 .. Len(Data), NEW n \in Nat, p + n <= Len(Data)
  PROVE  /\ Storage!ReadAt(p, n) \in Seq(Storage!Bytes)
         /\ Len(Storage!ReadAt(p, n)) \in 0 .. n
         /\ Storage!Starts(Storage!ReadAt(p, n), SubSeq(Data, p + 1, p + n))
<1>1. PICK w \in 0 .. Len(Data) : file = SubSeq(Data, 1, w) BY DEF Written
<1>2. Data \in Seq(Nat) /\ Len(Data) \in Nat BY DeviceAssumption DEF DeviceAssumption
<1>3. Len(file) = w
  <2>1. 1 \in 1 .. Len(Data) + 1 /\ w \in 1 - 1 .. Len(Data) BY <1>2
  <2> QED BY <1>1, <2>1, DataParts
<1> DEFINE e == IF p + n < w THEN p + n ELSE w
           whole == SubSeq(Data, p + 1, p + n)
<1>4. Storage!ReadAt(p, n) = SubSeq(file, p + 1, e) BY <1>3 DEF Storage!ReadAt
<1>5. /\ p + 1 \in 1 .. Len(Data) + 1 /\ p + n \in (p + 1) - 1 .. Len(Data)
      /\ w \in Nat /\ p \in Nat
  BY <1>2
<1>6. whole \in Seq(Storage!Bytes) /\ Len(whole) = n
  <2>1. (p + n) - (p + 1) + 1 = n BY <1>5
  <2> QED BY <1>5, <2>1, DataParts
<1>7. CASE w <= p
  <2>1. e = w /\ e < p + 1 /\ e \in Int /\ p + 1 \in Int BY <1>5, <1>7
  <2>2. Storage!ReadAt(p, n) = <<>> BY <1>4, <2>1, SubSeqEmpty
  <2>3. SubSeq(whole, 1, 0) = <<>>
    <3>1. 1 \in Int /\ 0 \in Int /\ 0 < 1 OBVIOUS
    <3> QED BY <3>1, SubSeqEmpty
  <2>4. Len(<<>>) = 0 /\ <<>> \in Seq(Storage!Bytes) BY EmptySeq
  <2> QED BY <1>6, <2>2, <2>3, <2>4 DEF Storage!Starts
<1>8. CASE p < w
  <2>1. e \in p .. Len(Data) /\ e <= p + n /\ e <= w BY <1>5, <1>8
  <2>2. Storage!ReadAt(p, n) = SubSeq(Data, p + 1, e)
    <3>1. /\ 1 \in 1 .. Len(Data) + 1 /\ w \in 1 - 1 .. Len(Data)
          /\ p + 1 \in 1 .. w - 1 + 2 /\ e \in (p + 1) - 1 .. w - 1 + 1
          /\ 1 + (p + 1) - 1 = p + 1 /\ 1 + e - 1 = e
      BY <1>2, <1>5, <1>8, <2>1
    <3> QED BY <1>1, <1>2, <1>4, <3>1, PartOfPart
  <2>3. /\ Storage!ReadAt(p, n) \in Seq(Storage!Bytes)
        /\ Len(Storage!ReadAt(p, n)) = e - p
    <3>1. e \in (p + 1) - 1 .. Len(Data) /\ e - (p + 1) + 1 = e - p BY <1>5, <2>1
    <3> QED BY <1>5, <2>2, <3>1, DataParts
  <2>4. SubSeq(whole, 1, e - p) = SubSeq(Data, p + 1, e)
    <3>1. /\ 1 \in 1 .. (p + n) - (p + 1) + 2 /\ e - p \in 1 - 1 .. (p + n) - (p + 1) + 1
          /\ (p + 1) + 1 - 1 = p + 1 /\ (p + 1) + (e - p) - 1 = e
      BY <1>5, <2>1
    <3> QED BY <1>2, <1>5, <3>1, PartOfPart
  <2>5. e - p \in 0 .. n BY <1>5, <2>1
  <2> QED BY <1>6, <2>2, <2>3, <2>4, <2>5 DEF Storage!Starts
<1> QED BY <1>5, <1>7, <1>8

LEMMA StorageInit == Storage!Init => StorageInv
<1>1. SUFFICES ASSUME Storage!Init PROVE StorageInv
  OBVIOUS
<1>2. Len(Data) \in Nat /\ Offset \in 1 .. Len(Data) /\ MaxBoot \in Nat \ {0}
  BY DeviceAssumption DEF DeviceAssumption
<1>3. <<>> \in Seq(Storage!Bytes) /\ Len(<<>>) = 0 BY EmptySeq
<1>4. \A t : SubSeq(t, 1, 0) = <<>>
  <2>1. 1 \in Int /\ 0 \in Int /\ 0 < 1 OBVIOUS
  <2> QED BY <2>1, SubSeqEmpty
<1>5. Storage!PartsKept
  <2>1. ssid = <<>> /\ password = <<>> BY <1>1 DEF Storage!Init
  <2>2. Len(SubSeq(Data, 1, Offset - 1)) \in Nat /\ Len(SubSeq(Data, Offset + 1, Len(Data))) \in Nat
    <3>1. /\ 1 \in 1 .. Len(Data) + 1 /\ Offset - 1 \in 1 - 1 .. Len(Data)
          /\ Offset + 1 \in 1 .. Len(Data) + 1 /\ Len(Data) \in (Offset + 1) - 1 .. Len(Data)
          /\ (Offset - 1) - 1 + 1 \in Nat /\ Len(Data) - (Offset + 1) + 1 \in Nat
      BY <1>2
    <3> QED BY <3>1, DataParts
  <2>3. Len(ssid) = 0 /\ Len(password) = 0 BY <1>3, <2>1
  <2>4. \A t : Len(t) \in Nat => Storage!Starts(ssid, t) /\ Storage!Starts(password, t)
    BY <1>4, <2>1, <2>3 DEF Storage!Starts
  <2> QED BY <2>2, <2>4 DEF Storage!PartsKept
<1>6. Storage!TypeOK
  <2>1. ssid \in Seq(Storage!Bytes) /\ password \in Seq(Storage!Bytes) BY <1>1, <1>3 DEF Storage!Init
  <2>2. storageProgram \in {"file", "kv"} /\ boots \in 1 .. MaxBoot /\ storagePc = "stat"
        /\ file = Storage!Absent /\ fd \in BOOLEAN /\ position \in 0 .. Len(Data) + 1
        /\ value = Storage!Absent
    <3>1. 1 \in 1 .. MaxBoot /\ 0 \in 0 .. Len(Data) + 1 BY <1>2
    <3> QED BY <1>1, <3>1 DEF Storage!Init
  <2> QED BY <2>1, <2>2 DEF Storage!TypeOK, Storage!Absent
<1> QED BY <1>1, <1>5, <1>6 DEF StorageInv, Storage!Init

\* A step that leaves what was read keeps the invariant when the file stays a start.
LEMMA StorageFile ==
  ASSUME StorageInv, UNCHANGED <<ssid, password, storageProgram, boots>>,
         storagePc' \in {"stat", "create", "write", "close", "open", "ssid", "password", "delete",
                         "set", "ended"},
         fd' \in BOOLEAN, position' \in 0 .. Len(Data) + 1,
         value' \in {Storage!Absent, "OpenHarmony"},
         file' = Storage!Absent \/ Written',
         storagePc' \in {"open", "ssid", "password", "delete"} => Written',
         storagePc' = "write" => file' = <<>> /\ position' = 0
  PROVE  StorageInv'
<1>1. Storage!PartsKept' BY DEF StorageInv, Storage!PartsKept, Storage!Starts
<1>2. file' = Storage!Absent \/ file' \in Seq(Storage!Bytes)
  <2>1. CASE file' = Storage!Absent BY <2>1
  <2>2. CASE Written'
    <3>1. PICK n \in 0 .. Len(Data) : file' = SubSeq(Data, 1, n) BY <2>2 DEF Written
    <3>2. Len(Data) \in Nat BY DeviceAssumption DEF DeviceAssumption
    <3>3. 1 \in 1 .. Len(Data) + 1 /\ n \in 1 - 1 .. Len(Data) BY <3>2
    <3> QED BY <3>1, <3>3, DataParts
  <2> QED BY <2>1, <2>2
<1>3. Storage!TypeOK' BY <1>2 DEF StorageInv, Storage!TypeOK, Storage!Bytes
<1> QED BY <1>1, <1>3 DEF StorageInv

LEMMA StorageNext == StorageInv /\ Storage!Next => StorageInv'
<1>1. SUFFICES ASSUME StorageInv, Storage!Next PROVE StorageInv'
  OBVIOUS
<1>2. /\ Data \in Seq(Nat) /\ Len(Data) \in Nat /\ Offset \in 1 .. Len(Data)
      /\ MaxBoot \in Nat \ {0}
  BY DeviceAssumption DEF DeviceAssumption
<1>3. /\ fd \in BOOLEAN /\ position \in 0 .. Len(Data) + 1
      /\ value \in {Storage!Absent, "OpenHarmony"} /\ storageProgram \in {"file", "kv"}
      /\ boots \in 1 .. MaxBoot /\ (file = Storage!Absent \/ Written)
  BY <1>1 DEF StorageInv, Storage!TypeOK
<1>4. CASE Storage!UtilsFileStat \/ Storage!UtilsGetValue \/ Storage!UtilsSetValue
  <2>1. /\ UNCHANGED <<file, fd, position, ssid, password, storageProgram, boots>>
        /\ storagePc' \in {"create", "open", "set", "ended"}
        /\ storagePc' = "open" => file # Storage!Absent
        /\ value' \in {value, Storage!Absent, "OpenHarmony"}
    BY <1>4 DEF Storage!UtilsFileStat, Storage!UtilsGetValue, Storage!UtilsSetValue, Storage!Goes
  <2>2. file' = Storage!Absent \/ Written' BY <1>3, <2>1 DEF Written
  <2>3. storagePc' = "open" => Written' BY <1>3, <2>1 DEF Written
  <2> QED BY <1>1, <1>3, <2>1, <2>2, <2>3, StorageFile
<1>5. CASE Storage!Create
  <2>1. /\ UNCHANGED <<ssid, password, value, storageProgram, boots>>
        /\ storagePc' = "write" /\ file' = <<>> /\ fd' = TRUE /\ position' = 0
    BY <1>5 DEF Storage!Create, Storage!Goes
  <2>2. Written'
    <3>1. 0 \in 0 .. Len(Data) /\ 1 \in Int /\ 0 \in Int /\ 0 < 1 BY <1>2
    <3> QED BY <2>1, <3>1, SubSeqEmpty DEF Written
  <2>3. fd' \in BOOLEAN /\ position' \in 0 .. Len(Data) + 1 BY <1>2, <2>1
  <2> QED BY <1>1, <1>3, <2>1, <2>2, <2>3, StorageFile
<1>6. CASE Storage!Write
  <2>1. PICK n \in 0 .. Len(Data) :
          /\ file' = SubSeq(file, 1, position) \o SubSeq(Data, 1, n) /\ position' = position + n
          /\ UNCHANGED <<fd, ssid, password, value, storageProgram, boots>>
          /\ storagePc = "write" /\ storagePc' = "close"
    BY <1>6 DEF Storage!Write, Storage!Goes
  <2>2. position = 0 BY <1>1, <2>1 DEF StorageInv
  <2>3. SubSeq(file, 1, position) = <<>>
    <3>1. 1 \in Int /\ 0 \in Int /\ 0 < 1 OBVIOUS
    <3> QED BY <2>2, <3>1, SubSeqEmpty
  <2>4. SubSeq(Data, 1, n) \in Seq(Storage!Bytes)
    <3>1. 1 \in 1 .. Len(Data) + 1 /\ n \in 1 - 1 .. Len(Data) BY <1>2
    <3> QED BY <3>1, DataParts
  <2>5. file' = SubSeq(Data, 1, n) BY <2>1, <2>3, <2>4, ConcatEmptySeq
  <2>6. Written' BY <2>5 DEF Written
  <2>7. position' \in 0 .. Len(Data) + 1 BY <1>2, <2>1, <2>2
  <2> QED BY <1>1, <1>3, <2>1, <2>6, <2>7, StorageFile
<1>7. CASE Storage!CloseWritten \/ Storage!Open \/ Storage!Delete
  <2>1. /\ UNCHANGED <<ssid, password, value, storageProgram, boots>>
        /\ \/ storagePc' = "ended" /\ file' = file
           \/ storagePc = "open" /\ storagePc' = "ssid" /\ file' = file
           \/ storagePc' = "ended" /\ file' = Storage!Absent
        /\ fd' \in BOOLEAN /\ position' \in {0, position}
    BY <1>7 DEF Storage!CloseWritten, Storage!Open, Storage!Delete, Storage!Goes
  <2>2. file' = Storage!Absent \/ Written' BY <1>3, <2>1 DEF Written
  <2>3. storagePc' = "ssid" => Written' BY <1>1, <2>1 DEF StorageInv, Written
  <2>4. position' \in 0 .. Len(Data) + 1 BY <1>2, <1>3, <2>1
  <2> QED BY <1>1, <1>3, <2>1, <2>2, <2>3, <2>4, StorageFile
<1>8. CASE Storage!ReadSsid
  <2>1. /\ storagePc = "ssid" /\ storagePc' = "password"
        /\ ssid' = Storage!ReadAt(0, Offset - 1) /\ position' = Len(ssid')
        /\ UNCHANGED <<file, fd, password, value, storageProgram, boots>>
    BY <1>8 DEF Storage!ReadSsid, Storage!Goes
  <2>2. Written BY <1>1, <2>1 DEF StorageInv
  <2>3. /\ ssid' \in Seq(Storage!Bytes) /\ Len(ssid') \in 0 .. Offset - 1
        /\ Storage!Starts(ssid', SubSeq(Data, 1, Offset - 1))
    <3>1. 0 \in 0 .. Len(Data) /\ Offset - 1 \in Nat /\ 0 + (Offset - 1) <= Len(Data)
          /\ 0 + 1 = 1 /\ 0 + (Offset - 1) = Offset - 1
      BY <1>2
    <3> QED BY <2>1, <2>2, <3>1, PartRead
  <2>4. position' \in 0 .. Len(Data) + 1 BY <1>2, <2>1, <2>3
  <2>5. Storage!PartsKept' BY <1>1, <2>1, <2>3 DEF StorageInv, Storage!PartsKept, Storage!Starts
  <2>6. Storage!TypeOK' BY <1>1, <2>1, <2>3, <2>4 DEF StorageInv, Storage!TypeOK, Storage!Bytes
  <2>7. Written' BY <2>1, <2>2 DEF Written
  <2> QED BY <2>1, <2>5, <2>6, <2>7 DEF StorageInv
<1>9. CASE Storage!ReadPassword
  <2>1. /\ storagePc = "password" /\ storagePc' = "delete"
        /\ password' = Storage!ReadAt(Offset, Len(Data) - Offset)
        /\ position' = Offset + Len(password')
        /\ UNCHANGED <<file, fd, ssid, value, storageProgram, boots>>
    BY <1>9 DEF Storage!ReadPassword, Storage!Goes
  <2>2. Written BY <1>1, <2>1 DEF StorageInv
  <2>3. /\ password' \in Seq(Storage!Bytes) /\ Len(password') \in 0 .. Len(Data) - Offset
        /\ Storage!Starts(password', SubSeq(Data, Offset + 1, Len(Data)))
    <3>1. Offset \in 0 .. Len(Data) /\ Len(Data) - Offset \in Nat
          /\ Offset + (Len(Data) - Offset) = Len(Data) /\ Len(Data) <= Len(Data)
      BY <1>2
    <3> QED BY <2>1, <2>2, <3>1, PartRead
  <2>4. position' \in 0 .. Len(Data) + 1 BY <1>2, <2>1, <2>3
  <2>5. Storage!PartsKept' BY <1>1, <2>1, <2>3 DEF StorageInv, Storage!PartsKept, Storage!Starts
  <2>6. Storage!TypeOK' BY <1>1, <2>1, <2>3, <2>4 DEF StorageInv, Storage!TypeOK, Storage!Bytes
  <2>7. Written' BY <2>1, <2>2 DEF Written
  <2> QED BY <2>1, <2>5, <2>6, <2>7 DEF StorageInv
<1>10. CASE Storage!Reset
  <2>1. /\ storagePc' = "stat" /\ fd' = FALSE /\ position' = 0 /\ ssid' = <<>> /\ password' = <<>>
        /\ boots' = boots + 1 /\ boots < MaxBoot
        /\ UNCHANGED <<storageProgram, file, value>>
    BY <1>10 DEF Storage!Reset
  <2>2. <<>> \in Seq(Storage!Bytes) /\ Len(<<>>) = 0 BY EmptySeq
  <2>3. Storage!PartsKept'
    <3>1. \A t : SubSeq(t, 1, 0) = <<>>
      <4>1. 1 \in Int /\ 0 \in Int /\ 0 < 1 OBVIOUS
      <4> QED BY <4>1, SubSeqEmpty
    <3>2. Len(ssid') = 0 /\ Len(password') = 0 BY <2>1, <2>2
    <3>3. Len(SubSeq(Data, 1, Offset - 1)) \in Nat /\ Len(SubSeq(Data, Offset + 1, Len(Data))) \in Nat
      <4>1. /\ 1 \in 1 .. Len(Data) + 1 /\ Offset - 1 \in 1 - 1 .. Len(Data)
            /\ Offset + 1 \in 1 .. Len(Data) + 1 /\ Len(Data) \in (Offset + 1) - 1 .. Len(Data)
            /\ (Offset - 1) - 1 + 1 \in Nat /\ Len(Data) - (Offset + 1) + 1 \in Nat
        BY <1>2
      <4> QED BY <4>1, DataParts
    <3>4. \A t : Len(t) \in Nat => Storage!Starts(ssid', t) /\ Storage!Starts(password', t)
      BY <2>1, <3>1, <3>2 DEF Storage!Starts
    <3> QED BY <3>3, <3>4 DEF Storage!PartsKept, Storage!Starts
  <2>4. boots' \in 1 .. MaxBoot /\ position' \in 0 .. Len(Data) + 1
    <3>1. boots' \in 1 .. MaxBoot BY <1>2, <1>3, <2>1
    <3>2. position' \in 0 .. Len(Data) + 1 BY <1>2, <2>1
    <3> QED BY <3>1, <3>2
  <2>5. ssid' \in Seq(Storage!Bytes) /\ password' \in Seq(Storage!Bytes) BY <2>1, <2>2
  <2>6. Storage!TypeOK' BY <1>1, <2>1, <2>4, <2>5 DEF StorageInv, Storage!TypeOK, Storage!Bytes
  <2>7. file' = Storage!Absent \/ Written' BY <1>3, <2>1 DEF Written
  <2> QED BY <2>1, <2>3, <2>6, <2>7 DEF StorageInv
<1> QED BY <1>1, <1>4, <1>5, <1>6, <1>7, <1>8, <1>9, <1>10 DEF Storage!Next, Storage!Entry

LEMMA StorageAlways == BoardSpec => []StorageInv
<1>1. BoardInit => StorageInv BY StorageInit DEF BoardInit
<1>2. StorageInv /\ [BoardNext]_boardVars => StorageInv'
  <2>1. SUFFICES ASSUME StorageInv, [BoardNext]_boardVars PROVE StorageInv'
    OBVIOUS
  <2>2. CASE StorageStep BY <2>1, <2>2, StorageNext DEF StorageStep
  <2>3. CASE UNCHANGED storageVars
    BY <2>1, <2>3 DEF storageVars, StorageInv, Storage!TypeOK, Storage!PartsKept, Storage!Starts,
      Storage!Bytes, Written
  <2>4. StorageStep \/ UNCHANGED storageVars
    BY <2>1 DEF BoardNext, PwmStep, ButtonStep, SensorStep, AhtStep, SocketStep, WifiStep,
      DisplayStep, OledStep, NfcStep, ApplicationStep, boardVars
  <2> QED BY <2>2, <2>3, <2>4
<1> QED BY <1>1, <1>2, PTL DEF BoardSpec

\* For any data and any place of the separator, wherever resets fall and however much of the
\* data a write gets in: what is read as network and password is a start of each.
THEOREM StoredWholeAlways == BoardSpec => []StoredWhole
<1>1. StorageInv => StoredWhole BY DEF StorageInv, StoredWhole
<1> QED BY <1>1, StorageAlways, PTL

(***************************************************************************)
(* The sockets.  A server sends once, what it received without the zero,   *)
(* and what is under way to the client is part of that; who has closed or  *)
(* never opened a socket is known by its place.                            *)
(***************************************************************************)

SocketTask ==
  [pc : Socket!Pcs, netId : BOOLEAN, wifi : BOOLEAN, link : BOOLEAN,
   got : 0 .. Request, sent : 0 .. Request]

SocketInv ==
  /\ proto \in {"tcp", "udp"} /\ client \in SocketTask /\ server \in SocketTask
  /\ sockfd \in [client : BOOLEAN, server : BOOLEAN, conn : BOOLEAN]
  /\ port \in {"none", "bound", "listen"} /\ conn \in {"none", "queued", "open", "shut", "reset"}
  /\ up \in 0 .. Request /\ down \in 0 .. Request
  /\ client.got <= server.sent /\ down <= server.sent
  /\ server.sent <= server.got /\ server.sent < Request
  /\ server.pc \in {"delay", "join", "bind", "listen", "accept", "recv", "send"} => server.sent = 0
  /\ client.pc \in {"delay", "join", "leave", "ended"} => sockfd.client = FALSE
  /\ client.pc = "ended" /\ client.netId => client.link = FALSE /\ client.wifi = FALSE
  /\ server.pc \in {"delay", "join", "leave", "ended"} => sockfd.server = FALSE
  /\ server.pc = "ended" /\ server.netId => server.link = FALSE /\ server.wifi = FALSE
  /\ server.pc \in {"listen", "accept", "disconnect"} => proto = "tcp"
  /\ sockfd.conn = TRUE => server.pc \in {"recv", "send", "disconnect"} /\ proto = "tcp"

LEMMA SocketInit == Socket!Init => SocketInv
<1>1. SUFFICES ASSUME Socket!Init PROVE SocketInv
  OBVIOUS
<1>2. Request \in Nat /\ Request > 1 BY DeviceAssumption DEF DeviceAssumption
<1>3. /\ client = [pc |-> "delay", netId |-> FALSE, wifi |-> FALSE, link |-> FALSE, got |-> 0, sent |-> 0]
      /\ server = [pc |-> "delay", netId |-> FALSE, wifi |-> FALSE, link |-> FALSE, got |-> 0, sent |-> 0]
      /\ sockfd = [client |-> FALSE, server |-> FALSE, conn |-> FALSE]
      /\ proto \in {"tcp", "udp"} /\ port = "none" /\ conn = "none" /\ up = 0 /\ down = 0
  BY <1>1 DEF Socket!Init, Socket!Task
<1>4. 0 \in 0 .. Request BY <1>2
<1>5. client \in SocketTask /\ server \in SocketTask
  BY <1>3, <1>4 DEF SocketTask, Socket!Pcs
<1>6. sockfd \in [client : BOOLEAN, server : BOOLEAN, conn : BOOLEAN] BY <1>3
<1> QED BY <1>2, <1>3, <1>4, <1>5, <1>6 DEF SocketInv

\* The steps of the client leave the server alone but for what is under way to it.
LEMMA SocketClient == SocketInv /\ Socket!Client => SocketInv'
<1>1. SUFFICES ASSUME SocketInv, Socket!Client PROVE SocketInv'
  OBVIOUS
<1>2. Request \in Nat /\ Request > 1 BY DeviceAssumption DEF DeviceAssumption
<1>3. /\ client \in SocketTask /\ server \in SocketTask
      /\ sockfd \in [client : BOOLEAN, server : BOOLEAN, conn : BOOLEAN]
      /\ client.got \in Nat /\ server.sent \in Nat /\ server.got \in Nat
      /\ down \in 0 .. Request /\ up \in 0 .. Request /\ Request \in 0 .. Request
  BY <1>1, <1>2 DEF SocketInv, SocketTask
<1> USE <1>2 DEF SocketInv
<1>4. CASE Socket!ClientJoins
  <2>1. ASSUME ~client.netId, client.pc = "join", client' = [client EXCEPT !.pc = "ended"],
               UNCHANGED sockfd
        PROVE  SocketInv'
    <3>1. /\ client' \in SocketTask /\ client'.pc = "ended"
          /\ client'.netId = FALSE /\ client'.got = client.got
      BY <1>3, <2>1 DEF SocketTask, Socket!Pcs
    <3> QED BY <1>1, <1>3, <1>4, <2>1, <3>1 DEF Socket!ClientJoins
  <2>2. ASSUME client.pc = "join", NEW to \in {"connect", "send"},
               client' = [client EXCEPT !.pc = to], sockfd' = [sockfd EXCEPT !.client = TRUE]
        PROVE  SocketInv'
    <3>1. client' \in SocketTask /\ client'.pc = to /\ client'.got = client.got
      BY <1>3, <2>2 DEF SocketTask, Socket!Pcs
    <3>2. /\ sockfd' \in [client : BOOLEAN, server : BOOLEAN, conn : BOOLEAN]
          /\ sockfd'.server = sockfd.server /\ sockfd'.conn = sockfd.conn
      BY <1>3, <2>2
    <3>3. UNCHANGED <<proto, server, port, conn, up, down>> BY <1>4 DEF Socket!ClientJoins
    <3> QED BY <1>1, <1>3, <2>2, <3>1, <3>2, <3>3
  <2> QED BY <1>4, <2>1, <2>2 DEF Socket!ClientJoins, Socket!ClientGoes
<1>5. CASE Socket!ClientConnects
  BY <1>1, <1>3, <1>5 DEF Socket!ClientConnects, Socket!ClientGoes, SocketTask, Socket!Pcs
<1>6. CASE Socket!ClientSends
  <2>1. ASSUME client.pc = "send", client' = [client EXCEPT !.pc = "cleanup"], UNCHANGED up
       PROVE  SocketInv'
    <3>1. client' \in SocketTask /\ client'.pc = "cleanup" /\ client'.got = client.got
      BY <1>3, <2>1 DEF SocketTask, Socket!Pcs
    <3> QED BY <1>1, <1>3, <1>6, <2>1, <3>1 DEF Socket!ClientSends
  <2>2. ASSUME client.pc = "send", up' = Request,
              client' = [client EXCEPT !.pc = "recv", !.sent = Request]
       PROVE  SocketInv'
    <3>1. client' \in SocketTask /\ client'.pc = "recv" /\ client'.got = client.got
      BY <1>3, <2>2 DEF SocketTask, Socket!Pcs
    <3> QED BY <1>1, <1>3, <1>6, <2>2, <3>1 DEF Socket!ClientSends
  <2> QED BY <1>6, <2>1, <2>2 DEF Socket!ClientSends, Socket!ClientGoes, Socket!ServerGoes
<1>7. CASE Socket!ClientReceives
  <2>1. ASSUME client.pc = "recv", NEW n \in 1 .. down,
              client' = [client EXCEPT !.pc = "cleanup", !.got = n], down' = down - n
       PROVE  SocketInv'
    <3>n. n \in 0 .. Request /\ n <= down /\ down - n \in 0 .. Request /\ down - n <= down
      BY <1>3
    <3>1. client' \in SocketTask /\ client'.pc = "cleanup" /\ client'.got = n
      BY <1>3, <2>1, <3>n DEF SocketTask, Socket!Pcs
    <3>2. UNCHANGED <<proto, server, sockfd, port, conn, up>> BY <1>7 DEF Socket!ClientReceives
    <3>3. n <= server.sent /\ down - n <= server.sent BY <1>1, <1>3, <3>n
    <3> QED BY <1>1, <1>3, <2>1, <3>n, <3>1, <3>2, <3>3
  <2>2. ASSUME client.pc = "recv", client' = [client EXCEPT !.pc = "cleanup"], UNCHANGED down
       PROVE  SocketInv'
    <3>1. client' \in SocketTask /\ client'.pc = "cleanup" /\ client'.got = client.got
      BY <1>3, <2>2 DEF SocketTask, Socket!Pcs
    <3> QED BY <1>1, <1>3, <1>7, <2>2, <3>1 DEF Socket!ClientReceives
  <2> QED BY <1>7, <2>1, <2>2 DEF Socket!ClientReceives, Socket!ClientGoes, Socket!ServerGoes
<1>8. CASE Socket!UdpClientSends
  <2>1. ASSUME client.pc = "send", client' = [client EXCEPT !.pc = "cleanup"], UNCHANGED up
       PROVE  SocketInv'
    <3>1. client' \in SocketTask /\ client'.pc = "cleanup" /\ client'.got = client.got
      BY <1>3, <2>1 DEF SocketTask, Socket!Pcs
    <3> QED BY <1>1, <1>3, <1>8, <2>1, <3>1 DEF Socket!UdpClientSends
  <2>2. ASSUME client.pc = "send", up' \in {0, Request},
              client' = [client EXCEPT !.pc = "recv", !.sent = Request]
       PROVE  SocketInv'
    <3>1. client' \in SocketTask /\ client'.pc = "recv" /\ client'.got = client.got
      BY <1>3, <2>2 DEF SocketTask, Socket!Pcs
    <3> QED BY <1>1, <1>3, <1>8, <2>2, <3>1 DEF Socket!UdpClientSends
  <2> QED BY <1>8, <2>1, <2>2 DEF Socket!UdpClientSends, Socket!ClientGoes, Socket!ServerGoes
<1>9. CASE Socket!UdpClientReceives
  <2>1. ASSUME client.pc = "recv", client' = [client EXCEPT !.pc = "cleanup", !.got = down], down' = 0
       PROVE  SocketInv'
    <3>1. client' \in SocketTask /\ client'.pc = "cleanup" /\ client'.got = down
      BY <1>3, <2>1 DEF SocketTask, Socket!Pcs
    <3> QED BY <1>1, <1>3, <1>9, <2>1, <3>1 DEF Socket!UdpClientReceives
  <2> QED BY <1>9, <2>1 DEF Socket!UdpClientReceives, Socket!ClientGoes, Socket!ServerGoes
<1>10. CASE Socket!ClientCleanup
  <2>1. /\ client' = [client EXCEPT !.pc = "leave"] /\ sockfd' = [sockfd EXCEPT !.client = FALSE]
        /\ conn' \in {"shut", conn} /\ UNCHANGED <<proto, server, port, up, down>>
    BY <1>10 DEF Socket!ClientCleanup, Socket!ClientGoes
  <2>2. client' \in SocketTask /\ client'.pc = "leave" /\ client'.got = client.got
    BY <1>3, <2>1 DEF SocketTask, Socket!Pcs
  <2>3. /\ sockfd' \in [client : BOOLEAN, server : BOOLEAN, conn : BOOLEAN] /\ sockfd'.client = FALSE
        /\ sockfd'.server = sockfd.server /\ sockfd'.conn = sockfd.conn
    BY <1>3, <2>1
  <2>4. conn' \in {"none", "queued", "open", "shut", "reset"} BY <1>1, <2>1
  <2> QED BY <1>1, <1>3, <2>1, <2>2, <2>3, <2>4
<1>11. CASE Socket!ClientLeaves
  <2>1. /\ client' = [client EXCEPT !.pc = "ended", !.wifi = FALSE, !.link = FALSE]
        /\ client.pc = "leave" /\ UNCHANGED <<proto, server, sockfd, port, conn, up, down>>
    BY <1>11 DEF Socket!ClientLeaves
  <2>2. /\ client' \in SocketTask /\ client'.pc = "ended" /\ client'.got = client.got
        /\ client'.link = FALSE /\ client'.wifi = FALSE
    BY <1>3, <2>1 DEF SocketTask, Socket!Pcs
  <2> QED BY <1>1, <1>3, <2>1, <2>2
<1>12. CASE Socket!ClientAsks
  <2>1. client.pc = "delay" /\ UNCHANGED <<proto, server, sockfd, port, conn, up, down>>
    BY <1>12 DEF Socket!ClientAsks
  <2>2. PICK w \in BOOLEAN, n \in BOOLEAN :
          client' = [client EXCEPT !.pc = "join", !.wifi = w, !.netId = n]
    BY <1>12 DEF Socket!ClientAsks, Socket!Asked
  <2>3. client' \in SocketTask /\ client'.pc = "join" /\ client'.got = client.got
    BY <1>3, <2>2 DEF SocketTask, Socket!Pcs
  <2> QED BY <1>1, <1>3, <2>1, <2>3
<1> QED
  BY <1>1, <1>4, <1>5, <1>6, <1>7, <1>8, <1>9, <1>10, <1>11, <1>12
  DEF Socket!Client, Socket!TcpClientTest, Socket!UdpClientTest

\* The link of a station that waits for it comes and goes.
LEMMA SocketHotspot == SocketInv /\ Socket!Hotspot => SocketInv'
<1>1. SUFFICES ASSUME SocketInv, Socket!Hotspot PROVE SocketInv'
  OBVIOUS
<1>2. UNCHANGED <<proto, sockfd, port, conn, up, down>> BY <1>1 DEF Socket!Hotspot
<1> USE DEF SocketInv
<1>3. CASE Socket!Linked(client, client') /\ UNCHANGED server
  <2>1. client.pc = "join" /\ client' = [client EXCEPT !.link = ~client.link] BY <1>3 DEF Socket!Linked
  <2>2. client' \in SocketTask /\ client'.pc = "join" /\ client'.got = client.got
    BY <1>1, <2>1 DEF SocketTask
  <2> QED BY <1>1, <1>2, <1>3, <2>1, <2>2
<1>4. CASE Socket!Linked(server, server') /\ UNCHANGED client
  <2>1. server.pc = "join" /\ server' = [server EXCEPT !.link = ~server.link] BY <1>4 DEF Socket!Linked
  <2>2. /\ server' \in SocketTask /\ server'.pc = "join"
        /\ server'.got = server.got /\ server'.sent = server.sent
    BY <1>1, <2>1 DEF SocketTask
  <2> QED BY <1>1, <1>2, <1>4, <2>1, <2>2
<1> QED BY <1>1, <1>3, <1>4 DEF Socket!Hotspot

LEMMA SocketServer == SocketInv /\ Socket!Server => SocketInv'
<1>1. SUFFICES ASSUME SocketInv, Socket!Server PROVE SocketInv'
  OBVIOUS
<1>2. Request \in Nat /\ Request > 1 BY DeviceAssumption DEF DeviceAssumption
<1>3. /\ client \in SocketTask /\ server \in SocketTask
      /\ sockfd \in [client : BOOLEAN, server : BOOLEAN, conn : BOOLEAN]
      /\ client.got \in Nat /\ server.sent \in Nat /\ server.got \in 0 .. Request
      /\ down \in 0 .. Request /\ up \in 0 .. Request /\ Request \in 0 .. Request
  BY <1>1, <1>2 DEF SocketInv, SocketTask
<1>e. ASSUME NEW n \in 0 .. Request
      PROVE  Socket!Echo(n) \in 0 .. Request /\ Socket!Echo(n) <= n /\ Socket!Echo(n) < Request
  BY <1>2 DEF Socket!Echo
<1> USE <1>2 DEF SocketInv
<1>4. CASE Socket!ServerJoins
  <2>1. ASSUME ~server.netId, server.pc = "join", server' = [server EXCEPT !.pc = "ended"],
               UNCHANGED sockfd
        PROVE  SocketInv'
    <3>1. /\ server' \in SocketTask /\ server'.pc = "ended"
          /\ server'.netId = FALSE /\ server'.got = server.got /\ server'.sent = server.sent
      BY <1>3, <2>1 DEF SocketTask, Socket!Pcs
    <3> QED BY <1>1, <1>3, <1>4, <2>1, <3>1 DEF Socket!ServerJoins
  <2>2. ASSUME server.pc = "join", server' = [server EXCEPT !.pc = "bind"],
               sockfd' = [sockfd EXCEPT !.server = TRUE]
        PROVE  SocketInv'
    <3>1. /\ server' \in SocketTask /\ server'.pc = "bind"
          /\ server'.got = server.got /\ server'.sent = server.sent
      BY <1>3, <2>2 DEF SocketTask, Socket!Pcs
    <3> QED BY <1>1, <1>3, <1>4, <2>2, <3>1 DEF Socket!ServerJoins
  <2> QED BY <1>4, <2>1, <2>2 DEF Socket!ServerJoins, Socket!ServerGoes
<1>5. CASE Socket!ServerBinds
  BY <1>1, <1>3, <1>5 DEF Socket!ServerBinds, Socket!ServerGoes, SocketTask, Socket!Pcs
<1>6. CASE Socket!UdpServerBinds
  BY <1>1, <1>3, <1>6 DEF Socket!UdpServerBinds, Socket!ServerGoes, SocketTask, Socket!Pcs
<1>7. CASE Socket!ServerAccepts
  <2>1. ASSUME server.pc = "accept", server' = [server EXCEPT !.pc = "cleanup"],
              UNCHANGED <<sockfd, conn>>
       PROVE  SocketInv'
    <3>1. /\ server' \in SocketTask /\ server'.pc = "cleanup"
          /\ server'.got = server.got /\ server'.sent = server.sent
      BY <1>3, <2>1 DEF SocketTask, Socket!Pcs
    <3> QED BY <1>1, <1>3, <1>7, <2>1, <3>1 DEF Socket!ServerAccepts
  <2>2. ASSUME server.pc = "accept", server' = [server EXCEPT !.pc = "recv"],
              conn' \in {"open", "shut"}, sockfd' = [sockfd EXCEPT !.conn = TRUE]
       PROVE  SocketInv'
    <3>1. /\ server' \in SocketTask /\ server'.pc = "recv"
          /\ server'.got = server.got /\ server'.sent = server.sent
      BY <1>3, <2>2 DEF SocketTask, Socket!Pcs
    <3> QED BY <1>1, <1>3, <1>7, <2>2, <3>1 DEF Socket!ServerAccepts
  <2> QED BY <1>7, <2>1, <2>2 DEF Socket!ServerAccepts, Socket!ClientGoes, Socket!ServerGoes
<1>8. CASE Socket!ServerReceives
  <2>1. ASSUME server.pc = "recv", NEW n \in 1 .. up,
              server' = [server EXCEPT !.pc = "send", !.got = n], up' = up - n
       PROVE  SocketInv'
    <3>n. n \in 0 .. Request /\ up - n \in 0 .. Request
      BY <1>3
    <3>1. /\ server' \in SocketTask /\ server'.pc = "send"
          /\ server'.got = n /\ server'.sent = server.sent
      BY <1>3, <2>1, <3>n DEF SocketTask, Socket!Pcs
    <3>2. UNCHANGED <<proto, client, sockfd, port, conn, down>> BY <1>8 DEF Socket!ServerReceives
    <3>3. server.sent = 0 BY <1>1, <2>1
    <3> QED BY <1>1, <1>3, <2>1, <3>n, <3>1, <3>2, <3>3
  <2>2. ASSUME server.pc = "recv", server' = [server EXCEPT !.pc = "disconnect"], UNCHANGED up
       PROVE  SocketInv'
    <3>1. /\ server' \in SocketTask /\ server'.pc = "disconnect"
          /\ server'.got = server.got /\ server'.sent = server.sent
      BY <1>3, <2>2 DEF SocketTask, Socket!Pcs
    <3> QED BY <1>1, <1>3, <1>8, <2>2, <3>1 DEF Socket!ServerReceives
  <2> QED BY <1>8, <2>1, <2>2 DEF Socket!ServerReceives, Socket!ClientGoes, Socket!ServerGoes
<1>9. CASE Socket!UdpServerReceives
  <2>1. ASSUME server.pc = "recv", server' = [server EXCEPT !.pc = "send", !.got = up], up' = 0
       PROVE  SocketInv'
    <3>1. /\ server' \in SocketTask /\ server'.pc = "send"
          /\ server'.got = up /\ server'.sent = server.sent
      BY <1>3, <2>1 DEF SocketTask, Socket!Pcs
    <3> QED BY <1>1, <1>3, <1>9, <2>1, <3>1 DEF Socket!UdpServerReceives
  <2>2. ASSUME server.pc = "recv", server' = [server EXCEPT !.pc = "cleanup"], UNCHANGED up
       PROVE  SocketInv'
    <3>1. /\ server' \in SocketTask /\ server'.pc = "cleanup"
          /\ server'.got = server.got /\ server'.sent = server.sent
      BY <1>3, <2>2 DEF SocketTask, Socket!Pcs
    <3> QED BY <1>1, <1>3, <1>9, <2>2, <3>1 DEF Socket!UdpServerReceives
  <2> QED BY <1>9, <2>1, <2>2 DEF Socket!UdpServerReceives, Socket!ClientGoes, Socket!ServerGoes
<1>10. CASE Socket!ServerSends
  <2>e. /\ Socket!Echo(server.got) \in 0 .. Request
        /\ Socket!Echo(server.got) <= server.got /\ Socket!Echo(server.got) < Request
    BY <1>3, <1>e
  <2>1. ASSUME server.pc = "send", server' = [server EXCEPT !.pc = "disconnect"], UNCHANGED down
       PROVE  SocketInv'
    <3>1. /\ server' \in SocketTask /\ server'.pc = "disconnect"
          /\ server'.got = server.got /\ server'.sent = server.sent
      BY <1>3, <2>1, <2>e DEF SocketTask, Socket!Pcs
    <3> QED BY <1>1, <1>3, <1>10, <2>1, <3>1, <2>e DEF Socket!ServerSends
  <2>2. ASSUME server.pc = "send", down' \in {0, Socket!Echo(server.got)},
              server' = [server EXCEPT !.pc = "disconnect", !.sent = Socket!Echo(server.got)]
       PROVE  SocketInv'
    <3>1. /\ server' \in SocketTask /\ server'.pc = "disconnect"

                       /\ server'.sent = Socket!Echo(server.got) /\ server'.got = server.got
      BY <1>3, <2>2, <2>e DEF SocketTask, Socket!Pcs
    <3> QED BY <1>1, <1>3, <1>10, <2>2, <3>1, <2>e DEF Socket!ServerSends
  <2> QED BY <1>10, <2>1, <2>2 DEF Socket!ServerSends, Socket!ClientGoes, Socket!ServerGoes
<1>11. CASE Socket!UdpServerSends
  <2>e. /\ Socket!Echo(server.got) \in 0 .. Request
        /\ Socket!Echo(server.got) <= server.got /\ Socket!Echo(server.got) < Request
    BY <1>3, <1>e
  <2>1. ASSUME server.pc = "send", server' = [server EXCEPT !.pc = "cleanup"], UNCHANGED down
       PROVE  SocketInv'
    <3>1. /\ server' \in SocketTask /\ server'.pc = "cleanup"
          /\ server'.got = server.got /\ server'.sent = server.sent
      BY <1>3, <2>1, <2>e DEF SocketTask, Socket!Pcs
    <3> QED BY <1>1, <1>3, <1>11, <2>1, <3>1, <2>e DEF Socket!UdpServerSends
  <2>2. ASSUME server.pc = "send", down' \in {0, Socket!Echo(server.got)},
              server' = [server EXCEPT !.pc = "cleanup", !.sent = Socket!Echo(server.got)]
       PROVE  SocketInv'
    <3>1. /\ server' \in SocketTask /\ server'.pc = "cleanup"

                       /\ server'.sent = Socket!Echo(server.got) /\ server'.got = server.got
      BY <1>3, <2>2, <2>e DEF SocketTask, Socket!Pcs
    <3> QED BY <1>1, <1>3, <1>11, <2>2, <3>1, <2>e DEF Socket!UdpServerSends
  <2> QED BY <1>11, <2>1, <2>2 DEF Socket!UdpServerSends, Socket!ClientGoes, Socket!ServerGoes
<1>12. CASE Socket!ServerDisconnects
  <2>1. ASSUME server.pc = "disconnect", server' = [server EXCEPT !.pc = "cleanup"],
              sockfd' = [sockfd EXCEPT !.conn = FALSE], conn' \in {"reset", "shut"}, down' \in {0,
              down}, up' = 0
       PROVE  SocketInv'
    <3>1. /\ server' \in SocketTask /\ server'.pc = "cleanup"
          /\ server'.got = server.got /\ server'.sent = server.sent
      BY <1>3, <2>1 DEF SocketTask, Socket!Pcs
    <3>2. /\ sockfd' \in [client : BOOLEAN, server : BOOLEAN, conn : BOOLEAN] /\ sockfd'.conn = FALSE
          /\ sockfd'.client = sockfd.client /\ sockfd'.server = sockfd.server
      BY <1>3, <2>1
    <3>3. conn' \in {"none", "queued", "open", "shut", "reset"} /\ up' \in 0 .. Request
          /\ down' \in 0 .. Request /\ down' <= down /\ UNCHANGED <<proto, client, port>>
      BY <1>3, <1>12, <2>1 DEF Socket!ServerDisconnects
    <3> QED BY <1>1, <1>3, <3>1, <3>2, <3>3
  <2> QED BY <1>12, <2>1 DEF Socket!ServerDisconnects, Socket!ClientGoes, Socket!ServerGoes
<1>13. CASE Socket!ServerCleanup
  <2>1. ASSUME server.pc = "cleanup", server' = [server EXCEPT !.pc = "leave"], up' \in {0, up},
              sockfd' = [sockfd EXCEPT !.server = FALSE], port' = "none", conn' \in {"reset", conn}
       PROVE  SocketInv'
    <3>1. /\ server' \in SocketTask /\ server'.pc = "leave"
          /\ server'.got = server.got /\ server'.sent = server.sent
      BY <1>3, <2>1 DEF SocketTask, Socket!Pcs
    <3>2. /\ sockfd' \in [client : BOOLEAN, server : BOOLEAN, conn : BOOLEAN] /\ sockfd'.server = FALSE
          /\ sockfd'.client = sockfd.client /\ sockfd'.conn = sockfd.conn /\ sockfd.conn = FALSE
      BY <1>1, <1>3, <2>1
    <3>3. conn' \in {"none", "queued", "open", "shut", "reset"} /\ up' \in 0 .. Request
          /\ port' \in {"none", "bound", "listen"} /\ UNCHANGED <<proto, client, down>>
      BY <1>1, <1>3, <1>13, <2>1 DEF Socket!ServerCleanup
    <3> QED BY <1>1, <1>3, <2>1, <3>1, <3>2, <3>3
  <2> QED BY <1>13, <2>1 DEF Socket!ServerCleanup, Socket!ClientGoes, Socket!ServerGoes
<1>14. CASE Socket!ServerLeaves
  <2>1. /\ server' = [server EXCEPT !.pc = "ended", !.wifi = FALSE, !.link = FALSE]
        /\ server.pc = "leave" /\ UNCHANGED <<proto, client, sockfd, port, conn, up, down>>
    BY <1>14 DEF Socket!ServerLeaves
  <2>2. /\ server' \in SocketTask /\ server'.pc = "ended"
        /\ server'.got = server.got /\ server'.sent = server.sent
        /\ server'.link = FALSE /\ server'.wifi = FALSE
    BY <1>3, <2>1 DEF SocketTask, Socket!Pcs
  <2> QED BY <1>1, <1>3, <2>1, <2>2
<1>15. CASE Socket!ServerAsks
  <2>1. server.pc = "delay" /\ UNCHANGED <<proto, client, sockfd, port, conn, up, down>>
    BY <1>15 DEF Socket!ServerAsks
  <2>2. PICK w \in BOOLEAN, n \in BOOLEAN :
          server' = [server EXCEPT !.pc = "join", !.wifi = w, !.netId = n]
    BY <1>15 DEF Socket!ServerAsks, Socket!Asked
  <2>3. /\ server' \in SocketTask /\ server'.pc = "join"
        /\ server'.got = server.got /\ server'.sent = server.sent
    BY <1>3, <2>2 DEF SocketTask, Socket!Pcs
  <2> QED BY <1>1, <1>3, <2>1, <2>3
<1> QED
  BY <1>1, <1>4, <1>5, <1>6, <1>7, <1>8, <1>9, <1>10, <1>11, <1>12, <1>13, <1>14, <1>15
  DEF Socket!Server, Socket!TcpServerTest, Socket!UdpServerTest

LEMMA SocketAlways == BoardSpec => []SocketInv
<1>1. BoardInit => SocketInv BY SocketInit DEF BoardInit
<1>2. SocketInv /\ [BoardNext]_boardVars => SocketInv'
  <2>1. SUFFICES ASSUME SocketInv, [BoardNext]_boardVars PROVE SocketInv'
    OBVIOUS
  <2>2. CASE SocketStep BY <2>1, <2>2, SocketClient, SocketServer, SocketHotspot DEF SocketStep, Socket!Next
  <2>3. CASE UNCHANGED socketVars BY <2>1, <2>3 DEF socketVars, SocketInv
  <2>4. SocketStep \/ UNCHANGED socketVars
    BY <2>1 DEF BoardNext, PwmStep, ButtonStep, SensorStep, StorageStep, AhtStep, WifiStep,
      DisplayStep, OledStep, NfcStep, ApplicationStep, boardVars
  <2> QED BY <2>2, <2>3, <2>4
<1> QED BY <1>1, <1>2, PTL DEF BoardSpec

\* For a request of any length, whatever is lost and whichever call fails: what the client
\* gets is part of what the server sent back, without the terminating zero; a program that
\* has ended has closed its sockets and, unless its network was not stored, left the hotspot
\* and disabled Wi-Fi.
THEOREM SocketsSafe == BoardSpec => [](Socket!TypeOK /\ Socket!EchoOfRequest /\ Socket!Released)
<1>1. SocketInv => Socket!TypeOK /\ Socket!EchoOfRequest /\ Socket!Released
  <2>1. SUFFICES ASSUME SocketInv PROVE Socket!TypeOK /\ Socket!EchoOfRequest /\ Socket!Released
    OBVIOUS
  <2>2. Socket!TypeOK
    <3>1. sockfd \in [{"client", "server", "conn"} -> BOOLEAN] BY <2>1 DEF SocketInv
    <3> QED BY <2>1, <3>1 DEF SocketInv, SocketTask, Socket!TypeOK
  <2>3. Socket!EchoOfRequest BY <2>1 DEF SocketInv, Socket!EchoOfRequest
  <2>4. Socket!Released BY <2>1 DEF SocketInv, Socket!Released
  <2> QED BY <2>2, <2>3, <2>4
<1> QED BY <1>1, SocketAlways, PTL

(***************************************************************************)
(* The sensors.  The note of gas_alarm that the buzzer sounds never parts  *)
(* from the buzzer, and the lamp of night_light is set from both readings  *)
(* of one pass.                                                            *)
(***************************************************************************)

SensorInv ==
  /\ sensorDemo \in {"gas_alarm", "gas", "human", "light", "night", "led"}
  /\ sensorPc \in {"gas", "human", "light", "on", "off", "delay"}
  /\ dataHuman \in SensorLevel /\ beeping \in BOOLEAN
  /\ out \in [buzzer : BOOLEAN, lamp : BOOLEAN]
  /\ basis \in [gas : SensorLevel, human : SensorLevel, light : SensorLevel]
  /\ sensorDemo = "gas_alarm" => beeping = out.buzzer /\ out.buzzer = (basis.gas > 600)
  /\ sensorDemo = "night" => out.lamp = (basis.human > 1200 /\ basis.light > 1200)

LEMMA SensorInit == Sensor!Init => SensorInv
<1>1. SUFFICES ASSUME Sensor!Init PROVE SensorInv
  OBVIOUS
<1>2. 0 \in SensorLevel BY DeviceAssumption DEF DeviceAssumption
<1>3. /\ sensorDemo \in {"gas_alarm", "gas", "human", "light", "night", "led"}
      /\ sensorPc \in {"gas", "human", "light", "on"} /\ dataHuman = 0 /\ beeping = FALSE
      /\ out = [buzzer |-> FALSE, lamp |-> FALSE] /\ basis = [gas |-> 0, human |-> 0, light |-> 0]
  BY <1>1 DEF Sensor!Init, Sensor!Reads, Sensor!Nothing
<1>4. /\ out \in [buzzer : BOOLEAN, lamp : BOOLEAN] /\ out.buzzer = FALSE /\ out.lamp = FALSE
      /\ basis \in [gas : SensorLevel, human : SensorLevel, light : SensorLevel]
      /\ basis.gas = 0 /\ basis.human = 0 /\ dataHuman \in SensorLevel
  BY <1>2, <1>3
<1>5. (basis.gas > 600) = FALSE /\ (basis.human > 1200 /\ basis.light > 1200) = FALSE
  BY <1>4
<1> QED BY ZenonT(60), <1>3, <1>4, <1>5 DEF SensorInv

LEMMA SensorNext == SensorInv /\ Sensor!Next => SensorInv'
<1>1. SUFFICES ASSUME SensorInv, Sensor!Next PROVE SensorInv'
  OBVIOUS
<1>2. SensorLevel \subseteq Nat BY DeviceAssumption DEF DeviceAssumption
<1> USE DEF SensorInv
<1>3. /\ sensorDemo \in {"gas_alarm", "gas", "human", "light", "night", "led"}
      /\ out \in [buzzer : BOOLEAN, lamp : BOOLEAN]
      /\ basis \in [gas : SensorLevel, human : SensorLevel, light : SensorLevel]
  BY <1>1
<1>4. CASE Sensor!GasAlarmTask
  <2>1. sensorDemo = "gas_alarm" /\ UNCHANGED <<sensorDemo, dataHuman>> /\ sensorPc' = "delay"
    BY <1>4 DEF Sensor!GasAlarmTask, Sensor!Goes
  <2>2. ASSUME NEW v \in SensorLevel, Sensor!Alarm(v), basis' = [basis EXCEPT !.gas = v]
        PROVE  SensorInv'
    <3>1. /\ basis' \in [gas : SensorLevel, human : SensorLevel, light : SensorLevel]
          /\ basis'.gas = v
      BY <1>3, <2>2
    <3>2. CASE v > 600
      <4>1. (v > 600) = TRUE BY <1>2, <3>2
      <4>2. beeping' = TRUE BY <2>2, <4>1 DEF Sensor!Alarm, Sensor!Threshold
      <4>3. out' = [out EXCEPT !.buzzer = IF TRUE # beeping THEN TRUE ELSE @]
        BY <2>2, <4>1 DEF Sensor!Alarm, Sensor!Threshold
      <4>4. out' \in [buzzer : BOOLEAN, lamp : BOOLEAN] /\ out'.buzzer = TRUE
        <5>1. beeping \in BOOLEAN /\ beeping = out.buzzer BY <1>1, <2>1
        <5>2. CASE beeping = TRUE BY <1>3, <4>3, <5>1, <5>2
        <5>3. CASE beeping # TRUE BY <1>3, <4>3, <5>1, <5>3
        <5> QED BY <5>2, <5>3
      <4>5. (basis'.gas > 600) = TRUE BY <3>1, <4>1
      <4> QED BY <1>1, <2>1, <3>1, <4>2, <4>4, <4>5
    <3>3. CASE ~(v > 600)
      <4>1. (v > 600) = FALSE BY <1>2, <3>3
      <4>2. beeping' = FALSE BY <2>2, <4>1 DEF Sensor!Alarm, Sensor!Threshold
      <4>3. out' = [out EXCEPT !.buzzer = IF FALSE # beeping THEN FALSE ELSE @]
        BY ZenonT(60), <2>2, <4>1 DEF Sensor!Alarm, Sensor!Threshold
      <4>4. out' \in [buzzer : BOOLEAN, lamp : BOOLEAN] /\ out'.buzzer = FALSE
        <5>1. beeping \in BOOLEAN /\ beeping = out.buzzer BY <1>1, <2>1
        <5>2. CASE beeping = FALSE BY <1>3, <4>3, <5>1, <5>2
        <5>3. CASE beeping # FALSE BY <1>3, <4>3, <5>1, <5>3
        <5> QED BY <5>2, <5>3
      <4>5. (basis'.gas > 600) = FALSE BY <3>1, <4>1
      <4> QED BY ZenonT(60), <1>1, <2>1, <3>1, <4>2, <4>4, <4>5
    <3> QED BY <3>2, <3>3
  <2>3. CASE UNCHANGED <<beeping, out, basis>> BY <1>1, <2>1, <2>3
  <2> QED BY <1>4, <2>2, <2>3 DEF Sensor!GasAlarmTask
<1>5. CASE Sensor!ReadHuman BY <1>1, <1>5 DEF Sensor!ReadHuman, Sensor!Goes
<1>6. CASE Sensor!ReadLight
  <2>1. sensorDemo = "night" /\ UNCHANGED <<sensorDemo, dataHuman, beeping>>
        /\ sensorPc' \in {"delay", "human"}
    BY <1>6 DEF Sensor!ReadLight, Sensor!Goes
  <2>2. ASSUME NEW v \in SensorLevel, out' = [out EXCEPT !.lamp = Sensor!Lit(dataHuman, v)],
               basis' = [basis EXCEPT !.human = dataHuman, !.light = v]
        PROVE  SensorInv'
    <3>1. /\ basis' \in [gas : SensorLevel, human : SensorLevel, light : SensorLevel]
          /\ basis'.human = dataHuman /\ basis'.light = v
      <4>1. dataHuman \in SensorLevel BY <1>1
      <4>2. basis' = [gas |-> basis.gas, human |-> dataHuman, light |-> v] BY <1>3, <2>2
      <4>3. basis.gas \in SensorLevel BY <1>3
      <4> QED BY <4>1, <4>2, <4>3
    <3>2. CASE dataHuman > 1200 /\ v > 1200
      <4>1. out' \in [buzzer : BOOLEAN, lamp : BOOLEAN] /\ out'.lamp = TRUE
        BY ZenonT(60), <1>3, <2>2, <3>2 DEF Sensor!Lit, Sensor!Near, Sensor!Dark
      <4> QED BY <1>1, <2>1, <3>1, <3>2, <4>1
    <3>3. CASE ~(dataHuman > 1200 /\ v > 1200)
      <4>0. Sensor!Lit(dataHuman, v) = FALSE
        BY <3>3 DEF Sensor!Lit, Sensor!Near, Sensor!Dark
      <4>1. out' \in [buzzer : BOOLEAN, lamp : BOOLEAN] /\ out'.lamp = FALSE
        BY <1>3, <2>2, <4>0
      <4> QED BY <1>1, <2>1, <3>1, <3>3, <4>1
    <3> QED BY <3>2, <3>3
  <2>3. CASE UNCHANGED <<out, basis>> BY <1>1, <2>1, <2>3
  <2> QED BY ZenonT(60), <1>6, <2>2, <2>3 DEF Sensor!ReadLight
<1>7. ASSUME sensorDemo \in {"gas", "human", "light"}, UNCHANGED <<sensorDemo, dataHuman, beeping, out>>,
             sensorPc' = "delay", basis' \in [gas : SensorLevel, human : SensorLevel, light : SensorLevel]
      PROVE  SensorInv'
  BY <1>1, <1>7
<1>8. CASE Sensor!GasTask \/ Sensor!ADCHumanTask \/ Sensor!ADCLightTask
  <2>1. basis' \in [gas : SensorLevel, human : SensorLevel, light : SensorLevel]
    <3>1. CASE Sensor!GasTask BY <1>3, <3>1 DEF Sensor!GasTask
    <3>2. CASE Sensor!ADCHumanTask BY <1>3, <3>2 DEF Sensor!ADCHumanTask
    <3>3. CASE Sensor!ADCLightTask BY <1>3, <3>3 DEF Sensor!ADCLightTask
    <3> QED BY <1>8, <3>1, <3>2, <3>3
  <2> QED BY <1>7, <1>8, <2>1
    DEF Sensor!GasTask, Sensor!ADCHumanTask, Sensor!ADCLightTask, Sensor!Goes
<1>9. CASE Sensor!LedTask
  <2>1. out' \in [buzzer : BOOLEAN, lamp : BOOLEAN] BY <1>3, <1>9 DEF Sensor!LedTask
  <2> QED BY <1>1, <1>9, <2>1 DEF Sensor!LedTask, Sensor!Goes
<1>10. CASE Sensor!Delay
  <2>1. Sensor!Reads[sensorDemo] \in {"gas", "human", "light", "on"} BY <1>3 DEF Sensor!Reads
  <2> QED BY <1>1, <1>10, <2>1 DEF Sensor!Delay, Sensor!Goes
<1> QED BY <1>1, <1>4, <1>5, <1>6, <1>8, <1>9, <1>10 DEF Sensor!Next, Sensor!Task

\* For any readings and whichever of them fail: the buzzer sounds exactly when the last reading
\* that succeeded was above the threshold, and the night light is lit by the person and the
\* darkness of one pass.
THEOREM SensorsSafe ==
  BoardSpec => [](Sensor!TypeOK /\ Sensor!AlarmAsRead /\ Sensor!NightLightAsRead)
<1>1. BoardInit => SensorInv BY SensorInit DEF BoardInit
<1>2. SensorInv /\ [BoardNext]_boardVars => SensorInv'
  <2>1. SUFFICES ASSUME SensorInv, [BoardNext]_boardVars PROVE SensorInv'
    OBVIOUS
  <2>2. CASE SensorStep BY <2>1, <2>2, SensorNext DEF SensorStep
  <2>3. CASE UNCHANGED sensorVars BY <2>1, <2>3 DEF sensorVars, SensorInv
  <2>4. SensorStep \/ UNCHANGED sensorVars
    BY <2>1 DEF BoardNext, PwmStep, ButtonStep, StorageStep, AhtStep, SocketStep, WifiStep,
      DisplayStep, OledStep, NfcStep, ApplicationStep, boardVars
  <2> QED BY <2>2, <2>3, <2>4
<1>3. SensorInv => Sensor!TypeOK /\ Sensor!AlarmAsRead /\ Sensor!NightLightAsRead
  <2>1. SUFFICES ASSUME SensorInv PROVE Sensor!TypeOK /\ Sensor!AlarmAsRead /\ Sensor!NightLightAsRead
    OBVIOUS
  <2>2. basis \in [{"gas", "human", "light"} -> SensorLevel \union {0}] BY <2>1 DEF SensorInv
  <2>3. Sensor!TypeOK BY <2>1, <2>2 DEF SensorInv, Sensor!TypeOK, Sensor!Reads
  <2> QED BY <2>1, <2>3
    DEF SensorInv, Sensor!AlarmAsRead, Sensor!NightLightAsRead, Sensor!Threshold, Sensor!Near, Sensor!Dark
<1> QED BY <1>1, <1>2, <1>3, PTL DEF BoardSpec

(***************************************************************************)
(* The buttons.  The lamp whose turn it is follows the number of presses,  *)
(* and the answers, the failed readings and the messages in the queue      *)
(* together are no more than the presses.                                  *)
(***************************************************************************)

ButtonPcs ==
  {"setup", "off", "ended", "loop", "delay", "read", "beep", "beeping", "out0", "out1", "out2",
   "sound", "sounding", "clear"}

ButtonInv ==
  /\ buttonDemo \in ButtonImage /\ buttonPc \in ButtonPcs
  /\ button \in {"up", "USER", "S1", "S2"} /\ presses \in 0 .. MaxPress
  /\ pin \in 0 .. 1 /\ g_ledPinValue \in 0 .. 1
  /\ queue \in 0 .. QueueSize /\ said \in 0 .. MaxPress /\ said <= presses
  /\ unread \in 0 .. MaxPress /\ unread <= presses
  /\ g_ledStates \in [0 .. 2 -> 0 .. 1] /\ g_currentBright \in 0 .. 2 /\ g_beepState \in 0 .. 1
  /\ buttonLamp \in [0 .. 2 -> 0 .. 1] /\ beeper \in BOOLEAN
  /\ buttonDemo = "traffic" => g_currentBright = presses % 3
  /\ buttonDemo = "traffic" /\ presses > 0 =>
       \A i \in 0 .. 2 : g_ledStates[i] = (IF i = (presses - 1) % 3 THEN 1 ELSE 0)
  /\ buttonDemo = "v_int" => said + unread = presses
  /\ buttonDemo = "v_queue" => said + unread + queue + (IF buttonPc = "read" THEN 1 ELSE 0) <= presses

LEMMA ButtonConstants ==
  /\ MaxPress \in Nat /\ QueueSize \in Nat
  /\ ButtonImage \subseteq {"get", "int", "int_lpc", "v_int", "v_queue", "v_thread", "v_timer", "traffic"}
BY DeviceAssumption DEF DeviceAssumption

LEMMA ButtonInit == Button!Init => ButtonInv
<1>1. SUFFICES ASSUME Button!Init PROVE ButtonInv
  OBVIOUS
<1>2. /\ 0 \in 0 .. MaxPress /\ 0 \in 0 .. QueueSize /\ 0 % 3 = 0
  BY ButtonConstants
<1>3. Button!Dark \in [0 .. 2 -> 0 .. 1] BY DEF Button!Dark, Button!Lamp
<1>4. /\ buttonDemo \in ButtonImage /\ buttonPc = "setup" /\ button = "up" /\ presses = 0 /\ pin = 0
      /\ g_ledPinValue = 0 /\ queue = 0 /\ said = 0 /\ unread = 0 /\ g_ledStates = Button!Dark
      /\ g_currentBright = 0 /\ g_beepState = 0 /\ buttonLamp = Button!Dark /\ beeper = FALSE
  BY <1>1 DEF Button!Init
<1>5. /\ said + unread + queue + (IF buttonPc = "read" THEN 1 ELSE 0) <= presses /\ ~(presses > 0)
      /\ said <= presses /\ unread <= presses
  BY <1>4
<1>6. 0 \in 0 .. 1 /\ 0 \in 0 .. 2 OBVIOUS
<1>7. buttonDemo = "traffic" => g_currentBright = presses % 3 BY <1>2, <1>4
<1>8. buttonDemo = "v_int" => said + unread = presses BY <1>4
<1> QED BY <1>2, <1>3, <1>4, <1>5, <1>6, <1>7, <1>8 DEF ButtonInv, ButtonPcs

\* Each button is known by its voltage, and none of them is taken for a free pin.
LEMMA NamedAsPressed == \A b \in {"USER", "S1", "S2"} : Button!Named(Button!Voltage[b]) # "up"
BY DEF Button!Named, Button!Voltage

LEMMA ButtonPress == ASSUME ButtonInv, NEW b \in Button!Button, Button!Press(b) PROVE ButtonInv'
<1>1. /\ presses \in Nat /\ MaxPress \in Nat /\ QueueSize \in Nat /\ said \in Nat /\ said <= presses
      /\ unread \in Nat /\ unread <= presses
      /\ queue \in 0 .. QueueSize /\ presses \in 0 .. MaxPress
  BY ButtonConstants DEF ButtonInv
<1>2. /\ presses < MaxPress /\ presses' = presses + 1 /\ button' = b
      /\ UNCHANGED <<buttonDemo, buttonPc>>
  BY DEF Button!Press
<1>3. /\ presses' \in 0 .. MaxPress /\ presses' > 0 /\ said <= presses' /\ unread <= presses'
      /\ button' \in {"up", "USER", "S1", "S2"}
  BY <1>1, <1>2 DEF Button!Button
<1> USE DEF ButtonInv
<1>4. ASSUME UNCHANGED <<queue, said, unread, g_ledStates, g_currentBright, g_beepState, buttonLamp, beeper>>,
             pin' \in 0 .. 1, g_ledPinValue' \in 0 .. 1, buttonDemo \notin {"traffic", "v_int", "v_queue"}
      PROVE  ButtonInv'
  BY <1>2, <1>3, <1>4
<1>5. CASE buttonDemo = "int"
  <2>1. Button!Toggled BY <1>5 DEF Button!Press
  <2>2. 1 - g_ledPinValue \in 0 .. 1 /\ pin \in 0 .. 1 OBVIOUS
  <2> QED BY <1>4, <1>5, <2>1, <2>2 DEF Button!Toggled, Button!voltage, Button!light
<1>6. CASE buttonDemo = "int_lpc"
  <2>1. Button!ToggledOut BY <1>6 DEF Button!Press
  <2>2. 1 - g_ledPinValue \in 0 .. 1 OBVIOUS
  <2> QED BY <1>4, <1>6, <2>1, <2>2 DEF Button!ToggledOut, Button!voltage, Button!light
<1>7. CASE buttonDemo = "v_queue"
  <2>1. Button!Queued BY <1>7 DEF Button!Press
  <2>2. queue' \in 0 .. QueueSize /\ queue' <= queue + 1
    BY <1>1, <2>1 DEF Button!Queued
  <2>3. UNCHANGED <<said, unread, pin, g_ledPinValue, g_ledStates, g_currentBright, g_beepState, buttonLamp, beeper>>
    BY <2>1 DEF Button!Queued, Button!level, Button!light
  <2>4. said' + unread' + queue' + (IF buttonPc' = "read" THEN 1 ELSE 0) <= presses'
    <3>1. said + unread + queue + (IF buttonPc = "read" THEN 1 ELSE 0) <= presses BY <1>7
    <3>2. queue \in Nat /\ queue' \in Nat BY <1>1, <2>2
    <3> HIDE DEF ButtonInv
    <3>3. PICK r \in 0 .. 1 : r = (IF buttonPc = "read" THEN 1 ELSE 0) OBVIOUS
    <3>4. said + unread + queue + r <= presses BY <3>1, <3>3
    <3>5. said + unread + queue' + r <= presses + 1
      <4>1. r \in Nat OBVIOUS
      <4>2. queue' <= queue + 1 /\ said + unread \in Nat /\ presses \in Nat BY <1>1, <2>2
      <4>3. ASSUME NEW i \in Nat, NEW j \in Nat, NEW k \in Nat, NEW n \in Nat, i + j + r <= n, k <= j + 1
            PROVE  i + k + r <= n + 1
        BY <4>1, <4>3
      <4> QED BY <3>2, <3>4, <4>2, <4>3
    <3> QED BY <1>2, <2>3, <3>3, <3>5
  <2> QED BY <1>2, <1>3, <1>7, <2>2, <2>3, <2>4
<1>8. CASE buttonDemo = "v_int"
  <2>1. Button!ReadAtOnce(b) BY <1>8 DEF Button!Press
  <2>2. \/ said' = said + 1 /\ UNCHANGED unread
        \/ unread' = unread + 1 /\ UNCHANGED said
    BY <2>1, NamedAsPressed DEF Button!ReadAtOnce, Button!Answer, Button!Button
  <2>3. UNCHANGED <<queue, pin, g_ledPinValue, g_ledStates, g_currentBright, g_beepState, buttonLamp, beeper>>
    BY <2>1 DEF Button!ReadAtOnce, Button!level, Button!light
  <2>4. /\ said' + unread' = presses'
        /\ said' \in 0 .. MaxPress /\ said' <= presses' /\ unread' \in 0 .. MaxPress /\ unread' <= presses'
    <3>1. said + unread = presses BY <1>8
    <3> HIDE DEF ButtonInv
    <3> QED BY <1>1, <1>2, <1>3, <2>2, <3>1
  <2> QED BY <1>2, <1>3, <1>8, <2>3, <2>4
<1>9. CASE buttonDemo = "traffic"
  <2>1. Button!Switched BY <1>9 DEF Button!Press
  <2>2. g_currentBright = presses % 3 BY <1>9
  <2>3. g_currentBright' = presses' % 3 /\ g_currentBright' \in 0 .. 2 /\ (presses' - 1) % 3 = g_currentBright
    <3>1. g_currentBright' = (g_currentBright + 1) % 3 BY <2>1 DEF Button!Switched
    <3> HIDE DEF ButtonInv
    <3> QED BY <1>1, <1>2, <2>2, <3>1
  <2>4. /\ g_ledStates' \in [0 .. 2 -> 0 .. 1]
        /\ \A i \in 0 .. 2 : g_ledStates'[i] = (IF i = (presses' - 1) % 3 THEN 1 ELSE 0)
    BY <2>1, <2>3 DEF Button!Switched, Button!Lamp
  <2>5. UNCHANGED <<queue, said, unread, pin, g_ledPinValue, buttonLamp, beeper>> /\ g_beepState' \in 0 .. 1
    BY <2>1 DEF Button!Switched, Button!level, Button!voltage
  <2> QED BY <1>2, <1>3, <1>9, <2>3, <2>4, <2>5
<1>10. CASE buttonDemo \in {"get", "v_thread", "v_timer"}
  <2>1. UNCHANGED <<pin, g_ledPinValue, queue, said, unread, g_ledStates, g_currentBright, g_beepState, buttonLamp, beeper>>
    BY <1>10 DEF Button!Press, Button!level, Button!voltage, Button!light
  <2> QED BY <1>4, <1>10, <2>1
<1> QED BY <1>5, <1>6, <1>7, <1>8, <1>9, <1>10, ButtonConstants

LEMMA ButtonTask == ASSUME ButtonInv, Button!Release \/ Button!Task PROVE ButtonInv'
<1>1. /\ presses \in Nat /\ said \in Nat /\ said <= presses /\ queue \in 0 .. QueueSize
      /\ unread \in Nat /\ unread <= presses
      /\ queue \in Nat /\ presses \in 0 .. MaxPress /\ QueueSize \in Nat /\ MaxPress \in Nat
  BY ButtonConstants DEF ButtonInv
<1> USE DEF ButtonInv
<1>2. CASE Button!Release
  BY <1>2 DEF Button!Release, Button!level, Button!voltage, Button!light
<1>3. ASSUME NEW d, NEW to \in {"loop", "ended", "off", "beep"}, Button!Ready(d, to)
      PROVE  ButtonInv'
  BY <1>3 DEF Button!Ready, Button!inputs, Button!level, Button!voltage, Button!light, ButtonPcs
<1>4. CASE Button!SetUp
  BY <1>3, <1>4 DEF Button!SetUp, Button!GetReady, Button!IntReady, Button!LpcReady,
    Button!AtOnceReady, Button!ThreadReady, Button!QueueReady, Button!TimerReady, Button!LightReady
<1>5. ASSUME NEW d \in {"get", "int"}, NEW v \in 0 .. 1, Button!GpioTask(d, v) PROVE ButtonInv'
  BY <1>5 DEF Button!GpioTask, Button!inputs, Button!voltage, Button!light, ButtonPcs
<1>6. CASE Button!GetTask
  <2>1. Button!Level(button) \in 0 .. 1 BY DEF Button!Level
  <2> QED BY <1>5, <1>6, <2>1 DEF Button!GetTask
<1>7. CASE Button!IntTask
  <2>1. g_ledPinValue \in 0 .. 1 OBVIOUS
  <2> QED BY <1>5, <1>7, <2>1 DEF Button!IntTask
<1>8. CASE Button!VoltageButtonTask
  <2>0. buttonDemo = "v_queue"
        /\ UNCHANGED <<buttonDemo, button, presses, pin, g_ledPinValue, g_ledStates, g_currentBright,
                       g_beepState, buttonLamp, beeper>>
    BY <1>8 DEF Button!VoltageButtonTask, Button!inputs, Button!level, Button!light
  <2>1. said + unread + queue + (IF buttonPc = "read" THEN 1 ELSE 0) <= presses BY <2>0
  <2>2. CASE buttonPc = "loop" /\ queue > 0 /\ queue' = queue - 1 /\ buttonPc' = "read" /\ UNCHANGED <<said, unread>>
    <3>1. queue' \in 0 .. QueueSize /\ said' + unread' + queue' + 1 <= presses
      <4> HIDE DEF ButtonInv
      <4> QED BY <1>1, <2>1, <2>2
    <3> QED BY <2>0, <2>2, <3>1 DEF ButtonPcs
  <2>3. CASE buttonPc = "read" /\ Button!Answer(button) /\ buttonPc' = "loop" /\ UNCHANGED queue
    <3>1. /\ said' \in 0 .. MaxPress /\ said' <= presses
          /\ unread' \in 0 .. MaxPress /\ unread' <= presses /\ said' + unread' + queue' <= presses
      <4>1. \/ said' \in {said, said + 1} /\ UNCHANGED unread
            \/ unread' = unread + 1 /\ UNCHANGED said
        BY <2>3 DEF Button!Answer
      <4> HIDE DEF ButtonInv
      <4> QED BY <1>1, <2>1, <2>3, <4>1
    <3>2. said' + unread' + queue' + (IF buttonPc' = "read" THEN 1 ELSE 0) <= presses
      <4> HIDE DEF ButtonInv
      <4>1. said' \in Nat /\ unread' \in Nat /\ queue' \in Nat BY <1>1, <2>3, <3>1
      <4> QED BY <2>3, <3>1, <4>1
    <3> QED BY <2>0, <2>3, <3>1, <3>2 DEF ButtonPcs
  <2> QED BY <1>8, <2>2, <2>3 DEF Button!VoltageButtonTask
<1>9. ASSUME NEW d \in {"v_thread", "v_timer"}, Button!Noticed(d) PROVE ButtonInv'
  <2>1. said' \in 0 .. MaxPress /\ said' <= presses /\ UNCHANGED unread BY <1>1, <1>9 DEF Button!Noticed
  <2> QED BY <1>9, <2>1 DEF Button!Noticed, Button!inputs, Button!level, Button!light
<1>10. CASE Button!TrafficLightTask
  <2>1. buttonDemo = "traffic" /\ UNCHANGED <<buttonDemo, button, presses, pin, g_ledPinValue, queue,
          said, unread, g_ledStates, g_currentBright>>
    BY <1>10 DEF Button!TrafficLightTask, Button!Beep, Button!SetLamp, Button!Sound, Button!Goes,
      Button!inputs, Button!level, Button!voltage, Button!light
  <2>2. CASE Button!Beep
    BY <2>1, <2>2 DEF Button!Beep, Button!Goes, ButtonPcs
  <2>3. CASE Button!SetLamp
    <3>1. PICK j \in 0 .. 2 : /\ buttonPc' = Button!Out[j + 2]
                              /\ buttonLamp' = [buttonLamp EXCEPT ![j] = g_ledStates[j]]
      BY <2>3 DEF Button!SetLamp, Button!Goes, Button!Lamp
    <3>2. buttonPc' \in ButtonPcs BY <3>1 DEF Button!Out, ButtonPcs
    <3>3. buttonLamp' \in [0 .. 2 -> 0 .. 1] BY <3>1
    <3>4. UNCHANGED <<g_beepState, beeper>> BY <2>3 DEF Button!SetLamp
    <3> QED BY <2>1, <3>2, <3>3, <3>4
  <2>4. CASE Button!Sound
    <3>1. /\ buttonPc' \in ButtonPcs /\ UNCHANGED buttonLamp
          /\ g_beepState' \in 0 .. 1 /\ beeper' \in BOOLEAN
      <4>1. buttonPc' \in {"sounding", "delay", "clear"} /\ UNCHANGED buttonLamp
        BY <2>4 DEF Button!Sound, Button!Goes
      <4>2. g_beepState' = g_beepState \/ g_beepState' = 0 BY <2>4 DEF Button!Sound
      <4>3. beeper' = beeper \/ beeper' = TRUE \/ beeper' = FALSE BY <2>4 DEF Button!Sound
      <4>4. buttonPc' \in ButtonPcs BY <4>1 DEF ButtonPcs
      <4>5. g_beepState' \in 0 .. 1 BY <4>2
      <4>6. beeper' \in BOOLEAN BY <4>3
      <4> QED BY <4>1, <4>4, <4>5, <4>6
    <3> QED BY <2>1, <3>1
  <2>5. CASE Button!Goes("delay", "out0") /\ UNCHANGED Button!light
    BY <2>1, <2>5 DEF Button!Goes, Button!light, ButtonPcs
  <2> QED BY <1>10, <2>2, <2>3, <2>4, <2>5 DEF Button!TrafficLightTask
<1> QED BY <1>2, <1>4, <1>6, <1>7, <1>8, <1>9, <1>10
  DEF Button!Task, Button!ThreadPoll, Button!TimerPoll

\* For any number of presses at any moments and a queue of any size: the lamp that is asked for
\* is the one whose turn it is, no press is answered twice, and one that is read at once goes
\* unanswered only when the converter fails.
THEOREM PressesSafe == BoardSpec => [](Button!TypeOK /\ Button!OneTurn /\ Button!AnswerPerPress)
<1>1. BoardInit => ButtonInv BY ButtonInit DEF BoardInit
<1>2. ButtonInv /\ [BoardNext]_boardVars => ButtonInv'
  <2>1. SUFFICES ASSUME ButtonInv, [BoardNext]_boardVars PROVE ButtonInv'
    OBVIOUS
  <2>2. CASE ButtonStep BY <2>1, <2>2, ButtonPress, ButtonTask DEF ButtonStep, Button!Next
  <2>3. CASE UNCHANGED buttonVars BY <2>1, <2>3 DEF buttonVars, ButtonInv
  <2>4. ButtonStep \/ UNCHANGED buttonVars
    BY <2>1 DEF BoardNext, PwmStep, SensorStep, StorageStep, AhtStep, SocketStep, WifiStep,
      DisplayStep, OledStep, NfcStep, ApplicationStep, boardVars
  <2> QED BY <2>2, <2>3, <2>4
<1>3. ButtonInv => Button!TypeOK /\ Button!OneTurn /\ Button!AnswerPerPress
  <2>1. SUFFICES ASSUME ButtonInv PROVE Button!TypeOK /\ Button!OneTurn /\ Button!AnswerPerPress
    OBVIOUS
  <2>2. Button!TypeOK
    BY <2>1 DEF ButtonInv, ButtonPcs, Button!TypeOK, Button!Button, Button!Lamp
  <2>3. Button!OneTurn
    <3>1. SUFFICES ASSUME buttonDemo = "traffic", presses > 0, NEW i \in 0 .. 2
                   PROVE  g_ledStates[i] = 1 <=> i = (presses - 1) % 3
      BY DEF Button!OneTurn, Button!Lamp
    <3>2. g_ledStates[i] = (IF i = (presses - 1) % 3 THEN 1 ELSE 0) BY <2>1, <3>1 DEF ButtonInv
    <3> QED BY <3>2
  <2>4. Button!AnswerPerPress BY <2>1 DEF ButtonInv, Button!AnswerPerPress
  <2> QED BY <2>2, <2>3, <2>4
<1> QED BY <1>1, <1>2, <1>3, PTL DEF BoardSpec

(***************************************************************************)
(* The temperature and humidity sensor: the two values of twenty bits are  *)
(* put together as they were, and the program that publishes them has      *)
(* triggered the measurement it publishes.                                 *)
(***************************************************************************)

\* Quotient and remainder put together.
LEMMA DivMod16 ==
  ASSUME NEW n \in Nat
  PROVE  \E q \in Nat, r \in 0 .. 15 : q = n \div 16 /\ r = n % 16 /\ n = q * 16 + r
<1>1. PICK q, r : q = n \div 16 /\ r = n % 16 OBVIOUS
<1>2. q \in Nat /\ r \in 0 .. 15 BY <1>1, SMT
<1>3. n = q * 16 + r BY <1>1, <1>2, SMT
<1> QED BY <1>1, <1>2, <1>3

LEMMA DivMod256 ==
  ASSUME NEW n \in Nat
  PROVE  \E q \in Nat, r \in 0 .. 255 : q = n \div 256 /\ r = n % 256 /\ n = q * 256 + r
<1>1. PICK q, r : q = n \div 256 /\ r = n % 256 OBVIOUS
<1>2. q \in Nat /\ r \in 0 .. 255 BY <1>1, SMT
<1>3. n = q * 256 + r BY <1>1, <1>2, SMT
<1> QED BY ZenonT(60), <1>1, <1>2, <1>3

\* The upper digits of twenty bits.
LEMMA UpperDigits ==
  ASSUME NEW n \in TwentyBits
  PROVE  /\ n \in Nat
         /\ n \div 4096 \in 0 .. 255 /\ n \div 4096 = (n \div 16) \div 256
         /\ n \div 65536 \in 0 .. 15 /\ n \div 65536 = (n \div 256) \div 256
<1>1. n \in Nat /\ n < 1048576 BY SMT DEF TwentyBits
<1>2. n \div 4096 \in 0 .. 255 BY <1>1, SMT
<1>3. n \div 65536 \in 0 .. 15 BY <1>1, SMT
<1>4. n \div 4096 = (n \div 16) \div 256 BY <1>1, SMT
<1>5. n \div 65536 = (n \div 256) \div 256 BY <1>1, SMT
<1> QED BY <1>1, <1>2, <1>3, <1>4, <1>5, SMT

\* The five bytes hold both values, and humiRaw and tempRaw are put together from them.
LEMMA RawOfBytes ==
  ASSUME NEW v \in TwentyBits \X TwentyBits
  PROVE  /\ Aht!Raw(Aht!Bytes(v)) = v
         /\ Aht!Bytes(v) \in Seq(0 .. 255) /\ Len(Aht!Bytes(v)) = 5
<1>1. PICK h \in TwentyBits, t \in TwentyBits : v = <<h, t>> BY SMT
<1>2. /\ h \in Nat /\ h \div 4096 \in 0 .. 255 /\ h \div 4096 = (h \div 16) \div 256
      /\ t \in Nat /\ t \div 65536 \in 0 .. 15 /\ t \div 65536 = (t \div 256) \div 256
  BY <1>1, UpperDigits, SMT
<1>3. PICK qh \in Nat, low \in 0 .. 15 : qh = h \div 16 /\ low = h % 16 /\ h = qh * 16 + low
  BY <1>2, DivMod16
<1>4. PICK b1 \in Nat, b2 \in 0 .. 255 : b1 = qh \div 256 /\ b2 = qh % 256 /\ qh = b1 * 256 + b2
  BY SMTT(30), <1>3, DivMod256
<1>5. b1 \in 0 .. 255 /\ h \div 4096 = b1 BY <1>2, <1>3, <1>4, SMT
<1>6. PICK qt \in Nat, b5 \in 0 .. 255 : qt = t \div 256 /\ b5 = t % 256 /\ t = qt * 256 + b5
  BY SMTT(30), <1>2, DivMod256
<1>7. PICK high \in Nat, b4 \in 0 .. 255 :
        high = qt \div 256 /\ b4 = qt % 256 /\ qt = high * 256 + b4
  BY DivMod256, SMT
<1>8. high \in 0 .. 15 /\ t \div 65536 = high BY <1>2, <1>6, <1>7, SMT
<1>9. PICK b3 : b3 = low * 16 + high OBVIOUS
<1>11. b3 \in 0 .. 255 /\ b3 \div 16 = low /\ b3 % 16 = high BY <1>8, <1>9, SMT
<1>12. Aht!Bytes(v) = <<b1, b2, b3, b4, b5>>
  <2>1. v[1] = h /\ v[2] = t BY <1>1
  <2> QED BY <2>1, <1>3, <1>4, <1>5, <1>6, <1>7, <1>8, <1>9, SMT DEF Aht!Bytes
<1>13. Aht!Raw(<<b1, b2, b3, b4, b5>>) = <<h, t>>
  <2>1. (b1 * 256 + b2) * 16 + low = h BY <1>3, <1>4, SMT
  <2>2. (high * 256 + b4) * 256 + b5 = t BY <1>6, <1>7, SMT
  <2> QED BY <1>11, <2>1, <2>2, SMT DEF Aht!Raw
<1>14. <<b1, b2, b3, b4, b5>> \in Seq(0 .. 255) /\ Len(<<b1, b2, b3, b4, b5>>) = 5
  BY <1>5, <1>11, SMT
<1> QED BY <1>1, <1>12, <1>13, <1>14, Zenon

AhtPcs ==
  {"status", "status read", "reset", "calibrate", "start", "read", "test", "show", "delay"}

AhtInv ==
  /\ ahtProgram \in {"i2c", "mqtt"} /\ ahtPc \in AhtPcs
  /\ retry \in 0 .. MAX_RETRY /\ busy \in 0 .. MaxBusy /\ calibrated \in BOOLEAN
  /\ ahtMeasured \in Sample \union {Aht!Nothing} /\ shown \in Sample \union {Aht!Nothing}
  /\ ahtBuffer.busy \in BOOLEAN /\ ahtBuffer.calibrated \in BOOLEAN
  /\ ahtBuffer.data \in Seq(0 .. 255) /\ Len(ahtBuffer.data) = 5
  /\ ahtRound \in 0 .. MaxRound /\ trigger \in 0 .. MaxRound /\ answered \in 0 .. MaxRound
  /\ ahtFails \in 0 .. MaxFail
  /\ ahtPc \in {"status", "status read", "reset", "calibrate"} => trigger = 0
  /\ ahtPc \in {"start", "read", "test", "show", "delay"} => calibrated = TRUE
  /\ ahtPc = "test" => ahtBuffer.data = Aht!Bytes(ahtMeasured)
  /\ ahtProgram = "mqtt" /\ ahtPc \in {"read", "test", "show"} => trigger = ahtRound
  /\ ahtProgram = "mqtt" /\ ahtPc = "show" => answered = ahtRound /\ shown = ahtMeasured

\* What is measured, and what was before the first measurement, comes through whole.
LEMMA Measured ==
  ASSUME NEW v \in Sample \union {Aht!Nothing}
  PROVE  /\ Aht!Raw(Aht!Bytes(v)) = v
         /\ Aht!Bytes(v) \in Seq(0 .. 255) /\ Len(Aht!Bytes(v)) = 5
<1>1. Aht!Nothing \in TwentyBits \X TwentyBits
  <2>1. 0 \in TwentyBits BY SMT DEF TwentyBits
  <2> QED BY <2>1 DEF Aht!Nothing
<1>2. Sample \subseteq TwentyBits \X TwentyBits BY DeviceAssumption DEF DeviceAssumption
<1>3. v \in TwentyBits \X TwentyBits BY <1>1, <1>2
<1> QED BY <1>3, RawOfBytes

LEMMA AhtInit == Aht!Init => AhtInv
<1>1. SUFFICES ASSUME Aht!Init PROVE AhtInv
  OBVIOUS
<1>2. MAX_RETRY \in Nat /\ MaxBusy \in Nat \ {0} /\ MaxFail \in Nat /\ MaxRound \in Nat
  BY DeviceAssumption DEF DeviceAssumption
<1>3. /\ ahtBuffer = [busy |-> FALSE, calibrated |-> FALSE, data |-> Aht!Bytes(Aht!Nothing)]
      /\ shown = Aht!Nothing /\ ahtMeasured = Aht!Nothing
  BY <1>1 DEF Aht!Init
<1>4. /\ ahtBuffer.busy = FALSE /\ ahtBuffer.calibrated = FALSE
      /\ ahtBuffer.data \in Seq(0 .. 255) /\ Len(ahtBuffer.data) = 5
  BY <1>3, Measured
<1>5. /\ busy \in 0 .. MaxBusy /\ retry \in 0 .. MAX_RETRY /\ ahtRound \in 0 .. MaxRound
      /\ trigger \in 0 .. MaxRound /\ answered \in 0 .. MaxRound /\ ahtFails \in 0 .. MaxFail
      /\ trigger = 0
  BY <1>1, <1>2 DEF Aht!Init
<1> QED BY <1>1, <1>3, <1>4, <1>5 DEF Aht!Init, AhtInv, AhtPcs

\* The status, as the sensor sends it.
LEMMA StatusRead ==
  ASSUME AhtInv, ahtBuffer' = Aht!Status
  PROVE  /\ ahtBuffer'.busy \in BOOLEAN /\ ahtBuffer'.calibrated \in BOOLEAN
         /\ ahtBuffer'.data \in Seq(0 .. 255) /\ Len(ahtBuffer'.data) = 5
         /\ ahtBuffer'.data = Aht!Bytes(ahtMeasured)
<1>1. /\ ahtBuffer'.busy = (busy > 0) /\ ahtBuffer'.calibrated = calibrated
      /\ ahtBuffer'.data = Aht!Bytes(ahtMeasured)
  BY DEF Aht!Status
<1>2. MaxBusy \in Nat BY DeviceAssumption DEF DeviceAssumption
<1>3. busy \in Nat /\ calibrated \in BOOLEAN /\ ahtMeasured \in Sample \union {Aht!Nothing}
  <2>1. busy \in 0 .. MaxBusy BY DEF AhtInv
  <2>2. calibrated \in BOOLEAN /\ ahtMeasured \in Sample \union {Aht!Nothing} BY DEF AhtInv
  <2> QED BY <1>2, <2>1, <2>2
<1>4. (busy > 0) \in BOOLEAN BY <1>3
<1>5. Aht!Bytes(ahtMeasured) \in Seq(0 .. 255) /\ Len(Aht!Bytes(ahtMeasured)) = 5
  BY <1>3, Measured
<1> QED BY <1>1, <1>3, <1>4, <1>5

LEMMA AhtNext == AhtInv /\ Aht!Next => AhtInv'
<1>1. SUFFICES ASSUME AhtInv, Aht!Next PROVE AhtInv'
  OBVIOUS
<1>2. MAX_RETRY \in Nat /\ MaxBusy \in Nat \ {0} /\ MaxFail \in Nat /\ MaxRound \in Nat
  BY DeviceAssumption DEF DeviceAssumption
<1>a. /\ retry \in 0 .. MAX_RETRY /\ busy \in 0 .. MaxBusy /\ calibrated \in BOOLEAN
      /\ ahtRound \in 0 .. MaxRound /\ ahtFails \in 0 .. MaxFail
  BY <1>1 DEF AhtInv
<1>3. ASSUME NEW from, NEW to, Aht!Works(from, to) \/ Aht!Fails(from, to)
      PROVE  /\ ahtPc = from /\ ahtPc' = to /\ ahtProgram' = ahtProgram
             /\ ahtFails' \in 0 .. MaxFail
  <2>1. CASE Aht!Works(from, to) BY <1>a, <2>1 DEF Aht!Works
  <2>2. CASE Aht!Fails(from, to) BY <1>2, <1>a, <2>2 DEF Aht!Fails
  <2> QED BY <1>3, <2>1, <2>2
<1>b. Aht!Waits => busy' \in 0 .. MaxBusy BY <1>2, <1>a DEF Aht!Waits
<1> USE DEF AhtInv, AhtPcs
<1>4. CASE Aht!StatusCommand
  <2>1. ahtPc = "status" /\ ahtPc' \in {"status", "status read"} /\ UNCHANGED ahtProgram
        /\ ahtFails' \in 0 .. MaxFail
    BY <1>3, <1>4 DEF Aht!StatusCommand
  <2> QED BY <1>1, <1>4, <2>1 DEF Aht!StatusCommand, Aht!device
<1>5. CASE Aht!ReadStatus
  <2>0. UNCHANGED <<retry, shown, calibrated, busy, ahtMeasured, trigger, ahtRound, answered>>
    BY <1>5 DEF Aht!ReadStatus, Aht!device
  <2>1. CASE Aht!Fails("status read", "status") /\ UNCHANGED ahtBuffer
    <3>1. ahtPc = "status read" /\ ahtPc' = "status" /\ UNCHANGED ahtProgram
          /\ ahtFails' \in 0 .. MaxFail
      BY <1>3, <2>1
    <3> QED BY <1>1, <2>0, <2>1, <3>1
  <2>2. CASE /\ Aht!Works("status read", IF busy > 0 \/ ~calibrated THEN "reset" ELSE "start")
             /\ ahtBuffer' = Aht!Status
    <3>1. /\ ahtPc = "status read" /\ UNCHANGED <<ahtProgram, ahtFails>>
          /\ ahtPc' = (IF busy > 0 \/ ~calibrated THEN "reset" ELSE "start")
      BY <2>2 DEF Aht!Works
    <3>2. ahtPc' \in {"reset", "start"} /\ (ahtPc' = "start" => calibrated = TRUE)
      BY <1>1, <3>1
    <3> QED BY <1>1, <2>0, <2>2, <3>1, <3>2, StatusRead
  <2> QED BY <1>5, <2>1, <2>2 DEF Aht!ReadStatus
<1>6. CASE Aht!ResetCommand
  <2>1. /\ ahtPc = "reset" /\ ahtPc' \in {"status", "calibrate"} /\ UNCHANGED ahtProgram
        /\ ahtFails' \in 0 .. MaxFail /\ busy' \in 0 .. MaxBusy /\ calibrated' \in BOOLEAN
    <3>1. CASE Aht!Fails("reset", "status") /\ UNCHANGED <<calibrated, busy>>
      <4>1. ahtPc = "reset" /\ ahtPc' = "status" /\ UNCHANGED ahtProgram /\ ahtFails' \in 0 .. MaxFail
        BY <1>3, <3>1
      <4> QED BY <1>a, <3>1, <4>1
    <3>2. CASE Aht!Works("reset", "calibrate") /\ calibrated' = FALSE /\ busy' = 0
      <4>1. /\ ahtPc = "reset" /\ ahtPc' = "calibrate" /\ UNCHANGED ahtProgram
            /\ ahtFails' \in 0 .. MaxFail
        BY <1>3, <3>2
      <4>2. 0 \in 0 .. MaxBusy BY <1>2
      <4> QED BY <3>2, <4>1, <4>2
    <3> QED BY <1>6, <3>1, <3>2 DEF Aht!ResetCommand
  <2> QED BY <1>1, <1>6, <2>1 DEF Aht!ResetCommand
<1>7. CASE Aht!CalibrateCommand
  <2>1. /\ ahtPc = "calibrate" /\ UNCHANGED ahtProgram /\ ahtFails' \in 0 .. MaxFail
        /\ calibrated' \in BOOLEAN
        /\ (ahtPc' = "status" \/ (ahtPc' = "start" /\ calibrated' = TRUE))
    <3>1. CASE Aht!Fails("calibrate", "status") /\ UNCHANGED calibrated
      <4>1. /\ ahtPc = "calibrate" /\ ahtPc' = "status" /\ UNCHANGED ahtProgram
            /\ ahtFails' \in 0 .. MaxFail
        BY <1>3, <3>1
      <4> QED BY <1>a, <3>1, <4>1
    <3>2. CASE Aht!Works("calibrate", "start") /\ calibrated' = TRUE
      <4>1. /\ ahtPc = "calibrate" /\ ahtPc' = "start" /\ UNCHANGED ahtProgram
            /\ ahtFails' \in 0 .. MaxFail
        BY <1>3, <3>2
      <4> QED BY <3>2, <4>1
    <3> QED BY <1>7, <3>1, <3>2 DEF Aht!CalibrateCommand
  <2> QED BY <1>1, <1>7, <2>1 DEF Aht!CalibrateCommand
<1>8. CASE Aht!StartMeasure
  <2>0. /\ UNCHANGED <<ahtBuffer, shown, answered>> /\ retry' = 0 /\ retry' \in 0 .. MAX_RETRY
        /\ ahtRound' = ahtRound + 1 /\ ahtRound' \in 0 .. MaxRound
    <3> HIDE DEF AhtInv
    <3> QED BY <1>2, <1>a, <1>8 DEF Aht!StartMeasure
  <2>1. CASE /\ Aht!Fails("start", IF ahtProgram = "i2c" THEN "read" ELSE "delay")
             /\ UNCHANGED Aht!device
    <3>1. /\ ahtPc = "start" /\ UNCHANGED ahtProgram /\ ahtFails' \in 0 .. MaxFail
          /\ ahtPc' = (IF ahtProgram = "i2c" THEN "read" ELSE "delay")
      BY <1>3, <2>1
    <3> QED BY <1>1, <2>0, <2>1, <3>1 DEF Aht!device
  <2>2. CASE /\ Aht!Works("start", "read") /\ trigger' = ahtRound' /\ ahtMeasured' \in Sample
             /\ busy' \in 1 .. MaxBusy /\ UNCHANGED calibrated
    <3>1. busy' \in 0 .. MaxBusy BY <1>2, <2>2
    <3>2. ahtPc = "start" /\ ahtPc' = "read" /\ UNCHANGED <<ahtProgram, ahtFails>>
      BY <2>2 DEF Aht!Works
    <3> QED BY <1>1, <2>0, <2>2, <3>1, <3>2
  <2> QED BY <1>8, <2>1, <2>2 DEF Aht!StartMeasure
<1>9. CASE Aht!ReadResult
  <2>0. UNCHANGED <<retry, shown, calibrated, ahtMeasured, trigger, ahtRound, answered>>
    BY <1>9 DEF Aht!ReadResult
  <2>1. CASE /\ Aht!Fails("read", IF ahtProgram = "i2c" THEN "show" ELSE "delay")
             /\ UNCHANGED <<ahtBuffer, busy>>
    <3>1. /\ ahtPc = "read" /\ UNCHANGED ahtProgram /\ ahtFails' \in 0 .. MaxFail
          /\ ahtPc' = (IF ahtProgram = "i2c" THEN "show" ELSE "delay")
      BY <1>3, <2>1
    <3> QED BY <1>1, <2>0, <2>1, <3>1
  <2>2. CASE Aht!Works("read", "test") /\ ahtBuffer' = Aht!Status /\ Aht!Waits
    <3>1. busy' \in 0 .. MaxBusy BY <1>b, <2>2
    <3>2. ahtPc = "read" /\ ahtPc' = "test" /\ UNCHANGED <<ahtProgram, ahtFails>>
      BY <2>2 DEF Aht!Works
    <3>3. /\ ahtBuffer'.busy \in BOOLEAN /\ ahtBuffer'.calibrated \in BOOLEAN
          /\ ahtBuffer'.data \in Seq(0 .. 255) /\ Len(ahtBuffer'.data) = 5
          /\ ahtBuffer'.data = Aht!Bytes(ahtMeasured)
      BY <1>1, <2>2, StatusRead
    <3> QED BY <1>1, <2>0, <3>1, <3>2, <3>3
  <2> QED BY <1>9, <2>1, <2>2 DEF Aht!ReadResult
<1>10. CASE Aht!TestResult
  <2>0. UNCHANGED <<ahtBuffer, calibrated, busy, ahtMeasured, trigger, ahtRound>>
    BY <1>10 DEF Aht!TestResult, Aht!device
  <2>1. CASE /\ Aht!Works("test", "read") /\ ahtBuffer.busy /\ retry < MAX_RETRY
             /\ retry' = retry + 1 /\ UNCHANGED <<shown, answered>>
    <3>1. retry' \in 0 .. MAX_RETRY
      <4> HIDE DEF AhtInv
      <4> QED BY <1>2, <1>a, <2>1
    <3>2. ahtPc = "test" /\ ahtPc' = "read" /\ UNCHANGED <<ahtProgram, ahtFails>>
      BY <2>1 DEF Aht!Works
    <3> QED BY <1>1, <2>0, <2>1, <3>1, <3>2
  <2>2. CASE /\ Aht!Works("test", IF ahtProgram = "i2c" THEN "show" ELSE "delay")
             /\ retry >= MAX_RETRY /\ UNCHANGED <<retry, shown, answered>>
    <3>1. /\ ahtPc = "test" /\ UNCHANGED ahtProgram /\ ahtFails' \in 0 .. MaxFail
          /\ ahtPc' = (IF ahtProgram = "i2c" THEN "show" ELSE "delay")
      BY <1>3, <2>2
    <3> QED BY <1>1, <2>0, <2>2, <3>1
  <2>3. CASE /\ Aht!Works("test", "show") /\ ~ahtBuffer.busy /\ retry < MAX_RETRY
             /\ shown' = Aht!Raw(ahtBuffer.data) /\ answered' = trigger /\ UNCHANGED retry
    <3>1. ahtPc = "test" /\ ahtPc' = "show" /\ UNCHANGED <<ahtProgram, ahtFails>>
      BY <2>3 DEF Aht!Works
    <3>2. shown' = Aht!Raw(Aht!Bytes(ahtMeasured)) BY <1>1, <2>3, <3>1
    <3>3. shown' = ahtMeasured BY <1>1, <3>2, Measured
    <3> QED BY <1>1, <2>0, <2>3, <3>1, <3>3
  <2> QED BY <1>10, <2>1, <2>2, <2>3 DEF Aht!TestResult
<1>11. CASE Aht!Show BY <1>1, <1>11 DEF Aht!Show, Aht!Works, Aht!device
<1>12. CASE Aht!Delay
  <2>1. busy' \in 0 .. MaxBusy BY <1>b, <1>12 DEF Aht!Delay
  <2> QED BY <1>1, <1>12, <2>1 DEF Aht!Delay, Aht!Works
<1> QED BY <1>1, <1>4, <1>5, <1>6, <1>7, <1>8, <1>9, <1>10, <1>11, <1>12
  DEF Aht!Next, Aht!AHT20_Calibrate, Aht!AHT20_GetMeasureResult

\* For all values of twenty bits, any number of retries and whichever transfer fails: what is
\* published is the measurement triggered for it, put together whole, and nothing is measured
\* before the sensor is calibrated.
THEOREM MeasurementsSafe ==
  BoardSpec => [](Aht!TypeOK /\ Aht!PublishesFresh /\ Aht!CalibratedFirst)
<1>1. BoardInit => AhtInv BY AhtInit DEF BoardInit
<1>2. AhtInv /\ [BoardNext]_boardVars => AhtInv'
  <2>1. SUFFICES ASSUME AhtInv, [BoardNext]_boardVars PROVE AhtInv'
    OBVIOUS
  <2>2. CASE AhtStep BY <2>1, <2>2, AhtNext DEF AhtStep
  <2>3. CASE UNCHANGED ahtVars BY <2>1, <2>3 DEF ahtVars, AhtInv
  <2>4. AhtStep \/ UNCHANGED ahtVars
    BY <2>1 DEF BoardNext, PwmStep, ButtonStep, SensorStep, StorageStep, SocketStep, WifiStep,
      DisplayStep, OledStep, NfcStep, ApplicationStep, boardVars
  <2> QED BY <2>2, <2>3, <2>4
<1>3. AhtInv => Aht!TypeOK /\ Aht!PublishesFresh /\ Aht!CalibratedFirst
  <2>1. SUFFICES ASSUME AhtInv PROVE Aht!TypeOK /\ Aht!PublishesFresh /\ Aht!CalibratedFirst
    OBVIOUS
  <2>2. MaxRound \in Nat BY DeviceAssumption DEF DeviceAssumption
  <2>3. Aht!TypeOK BY <2>1 DEF AhtInv, AhtPcs, Aht!TypeOK
  <2>4. Aht!PublishesFresh BY <2>1 DEF AhtInv, Aht!PublishesFresh
  <2>5. Aht!CalibratedFirst
    <3>1. trigger = 0 \/ calibrated BY <2>1 DEF AhtInv, AhtPcs
    <3> QED BY <3>1 DEF Aht!CalibratedFirst
  <2> QED BY <2>3, <2>4, <2>5
<1> QED BY <1>1, <1>2, <1>3, PTL DEF BoardSpec

(***************************************************************************)
(* The hotspots.  While the link is not up, an event of its loss is still  *)
(* to be delivered as the last one, or the flag is not set and no event    *)
(* under way can set it.                                                   *)
(***************************************************************************)

WifiEvent == {"available", "unavailable", "inactive", "nothing found", "join", "leave"}
InRound == {"wait", "dhcp", "online", "stop"}
LossToCome == wifiDemo # "scan" /\ events # <<>> /\ events[Len(events)] = "unavailable"
NothingToCome == g_connected = 0 /\ \A i \in 1 .. Len(events) : events[i] = "nothing found"

WifiInv ==
  /\ wifiDemo \in {"easy_connect", "connect", "scan", "easy_hotspot", "hotspot"}
  /\ wifiPc \in InRound \union {"start", "stopped"}
  /\ link \in {"down", "joining", "up"} /\ events \in Seq(WifiEvent)
  /\ wifiPc = "start" => events = <<>>
  /\ wifiPc \in {"start", "stopped"} =>
       link = "down" /\ enabled = FALSE /\ config = 0 /\ dhcp = FALSE
  /\ wifiPc \in InRound => registered = TRUE
  /\ wifiPc \in InRound => config = (IF wifiDemo = "scan" THEN 0 ELSE 1)
  /\ wifiPc = "wait" \/ wifiDemo = "scan" => dhcp = FALSE
  /\ wifiPc \in InRound /\ link # "up" => LossToCome \/ NothingToCome

LEMMA WifiInit == Wifi!Init => WifiInv
BY DeviceAssumption, EmptySeq
DEF DeviceAssumption, Wifi!Init, WifiInv, InRound, WifiEvent

\* An event that is queued is the last one, and the others stay as they are.
LEMMA WifiAppended ==
  ASSUME events \in Seq(WifiEvent), NEW e \in WifiEvent, events' = Append(events, e)
  PROVE  /\ events' \in Seq(WifiEvent) /\ events' # <<>> /\ events'[Len(events')] = e
         /\ Len(events') = Len(events) + 1
         /\ \A i \in 1 .. Len(events) : events'[i] = events[i]
OBVIOUS

LEMMA WifiTask == WifiInv /\ Wifi!Task => WifiInv'
<1>1. SUFFICES ASSUME WifiInv, Wifi!Task PROVE WifiInv'
  OBVIOUS
<1> USE DEF WifiInv, InRound
<1>2. /\ wifiDemo \in {"easy_connect", "connect", "scan", "easy_hotspot", "hotspot"}
      /\ wifiDemo' = wifiDemo /\ events \in Seq(WifiEvent)
  <2>1. wifiDemo' = wifiDemo
    BY <1>1 DEF Wifi!Task, Wifi!EasyConnectTask, Wifi!EasyHotspotTask, Wifi!WifiConnectTask,
      Wifi!WifiScanTask, Wifi!WifiHotspotTask, Wifi!ConnectToHotspot, Wifi!DisconnectWithHotspot,
      Wifi!StartHotspot, Wifi!BeginStation, Wifi!BeginScan, Wifi!BeginHotspot, Wifi!Connected,
      Wifi!StartDhcp, Wifi!StartDhcpServer, Wifi!Online, Wifi!StopStation, Wifi!StopScan,
      Wifi!StopHotspot, Wifi!Again, Wifi!Goes
  <2> QED BY <1>1, <2>1
<1>b. ASSUME wifiPc = "start", g_connected' = 0, UNCHANGED events PROVE NothingToCome'
  <2>1. Len(events') = 0 BY <1>1, <1>b
  <2> QED BY <1>b, <2>1 DEF NothingToCome
<1>3. CASE Wifi!BeginStation
  BY <1>1, <1>2, <1>3, <1>b DEF Wifi!BeginStation, Wifi!Goes, Wifi!Uses
<1>4. CASE Wifi!BeginScan
  BY <1>1, <1>2, <1>4, <1>b DEF Wifi!BeginScan, Wifi!Goes, Wifi!Uses
<1>5. CASE Wifi!BeginHotspot
  BY <1>1, <1>2, <1>5, <1>b DEF Wifi!BeginHotspot, Wifi!Goes, Wifi!Uses, Wifi!IsStation
<1>6. CASE Wifi!Connected
  BY <1>1, <1>2, <1>6 DEF Wifi!Connected, Wifi!Goes, Wifi!service, LossToCome, NothingToCome
<1>7. CASE Wifi!StartDhcp /\ wifiDemo # "scan"
  BY <1>1, <1>2, <1>7 DEF Wifi!StartDhcp, Wifi!Goes, Wifi!service, LossToCome, NothingToCome
<1>8. CASE Wifi!StartDhcpServer
  BY <1>1, <1>2, <1>8
  DEF Wifi!StartDhcpServer, Wifi!IsStation, Wifi!Goes, Wifi!service, LossToCome, NothingToCome
<1>9. CASE Wifi!Online
  BY <1>1, <1>2, <1>9 DEF Wifi!Online, Wifi!Goes, Wifi!service, LossToCome, NothingToCome
<1>10. CASE Wifi!StopStation
  <2>1. events' \in Seq(WifiEvent)
    <3>1. CASE UNCHANGED events BY <1>2, <3>1
    <3>2. CASE events' = Append(events, "unavailable") BY <1>2, <3>2, WifiAppended DEF WifiEvent
    <3> QED BY <1>10, <3>1, <3>2 DEF Wifi!StopStation
  <2> QED BY <1>1, <1>2, <1>10, <2>1 DEF Wifi!StopStation, Wifi!Goes
<1>11. CASE Wifi!StopScan BY <1>1, <1>2, <1>11 DEF Wifi!StopScan, Wifi!Goes
<1>12. CASE Wifi!StopHotspot
  <2>1. events' \in Seq(WifiEvent)
    <3>1. events' = Append(events, "inactive") BY <1>12 DEF Wifi!StopHotspot, Wifi!Event
    <3> QED BY <1>2, <3>1, WifiAppended DEF WifiEvent
  <2> QED BY <1>1, <1>2, <1>12, <2>1 DEF Wifi!StopHotspot, Wifi!Goes
<1>13. CASE Wifi!Again
  BY <1>1, <1>2, <1>13 DEF Wifi!Again, Wifi!Goes, Wifi!Delayed, Wifi!service
<1> QED
  BY <1>1, <1>3, <1>4, <1>5, <1>6, <1>7, <1>8, <1>9, <1>10, <1>11, <1>12, <1>13
  DEF Wifi!Task, Wifi!EasyConnectTask, Wifi!EasyHotspotTask, Wifi!WifiConnectTask,
    Wifi!WifiScanTask, Wifi!WifiHotspotTask, Wifi!ConnectToHotspot, Wifi!DisconnectWithHotspot,
    Wifi!StartHotspot

LEMMA WifiService ==
  WifiInv /\ (Wifi!Comes \/ Wifi!Refused \/ Wifi!Lost \/ Wifi!StationChange) => WifiInv'
<1>1. SUFFICES ASSUME WifiInv, Wifi!Comes \/ Wifi!Refused \/ Wifi!Lost \/ Wifi!StationChange
               PROVE  WifiInv'
  OBVIOUS
<1> USE DEF WifiInv, InRound
<1>2. /\ UNCHANGED <<wifiDemo, wifiPc, registered, enabled, config, dhcp, g_connected>>
      /\ link # "down" /\ events \in Seq(WifiEvent) /\ wifiPc \in InRound
  BY <1>1 DEF Wifi!Comes, Wifi!Refused, Wifi!Lost, Wifi!StationChange
<1>3. CASE Wifi!Comes
  <2>1. events' = Append(events, "available") /\ link' = "up" BY <1>3 DEF Wifi!Comes, Wifi!Event
  <2>2. events' \in Seq(WifiEvent) BY <1>2, <2>1, WifiAppended DEF WifiEvent
  <2> QED BY <1>1, <1>2, <2>1, <2>2
<1>4. CASE Wifi!Refused
  <2>1. link' = "down" /\ link = "joining" BY <1>4 DEF Wifi!Refused
  <2>2. CASE wifiDemo = "scan"
    <3>1. events' = Append(events, "nothing found") BY <1>4, <2>2 DEF Wifi!Refused, Wifi!Event
    <3>2. NothingToCome BY <1>1, <1>2, <2>1, <2>2 DEF LossToCome
    <3>3. /\ events' \in Seq(WifiEvent) /\ Len(events') = Len(events) + 1
          /\ events'[Len(events')] = "nothing found"
          /\ \A i \in 1 .. Len(events) : events'[i] = events[i]
      BY <1>2, <3>1, WifiAppended DEF WifiEvent
    <3>4. NothingToCome'
      <4>1. g_connected' = 0 BY <1>2, <3>2 DEF NothingToCome
      <4>2. ASSUME NEW i \in 1 .. Len(events') PROVE events'[i] = "nothing found"
        <5>1. i \in 1 .. Len(events) \/ i = Len(events')
          <6>1. Len(events) \in Nat BY <1>2
          <6>2. Len(events') = Len(events) + 1 BY <3>3
          <6>3. i \in 1 .. Len(events) + 1 BY <6>2
          <6> HIDE DEF WifiInv, InRound
          <6> QED BY <6>1, <6>2, <6>3
        <5> QED BY <3>2, <3>3, <5>1 DEF NothingToCome
      <4> QED BY <4>1, <4>2 DEF NothingToCome
    <3> QED BY <1>1, <1>2, <2>1, <3>3, <3>4
  <2>3. CASE wifiDemo # "scan"
    <3>1. events' = Append(events, "unavailable") BY <1>4, <2>3 DEF Wifi!Refused, Wifi!Event
    <3>2. events' \in Seq(WifiEvent) /\ events' # <<>> /\ events'[Len(events')] = "unavailable"
      BY <1>2, <3>1, WifiAppended DEF WifiEvent
    <3>3. LossToCome' BY <1>2, <2>3, <3>2 DEF LossToCome
    <3> QED BY <1>1, <1>2, <2>1, <3>2, <3>3
  <2> QED BY <2>2, <2>3
<1>5. CASE Wifi!Lost
  <2>1. link' = "joining" /\ wifiDemo # "scan" /\ events' = Append(events, "unavailable")
    BY <1>5 DEF Wifi!Lost, Wifi!Event
  <2>2. events' \in Seq(WifiEvent) /\ events' # <<>> /\ events'[Len(events')] = "unavailable"
    BY <1>2, <2>1, WifiAppended DEF WifiEvent
  <2>3. LossToCome' BY <1>2, <2>1, <2>2 DEF LossToCome
  <2> QED BY <1>1, <1>2, <2>1, <2>2, <2>3
<1>6. CASE Wifi!StationChange
  <2>1. link = "up" /\ link' = "up" /\ \E e \in {"join", "leave"} : events' = Append(events, e)
    BY <1>6 DEF Wifi!StationChange, Wifi!Event
  <2>2. events' \in Seq(WifiEvent) BY <1>2, <2>1, WifiAppended DEF WifiEvent
  <2> QED BY <1>1, <1>2, <2>1, <2>2
<1> QED BY <1>1, <1>3, <1>4, <1>5, <1>6

LEMMA WifiDeliver == WifiInv /\ Wifi!Deliver => WifiInv'
<1>1. SUFFICES ASSUME WifiInv, Wifi!Deliver PROVE WifiInv'
  OBVIOUS
<1> USE DEF WifiInv, InRound
<1>2. /\ UNCHANGED <<wifiDemo, wifiPc, registered, enabled, link, config, dhcp>>
      /\ events \in Seq(WifiEvent) /\ events # <<>> /\ events' = Tail(events)
  BY <1>1 DEF Wifi!Deliver
<1>3. /\ events' \in Seq(WifiEvent) /\ Len(events') = Len(events) - 1
      /\ \A i \in 1 .. Len(events') : events'[i] = events[i + 1]
      /\ Len(events) \in Nat \ {0} /\ Head(events) = events[1]
  BY <1>2
<1>4. ASSUME wifiPc \in InRound, link # "up" PROVE LossToCome' \/ NothingToCome'
  <2>1. registered = TRUE /\ (LossToCome \/ NothingToCome) BY <1>1, <1>4
  <2>2. CASE LossToCome
    <3>1. CASE Len(events) = 1
      <4>1. Head(events) = "unavailable" /\ wifiDemo # "scan" BY <1>3, <2>2, <3>1 DEF LossToCome
      <4>2. g_connected' = 0
        BY <1>1, <2>1, <4>1 DEF Wifi!Deliver, Wifi!OnWifiConnectionChanged,
          Wifi!OnWifiScanStateChanged, Wifi!OnHotspotStateChanged, Wifi!OnHotspotStaJoin,
          Wifi!OnHotspotStaLeave
      <4> QED BY <1>3, <3>1, <4>2 DEF NothingToCome
    <3>2. CASE Len(events) # 1
      <4>1. Len(events') \in 1 .. Len(events') /\ Len(events') + 1 = Len(events) BY <1>3, <3>2
      <4>2. events'[Len(events')] = "unavailable" BY <1>3, <2>2, <4>1 DEF LossToCome
      <4>3. events' # <<>> BY <1>3, <4>1
      <4> QED BY <1>2, <2>2, <4>2, <4>3 DEF LossToCome
    <3> QED BY <3>1, <3>2
  <2>3. CASE NothingToCome
    <3>1. Head(events) = "nothing found"
      <4>1. 1 \in 1 .. Len(events) BY <1>3
      <4> QED BY <1>3, <2>3, <4>1 DEF NothingToCome
    <3>2. g_connected' = 0
      BY <1>1, <2>1, <2>3, <3>1 DEF Wifi!Deliver, Wifi!OnWifiConnectionChanged,
        Wifi!OnWifiScanStateChanged, Wifi!OnHotspotStateChanged, Wifi!OnHotspotStaJoin,
        Wifi!OnHotspotStaLeave, NothingToCome
    <3>3. \A i \in 1 .. Len(events') : i + 1 \in 1 .. Len(events) BY <1>3
    <3> QED BY <1>3, <2>3, <3>2, <3>3 DEF NothingToCome
  <2> QED BY <2>1, <2>2, <2>3
<1>5. wifiPc # "start" BY <1>1, <1>2
<1> QED BY <1>1, <1>2, <1>3, <1>4, <1>5

\* For any number of uses and however links are lost, refused and come back: the task never
\* goes on for the link of an earlier use, and a use gives back what it has taken.
THEOREM HotspotsSafe == BoardSpec => [](Wifi!WaitsForThisOne /\ Wifi!GivenBack)
<1>1. BoardInit => WifiInv BY WifiInit DEF BoardInit
<1>2. WifiInv /\ [BoardNext]_boardVars => WifiInv'
  <2>1. SUFFICES ASSUME WifiInv, [BoardNext]_boardVars PROVE WifiInv'
    OBVIOUS
  <2>2. CASE WifiStep BY <2>1, <2>2, WifiTask, WifiService, WifiDeliver DEF WifiStep, Wifi!Next
  <2>3. CASE UNCHANGED wifiVars
    BY <2>1, <2>3 DEF wifiVars, WifiInv, LossToCome, NothingToCome
  <2>4. WifiStep \/ UNCHANGED wifiVars
    BY <2>1 DEF BoardNext, PwmStep, ButtonStep, SensorStep, StorageStep, AhtStep, SocketStep,
      DisplayStep, OledStep, NfcStep, ApplicationStep, boardVars
  <2> QED BY <2>2, <2>3, <2>4
<1>3. WifiInv => Wifi!WaitsForThisOne /\ Wifi!GivenBack
  <2>1. SUFFICES ASSUME WifiInv PROVE Wifi!WaitsForThisOne /\ Wifi!GivenBack
    OBVIOUS
  <2>2. Wifi!GivenBack BY <2>1 DEF WifiInv, Wifi!GivenBack
  <2>3. ASSUME wifiPc = "wait", g_connected # 0, link # "up"
        PROVE  \E i \in 1 .. Len(events) : events[i] \in {"unavailable", "inactive"}
    <3>1. LossToCome BY <2>1, <2>3 DEF WifiInv, InRound, NothingToCome
    <3>2. Len(events) \in 1 .. Len(events) BY <2>1, <3>1 DEF WifiInv, LossToCome
    <3> QED BY <3>1, <3>2 DEF LossToCome
  <2> QED BY <2>2, <2>3 DEF Wifi!WaitsForThisOne
<1> QED BY <1>1, <1>2, <1>3, PTL DEF BoardSpec

(***************************************************************************)
(* The pulses.  A port is started only in the rounds of its program, after *)
(* the setting up and before its pin is given another function, and each   *)
(* program computes its duties within its period.                          *)
(***************************************************************************)

PwmDemos == {"demo1", "demo2", "demo3", "pwm_volume", "pwm_buz", "pwm_music", "rgb_light"}

\* A pulse whose duty lies in its period, and that in the sixteen bits of the port.
GoodPulse(x) == \E duty, period \in Nat : x = <<duty, period>> /\ duty <= period /\ period <= 65535
GoodPulses(pulses) ==
  DOMAIN pulses \subseteq Pwm!Ports[pwmDemo] /\ \A p \in DOMAIN pulses : GoodPulse(pulses[p])

\* The ports are ready and their pins connected, in the rounds that start pulses.
Connected(ports) == \A p \in ports : p \in ready /\ function[p] = "pwm"

PwmInv ==
  /\ pwmDemo \in PwmDemos /\ pwmRound \in 0 .. 298
  /\ function \in [Pwm!Port -> {"none", "gpio", "pwm", "high"}] /\ ready \subseteq Pwm!Port
  /\ pulse \in [Pwm!Port -> Nat \X Nat] /\ \A p \in Pwm!Port : GoodPulse(pulse[p])
  /\ pwmDemo # "rgb_light" /\ pwmRound \in 1 .. Pwm!Rounds[pwmDemo] => Connected(Pwm!Ports[pwmDemo])
  /\ pwmDemo = "rgb_light" /\ pwmRound \in 13 .. 27 => Connected(Pwm!Lamp)
  /\ ~Pwm!Silent => /\ pwmRound \in 1 .. Pwm!Rounds[pwmDemo]
                    /\ pwmDemo = "rgb_light" => pwmRound \in 13 .. 27
  /\ \A p \in Pwm!Port : pulse[p] # Pwm!Off => p \in Pwm!Ports[pwmDemo]
  /\ Pwm!EvenLight

\* Rounds and ports of the programs.
LEMMA PwmPrograms ==
  /\ DOMAIN Pwm!Rounds = PwmDemos /\ DOMAIN Pwm!Ports = PwmDemos
  /\ Pwm!Rounds["demo1"] = 26 /\ Pwm!Rounds["demo2"] = 198 /\ Pwm!Rounds["demo3"] = 297
  /\ Pwm!Rounds["pwm_volume"] = 200 /\ Pwm!Rounds["pwm_buz"] = 1 /\ Pwm!Rounds["pwm_music"] = 32
  /\ Pwm!Rounds["rgb_light"] = 27
  /\ \A d \in {"demo1", "demo2", "demo3", "rgb_light"} : Pwm!Ports[d] = 1 .. 3
  /\ \A d \in {"pwm_volume", "pwm_buz", "pwm_music"} : Pwm!Ports[d] = {0}
  /\ \A d \in PwmDemos : Pwm!Rounds[d] \in 1 .. 297
<1>1. Len(Pwm!g_scoreNotes) = 32 BY DEF Pwm!g_scoreNotes
<1> QED BY <1>1 DEF Pwm!Rounds, Pwm!Ports, Pwm!Lamp, PwmDemos

\* The powers of two that the lamps go through.
Level == {d \in Nat : d <= 4096}

LEMMA Doubled == \A k \in 0 .. 12 : 2 ^ k \in Level
<1>1. /\ 2 ^ 0 \in Level /\ 2 ^ 1 \in Level /\ 2 ^ 2 \in Level /\ 2 ^ 3 \in Level /\ 2 ^ 4 \in Level
      /\ 2 ^ 5 \in Level /\ 2 ^ 6 \in Level /\ 2 ^ 7 \in Level /\ 2 ^ 8 \in Level /\ 2 ^ 9 \in Level
      /\ 2 ^ 10 \in Level /\ 2 ^ 11 \in Level /\ 2 ^ 12 \in Level
  BY SMT DEF Level
<1> SUFFICES ASSUME NEW k \in 0 .. 12 PROVE 2 ^ k \in Level
  OBVIOUS
<1>2. \/ k = 0 \/ k = 1 \/ k = 2 \/ k = 3 \/ k = 4 \/ k = 5 \/ k = 6
      \/ k = 7 \/ k = 8 \/ k = 9 \/ k = 10 \/ k = 11 \/ k = 12
  BY SMT
<1> QED BY <1>1, <1>2, Zenon

\* One port started.
LEMMA OneGood ==
  ASSUME NEW pwm, pwm \in Pwm!Ports[pwmDemo],
         NEW duty \in Nat, NEW period \in Nat, duty <= period, period <= 65535
  PROVE  GoodPulses(Pwm!One(pwm, duty, period))
BY DEF GoodPulses, GoodPulse, Pwm!One

\* A port started at one of those levels.
LEMMA LevelGood ==
  ASSUME NEW pwm, pwm \in Pwm!Ports[pwmDemo], NEW duty \in Level
  PROVE  GoodPulses(Pwm!One(pwm, duty, 64000))
<1>1. duty \in Nat /\ duty <= 64000 BY SMT DEF Level
<1> QED BY <1>1, OneGood, SMT

\* The ports of a round started.
LEMMA StartGood ==
  ASSUME NEW pulses, GoodPulses(pulses), Pwm!Start(pulses)
  PROVE  /\ UNCHANGED <<pwmDemo, pwmRound, function, ready>>
         /\ pulse' \in [Pwm!Port -> Nat \X Nat] /\ \A p \in Pwm!Port : GoodPulse(pulse'[p])
         /\ \A p \in Pwm!Port : pulse'[p] # Pwm!Off => p \in Pwm!Ports[pwmDemo]
<1>1. GoodPulse(Pwm!Off) BY DEF GoodPulse, Pwm!Off
<1>2. \A p \in Pwm!Port : GoodPulse(pulse'[p])
  BY <1>1 DEF GoodPulses, Pwm!Start
<1>3. \A p \in Pwm!Port : pulse'[p] \in Nat \X Nat
  BY <1>2 DEF GoodPulse
<1>4. pulse' = [p \in Pwm!Port |-> pulse'[p]]
  BY DEF Pwm!Start
<1>5. \A p \in Pwm!Port : pulse'[p] # Pwm!Off => p \in Pwm!Ports[pwmDemo]
  BY DEF GoodPulses, Pwm!Start
<1>6. pulse' \in [Pwm!Port -> Nat \X Nat] BY <1>3, <1>4
<1> QED BY <1>2, <1>5, <1>6 DEF Pwm!Start

\* demo3: what one lamp loses another gains.
LEMMA EvenRound ==
  ASSUME NEW n \in 1 .. 297, pwmDemo = "demo3", Pwm!Start(Pwm!demo3(n))
  PROVE  /\ GoodPulses(Pwm!demo3(n))
         /\ pulse'[1][1] + pulse'[2][1] + pulse'[3][1] = 101
<1> DEFINE i == ((n - 1) % 99) + 1
           duties == CASE n <= 99 -> <<1, 100 - i, i>>
                  [] n \in 100 .. 198 -> <<i, 1, 100 - i>>
                  [] OTHER -> <<100 - i, i, 1>>
<1>1. i \in 1 .. 99 OBVIOUS
<1> HIDE DEF i
<1>2. /\ duties[1] \in 1 .. 99 /\ duties[2] \in 1 .. 99 /\ duties[3] \in 1 .. 99
      /\ duties[1] + duties[2] + duties[3] = 101
  <2>1. CASE n <= 99 BY <1>1, <2>1
  <2>2. CASE n \in 100 .. 198 BY <1>1, <2>2
  <2>3. CASE ~(n <= 99) /\ n \notin 100 .. 198 BY <1>1, <2>3
  <2> QED BY <2>1, <2>2, <2>3
<1>3. Pwm!demo3(n) = [p \in 1 .. 3 |-> <<duties[p], 100>>]
  BY DEF Pwm!demo3, Pwm!Pulses, Pwm!Lamp, i
<1> HIDE DEF duties
<1>4. \A p \in 1 .. 3 : p = 1 \/ p = 2 \/ p = 3 OBVIOUS
<1>5. GoodPulses(Pwm!demo3(n))
  <2>1. Pwm!Ports[pwmDemo] = 1 .. 3 BY PwmPrograms
  <2>2. DOMAIN Pwm!demo3(n) = 1 .. 3 BY <1>3
  <2>3. ASSUME NEW p \in 1 .. 3 PROVE GoodPulse(Pwm!demo3(n)[p])
    <3>1. duties[p] \in 1 .. 99 BY <1>2, <1>4
    <3>2. Pwm!demo3(n)[p] = <<duties[p], 100>> BY <1>3
    <3> QED BY <3>1, <3>2 DEF GoodPulse
  <2> QED BY <2>1, <2>2, <2>3 DEF GoodPulses
<1>6. pulse'[1] = <<duties[1], 100>> /\ pulse'[2] = <<duties[2], 100>> /\ pulse'[3] = <<duties[3], 100>>
  BY <1>3 DEF Pwm!Start, Pwm!Port
<1> QED BY <1>2, <1>5, <1>6

\* Divisors of the sixteen bits of a port.
Divisor == {d \in Nat : d <= 65535}

\* The pulses of the other programs, in each of their rounds.
LEMMA RoundsGood ==
  ASSUME NEW n \in Nat
  PROVE  /\ pwmDemo = "demo1" /\ n \in 1 .. 26 => GoodPulses(Pwm!demo1(n))
         /\ pwmDemo = "demo2" /\ n \in 1 .. 198 => GoodPulses(Pwm!demo2(n))
         /\ pwmDemo = "pwm_volume" /\ n \in 1 .. 200 => GoodPulses(Pwm!pwm_volume(n))
         /\ pwmDemo = "pwm_buz" => GoodPulses(Pwm!pwm_buz(n))
         /\ pwmDemo = "pwm_music" /\ n \in 1 .. 32 => GoodPulses(Pwm!pwm_music(n))
<1>1. ASSUME pwmDemo = "demo1", n \in 1 .. 26 PROVE GoodPulses(Pwm!demo1(n))
  <2>1. 1 \in Pwm!Ports[pwmDemo] BY <1>1, PwmPrograms
  <2>2. CASE n <= 13
    <3> DEFINE duty == 2 ^ (n - 1)
    <3>1. n - 1 \in 0 .. 12 BY <1>1, <2>2
    <3>2. duty \in Level BY <3>1, Doubled, Zenon
    <3> HIDE DEF duty
    <3>3. GoodPulses(Pwm!One(1, duty, 64000)) BY <2>1, <3>2, LevelGood, SMT
    <3> QED BY <2>2, <3>3, SMT DEF Pwm!demo1, duty
  <2>3. CASE ~(n <= 13)
    <3> DEFINE duty == 2 ^ (26 - n)
    <3>1. 26 - n \in 0 .. 12 BY <1>1, <2>3
    <3>2. duty \in Level BY <3>1, Doubled, Zenon
    <3> HIDE DEF duty
    <3>3. GoodPulses(Pwm!One(1, duty, 64000)) BY <2>1, <3>2, LevelGood, SMT
    <3> QED BY <2>3, <3>3, SMT DEF Pwm!demo1, duty
  <2> QED BY <2>2, <2>3
<1>2. ASSUME pwmDemo = "demo2", n \in 1 .. 198 PROVE GoodPulses(Pwm!demo2(n))
  <2> DEFINE duty == IF n <= 99 THEN n ELSE 199 - n
  <2>1. 1 \in Pwm!Ports[pwmDemo] BY <1>2, PwmPrograms
  <2>2. duty \in 0 .. 100 BY <1>2
  <2> HIDE DEF duty
  <2>3. GoodPulses(Pwm!One(1, duty, 100)) BY <2>1, <2>2, OneGood
  <2> QED BY <2>3 DEF Pwm!demo2, duty
<1>3. ASSUME pwmDemo = "pwm_volume", n \in 1 .. 200 PROVE GoodPulses(Pwm!pwm_volume(n))
  <2> DEFINE pace == IF n <= 100 THEN 101 - n ELSE n - 100
             duty == (65400 \div Pwm!numLevels) * pace
  <2>1. 0 \in Pwm!Ports[pwmDemo] BY <1>3, PwmPrograms
  <2>2. pace \in 1 .. 100 BY <1>3
  <2>3. 65400 \div Pwm!numLevels = 654 BY DEF Pwm!numLevels
  <2>4. duty = 654 * pace BY <2>3
  <2>5. duty = (65400 \div Pwm!numLevels) * pace OBVIOUS
  <2> HIDE DEF pace, duty
  <2>6. duty \in Nat /\ duty <= 65400 BY <2>2, <2>4, SMT
  <2>7. GoodPulses(Pwm!One(0, duty, 65400)) BY <2>1, <2>6, OneGood, SMT
  <2>8. Pwm!pwm_volume(n) = Pwm!One(0, duty, 65400) BY <2>5, SMT DEF Pwm!pwm_volume, pace
  <2> QED BY <2>7, <2>8
<1>4. ASSUME pwmDemo = "pwm_buz" PROVE GoodPulses(Pwm!pwm_buz(n))
  <2>1. 0 \in Pwm!Ports[pwmDemo] BY <1>4, PwmPrograms
  <2> QED BY <2>1, OneGood DEF Pwm!pwm_buz
<1>5. ASSUME pwmDemo = "pwm_music", n \in 1 .. 32 PROVE GoodPulses(Pwm!pwm_music(n))
  <2> DEFINE divisor == Pwm!g_tuneFreqs[Pwm!g_scoreNotes[n]]
  <2>1. 0 \in Pwm!Ports[pwmDemo] BY <1>5, PwmPrograms
  <2>2. Pwm!g_scoreNotes[n] \in 1 .. 8
    <3>1. Pwm!g_scoreNotes \in Seq(1 .. 8) /\ Len(Pwm!g_scoreNotes) = 32 BY DEF Pwm!g_scoreNotes
    <3> QED BY <1>5, <3>1, ElementOfSeq
  <2>3. \A k \in 1 .. 8 : Pwm!g_tuneFreqs[k] \in Divisor
    <3>1. Pwm!g_tuneFreqs \in Seq(Divisor) /\ Len(Pwm!g_tuneFreqs) = 8 BY SMT DEF Pwm!g_tuneFreqs, Divisor
    <3>2. 1 .. Len(Pwm!g_tuneFreqs) = 1 .. 8 BY <3>1, SMT
    <3> QED BY <3>1, <3>2, ElementOfSeq, Zenon
  <2>4. divisor \in Divisor BY <2>2, <2>3, Zenon
  <2> HIDE DEF divisor
  <2>5. /\ divisor \in Nat /\ divisor <= 65535
        /\ divisor \div 2 \in Nat /\ divisor \div 2 <= divisor
    <3>1. divisor \in Nat /\ divisor <= 65535 BY <2>4, SMT DEF Divisor
    <3>2. \A d \in Nat : d \div 2 \in Nat /\ d \div 2 <= d BY SMT
    <3> QED BY <3>1, <3>2, SMT
  <2>6. GoodPulses(Pwm!One(0, divisor \div 2, divisor)) BY <2>1, <2>5, OneGood, SMT
  <2> QED BY <2>6 DEF Pwm!pwm_music, divisor
<1> QED BY <1>1, <1>2, <1>3, <1>4, <1>5

\* rgb_light: a lamp follows its sensor.
LEMMA SensorGood ==
  ASSUME pwmDemo = "rgb_light", NEW p \in 1 .. 3, NEW data \in RgbReading \union {0}
  PROVE  GoodPulses(Pwm!One(p, Pwm!SensorDuty(data), 64000))
<1>1. data \in 0 .. 4095 BY DeviceAssumption
<1>2. Pwm!SensorDuty(data) \in Nat /\ Pwm!SensorDuty(data) <= 64000
  <2> DEFINE x == 64000 * data
  <2>1. x \in Nat /\ x <= 262144000 BY <1>1, SMT
  <2>2. Pwm!SensorDuty(data) = x \div 4096 BY SMT DEF Pwm!SensorDuty
  <2> HIDE DEF x
  <2>3. x \div 4096 \in Nat /\ x \div 4096 <= 64000 BY <2>1, SMT
  <2> QED BY <2>2, <2>3, SMT
<1>3. p \in Pwm!Ports[pwmDemo] BY PwmPrograms
<1> QED BY <1>2, <1>3, OneGood, SMT

\* The steps.
LEMMA PwmInit ==
  ASSUME Pwm!Init
  PROVE  PwmInv
<1>1. pwmDemo \in PwmDemos BY PwmPrograms DEF Pwm!Init
<1>2. Pwm!Silent BY DEF Pwm!Init, Pwm!Silent
<1>3. GoodPulse(Pwm!Off) BY DEF GoodPulse, Pwm!Off
<1>4. pulse \in [Pwm!Port -> Nat \X Nat] BY DEF Pwm!Init, Pwm!Off
<1>5. \A p \in Pwm!Port : pulse[p] = Pwm!Off BY DEF Pwm!Init
<1>6. pwmRound = 0 /\ ready = {} /\ function \in [Pwm!Port -> {"none", "gpio", "pwm", "high"}]
  BY DEF Pwm!Init
<1> QED BY <1>1, <1>2, <1>3, <1>4, <1>5, <1>6, PwmPrograms DEF PwmInv, Pwm!EvenLight

LEMMA PwmSetUp ==
  ASSUME PwmInv, Pwm!SetUp
  PROVE  PwmInv'
<1>1. pwmDemo \in PwmDemos /\ pwmRound = 0 /\ pwmRound' = 1 /\ UNCHANGED <<pwmDemo, pulse>>
  BY DEF PwmInv, Pwm!SetUp
<1>2. Pwm!Silent BY <1>1 DEF PwmInv
<1>3. function' \in [Pwm!Port -> {"none", "gpio", "pwm", "high"}] /\ ready' \subseteq Pwm!Port
  <2>1. Pwm!Ports[pwmDemo] \subseteq Pwm!Port BY <1>1, PwmPrograms DEF PwmDemos, Pwm!Port
  <2> QED BY <2>1 DEF Pwm!SetUp
<1>4. pwmDemo # "rgb_light" => Connected(Pwm!Ports[pwmDemo])'
  <2>1. Pwm!Ports[pwmDemo] \subseteq Pwm!Port BY <1>1, PwmPrograms DEF PwmDemos, Pwm!Port
  <2> QED BY <1>1, <2>1 DEF Pwm!SetUp, Connected
<1>5. Pwm!Silent' BY <1>1, <1>2 DEF Pwm!Silent
<1>6. Pwm!EvenLight' BY <1>5 DEF Pwm!EvenLight
<1> QED BY <1>1, <1>3, <1>4, <1>5, <1>6 DEF PwmInv

LEMMA PwmPlay ==
  ASSUME PwmInv, Pwm!Play
  PROVE  PwmInv'
<1> USE DEF PwmDemos
<1>1. pwmDemo \in PwmDemos /\ pwmRound \in Nat /\ pwmRound \in 1 .. Pwm!Rounds[pwmDemo]
  BY DEF PwmInv, Pwm!Play
<1>2. /\ pwmDemo # "rgb_light" /\ UNCHANGED <<pwmDemo, pwmRound, function, ready>>
      /\ pulse' \in [Pwm!Port -> Nat \X Nat] /\ \A p \in Pwm!Port : GoodPulse(pulse'[p])
      /\ \A p \in Pwm!Port : pulse'[p] # Pwm!Off => p \in Pwm!Ports[pwmDemo]
      /\ pwmDemo = "demo3" => pulse'[1][1] + pulse'[2][1] + pulse'[3][1] = 101
  <2>1. CASE pwmDemo = "demo1" BY <1>1, <2>1, PwmPrograms, RoundsGood, StartGood DEF Pwm!Play
  <2>2. CASE pwmDemo = "demo2" BY <1>1, <2>2, PwmPrograms, RoundsGood, StartGood DEF Pwm!Play
  <2>3. CASE pwmDemo = "demo3"
    <3>1. pwmRound \in 1 .. 297 /\ Pwm!Start(Pwm!demo3(pwmRound)) BY <1>1, <2>3, PwmPrograms DEF Pwm!Play
    <3>2. /\ GoodPulses(Pwm!demo3(pwmRound))
          /\ pulse'[1][1] + pulse'[2][1] + pulse'[3][1] = 101
      BY <2>3, <3>1, EvenRound
    <3> QED BY <2>3, <3>1, <3>2, StartGood
  <2>4. CASE pwmDemo = "pwm_volume" BY <1>1, <2>4, PwmPrograms, RoundsGood, StartGood DEF Pwm!Play
  <2>5. CASE pwmDemo = "pwm_buz" BY <1>1, <2>5, PwmPrograms, RoundsGood, StartGood DEF Pwm!Play
  <2>6. CASE pwmDemo = "pwm_music" BY <1>1, <2>6, PwmPrograms, RoundsGood, StartGood DEF Pwm!Play
  <2>7. pwmDemo # "rgb_light" BY DEF Pwm!Play
  <2> QED BY <1>1, <2>1, <2>2, <2>3, <2>4, <2>5, <2>6, <2>7
<1>3. Pwm!EvenLight' BY <1>2 DEF Pwm!EvenLight
<1>4. /\ pwmDemo' \in PwmDemos /\ pwmRound' \in 0 .. 298
      /\ function' \in [Pwm!Port -> {"none", "gpio", "pwm", "high"}] /\ ready' \subseteq Pwm!Port
  BY <1>2 DEF PwmInv
<1>5. Connected(Pwm!Ports[pwmDemo])' BY <1>1, <1>2 DEF PwmInv, Connected
<1> QED BY <1>1, <1>2, <1>3, <1>4, <1>5 DEF PwmInv

LEMMA PwmRgb ==
  ASSUME PwmInv, Pwm!rgb_light
  PROVE  PwmInv'
<1>1. pwmDemo = "rgb_light" /\ Pwm!Silent /\ Pwm!Rounds[pwmDemo] = 27 /\ Pwm!Ports[pwmDemo] = 1 .. 3
  BY PwmPrograms DEF Pwm!rgb_light
<1>2. CASE /\ pwmRound \in 1 .. 11 /\ pwmRound' = pwmRound + 1
           /\ UNCHANGED <<pwmDemo, function, ready, pulse>>
  <2>1. Pwm!Silent' BY <1>1, <1>2 DEF Pwm!Silent
  <2>2. pwmRound' \in 2 .. 12 BY <1>2
  <2> QED BY <1>1, <1>2, <2>1, <2>2 DEF PwmInv, Pwm!EvenLight
<1>3. CASE /\ pwmRound = 12 /\ pwmRound' = 13
           /\ function' = [p \in Pwm!Port |-> IF p \in Pwm!Lamp THEN "pwm" ELSE function[p]]
           /\ ready' = Pwm!Lamp
           /\ UNCHANGED <<pwmDemo, pulse>>
  <2>1. Pwm!Silent' BY <1>1, <1>3 DEF Pwm!Silent
  <2>2. Pwm!Lamp \subseteq Pwm!Port BY DEF Pwm!Lamp, Pwm!Port
  <2>3. function' \in [Pwm!Port -> {"none", "gpio", "pwm", "high"}] BY <1>3 DEF PwmInv
  <2>4. Connected(Pwm!Lamp)' BY <1>3, <2>2 DEF Connected
  <2> QED BY <1>1, <1>3, <2>1, <2>2, <2>3, <2>4 DEF PwmInv, Pwm!EvenLight
<1>4. ASSUME NEW pulses, GoodPulses(pulses), Pwm!Start(pulses), pwmRound \in 13 .. 27
      PROVE  PwmInv'
  <2>1. /\ UNCHANGED <<pwmDemo, pwmRound, function, ready>>
        /\ pulse' \in [Pwm!Port -> Nat \X Nat] /\ \A p \in Pwm!Port : GoodPulse(pulse'[p])
        /\ \A p \in Pwm!Port : pulse'[p] # Pwm!Off => p \in Pwm!Ports[pwmDemo]
    BY <1>4, StartGood
  <2>2. Connected(Pwm!Lamp)' BY <1>1, <1>4, <2>1 DEF PwmInv, Connected
  <2>3. Pwm!EvenLight' BY <1>1, <2>1 DEF Pwm!EvenLight
  <2> QED BY <1>1, <1>4, <2>1, <2>2, <2>3 DEF PwmInv
<1>5. CASE pwmRound \in 13 .. 25 /\ Pwm!Start(Pwm!One(3, 2 ^ (pwmRound - 13), 64000))
  <2> DEFINE duty == 2 ^ (pwmRound - 13)
  <2>0. 3 \in Pwm!Ports[pwmDemo] BY <1>1, SMT
  <2>1. pwmRound - 13 \in 0 .. 12 BY <1>5
  <2>2. duty \in Level BY <2>1, Doubled, Zenon
  <2>3. Pwm!Start(Pwm!One(3, duty, 64000)) BY <1>5
  <2> HIDE DEF duty
  <2>4. GoodPulses(Pwm!One(3, duty, 64000)) BY <2>0, <2>2, LevelGood, SMT
  <2> QED BY <1>4, <1>5, <2>3, <2>4
<1>6. CASE /\ pwmRound \in {26, 27}
           /\ \E data \in RgbReading \union {0} : Pwm!Start(Pwm!One(pwmRound - 25, Pwm!SensorDuty(data), 64000))
  <2>1. PICK data \in RgbReading \union {0} : Pwm!Start(Pwm!One(pwmRound - 25, Pwm!SensorDuty(data), 64000))
    BY <1>6
  <2>2. pwmRound - 25 \in 1 .. 3 BY <1>6
  <2>3. GoodPulses(Pwm!One(pwmRound - 25, Pwm!SensorDuty(data), 64000)) BY <1>1, <2>2, SensorGood
  <2> QED BY <1>4, <1>6, <2>1, <2>3
<1> QED BY <1>2, <1>3, <1>5, <1>6 DEF Pwm!rgb_light

LEMMA PwmStop ==
  ASSUME PwmInv, Pwm!Stop
  PROVE  PwmInv'
<1>1. /\ pwmDemo \in PwmDemos /\ pwmRound \in 1 .. Pwm!Rounds[pwmDemo]
      /\ pwmDemo = "rgb_light" => pwmRound \in 13 .. 27
      /\ Pwm!Rounds[pwmDemo] \in 1 .. 297
  BY PwmPrograms DEF PwmInv, Pwm!Stop
<1>2. UNCHANGED <<pwmDemo, ready>> /\ pulse' = [p \in Pwm!Port |-> Pwm!Off] BY DEF Pwm!Stop
<1>3. Pwm!Silent' BY <1>2 DEF Pwm!Silent
<1>4. /\ pulse' \in [Pwm!Port -> Nat \X Nat]
      /\ \A p \in Pwm!Port : pulse'[p] = Pwm!Off
  BY <1>2 DEF Pwm!Off
<1>5. GoodPulse(Pwm!Off) BY DEF GoodPulse, Pwm!Off
<1>6. pwmRound' \in 1 .. 298 /\ (pwmDemo = "rgb_light" => pwmRound' \in 13 .. 27)
  <2>1. pwmRound' \in 1 .. 298
    <3>1. PICK last \in 1 .. 297 : last = Pwm!Rounds[pwmDemo] BY <1>1, SMT
    <3>2. pwmRound' \in {pwmRound + 1, 26, 1} BY Zenon DEF Pwm!Stop
    <3> QED BY <1>1, <3>1, <3>2, SMT
  <2>2. pwmDemo = "rgb_light" => pwmRound' \in 13 .. 27
    <3>1. SUFFICES ASSUME pwmDemo = "rgb_light" PROVE pwmRound' \in 13 .. 27
      OBVIOUS
    <3>2. Pwm!Rounds[pwmDemo] = 27 BY <3>1, PwmPrograms, Zenon
    <3>0. pwmRound' = CASE pwmRound < 27 -> pwmRound + 1
                        [] pwmDemo = "rgb_light" /\ pwmRound = 27 -> 26
                        [] pwmDemo \in Pwm!Endless -> 1
                        [] OTHER -> pwmRound + 1
      BY <3>2, Zenon DEF Pwm!Stop
    <3>3. CASE pwmRound < 27
      <4>1. pwmRound' = pwmRound + 1 BY <3>0, <3>3, <3>1, <1>1, SMT DEF Pwm!Endless
      <4> QED BY <1>1, <3>1, <3>3, <4>1, SMT
    <3>4. CASE pwmRound = 27
      <4>1. pwmRound' = 26 BY <3>0, <3>1, <3>4, SMT DEF Pwm!Endless
      <4> QED BY <4>1, SMT
    <3> QED BY <1>1, <3>1, <3>3, <3>4, SMT
  <2> QED BY <2>1, <2>2, Zenon
<1>7. function' \in [Pwm!Port -> {"none", "gpio", "pwm", "high"}]
  BY DEF PwmInv, Pwm!Stop
<1>8. pwmDemo # "rgb_light" /\ pwmRound' \in 1 .. Pwm!Rounds[pwmDemo] => Connected(Pwm!Ports[pwmDemo])'
  <2>1. CASE pwmDemo = "pwm_buz"
    <3>1. pwmRound = 1 /\ pwmRound' = 2 BY <1>1, <2>1, PwmPrograms DEF Pwm!Stop, Pwm!Endless
    <3> QED BY <2>1, <3>1, PwmPrograms
  <2>2. CASE pwmDemo # "pwm_buz"
    BY <1>1, <1>2, <2>2 DEF PwmInv, Pwm!Stop, Connected
  <2> QED BY <2>1, <2>2
<1>9. pwmDemo = "rgb_light" => Connected(Pwm!Lamp)'
  BY <1>1, <1>2 DEF PwmInv, Pwm!Stop, Connected
<1>10. Pwm!EvenLight' BY <1>3 DEF Pwm!EvenLight
<1>11. ready' \subseteq Pwm!Port BY <1>2 DEF PwmInv
<1> QED BY <1>1, <1>2, <1>3, <1>4, <1>5, <1>6, <1>7, <1>8, <1>9, <1>10, <1>11 DEF PwmInv

LEMMA PwmSound ==
  ASSUME PwmInv
  PROVE  Pwm!TypeOK /\ Pwm!PulseOnPin /\ Pwm!DutyInPeriod /\ Pwm!EvenLight
<1>1. ASSUME NEW p \in Pwm!Port
      PROVE  /\ pulse[p] \in Seq(Nat) /\ Len(pulse[p]) = 2
             /\ pulse[p][1] <= pulse[p][2] /\ pulse[p][2] <= 65535
  <2>1. GoodPulse(pulse[p]) BY Zenon DEF PwmInv
  <2>2. PICK duty, period \in Nat : pulse[p] = <<duty, period>> /\ duty <= period /\ period <= 65535
    BY <2>1, SMT DEF GoodPulse
  <2>3. pulse[p][1] = duty /\ pulse[p][2] = period BY <2>2, SMT
  <2>4. pulse[p] \in Seq(Nat) /\ Len(pulse[p]) = 2 BY <2>2, SMT
  <2> QED BY <2>2, <2>3, <2>4, SMT
<1>2. Pwm!DutyInPeriod
  BY <1>1, SMT DEF Pwm!DutyInPeriod, Pwm!MaxDivisor
<1>3. ASSUME NEW p \in Pwm!Port, pulse[p] # Pwm!Off
      PROVE  p \in ready /\ function[p] = "pwm"
  <2>1. /\ pwmDemo \in PwmDemos /\ p \in Pwm!Ports[pwmDemo] /\ pwmRound \in 1 .. Pwm!Rounds[pwmDemo]
        /\ pwmDemo = "rgb_light" => pwmRound \in 13 .. 27
    BY <1>3 DEF PwmInv, Pwm!Silent
  <2>2. CASE pwmDemo = "rgb_light"
    <3>1. p \in Pwm!Lamp BY <2>1, <2>2, PwmPrograms DEF Pwm!Lamp
    <3> QED BY <2>1, <2>2, <3>1 DEF PwmInv, Connected
  <2>3. CASE pwmDemo # "rgb_light" BY <2>1, <2>3 DEF PwmInv, Connected
  <2> QED BY <2>2, <2>3
<1>4. Pwm!TypeOK BY <1>1 DEF PwmInv, Pwm!TypeOK
<1> QED BY <1>2, <1>3, <1>4 DEF Pwm!PulseOnPin, PwmInv

\* The lamps and the buzzer: a pulse is given only on an initialised port whose pin is
\* connected to it, with a duty within its period and both within the port's sixteen bits,
\* and the three lamps of demo3 are as bright together in every round.
THEOREM PulsesSafe ==
  BoardSpec => [](Pwm!TypeOK /\ Pwm!PulseOnPin /\ Pwm!DutyInPeriod /\ Pwm!EvenLight)
<1>1. BoardInit => PwmInv BY PwmInit DEF BoardInit
<1>2. PwmInv /\ [BoardNext]_boardVars => PwmInv'
  <2> SUFFICES ASSUME PwmInv, [BoardNext]_boardVars PROVE PwmInv'
    OBVIOUS
  <2>1. PwmStep \/ UNCHANGED pwmVars
    BY DEF BoardNext, ButtonStep, SensorStep, StorageStep, AhtStep, SocketStep, WifiStep, DisplayStep,
           OledStep, NfcStep, ApplicationStep, boardVars
  <2>2. CASE PwmStep
    BY <2>2, PwmSetUp, PwmPlay, PwmRgb, PwmStop DEF PwmStep, Pwm!Next
  <2>3. CASE UNCHANGED pwmVars
    BY <2>3 DEF pwmVars, PwmInv, Connected, Pwm!Silent, Pwm!EvenLight
  <2> QED BY <2>1, <2>2, <2>3
<1> QED BY <1>1, <1>2, PwmSound, PTL DEF BoardSpec

(***************************************************************************)
(* The tag's memory.  A write is cut where the chip's blocks end.          *)
(***************************************************************************)

\* Quotient and remainder, ...
LEMMA Division ==
  ASSUME NEW n \in Nat, NEW d \in Nat \ {0}
  PROVE  /\ n \div d \in Nat /\ n % d \in 0 .. d - 1
         /\ n = (n \div d) * d + (n % d)
OBVIOUS

\* ... put together ...
LEMMA Quotient ==
  ASSUME NEW k \in Nat, NEW d \in Nat \ {0}, NEW r \in 0 .. d - 1
  PROVE  (k * d + r) \div d = k
OBVIOUS

\* ... and products.
LEMMA Products ==
  ASSUME NEW d \in Nat \ {0}, NEW m \in Nat, NEW n \in Nat
  PROVE  /\ (m + n) * d = m * d + n * d
         /\ m * d \in Nat
         /\ m <= n => m * d <= n * d
         /\ m < n => (m * d) + d <= n * d
<1> QED OBVIOUS

\* The pages of one write.
OnePage(addr, len, o, i) ==
  <<addr + o + (i - 1) * BLOCK, Nfc!Min2(BLOCK, len - o - (i - 1) * BLOCK)>>

\* The n pages behind the first o bytes: whole blocks, and what is left.
Blocks(addr, len, o, n) ==
  /\ n \in Nat /\ (n = 0 => o = len)
  /\ \A i \in 1 .. n :
       /\ OnePage(addr, len, o, i)[1] = addr + o + (i - 1) * BLOCK
       /\ OnePage(addr, len, o, i)[1] \in Nat
       /\ OnePage(addr, len, o, i)[2] \in 1 .. BLOCK
       /\ OnePage(addr, len, o, i)[1] \div BLOCK
            = (OnePage(addr, len, o, i)[1] + OnePage(addr, len, o, i)[2] - 1) \div BLOCK
       /\ OnePage(addr, len, o, i)[1] + OnePage(addr, len, o, i)[2]
            = IF i < n THEN addr + o + i * BLOCK ELSE addr + len

\* They follow when the first page ends where a block does.
LEMMA BlocksFollow ==
  ASSUME NEW addr \in Nat, NEW len \in Nat, NEW o \in Nat, o <= len,
         NEW first \in Nat, o < len => addr + o = first * BLOCK,
         NEW n, n = (len - o + BLOCK - 1) \div BLOCK
  PROVE  Blocks(addr, len, o, n)
<1> DEFINE left == len - o
           part == (left + BLOCK - 1) % BLOCK
<1>1. BLOCK \in Nat \ {0} /\ left \in Nat BY TagAssumption, SMT
<1>2. n \in Nat /\ part \in 0 .. BLOCK - 1 /\ left + BLOCK - 1 = n * BLOCK + part
  <2>1. left + BLOCK - 1 \in Nat BY <1>1, SMT
  <2> QED BY <1>1, <2>1, Division
<1> HIDE DEF part
<1>3. n * BLOCK \in Nat /\ left <= n * BLOCK BY <1>1, <1>2, Products, SMT
<1>4. n = 0 => o = len BY <1>1, <1>3, SMT
<1>5. ASSUME NEW i \in 1 .. n
      PROVE  /\ OnePage(addr, len, o, i)[1] = addr + o + (i - 1) * BLOCK
             /\ OnePage(addr, len, o, i)[1] \in Nat
             /\ OnePage(addr, len, o, i)[2] \in 1 .. BLOCK
             /\ OnePage(addr, len, o, i)[1] \div BLOCK
                  = (OnePage(addr, len, o, i)[1] + OnePage(addr, len, o, i)[2] - 1) \div BLOCK
             /\ OnePage(addr, len, o, i)[1] + OnePage(addr, len, o, i)[2]
                  = IF i < n THEN addr + o + i * BLOCK ELSE addr + len
  <2> DEFINE before == (i - 1) * BLOCK
             size == Nfc!Min2(BLOCK, left - before)
  <2>1. i - 1 \in Nat /\ i \in Nat /\ i - 1 < n BY <1>2, SMT
  <2>2. before \in Nat /\ before + BLOCK <= n * BLOCK BY <1>1, <1>2, <2>1, Products
  <2>3. i * BLOCK = before + BLOCK
    <3>1. ((i - 1) + 1) * BLOCK = (i - 1) * BLOCK + 1 * BLOCK BY <1>1, <2>1, Products
    <3>2. (i - 1) + 1 = i /\ 1 * BLOCK = BLOCK BY <1>1, <2>1, SMT
    <3> QED BY <3>1, <3>2
  <2>4. i < n => before + BLOCK + BLOCK <= n * BLOCK BY <1>1, <1>2, <2>1, <2>3, Products
  <2>5. i = n => n * BLOCK = before + BLOCK BY <2>3
  <2>6. OnePage(addr, len, o, i) = <<addr + o + before, size>> BY DEF OnePage
  <2> HIDE DEF before, left
  <2>7. before < left BY <1>1, <1>2, <2>2, SMT
  <2>8. size \in 1 .. BLOCK BY <1>1, <2>2, <2>7, SMT DEF Nfc!Min2
  <2>9. before + size = IF i < n THEN i * BLOCK ELSE left
    <3>1. CASE i < n
      <4>1. before + BLOCK < left BY <1>1, <1>2, <2>2, <2>4, <3>1, SMT
      <4>2. size = BLOCK BY <1>1, <2>2, <4>1, SMT DEF Nfc!Min2
      <4> QED BY <2>3, <3>1, <4>2
    <3>2. CASE ~(i < n)
      <4>1. i = n BY <1>2, <2>1, <3>2, SMT
      <4>2. left <= before + BLOCK BY <1>3, <2>5, <4>1
      <4>3. size = left - before BY <1>1, <2>2, <4>2, SMT DEF Nfc!Min2
      <4> QED BY <1>1, <2>2, <3>2, <4>3, SMT
    <3> QED BY <3>1, <3>2
  <2>10. addr + o + before = (first + (i - 1)) * BLOCK /\ first + (i - 1) \in Nat
    <3>1. o < len BY <1>1, <2>2, <2>7, SMT DEF left
    <3>2. (first + (i - 1)) * BLOCK = first * BLOCK + (i - 1) * BLOCK BY <1>1, <2>1, Products
    <3> QED BY <2>1, <3>1, <3>2 DEF before
  <2>11. /\ (addr + o + before) \div BLOCK = first + (i - 1)
         /\ (addr + o + before + size - 1) \div BLOCK = first + (i - 1)
    <3> DEFINE k == first + (i - 1)
    <3>1. k \in Nat /\ addr + o + before = k * BLOCK BY <2>10
    <3> HIDE DEF k, size
    <3>2. k * BLOCK \in Nat /\ (k * BLOCK + 0) \div BLOCK = k /\ (k * BLOCK + (size - 1)) \div BLOCK = k
      <4>1. 0 \in 0 .. BLOCK - 1 /\ size - 1 \in 0 .. BLOCK - 1 BY <1>1, <2>8, SMT
      <4>2. k * BLOCK \in Nat BY <1>1, <3>1, Products
      <4> QED BY <1>1, <3>1, <4>1, <4>2, Quotient
    <3>3. k * BLOCK + 0 = addr + o + before BY <3>1, <3>2, SMT
    <3>4. k * BLOCK + (size - 1) = addr + o + before + size - 1 BY <2>8, <1>1, <3>1, <3>2, SMT
    <3> QED BY <3>2, <3>3, <3>4 DEF k
  <2> HIDE DEF size
  <2>12. addr + o + before + size = IF i < n THEN addr + o + i * BLOCK ELSE addr + len
    <3>1. o + left = len BY <1>1, SMT DEF left
    <3>2. i * BLOCK \in Nat BY <1>1, <2>2, <2>3, SMT
    <3>3. addr + o + before + size = addr + o + (before + size) BY <2>2, <2>8, SMT
    <3> QED BY <1>1, <2>9, <3>1, <3>2, <3>3, SMT
  <2> QED BY <1>1, <2>2, <2>6, <2>8, <2>11, <2>12, SMT DEF before
<1> QED BY <1>2, <1>4, <1>5 DEF Blocks

\* Pages that follow one another from an address to an end, none of them across blocks.
Cut(pages, addr, end) ==
  LET Begins(i) == IF i = 1 THEN addr ELSE pages[i - 1][1] + pages[i - 1][2]
  IN /\ \A i \in 1 .. Len(pages) :
          /\ pages[i][1] = Begins(i) /\ pages[i][2] > 0
          /\ pages[i][1] \div BLOCK = (pages[i][1] + pages[i][2] - 1) \div BLOCK
     /\ Begins(Len(pages) + 1) = end

\* fm11_write_eep.
LEMMA WriteCut ==
  ASSUME NEW addr \in Nat, NEW len \in Nat, addr \in USER .. MANUF - 1
  PROVE  Cut(Nfc!fm11_write_eep(addr, len), addr, addr + len)
<1> DEFINE q == addr \div BLOCK
           r == addr % BLOCK
           o == IF r = 0 THEN 0 ELSE Nfc!Min2(len, BLOCK - r)
           n == (len - o + BLOCK - 1) \div BLOCK
           others == [i \in 1 .. n |-> OnePage(addr, len, o, i)]
           pages == Nfc!fm11_write_eep(addr, len)
<1>1. BLOCK \in Nat \ {0} BY TagAssumption, SMT
<1>2. q \in Nat /\ r \in 0 .. BLOCK - 1 /\ addr = q * BLOCK + r BY <1>1, Division
<1>3. pages = (IF o > 0 THEN <<<<addr, o>>>> ELSE <<>>) \o others
  <2>1. ~(addr < USER \/ addr >= MANUF) BY TagAssumption, SMT
  <2> QED BY <2>1, Zenon DEF Nfc!fm11_write_eep, OnePage
<1> HIDE DEF q, r
<1>4. o \in Nat /\ o <= len /\ (o > 0 => r + o <= BLOCK) /\ (o < len => (o = 0 /\ r = 0) \/ o = BLOCK - r)
  BY <1>1, <1>2, SMT DEF Nfc!Min2
<1>5. \E first \in Nat : o < len => addr + o = first * BLOCK
  <2>1. CASE r = 0 /\ o = 0
    <3>1. q * BLOCK \in Nat BY <1>1, <1>2, Products
    <3> QED BY <1>2, <2>1, <3>1, SMT
  <2>2. CASE o = BLOCK - r
    <3>1. (q + 1) * BLOCK = q * BLOCK + 1 * BLOCK /\ q * BLOCK \in Nat BY <1>1, <1>2, Products
    <3>2. addr + o = (q + 1) * BLOCK /\ q + 1 \in Nat BY <1>1, <1>2, <2>2, <3>1, SMT
    <3> QED BY <3>2
  <2>3. CASE ~(o < len) BY <2>3
  <2> QED BY <1>4, <2>1, <2>2, <2>3
<1> HIDE DEF o, n
<1>6. PICK first \in Nat : o < len => addr + o = first * BLOCK BY <1>5
<1>7. /\ n \in Nat /\ (n = 0 => o = len)
      /\ \A i \in 1 .. n :
           /\ OnePage(addr, len, o, i)[1] = addr + o + (i - 1) * BLOCK
           /\ OnePage(addr, len, o, i)[1] \in Nat
           /\ OnePage(addr, len, o, i)[2] \in 1 .. BLOCK
           /\ OnePage(addr, len, o, i)[1] \div BLOCK
                = (OnePage(addr, len, o, i)[1] + OnePage(addr, len, o, i)[2] - 1) \div BLOCK
           /\ OnePage(addr, len, o, i)[1] + OnePage(addr, len, o, i)[2]
                = IF i < n THEN addr + o + i * BLOCK ELSE addr + len
  <2>1. n = (len - o + BLOCK - 1) \div BLOCK BY DEF n
  <2>2. Blocks(addr, len, o, n) BY <1>4, <1>6, <2>1, BlocksFollow
  <2> QED BY <2>2, Zenon DEF Blocks
\* Each page begins where the one before it ends, the first at the end of the part before.
<1>8. /\ \A i \in 1 .. n : OnePage(addr, len, o, i)[1] =
             IF i = 1 THEN addr + o ELSE OnePage(addr, len, o, i - 1)[1] + OnePage(addr, len, o, i - 1)[2]
      /\ n > 0 => OnePage(addr, len, o, n)[1] + OnePage(addr, len, o, n)[2] = addr + len
  <2>1. ASSUME NEW i \in 1 .. n, i # 1
        PROVE  OnePage(addr, len, o, i)[1] = OnePage(addr, len, o, i - 1)[1] + OnePage(addr, len, o, i - 1)[2]
    <3>1. i - 1 \in 1 .. n /\ i - 1 < n BY <1>7, <2>1, SMT
    <3> QED BY <1>7, <3>1
  <2>2. ASSUME NEW i \in 1 .. n, i = 1 PROVE OnePage(addr, len, o, i)[1] = addr + o
    <3>1. (i - 1) * BLOCK = 0 BY <1>1, <2>2, SMT
    <3> QED BY <1>4, <1>7, <3>1, SMT
  <2>3. n > 0 => n \in 1 .. n /\ ~(n < n) BY <1>7, SMT
  <2> QED BY <1>7, <2>1, <2>2, <2>3
<1> DEFINE Begins(i) == IF i = 1 THEN addr ELSE pages[i - 1][1] + pages[i - 1][2]
<1>9. CASE o > 0
  <2>1. /\ Len(pages) = n + 1 /\ pages[1] = <<addr, o>>
        /\ \A i \in 2 .. n + 1 : pages[i] = OnePage(addr, len, o, i - 1)
    <3> HIDE DEF pages
    <3>1. pages = <<<<addr, o>>>> \o others BY <1>3, <1>9
    <3> QED BY <1>7, <3>1
  <2>2. addr \div BLOCK = (addr + o - 1) \div BLOCK
    <3>1. r \in 0 .. BLOCK - 1 /\ r + o - 1 \in 0 .. BLOCK - 1 BY <1>1, <1>2, <1>4, <1>9, SMT
    <3>2. (q * BLOCK + r) \div BLOCK = q /\ (q * BLOCK + (r + o - 1)) \div BLOCK = q
      BY <1>1, <1>2, <3>1, Quotient
    <3>3. q * BLOCK \in Nat BY <1>1, <1>2, Products
    <3>4. q * BLOCK + (r + o - 1) = addr + o - 1 BY <1>1, <1>2, <1>4, <3>3, SMT
    <3> QED BY <1>2, <3>2, <3>4
  <2> HIDE DEF pages
  <2>3. ASSUME NEW i \in 2 .. n + 1
        PROVE  /\ pages[i][1] = Begins(i) /\ pages[i][2] > 0
               /\ pages[i][1] \div BLOCK = (pages[i][1] + pages[i][2] - 1) \div BLOCK
    <3>1. i - 1 \in 1 .. n /\ pages[i] = OnePage(addr, len, o, i - 1) BY <1>7, <2>1, SMT
    <3>2. i # 1 BY SMT
    <3>3. CASE i = 2
      <4>1. pages[i][1] = addr + o BY <1>8, <3>1, <3>3, SMT
      <4>2. Begins(i) = addr + o BY <2>1, <3>3
      <4>3. pages[i][2] > 0 BY <1>1, <1>7, <3>1, SMT
      <4>4. pages[i][1] \div BLOCK = (pages[i][1] + pages[i][2] - 1) \div BLOCK BY <1>7, <3>1, Zenon
      <4> QED BY <4>1, <4>2, <4>3, <4>4
    <3>4. CASE i # 2
      <4>1. i - 1 \in 2 .. n + 1 /\ i - 1 # 1 BY <1>7, <3>4, SMT
      <4>2. pages[i - 1] = OnePage(addr, len, o, i - 1 - 1) BY <2>1, <4>1
      <4>3. pages[i][1] = pages[i - 1][1] + pages[i - 1][2] BY <1>8, <3>1, <4>1, <4>2, Zenon
      <4>4. pages[i][2] > 0 BY <1>1, <1>7, <3>1, SMT
      <4>5. pages[i][1] \div BLOCK = (pages[i][1] + pages[i][2] - 1) \div BLOCK BY <1>7, <3>1, Zenon
      <4> QED BY <3>2, <4>3, <4>4, <4>5
    <3> QED BY <3>3, <3>4
  <2>4. Begins(Len(pages) + 1) = addr + len
    <3>1. CASE n = 0
      <4>1. Len(pages) + 1 = 2 BY <2>1, <3>1, SMT
      <4>2. Begins(Len(pages) + 1) = addr + o BY <2>1, <4>1
      <4> QED BY <1>7, <3>1, <4>2
    <3>2. CASE n > 0
      <4>1. n + 1 \in 2 .. n + 1 /\ (n + 1) - 1 = n BY <1>7, <3>2, SMT
      <4>2. pages[n + 1] = OnePage(addr, len, o, n) BY <2>1, <4>1, Zenon
      <4>3. Len(pages) + 1 # 1 /\ (Len(pages) + 1) - 1 = n + 1 BY <1>7, <2>1, <3>2, SMT
      <4> QED BY <1>8, <3>2, <4>2, <4>3
    <3> QED BY <1>7, <3>1, <3>2, SMT
  <2>5. ASSUME NEW i \in 1 .. Len(pages)
        PROVE  /\ pages[i][1] = Begins(i) /\ pages[i][2] > 0
               /\ pages[i][1] \div BLOCK = (pages[i][1] + pages[i][2] - 1) \div BLOCK
    <3>1. i = 1 \/ i \in 2 .. n + 1 BY <1>7, <2>1, SMT
    <3>2. CASE i = 1 BY <1>9, <2>1, <2>2, <3>2
    <3> QED BY <2>3, <3>1, <3>2
  <2> QED BY <2>4, <2>5 DEF Cut, pages
<1>10. CASE ~(o > 0)
  <2>1. o = 0 /\ Len(pages) = n /\ \A i \in 1 .. n : pages[i] = OnePage(addr, len, o, i)
    <3> HIDE DEF pages
    <3>1. pages = <<>> \o others BY <1>3, <1>10
    <3> QED BY <1>4, <1>7, <1>10, <3>1
  <2> HIDE DEF pages
  <2>2. ASSUME NEW i \in 1 .. Len(pages)
        PROVE  /\ pages[i][1] = Begins(i) /\ pages[i][2] > 0
               /\ pages[i][1] \div BLOCK = (pages[i][1] + pages[i][2] - 1) \div BLOCK
    <3>1. i \in 1 .. n /\ pages[i] = OnePage(addr, len, o, i) BY <2>1
    <3>2. pages[i][1] = Begins(i)
      <4>1. CASE i = 1 BY <1>8, <2>1, <3>1, <4>1
      <4>2. CASE i # 1
        <5>1. i - 1 \in 1 .. n BY <1>7, <3>1, <4>2, SMT
        <5>2. pages[i - 1] = OnePage(addr, len, o, i - 1) BY <2>1, <5>1
        <5> QED BY <1>8, <3>1, <4>2, <5>2, Zenon
      <4> QED BY <4>1, <4>2
    <3>3. pages[i][2] > 0 BY <1>1, <1>7, <3>1, SMT
    <3>4. pages[i][1] \div BLOCK = (pages[i][1] + pages[i][2] - 1) \div BLOCK BY <1>7, <3>1, Zenon
    <3> QED BY <3>2, <3>3, <3>4
  <2>3. Begins(Len(pages) + 1) = addr + len
    <3>1. CASE n = 0
      <4>1. Len(pages) + 1 = 1 BY <2>1, <3>1
      <4> QED BY <1>7, <2>1, <3>1, <4>1, SMT
    <3>2. CASE n > 0
      <4>1. n \in 1 .. n /\ Len(pages) + 1 # 1 /\ (Len(pages) + 1) - 1 = n BY <1>7, <2>1, <3>2, SMT
      <4>2. pages[n] = OnePage(addr, len, o, n) BY <2>1, <4>1, Zenon
      <4> QED BY <1>8, <3>2, <4>1, <4>2
    <3> QED BY <1>7, <3>1, <3>2, SMT
  <2> QED BY <2>2, <2>3 DEF Cut, pages
<1> QED BY <1>9, <1>10

\* What has been tried is some write of the sets, with its pages.
Tried ==
  nfcPc = "tried" => \E addr \in Address, len \in Length :
                       written = <<addr, len, Nfc!fm11_write_eep(addr, len)>>

\* For every size of a block and wherever the EEPROM lies, and for every write that begins in
\* it, the pages make up the range in order and none crosses the end of a block.
THEOREM WritesInBlocks == BoardSpec => []Nfc!PagesInBlocks
<1>1. BoardInit => Tried BY DEF BoardInit, Nfc!Init, Tried
<1>2. Tried /\ [BoardNext]_boardVars => Tried'
  <2> SUFFICES ASSUME Tried, [BoardNext]_boardVars PROVE Tried'
    OBVIOUS
  <2>1. NfcStep \/ UNCHANGED nfcVars
    BY DEF BoardNext, PwmStep, ButtonStep, SensorStep, StorageStep, AhtStep, SocketStep, WifiStep,
           DisplayStep, OledStep, ApplicationStep, boardVars
  <2>2. CASE Nfc!Try BY <2>2 DEF Nfc!Try, Tried
  <2>3. CASE Nfc!Asks \/ Nfc!Chip
    <3>1. UNCHANGED <<nfcPc, written>> BY <2>3 DEF Nfc!Asks, Nfc!Chip, Nfc!Arrives, Nfc!Drains
    <3> QED BY <3>1 DEF Tried
  <2>4. CASE Nfc!Driver
    <3>1. nfcPc' # "tried"
      <4>1. CASE Nfc!ReadIrq \/ Nfc!ReadLevel \/ Nfc!Flush BY <4>1 DEF Nfc!ReadIrq, Nfc!ReadLevel, Nfc!Flush
      <4>2. CASE Nfc!Take \/ Nfc!Count \/ Nfc!TakeLast BY <4>2 DEF Nfc!Take, Nfc!Count, Nfc!TakeLast
      <4>3. CASE Nfc!Answers BY <4>3, Zenon DEF Nfc!Answers, Nfc!Begin
      <4>4. CASE Nfc!Refill BY <4>4 DEF Nfc!Refill
      <4> QED BY <2>4, <4>1, <4>2, <4>3, <4>4 DEF Nfc!Driver
    <3> QED BY <3>1 DEF Tried
  <2>5. CASE UNCHANGED nfcVars BY <2>5 DEF nfcVars, Tried
  <2> QED BY <2>1, <2>2, <2>3, <2>4, <2>5 DEF NfcStep, Nfc!Next
<1>3. Tried => Nfc!PagesInBlocks
  <2> SUFFICES ASSUME Tried, nfcPc = "tried", written[1] \in USER .. MANUF - 1
               PROVE  Cut(written[3], written[1], written[1] + written[2])
    BY Zenon DEF Nfc!PagesInBlocks, Cut
  <2>1. PICK addr \in Address, len \in Length : written = <<addr, len, Nfc!fm11_write_eep(addr, len)>>
    BY DEF Tried
  <2>2. addr \in Nat /\ len \in Nat /\ written[1] = addr /\ written[2] = len
        /\ written[3] = Nfc!fm11_write_eep(addr, len)
    BY <2>1, TagAssumption
  <2> QED BY <2>2, WriteCut
<1> QED BY <1>1, <1>2, <1>3, PTL DEF BoardSpec
=============================================================================
