---------------------------- MODULE SamplesProofs ----------------------------
(***************************************************************************)
(* Safety of the programs that show the kernel, for any number of threads  *)
(* and any size of what they share: the mutex, the message queue and the   *)
(* machines.  The proofs about the warehouse carry over to its image.      *)
(***************************************************************************)
EXTENDS MCSamples, SempProofs, SequenceTheorems

(***************************************************************************)
(* The mutex.  Its owner is the one thread between acquire and release,    *)
(* so that what it has loaded is still the value when it stores.           *)
(***************************************************************************)

MutexInv ==
  /\ MutexSafe
  /\ \A t \in waiting : mutexPc[t] = "wait"
  /\ \A t \in MutexThread :
       mutexPc[t] = "store" => mutexLoaded[t] = value /\ value < MaxValue

LEMMA MutexInit == SamplesAssumption /\ Mutex!Init => MutexInv
BY DEF SamplesAssumption, MutexInv, MutexSafe, Mutex!Init, Mutex!TypeOK, Mutex!MutexSound,
  Mutex!NoLostUpdate, Mutex!NoThread

LEMMA MutexNext == SamplesAssumption /\ MutexInv /\ Mutex!Next => MutexInv'
<1>1. SUFFICES ASSUME SamplesAssumption, MutexInv, Mutex!Next PROVE MutexInv'
  OBVIOUS
<1> USE <1>1 DEF SamplesAssumption, MutexInv, MutexSafe, Mutex!TypeOK, Mutex!MutexSound,
      Mutex!NoLostUpdate, Mutex!NoThread
<1>2. ASSUME NEW t \in MutexThread, Mutex!Acquire(t) PROVE MutexInv'
  BY <1>2 DEF Mutex!Acquire
<1>3. ASSUME NEW t \in MutexThread, Mutex!TimeOut(t) PROVE MutexInv'
  BY <1>3 DEF Mutex!TimeOut
<1>4. ASSUME NEW t \in MutexThread, Mutex!Load(t) PROVE MutexInv'
  BY <1>4 DEF Mutex!Load
<1>5. ASSUME NEW t \in MutexThread, Mutex!Store(t) PROVE MutexInv'
  BY <1>5 DEF Mutex!Store
<1>6. ASSUME NEW t \in MutexThread, Mutex!Release(t) PROVE MutexInv'
  BY <1>6 DEF Mutex!Release
<1>7. CASE Mutex!Terminate
  BY <1>7 DEF Mutex!Terminate
<1> QED BY <1>2, <1>3, <1>4, <1>5, <1>6, <1>7 DEF Mutex!Next, Mutex!number_thread

LEMMA MutexAlways == BoardSpec => []MutexInv
<1>1. BoardInit => MutexInv BY SamplesAssumption, MutexInit DEF BoardInit
<1>2. MutexInv /\ [BoardNext]_boardVars => MutexInv'
  <2>1. SUFFICES ASSUME MutexInv, [BoardNext]_boardVars PROVE MutexInv'
    OBVIOUS
  <2>2. CASE Mutex!Next BY <2>1, <2>2, SamplesAssumption, MutexNext
  <2>3. CASE UNCHANGED mutexVars
    BY <2>1, <2>3 DEF mutexVars, MutexInv, MutexSafe, Mutex!TypeOK, Mutex!MutexSound,
      Mutex!NoLostUpdate
  <2> QED
    BY <2>1, <2>2, <2>3 DEF BoardNext, boardVars, SempStep, MutexStep, MessageStep, MachineStep,
      KernelStep
<1> QED BY <1>1, <1>2, PTL DEF BoardSpec

\* For any number of threads: whatever times out and whoever is ended, the mutex has one owner,
\* no thread waits for a free one, and no increment is lost.
THEOREM MutexSafeAlways == BoardSpec => []MutexSafe
<1>1. MutexInv => MutexSafe BY DEF MutexInv
<1> QED BY <1>1, MutexAlways, PTL

(***************************************************************************)
(* The message queue.  A sender between its message and its update of the  *)
(* counter counts; whoever counts has put one message more than it has     *)
(* counted, so that even the update of a stale number stays behind.        *)
(***************************************************************************)

Counting == {s \in Sender : messagePc[s] \in {"load", "store"}}

MessageInv ==
  /\ Message!TypeOK /\ Message!BlockedSound /\ Message!CountBehind
  /\ put + Len(blocked) <= MaxCount
  /\ \A i \in 1 .. Len(blocked) : blocked[i] \notin messageTerminated
  /\ \A s \in Sender : messagePc[s] \in {"put", "blocked"} => entry[s] <= put
  /\ count + Cardinality(Counting) <= put
  /\ \A s \in Sender : messagePc[s] = "store" => entry[s] + Cardinality(Counting) <= put

LEMMA CountingFinite == ASSUME SamplesAssumption PROVE Cardinality(Counting) \in Nat
<1>1. Counting \subseteq Sender BY DEF Counting
<1> QED BY <1>1, FS_Subset, FS_CardinalityType DEF SamplesAssumption

\* A sender begins to count ...
LEMMA CountingBegins ==
  ASSUME SamplesAssumption, NEW s \in Sender, s \notin Counting, Counting' = Counting \union {s}
  PROVE  Cardinality(Counting)' = Cardinality(Counting) + 1
<1>1. IsFiniteSet(Counting) BY FS_Subset DEF SamplesAssumption, Counting
<1>2. Cardinality(Counting \union {s}) = Cardinality(Counting) + 1 BY <1>1, FS_AddElement
<1> QED BY <1>2

\* ... and has counted.
LEMMA CountingEnds ==
  ASSUME SamplesAssumption, NEW s \in Counting, Counting' = Counting \ {s}
  PROVE  Cardinality(Counting)' = Cardinality(Counting) - 1 /\ Cardinality(Counting) >= 1
<1>1. IsFiniteSet(Counting) BY FS_Subset DEF SamplesAssumption, Counting
<1>2. Cardinality(Counting \ {s}) = Cardinality(Counting) - 1 BY <1>1, FS_RemoveElement
<1>3. Cardinality(Counting \ {s}) \in Nat /\ Cardinality(Counting) \in Nat
  BY <1>1, FS_Subset, FS_CardinalityType
<1> QED BY <1>2, <1>3

Injective(q) == \A j, k \in 1 .. Len(q) : q[j] = q[k] => j = k
Has(q, e) == \E j \in 1 .. Len(q) : q[j] = e

\* The element at place i taken out of a sequence without repetitions.
LEMMA TakenOut ==
  ASSUME NEW S, NEW q \in Seq(S), NEW i \in 1 .. Len(q), Injective(q)
  PROVE  /\ Message!RemoveAt(q, i) \in Seq(S) /\ Len(Message!RemoveAt(q, i)) = Len(q) - 1
         /\ Injective(Message!RemoveAt(q, i))
         /\ \A e : Has(Message!RemoveAt(q, i), e) <=> e # q[i] /\ Has(q, e)
<1> DEFINE a == SubSeq(q, 1, i - 1)
           b == SubSeq(q, i + 1, Len(q))
           r == a \o b
<1>0. Len(q) \in Nat /\ i \in Nat /\ i >= 1 /\ i <= Len(q) OBVIOUS
<1>1. /\ a \in Seq(S) /\ Len(a) = i - 1
      /\ \A j \in 1 .. i - 1 : a[j] = q[j]
  <2>1. \A j \in 1 .. i - 1 : q[j] \in S BY <1>0
  <2> QED BY <1>0, <2>1
<1>2. /\ b \in Seq(S) /\ Len(b) = Len(q) - i
      /\ \A j \in 1 .. Len(q) - i : b[j] = q[i + j]
  <2>1. \A j \in i + 1 .. Len(q) : q[j] \in S BY <1>0
  <2> QED BY <1>0, <2>1
<1> HIDE DEF a, b
<1>3. /\ r \in Seq(S) /\ Len(r) = Len(q) - 1
      /\ \A j \in 1 .. Len(q) - 1 : r[j] = IF j < i THEN q[j] ELSE q[j + 1]
  <2>1. r \in Seq(S) /\ Len(r) = Len(a) + Len(b) BY <1>1, <1>2, ConcatProperties
  <2>2. ASSUME NEW j \in 1 .. Len(q) - 1, j < i PROVE r[j] = q[j]
    <3>1. j \in 1 .. Len(a) BY <1>0, <1>1, <2>2
    <3>2. r[j] = a[j] BY <1>1, <1>2, <3>1
    <3> QED BY <1>1, <3>1, <3>2
  <2>3. ASSUME NEW j \in 1 .. Len(q) - 1, ~(j < i) PROVE r[j] = q[j + 1]
    <3>1. j - Len(a) \in 1 .. Len(q) - i /\ ~(j <= Len(a)) /\ j \in 1 .. Len(a) + Len(b)
      BY <1>0, <1>1, <1>2, <2>3
    <3>2. r[j] = b[j - Len(a)] BY <1>1, <1>2, <3>1
    <3>3. i + (j - Len(a)) = j + 1 BY <1>0, <1>1, <2>3
    <3> QED BY <1>2, <3>1, <3>2, <3>3
  <2>4. Len(r) = Len(q) - 1 BY <1>0, <1>1, <1>2, <2>1
  <2> QED BY <2>1, <2>2, <2>3, <2>4
<1> HIDE DEF r
<1>4. Injective(r) BY <1>0, <1>3 DEF Injective
<1>5. ASSUME NEW e, NEW j \in 1 .. Len(r), r[j] = e
      PROVE  e # q[i] /\ (\E k \in 1 .. Len(q) : q[k] = e)
  BY <1>0, <1>3, <1>5 DEF Injective
<1>6. ASSUME NEW e, e # q[i], NEW j \in 1 .. Len(q), q[j] = e
      PROVE  \E k \in 1 .. Len(r) : r[k] = e
  <2>1. CASE j < i
    <3>1. j \in 1 .. Len(r) /\ r[j] = e BY <1>0, <1>3, <1>6, <2>1
    <3> QED BY <3>1
  <2>2. CASE j > i
    <3>1. j - 1 \in 1 .. Len(r) /\ r[j - 1] = e BY <1>0, <1>3, <1>6, <2>2
    <3> QED BY <3>1
  <2>3. j # i BY <1>6
  <2> QED BY <1>0, <2>1, <2>2, <2>3
<1>7. Message!RemoveAt(q, i) = r BY DEF Message!RemoveAt, r, a, b
<1>8. Len(r) = Len(q) - 1 /\ r \in Seq(S) BY <1>3
<1>9. \A e : Has(r, e) <=> e # q[i] /\ Has(q, e) BY <1>5, <1>6 DEF Has
<1> QED BY <1>4, <1>7, <1>8, <1>9

LEMMA MessageInit == SamplesAssumption /\ Message!Init => MessageInv
<1>1. SUFFICES ASSUME SamplesAssumption, Message!Init PROVE MessageInv
  OBVIOUS
<1> USE <1>1 DEF SamplesAssumption, Message!Init, Message!Thread
<1>2. Counting = {} BY DEF Counting
<1>3. Cardinality(Counting) = 0 BY <1>2, FS_EmptySet
<1>4. queue = <<>> /\ blocked = <<>> /\ Len(queue) = 0 /\ Len(blocked) = 0 OBVIOUS
<1>5. Message!TypeOK BY <1>4 DEF Message!TypeOK
<1>6. Message!BlockedSound
  BY <1>4 DEF Message!BlockedSound, Message!IsInjective, Message!ToSet
<1>7. Message!CountBehind BY <1>4 DEF Message!CountBehind
<1> QED BY <1>3, <1>4, <1>5, <1>6, <1>7 DEF MessageInv

\* The parts of the invariant, in terms of places in the sequences.
LEMMA MessageParts ==
  ASSUME SamplesAssumption, MessageInv
  PROVE  /\ queue \in Seq([tid : Sender, count : 0 .. MaxCount]) /\ Len(queue) <= QueueSize
         /\ blocked \in Seq(Sender) /\ Len(blocked) \in Nat /\ Len(queue) \in Nat
         /\ count \in 0 .. MaxCount /\ put \in 0 .. MaxCount
         /\ messagePc \in [Sender \union Receiver ->
                             {"send", "put", "blocked", "load", "store", "receive"}]
         /\ entry \in [Sender \union Receiver -> 0 .. MaxCount]
         /\ messageTerminated \subseteq Sender \union Receiver
         /\ DOMAIN blocked = 1 .. Len(blocked)
         /\ blocked # <<>> => Len(queue) = QueueSize
         /\ \A s \in Sender \ messageTerminated :
              messagePc[s] = "blocked" <=> \E i \in 1 .. Len(blocked) : blocked[i] = s
         /\ \A i, j \in 1 .. Len(blocked) : blocked[i] = blocked[j] => i = j
         /\ \A i \in 1 .. Len(queue) : queue[i].count <= put - (Len(queue) - i + 1)
         /\ Cardinality(Counting) \in Nat
<1>1. /\ queue \in Seq([tid : Sender, count : 0 .. MaxCount]) /\ Len(queue) <= QueueSize
      /\ blocked \in Seq(Sender) /\ Len(blocked) \in Nat /\ Len(queue) \in Nat
      /\ count \in 0 .. MaxCount /\ put \in 0 .. MaxCount
      /\ messagePc \in [Sender \union Receiver ->
                          {"send", "put", "blocked", "load", "store", "receive"}]
      /\ entry \in [Sender \union Receiver -> 0 .. MaxCount]
      /\ messageTerminated \subseteq Sender \union Receiver
      /\ DOMAIN blocked = 1 .. Len(blocked)
  BY DEF MessageInv, Message!TypeOK, Message!Thread
<1>2. /\ blocked # <<>> => Len(queue) = QueueSize
      /\ \A s \in Sender \ messageTerminated :
           messagePc[s] = "blocked" <=> s \in {blocked[i] : i \in DOMAIN blocked}
      /\ \A i, j \in DOMAIN blocked : blocked[i] = blocked[j] => i = j
  BY DEF MessageInv, Message!BlockedSound, Message!IsInjective, Message!ToSet
<1>3. \A i \in 1 .. Len(queue) : queue[i].count <= put - (Len(queue) - i + 1)
  BY DEF MessageInv, Message!CountBehind
<1>4. \A s \in Sender \ messageTerminated :
        messagePc[s] = "blocked" <=> \E i \in 1 .. Len(blocked) : blocked[i] = s
  BY ZenonT(60), <1>1, <1>2
<1>5. \A i, j \in 1 .. Len(blocked) : blocked[i] = blocked[j] => i = j BY <1>1, <1>2
<1> QED BY <1>1, <1>2, <1>3, <1>4, <1>5, CountingFinite

\* A step of one sender that leaves the queues and the history alone.
LEMMA OwnStep ==
  ASSUME SamplesAssumption, MessageInv, NEW s \in Sender \ messageTerminated,
         Message!Fill(s) \/ Message!Load(s) \/ Message!Store(s)
  PROVE  MessageInv'
<1> USE SamplesAssumption, MessageParts DEF MessageInv
<1>1. s \in Sender /\ s \in Sender \union Receiver OBVIOUS
<1>2. /\ UNCHANGED <<queue, blocked, put, messageTerminated>>
      /\ messagePc[s] # "blocked" /\ messagePc'[s] # "blocked"
      /\ \A t \in Sender : t # s => messagePc'[t] = messagePc[t] /\ entry'[t] = entry[t]
  BY <1>1 DEF Message!Fill, Message!Load, Message!Store
<1>3. Message!BlockedSound'
  BY <1>2 DEF Message!BlockedSound
<1>4. CASE Message!Fill(s)
  <2> USE <1>4 DEF Message!Fill
  <2>1. Counting' = Counting BY <1>1, <1>2 DEF Counting
  <2>2. Message!TypeOK' BY DEF Message!TypeOK, Message!Thread
  <2>3. Message!CountBehind' BY DEF Message!CountBehind
  <2>4. \A t \in Sender : messagePc'[t] \in {"put", "blocked"} => entry'[t] <= put
    <3>1. entry'[s] = count /\ count <= put BY <1>1
    <3> QED BY <1>2, <3>1
  <2>5. \A t \in Sender : messagePc'[t] = "store" => entry'[t] + Cardinality(Counting) <= put
    BY <1>1, <1>2
  <2> QED BY <1>2, <1>3, <2>1, <2>2, <2>3, <2>4, <2>5
<1>5. CASE Message!Load(s)
  <2> USE <1>5 DEF Message!Load
  <2>1. Counting' = Counting BY <1>1, <1>2 DEF Counting
  <2>2. Message!TypeOK' BY DEF Message!TypeOK, Message!Thread
  <2>3. Message!CountBehind' BY DEF Message!CountBehind
  <2>4. \A t \in Sender : messagePc'[t] \in {"put", "blocked"} => entry'[t] <= put
    BY <1>1, <1>2
  <2>5. \A t \in Sender : messagePc'[t] = "store" => entry'[t] + Cardinality(Counting) <= put
    BY <1>1, <1>2
  <2> QED BY <1>2, <1>3, <2>1, <2>2, <2>3, <2>4, <2>5
<1>6. CASE Message!Store(s)
  <2> USE <1>6 DEF Message!Store
  <2>1. s \in Counting /\ Counting' = Counting \ {s} BY <1>1, <1>2 DEF Counting
  <2>2. Cardinality(Counting)' = Cardinality(Counting) - 1 /\ Cardinality(Counting) >= 1
    BY <2>1, CountingEnds
  <2>3. entry[s] + Cardinality(Counting) <= put /\ entry[s] \in 0 .. MaxCount BY <1>1
  <2>4. count' \in 0 .. MaxCount /\ count' + Cardinality(Counting)' <= put /\ count' <= put
    BY SMTT(30), <2>2, <2>3
  <2>5. Message!TypeOK' BY <2>4 DEF Message!TypeOK, Message!Thread
  <2>6. Message!CountBehind' BY <2>4 DEF Message!CountBehind
  <2>7. \A t \in Sender : messagePc'[t] \in {"put", "blocked"} => entry'[t] <= put
    BY <1>1, <1>2
  <2>8. \A t \in Sender : messagePc'[t] = "store" => entry'[t] + Cardinality(Counting)' <= put
    BY <1>1, <1>2, <2>2
  <2> QED BY <1>2, <1>3, <2>4, <2>5, <2>6, <2>7, <2>8
<1> QED BY <1>4, <1>5, <1>6

\* The facts about the queue that Append and Tail change.
LEMMA MessageQueue ==
  ASSUME SamplesAssumption, MessageInv, NEW s \in Sender
  PROVE  /\ Message!Message(s) \in [tid : Sender, count : 0 .. MaxCount]
         /\ Message!Message(s).count = entry[s]
BY MessageParts DEF Message!Message

\* A message goes into a queue with room, ...
LEMMA PutRoom ==
  ASSUME SamplesAssumption, MessageInv, NEW s \in Sender \ messageTerminated,
         Message!Put(s), Len(queue) < QueueSize
  PROVE  MessageInv'
<1> USE SamplesAssumption, MessageParts DEF MessageInv
<1>1. s \in Sender /\ s \in Sender \union Receiver OBVIOUS
<1>2. /\ messagePc[s] = "put" /\ put + Len(blocked) < MaxCount
      /\ queue' = Append(queue, Message!Message(s)) /\ put' = put + 1
      /\ messagePc' = [messagePc EXCEPT ![s] = "load"]
      /\ UNCHANGED <<blocked, count, entry, messageTerminated>>
  BY DEF Message!Put
<1>3. /\ messagePc'[s] = "load"
      /\ \A t \in Sender : t # s => messagePc'[t] = messagePc[t]
  BY <1>1, <1>2
<1>4. blocked = <<>> /\ Len(blocked) = 0 OBVIOUS
<1>5. s \notin Counting /\ Counting' = Counting \union {s} BY <1>1, <1>2, <1>3 DEF Counting
<1>6. Cardinality(Counting)' = Cardinality(Counting) + 1 BY <1>1, <1>5, CountingBegins
<1>7. /\ queue' \in Seq([tid : Sender, count : 0 .. MaxCount]) /\ Len(queue') = Len(queue) + 1
      /\ \A i \in 1 .. Len(queue) : queue'[i] = queue[i]
      /\ queue'[Len(queue) + 1].count = entry[s]
  <2>1. Message!Message(s) \in [tid : Sender, count : 0 .. MaxCount]
    BY <1>1, MessageQueue
  <2>2. queue'[Len(queue) + 1] = Message!Message(s) BY <1>2, <2>1
  <2>3. Message!Message(s).count = entry[s] BY <1>1, MessageQueue
  <2> QED BY <1>2, <2>1, <2>2, <2>3
<1>8. entry[s] \in 0 .. MaxCount /\ entry[s] <= put BY <1>1, <1>2
<1>9. Message!TypeOK' BY <1>2, <1>4, <1>7 DEF Message!TypeOK, Message!Thread
<1>14. /\ queue \in Seq([tid : Sender, count : 0 .. MaxCount]) /\ Len(queue) \in Nat
       /\ put \in Nat /\ count \in Nat /\ MaxCount \in Nat /\ count <= put
       /\ \A i \in 1 .. Len(queue) : queue[i].count <= put - (Len(queue) - i + 1)
  BY DEF Message!CountBehind
<1>11. Message!BlockedSound'
  <2>1. Message!ToSet(blocked) = {} BY <1>4 DEF Message!ToSet
  <2>2. \A t \in Sender \ messageTerminated : messagePc'[t] # "blocked"
    BY <1>3, <1>4
  <2> QED BY <1>2, <1>4, <2>1, <2>2 DEF Message!BlockedSound
<1>12. \A t \in Sender : messagePc'[t] \in {"put", "blocked"} => entry[t] <= put'
  BY <1>2, <1>3
<1>13. \A t \in Sender : messagePc'[t] = "store" => entry[t] + Cardinality(Counting)' <= put'
  BY SMTT(30), <1>2, <1>3, <1>6
<1>15. \A t \in Sender : entry[t] \in Nat OBVIOUS
<1>16. put' + Len(blocked') <= MaxCount BY <1>2, <1>4
<1>17. count' + Cardinality(Counting)' <= put' BY <1>2, <1>6
<1>18. \A i \in 1 .. Len(blocked') : blocked'[i] \notin messageTerminated' BY <1>2, <1>4
<1> HIDE SamplesAssumption, MessageParts DEF MessageInv
<1>10. Message!CountBehind'
  <2>1. count' <= put' BY <1>2, <1>14
  <2>2. ASSUME NEW i \in 1 .. Len(queue) + 1
        PROVE  queue'[i].count <= put' - (Len(queue) + 1 - i + 1)
    <3>1. CASE i = Len(queue) + 1 BY <1>2, <1>7, <1>8, <1>14, <3>1
    <3>2. CASE i # Len(queue) + 1
      <4>1. i \in 1 .. Len(queue) BY <1>14, <3>2
      <4>2. queue[i].count <= put - (Len(queue) - i + 1) BY <1>14, <4>1
      <4>3. queue[i] \in [tid : Sender, count : 0 .. MaxCount] BY <1>14, <4>1, ElementOfSeq
      <4>4. queue[i].count \in 0 .. MaxCount BY <4>3
      <4> QED BY <1>2, <1>7, <1>14, <4>1, <4>2, <4>4
    <3> QED BY <3>1, <3>2
  <2> QED BY <1>2, <1>7, <2>1, <2>2 DEF Message!CountBehind
<1>19. (\A t \in Sender : messagePc[t] \in {"put", "blocked"} => entry[t] <= put)'
  BY <1>2, <1>12
<1>20. (\A t \in Sender : messagePc[t] = "store" => entry[t] + Cardinality(Counting) <= put)'
  BY <1>2, <1>13
<1> QED BY <1>9, <1>10, <1>11, <1>16, <1>17, <1>18, <1>19, <1>20 DEF MessageInv

\* ... and its sender waits for a full one.
LEMMA PutBlocks ==
  ASSUME SamplesAssumption, MessageInv, NEW s \in Sender \ messageTerminated,
         Message!Put(s), ~(Len(queue) < QueueSize)
  PROVE  MessageInv'
<1> USE SamplesAssumption, MessageParts DEF MessageInv
<1>1. s \in Sender /\ s \in Sender \union Receiver OBVIOUS
<1>2. /\ messagePc[s] = "put" /\ put + Len(blocked) < MaxCount
      /\ blocked' = Append(blocked, s)
      /\ messagePc' = [messagePc EXCEPT ![s] = "blocked"]
      /\ UNCHANGED <<queue, put, count, entry, messageTerminated>>
  BY DEF Message!Put
<1>3. /\ messagePc'[s] = "blocked"
      /\ \A t \in Sender : t # s => messagePc'[t] = messagePc[t]
  BY <1>1, <1>2
<1>4. Counting' = Counting BY <1>1, <1>2, <1>3 DEF Counting
<1>5. /\ blocked' \in Seq(Sender) /\ Len(blocked') = Len(blocked) + 1
      /\ \A i \in 1 .. Len(blocked) : blocked'[i] = blocked[i]
      /\ blocked'[Len(blocked) + 1] = s /\ DOMAIN blocked' = 1 .. Len(blocked) + 1
  BY <1>1, <1>2
<1>6. \A i \in 1 .. Len(blocked) : blocked[i] # s BY <1>1, <1>2
<1>7. Len(queue) = QueueSize OBVIOUS
<1>8. Message!TypeOK' BY <1>2, <1>5 DEF Message!TypeOK, Message!Thread
<1>9. Message!CountBehind' BY <1>2 DEF Message!CountBehind
<1>15. /\ blocked \in Seq(Sender) /\ Len(blocked) \in Nat /\ put \in Nat /\ MaxCount \in Nat
       /\ \A i, j \in 1 .. Len(blocked) : blocked[i] = blocked[j] => i = j
       /\ \A i \in 1 .. Len(blocked) : blocked[i] \notin messageTerminated
       /\ \A t \in Sender \ messageTerminated :
            messagePc[t] = "blocked" <=> \E i \in 1 .. Len(blocked) : blocked[i] = t
  <2>1. /\ blocked \in Seq(Sender) /\ Len(blocked) \in Nat /\ put \in Nat /\ MaxCount \in Nat
    OBVIOUS
  <2>2. \A i, j \in 1 .. Len(blocked) : blocked[i] = blocked[j] => i = j
    OBVIOUS
  <2>3. \A i \in 1 .. Len(blocked) : blocked[i] \notin messageTerminated
    OBVIOUS
  <2>4. \A t \in Sender \ messageTerminated :
            messagePc[t] = "blocked" <=> \E i \in 1 .. Len(blocked) : blocked[i] = t
    OBVIOUS
  <2> QED BY <2>1, <2>2, <2>3, <2>4
<1>12. \A t \in Sender : messagePc'[t] \in {"put", "blocked"} => entry[t] <= put
  BY <1>2, <1>3
<1>13. \A t \in Sender : messagePc'[t] = "store" => entry[t] + Cardinality(Counting) <= put
  BY <1>3
<1>14. put + Len(blocked') <= MaxCount BY <1>2, <1>5
<1>16. count + Cardinality(Counting)' <= put BY <1>4
<1> HIDE SamplesAssumption, MessageParts DEF MessageInv
<1>10. Message!BlockedSound'
  <2>1. \A t \in Sender \ messageTerminated :
          messagePc'[t] = "blocked" <=> \E i \in 1 .. Len(blocked) + 1 : blocked'[i] = t
    <3>1. ASSUME NEW t \in Sender \ messageTerminated, t # s
          PROVE  messagePc'[t] = "blocked" <=> \E i \in 1 .. Len(blocked) : blocked[i] = t
      BY <1>3, <1>15, <3>1
    <3>2. ASSUME NEW t \in Sender \ messageTerminated, t # s
          PROVE  (\E i \in 1 .. Len(blocked) : blocked[i] = t)
                   <=> \E i \in 1 .. Len(blocked) + 1 : blocked'[i] = t
      BY <1>5, <1>15, <3>2
    <3>3. Len(blocked) + 1 \in 1 .. Len(blocked) + 1 BY <1>15
    <3> QED BY <1>3, <1>5, <3>1, <3>2, <3>3
  <2>2. \A i, j \in 1 .. Len(blocked) + 1 : blocked'[i] = blocked'[j] => i = j
    BY <1>5, <1>6, <1>15
  <2>3. Message!ToSet(blocked') = {blocked'[i] : i \in 1 .. Len(blocked) + 1}
    BY <1>5 DEF Message!ToSet
  <2>4. \A t \in Sender \ messageTerminated :
          messagePc'[t] = "blocked" <=> t \in Message!ToSet(blocked')
    BY <2>1, <2>3
  <2>5. Message!IsInjective(blocked') BY <1>5, <2>2 DEF Message!IsInjective
  <2> QED BY <1>2, <1>7, <2>4, <2>5 DEF Message!BlockedSound
<1>11. (\A i \in 1 .. Len(blocked) : blocked[i] \notin messageTerminated)'
  BY <1>2, <1>5, <1>15
<1>17. (\A t \in Sender : messagePc[t] \in {"put", "blocked"} => entry[t] <= put)'
  BY <1>2, <1>12
<1>18. (\A t \in Sender : messagePc[t] = "store" => entry[t] + Cardinality(Counting) <= put)'
  BY <1>2, <1>4, <1>13
<1> QED BY <1>2, <1>8, <1>9, <1>10, <1>11, <1>14, <1>16, <1>17, <1>18 DEF MessageInv

\* What a queue of messages is without its first one.
LEMMA TailOf ==
  ASSUME NEW S, NEW q \in Seq(S), q # <<>>
  PROVE  /\ Tail(q) \in Seq(S) /\ Len(q) \in Nat /\ Len(q) >= 1 /\ Len(Tail(q)) = Len(q) - 1
         /\ Head(q) = q[1] /\ Head(q) \in S
         /\ \A i \in 1 .. Len(q) - 1 : Tail(q)[i] = q[i + 1]
OBVIOUS

\* A message is taken and nobody waits, ...
LEMMA GetQuietly ==
  ASSUME SamplesAssumption, MessageInv, NEW r \in Receiver, Message!Get(r), blocked = <<>>
  PROVE  MessageInv'
<1> DEFINE M == [tid : Sender, count : 0 .. MaxCount]
<1>1. /\ queue # <<>> /\ queue' = Tail(queue)
      /\ UNCHANGED <<blocked, messagePc, put, count, entry, messageTerminated>>
  BY DEF Message!Get
<1>2. /\ queue \in Seq(M) /\ Len(queue) <= QueueSize /\ put \in Nat /\ QueueSize \in Nat
      /\ \A i \in 1 .. Len(queue) : queue[i].count <= put - (Len(queue) - i + 1)
  BY MessageParts DEF SamplesAssumption
<1>3. /\ queue' \in Seq(M) /\ Len(queue) \in Nat /\ Len(queue) >= 1
      /\ Len(queue') = Len(queue) - 1
      /\ \A i \in 1 .. Len(queue) - 1 : queue'[i] = queue[i + 1]
  <2> HIDE DEF M
  <2> QED BY <1>1, <1>2, TailOf
<1>4. Message!TypeOK'
  <2>1. Len(queue') <= QueueSize BY <1>2, <1>3
  <2> QED BY <1>1, <1>3, <2>1 DEF MessageInv, Message!TypeOK
<1>5. Message!CountBehind'
  <2>1. ASSUME NEW i \in 1 .. Len(queue')
        PROVE  queue'[i].count <= put - (Len(queue') - i + 1)
    <3>1. i + 1 \in 1 .. Len(queue) /\ queue'[i] = queue[i + 1] BY <1>3
    <3>2. queue[i + 1].count <= put - (Len(queue) - (i + 1) + 1) BY <1>2, <3>1
    <3>3. Len(queue) - (i + 1) + 1 = Len(queue') - i + 1 BY <1>3
    <3> QED BY <3>1, <3>2, <3>3
  <2> QED BY <1>1, <2>1 DEF MessageInv, Message!CountBehind
<1>6. Message!BlockedSound'
  BY <1>1 DEF MessageInv, Message!BlockedSound
<1>7. Counting' = Counting BY <1>1 DEF Counting
<1> QED BY <1>1, <1>4, <1>5, <1>6, <1>7 DEF MessageInv

\* ... or the sender that has waited longest puts its own.
LEMMA GetWakes ==
  ASSUME SamplesAssumption, MessageInv, NEW r \in Receiver, Message!Get(r), blocked # <<>>
  PROVE  MessageInv'
<1> DEFINE M == [tid : Sender, count : 0 .. MaxCount]
           h == Head(blocked)
<1>1. /\ queue # <<>> /\ queue' = Append(Tail(queue), Message!Message(h))
      /\ blocked' = Tail(blocked) /\ messagePc' = [messagePc EXCEPT ![h] = "load"]
      /\ put' = put + 1 /\ UNCHANGED <<count, entry, messageTerminated>>
  BY DEF Message!Get
<1>2. /\ queue \in Seq(M) /\ Len(queue) = QueueSize /\ QueueSize \in Nat
      /\ put \in Nat /\ count \in Nat /\ MaxCount \in Nat
      /\ put + Len(blocked) <= MaxCount /\ count + Cardinality(Counting) <= put
      /\ Cardinality(Counting) \in Nat
      /\ \A i \in 1 .. Len(queue) : queue[i].count <= put - (Len(queue) - i + 1)
  <2>1. /\ queue \in Seq(M) /\ Len(queue) = QueueSize /\ QueueSize \in Nat
        /\ put \in Nat /\ count \in Nat /\ MaxCount \in Nat
    BY MessageParts DEF SamplesAssumption
  <2>2. Cardinality(Counting) \in Nat
      /\ \A i \in 1 .. Len(queue) : queue[i].count <= put - (Len(queue) - i + 1)
    BY MessageParts
  <2> HIDE DEF M
  <2> QED BY <2>1, <2>2 DEF MessageInv
<1>3. /\ blocked \in Seq(Sender)
      /\ \A i, j \in 1 .. Len(blocked) : blocked[i] = blocked[j] => i = j
      /\ \A i \in 1 .. Len(blocked) : blocked[i] \notin messageTerminated
  BY MessageParts DEF MessageInv
<1>4. \A t \in Sender \ messageTerminated :
        messagePc[t] = "blocked" <=> \E i \in 1 .. Len(blocked) : blocked[i] = t
  BY MessageParts
<1>5. /\ messagePc \in [Sender \union Receiver ->
                          {"send", "put", "blocked", "load", "store", "receive"}]
      /\ entry \in [Sender \union Receiver -> 0 .. MaxCount]
  BY MessageParts
<1>6. /\ \A t \in Sender : messagePc[t] \in {"put", "blocked"} => entry[t] <= put
      /\ \A t \in Sender : messagePc[t] = "store" => entry[t] + Cardinality(Counting) <= put
  BY DEF MessageInv
<1> HIDE DEF M
<1>7. /\ blocked' \in Seq(Sender) /\ Len(blocked) \in Nat /\ Len(blocked) >= 1
      /\ Len(blocked') = Len(blocked) - 1
      /\ h = blocked[1] /\ h \in Sender
      /\ \A i \in 1 .. Len(blocked) - 1 : blocked'[i] = blocked[i + 1]
  BY <1>1, <1>3, TailOf
<1> HIDE DEF h
<1>8. h \notin messageTerminated /\ messagePc[h] = "blocked"
  <2>1. 1 \in 1 .. Len(blocked) BY <1>7
  <2> QED BY <1>3, <1>4, <1>7, <2>1
<1>9. /\ messagePc'[h] = "load"
      /\ \A t \in Sender : t # h => messagePc'[t] = messagePc[t]
  BY <1>1, <1>5, <1>7
<1>10. Message!Message(h) \in M /\ Message!Message(h).count = entry[h]
  BY <1>7, MessageQueue DEF M
<1>11. /\ queue' \in Seq(M) /\ Len(queue) >= 1 /\ Len(queue') = Len(queue)
       /\ \A i \in 1 .. Len(queue) - 1 : queue'[i] = queue[i + 1]
       /\ queue'[Len(queue)] = Message!Message(h)
  <2>1. /\ Tail(queue) \in Seq(M) /\ Len(queue) \in Nat /\ Len(queue) >= 1
        /\ Len(Tail(queue)) = Len(queue) - 1
        /\ \A i \in 1 .. Len(queue) - 1 : Tail(queue)[i] = queue[i + 1]
    BY <1>1, <1>2, TailOf
  <2> QED BY <1>1, <1>10, <2>1
<1>12. Counting' = Counting \union {h} /\ h \notin Counting
  BY <1>7, <1>8, <1>9 DEF Counting
<1>13. Cardinality(Counting)' = Cardinality(Counting) + 1 BY <1>7, <1>12, CountingBegins
<1>14. entry[h] \in Nat /\ entry[h] <= put BY <1>5, <1>6, <1>7, <1>8
<1>15. put' + Len(blocked') <= MaxCount /\ put' \in 0 .. MaxCount
  BY <1>1, <1>2, <1>7
<1>16. Message!TypeOK'
  <2>1. messagePc' \in [Sender \union Receiver ->
                          {"send", "put", "blocked", "load", "store", "receive"}]
    BY <1>1, <1>5
  <2>2. Len(queue') <= QueueSize BY <1>2, <1>11
  <2> QED
    BY <1>1, <1>7, <1>11, <1>15, <2>1, <2>2 DEF MessageInv, Message!TypeOK, Message!Thread, M
<1>17. Message!CountBehind'
  <2>1. count' <= put' BY <1>1, <1>2
  <2>2. ASSUME NEW i \in 1 .. Len(queue')
        PROVE  queue'[i].count <= put' - (Len(queue') - i + 1)
    <3>1. CASE i = Len(queue)
      <4>1. queue'[i].count = entry[h] BY <1>10, <1>11, <3>1
      <4> QED BY <1>1, <1>2, <1>11, <1>14, <3>1, <4>1
    <3>2. CASE i # Len(queue)
      <4>1. i + 1 \in 1 .. Len(queue) /\ queue'[i] = queue[i + 1] BY <1>11, <3>2
      <4>2. queue[i + 1].count <= put - (Len(queue) - (i + 1) + 1) BY <1>2, <4>1
      <4>3. put - (Len(queue) - (i + 1) + 1) = put' - (Len(queue') - i + 1)
        <5>1. /\ Len(queue) \in Nat /\ Len(queue') = Len(queue) /\ i \in Nat
              /\ put' = put + 1 /\ put \in Nat
          BY <1>1, <1>2, <1>11
        <5> QED BY <5>1
      <4> QED BY <4>1, <4>2, <4>3
    <3> QED BY <3>1, <3>2
  <2> QED BY <2>1, <2>2 DEF Message!CountBehind
<1>18. Message!BlockedSound'
  <2>1. \A i, j \in 1 .. Len(blocked') : blocked'[i] = blocked'[j] => i = j
    <3>1. ASSUME NEW i \in 1 .. Len(blocked'), NEW j \in 1 .. Len(blocked'),
                 blocked'[i] = blocked'[j]
          PROVE  i = j
      <4>1. i + 1 \in 1 .. Len(blocked) /\ j + 1 \in 1 .. Len(blocked) BY <1>7
      <4>2. blocked[i + 1] = blocked[j + 1] BY <1>7, <3>1
      <4>3. i + 1 = j + 1 BY <1>3, <4>1, <4>2
      <4> QED BY <4>3
    <3> QED BY <3>1
  <2>2. ASSUME NEW t \in Sender \ messageTerminated
        PROVE  messagePc'[t] = "blocked" <=> \E i \in 1 .. Len(blocked') : blocked'[i] = t
    <3>1. CASE t = h
      <4>1. ASSUME NEW i \in 1 .. Len(blocked'), blocked'[i] = h PROVE FALSE
        <5>1. i + 1 \in 1 .. Len(blocked) /\ 1 \in 1 .. Len(blocked) BY <1>7
        <5>2. blocked[i + 1] = blocked[1] BY <1>7, <4>1
        <5>3. i + 1 = 1 BY <1>3, <5>1, <5>2
        <5> QED BY <5>3
      <4> QED BY <1>9, <3>1, <4>1
    <3>2. CASE t # h
      <4>1. messagePc'[t] = "blocked" <=> \E i \in 1 .. Len(blocked) : blocked[i] = t
        BY <1>4, <1>9, <3>2
      <4>2. ASSUME NEW i \in 1 .. Len(blocked), blocked[i] = t
            PROVE  \E j \in 1 .. Len(blocked') : blocked'[j] = t
        <5>1. i # 1 BY <1>7, <3>2, <4>2
        <5>2. i - 1 \in 1 .. Len(blocked') /\ (i - 1) + 1 = i BY <1>7, <5>1
        <5>3. blocked'[i - 1] = t BY <1>7, <4>2, <5>2
        <5> QED BY <5>2, <5>3
      <4>3. ASSUME NEW i \in 1 .. Len(blocked'), blocked'[i] = t
            PROVE  \E j \in 1 .. Len(blocked) : blocked[j] = t
        <5>1. i + 1 \in 1 .. Len(blocked) /\ blocked[i + 1] = t BY <1>7, <4>3
        <5> QED BY <5>1
      <4> QED BY <4>1, <4>2, <4>3
    <3> QED BY <3>1, <3>2
  <2>3. DOMAIN blocked' = 1 .. Len(blocked') BY <1>7
  <2>4. Message!ToSet(blocked') = {blocked'[i] : i \in 1 .. Len(blocked')}
    BY <2>3 DEF Message!ToSet
  <2>5. \A t \in Sender \ messageTerminated :
          messagePc'[t] = "blocked" <=> t \in Message!ToSet(blocked')
    BY <2>2, <2>4
  <2>6. Message!IsInjective(blocked') BY <2>1, <2>3 DEF Message!IsInjective
  <2>7. Len(queue') = QueueSize BY <1>2, <1>11
  <2> QED BY <1>1, <2>5, <2>6, <2>7 DEF Message!BlockedSound
<1>19. \A i \in 1 .. Len(blocked') : blocked'[i] \notin messageTerminated'
  <2>1. ASSUME NEW i \in 1 .. Len(blocked') PROVE blocked'[i] \notin messageTerminated
    <3>1. i + 1 \in 1 .. Len(blocked) /\ blocked'[i] = blocked[i + 1] BY <1>7
    <3> QED BY <1>3, <3>1
  <2> QED BY <1>1, <2>1
<1>20. (\A t \in Sender : messagePc[t] \in {"put", "blocked"} => entry[t] <= put)'
  <2>1. \A t \in Sender : entry[t] \in Nat BY <1>5
  <2> QED BY <1>1, <1>2, <1>6, <1>9, <2>1
<1>21. (\A t \in Sender : messagePc[t] = "store" => entry[t] + Cardinality(Counting) <= put)'
  <2>1. \A t \in Sender : entry[t] \in Nat BY <1>5
  <2> QED BY SMTT(30), <1>1, <1>2, <1>6, <1>9, <1>13, <2>1
<1>22. (count + Cardinality(Counting) <= put)' BY SMTT(30), <1>1, <1>2, <1>13
<1> QED BY <1>15, <1>16, <1>17, <1>18, <1>19, <1>20, <1>21, <1>22 DEF MessageInv

\* A thread is terminated wherever it is, and leaves the queue of those that wait.
LEMMA TerminateQuietly ==
  ASSUME SamplesAssumption, MessageInv, NEW t \in Message!Thread \ messageTerminated,
         messageTerminated' = messageTerminated \union {t},
         UNCHANGED <<queue, count, messagePc, entry, put>>,
         IF t \in Message!ToSet(blocked)
         THEN \E i \in DOMAIN blocked : blocked[i] = t /\ blocked' = Message!RemoveAt(blocked, i)
         ELSE UNCHANGED blocked
  PROVE  MessageInv'
<1>1. /\ blocked \in Seq(Sender) /\ Len(blocked) \in Nat /\ DOMAIN blocked = 1 .. Len(blocked)
      /\ blocked # <<>> => Len(queue) = QueueSize
      /\ \A i, j \in 1 .. Len(blocked) : blocked[i] = blocked[j] => i = j
      /\ \A i \in 1 .. Len(blocked) : blocked[i] \notin messageTerminated
  BY MessageParts DEF MessageInv
<1>2. \A s \in Sender \ messageTerminated :
        messagePc[s] = "blocked" <=> \E i \in 1 .. Len(blocked) : blocked[i] = s
  BY MessageParts
<1>3. put \in Nat /\ MaxCount \in Nat /\ put + Len(blocked) <= MaxCount
  BY MessageParts DEF MessageInv, SamplesAssumption
<1>4. /\ blocked' \in Seq(Sender) /\ Len(blocked') \in Nat /\ Len(blocked') <= Len(blocked)
      /\ \A i, j \in 1 .. Len(blocked') : blocked'[i] = blocked'[j] => i = j
      /\ \A s : (\E i \in 1 .. Len(blocked') : blocked'[i] = s)
                  <=> s # t /\ \E i \in 1 .. Len(blocked) : blocked[i] = s
  <2>1. CASE t \in Message!ToSet(blocked)
    <3>1. PICK i \in 1 .. Len(blocked) :
            blocked[i] = t /\ blocked' = Message!RemoveAt(blocked, i)
      BY <1>1, <2>1
    <3>2. /\ blocked' \in Seq(Sender) /\ Len(blocked') = Len(blocked) - 1
          /\ Injective(blocked')
          /\ \A e : Has(blocked', e) <=> e # t /\ Has(blocked, e)
      <4>1. Injective(blocked) BY <1>1 DEF Injective
      <4>2. blocked \in Seq(Sender) BY <1>1
      <4> QED BY <3>1, <4>1, <4>2, TakenOut, Zenon
    <3>3. \A s : (\E j \in 1 .. Len(blocked') : blocked'[j] = s)
                  <=> s # t /\ \E j \in 1 .. Len(blocked) : blocked[j] = s
      BY <3>2 DEF Has
    <3>4. Len(blocked') \in Nat /\ Len(blocked') <= Len(blocked) BY <1>1, <3>2
    <3> QED BY <3>2, <3>3, <3>4 DEF Injective
  <2>2. CASE t \notin Message!ToSet(blocked)
    <3>1. blocked' = blocked BY <2>2
    <3>2. \A i \in 1 .. Len(blocked) : blocked[i] # t BY <1>1, <2>2 DEF Message!ToSet
    <3> QED BY <1>1, <3>1, <3>2
  <2> QED BY <2>1, <2>2
<1>5. Message!TypeOK' BY <1>4 DEF MessageInv, Message!TypeOK
<1>6. Message!CountBehind' BY DEF MessageInv, Message!CountBehind
<1>7. Message!BlockedSound'
  <2>1. ASSUME NEW s \in Sender \ messageTerminated'
        PROVE  messagePc[s] = "blocked" <=> \E i \in 1 .. Len(blocked') : blocked'[i] = s
    BY <1>2, <1>4
  <2>2. DOMAIN blocked' = 1 .. Len(blocked') BY <1>4
  <2>3. Message!ToSet(blocked') = {blocked'[i] : i \in 1 .. Len(blocked')}
    BY <2>2 DEF Message!ToSet
  <2>4. \A s \in Sender \ messageTerminated' :
          messagePc'[s] = "blocked" <=> s \in Message!ToSet(blocked')
    BY <2>1, <2>3
  <2>5. Message!IsInjective(blocked') BY <1>4, <2>2 DEF Message!IsInjective
  <2>6. blocked' # <<>> => Len(queue') = QueueSize
    <3>1. blocked' # <<>> => Len(blocked') # 0 BY <1>4
    <3>2. blocked' # <<>> => blocked # <<>> BY <1>1, <1>4, <3>1
    <3> QED BY <1>1, <3>2
  <2> QED BY <2>4, <2>5, <2>6 DEF Message!BlockedSound
<1>8. (\A i \in 1 .. Len(blocked) : blocked[i] \notin messageTerminated)'
  <2>1. ASSUME NEW i \in 1 .. Len(blocked') PROVE blocked'[i] \notin messageTerminated'
    <3>1. blocked'[i] # t /\ \E j \in 1 .. Len(blocked) : blocked[j] = blocked'[i] BY <1>4
    <3> QED BY <1>1, <3>1
  <2> QED BY <2>1
<1>9. (put + Len(blocked) <= MaxCount)' BY <1>1, <1>3, <1>4
<1>10. Counting' = Counting BY DEF Counting
<1> QED BY <1>5, <1>6, <1>7, <1>8, <1>9, <1>10 DEF MessageInv

LEMMA MessageNext == SamplesAssumption /\ MessageInv /\ Message!Next => MessageInv'
<1>1. SUFFICES ASSUME SamplesAssumption, MessageInv, Message!Next PROVE MessageInv'
  OBVIOUS
<1>2. ASSUME NEW s \in Sender \ messageTerminated, Message!sender_thread(s) PROVE MessageInv'
  BY <1>1, <1>2, OwnStep, PutRoom, PutBlocks DEF Message!sender_thread
<1>3. ASSUME NEW r \in Receiver \ messageTerminated, Message!Get(r) PROVE MessageInv'
  BY <1>1, <1>3, GetQuietly, GetWakes
<1>4. CASE Message!Terminate
  <2>1. PICK t \in Message!Thread \ messageTerminated :
          /\ messageTerminated' = messageTerminated \union {t}
          /\ UNCHANGED <<queue, count, messagePc, entry, put>>
          /\ IF t \in Message!ToSet(blocked)
             THEN \E i \in DOMAIN blocked :
                    blocked[i] = t /\ blocked' = Message!RemoveAt(blocked, i)
             ELSE UNCHANGED blocked
    BY <1>4 DEF Message!Terminate
  <2> QED BY <1>1, <2>1, TerminateQuietly
<1> QED BY <1>1, <1>2, <1>3, <1>4 DEF Message!Next

LEMMA MessageAlways == BoardSpec => []MessageInv
<1>1. BoardInit => MessageInv BY SamplesAssumption, MessageInit DEF BoardInit
<1>2. MessageInv /\ [BoardNext]_boardVars => MessageInv'
  <2>1. SUFFICES ASSUME MessageInv, [BoardNext]_boardVars PROVE MessageInv'
    OBVIOUS
  <2>2. CASE Message!Next BY <2>1, <2>2, SamplesAssumption, MessageNext
  <2>3. CASE UNCHANGED messageVars
    BY <2>1, <2>3 DEF messageVars, MessageInv, Message!TypeOK, Message!BlockedSound,
      Message!CountBehind, Counting
  <2> QED
    BY <2>1, <2>2, <2>3 DEF BoardNext, boardVars, SempStep, MutexStep, MessageStep, MachineStep,
      KernelStep
<1> QED BY <1>1, <1>2, PTL DEF BoardSpec

\* For any number of threads and any size of the queue: a sender waits for a full queue only,
\* once, and no message carries a number ahead of the messages before it.
THEOREM MessagesSafe ==
  BoardSpec => [](Message!TypeOK /\ Message!BlockedSound /\ Message!CountBehind)
<1>1. MessageInv => Message!TypeOK /\ Message!BlockedSound /\ Message!CountBehind
  BY DEF MessageInv
<1> QED BY <1>1, MessageAlways, PTL

(***************************************************************************)
(* The machines.  Every token of the semaphore is free or a worker's.      *)
(***************************************************************************)

MachineInv ==
  /\ semMachine \in Semaphores(Worker) /\ Distinct(semMachine)
  /\ sempPc \in [Worker -> {"new", "acquire", "wait", "work"}]
  /\ semMachine.count + Cardinality(Machines!Working) = MachineNumber
  /\ semMachine.count > 0 => semMachine.queue = <<>>
  /\ \A w \in Worker : sempPc[w] = "wait" <=> Waits(semMachine, w)

\* The semaphore of this program is the one of the warehouse.
LEMMA SameSemaphore ==
  ASSUME NEW s, NEW w
  PROVE  /\ Machines!Acquire(s, w) = Acquire(s, w) /\ Machines!Release(s) = Release(s)
         /\ Machines!Woken(s) = Woken(s) /\ Machines!Available(s) = Available(s)
BY DEF Machines!Acquire, Acquire, Machines!Release, Release, Machines!Woken, Woken,
  Machines!Available, Available

LEMMA SameCount == ASSUME NEW S PROVE Machines!Cardinality(S) = Cardinality(S)
BY DEF Machines!Cardinality, Cardinality

LEMMA WorkingFinite ==
  ASSUME SamplesAssumption
  PROVE  IsFiniteSet(Machines!Working) /\ Cardinality(Machines!Working) \in Nat
BY FS_Subset, FS_CardinalityType DEF SamplesAssumption, Machines!Working

LEMMA MachineInit == SamplesAssumption /\ Machines!Init => MachineInv
<1>1. SUFFICES ASSUME SamplesAssumption, Machines!Init PROVE MachineInv
  OBVIOUS
<1>2. /\ semMachine = [count |-> MachineNumber, queue |-> <<>>] /\ MachineNumber \in Nat
      /\ sempPc = [w \in Worker |-> "new"]
  BY <1>1 DEF SamplesAssumption, Machines!Init, Machines!Sem
<1>3. <<>> \in Seq(Worker) /\ Len(<<>>) = 0 OBVIOUS
<1>4. semMachine \in Semaphores(Worker) BY <1>2, <1>3 DEF Semaphores
<1>5. Distinct(semMachine) /\ \A w : ~Waits(semMachine, w)
  BY <1>2, <1>3 DEF Distinct, Waits
<1>6. Machines!Working = {} BY <1>2 DEF Machines!Working
<1>7. Cardinality(Machines!Working) = 0 BY <1>6, FS_EmptySet
<1> QED BY <1>2, <1>4, <1>5, <1>7 DEF MachineInv

LEMMA AcquireMachineKeeps ==
  ASSUME SamplesAssumption, MachineInv, NEW w \in Worker, Machines!AcquireMachine(w)
  PROVE  MachineInv'
<1> USE DEF MachineInv
<1>1. /\ sempPc[w] = "acquire" /\ semMachine' = Acquire(semMachine, w)
      /\ sempPc' = [sempPc EXCEPT ![w] = IF Available(semMachine) THEN "work" ELSE "wait"]
  BY SameSemaphore DEF Machines!AcquireMachine
<1>2. semMachine' \in Semaphores(Worker) BY <1>1, AcquireEffect
<1>3. sempPc' \in [Worker -> {"new", "acquire", "wait", "work"}] BY <1>1
<1>4. ~Waits(semMachine, w) BY <1>1
<1>5. \A u \in Worker : u # w => sempPc'[u] = sempPc[u] BY <1>1
<1>6. CASE Available(semMachine)
  <2>1. /\ semMachine'.count = semMachine.count - 1 /\ semMachine'.queue = semMachine.queue
        /\ semMachine.count > 0 /\ semMachine.count \in Nat
    <3>1. /\ semMachine'.count = semMachine.count - 1 /\ semMachine'.queue = semMachine.queue
      BY <1>1, <1>6, AcquireEffect
    <3>2. semMachine.count > 0 BY <1>6 DEF Available
    <3>3. semMachine.count \in Nat BY DEF Semaphores
    <3> QED BY <3>1, <3>2, <3>3
  <2>2. sempPc'[w] = "work" BY <1>1, <1>6
  <2>3. Machines!Working' = Machines!Working \union {w} /\ w \notin Machines!Working
    BY <1>1, <1>5, <2>2 DEF Machines!Working
  <2>4. Cardinality(Machines!Working)' = Cardinality(Machines!Working) + 1
    BY <2>3, WorkingFinite, FS_AddElement
  <2>5. Distinct(semMachine)' BY <2>1 DEF Distinct
  <2>6. \A u \in Worker : Waits(semMachine', u) <=> Waits(semMachine, u) BY <2>1 DEF Waits
  <2>7. \A u \in Worker : sempPc'[u] = "wait" <=> Waits(semMachine', u)
    BY <1>4, <1>5, <2>2, <2>6
  <2>8. semMachine'.count + Cardinality(Machines!Working)' = MachineNumber
    BY <2>1, <2>4, WorkingFinite
  <2> QED BY <1>2, <1>3, <2>1, <2>5, <2>7, <2>8
<1>7. CASE ~Available(semMachine)
  <2>1. /\ semMachine'.count = semMachine.count /\ semMachine.count = 0
        /\ \A u : Waits(Acquire(semMachine, w), u) <=> Waits(semMachine, u) \/ u = w
        /\ Distinct(Acquire(semMachine, w))
    BY <1>1, <1>4, <1>7, AcquireEffect
  <2>2. sempPc'[w] = "wait" BY <1>1, <1>7
  <2>3. Machines!Working' = Machines!Working
    BY <1>1, <1>5, <2>2 DEF Machines!Working
  <2>4. \A u \in Worker : sempPc'[u] = "wait" <=> Waits(semMachine', u)
    BY <1>1, <1>5, <2>1, <2>2
  <2> QED BY <1>1, <1>2, <1>3, <2>1, <2>3, <2>4
<1> QED BY <1>6, <1>7

LEMMA ReturnMachineKeeps ==
  ASSUME SamplesAssumption, MachineInv, NEW w \in Worker, Machines!ReturnMachine(w)
  PROVE  MachineInv'
<1> USE DEF MachineInv
<1>1. /\ sempPc[w] = "work" /\ semMachine' = Release(semMachine)
      /\ sempPc' = [u \in Worker |-> IF u = w THEN "acquire"
                                     ELSE IF u \in Woken(semMachine) THEN "work" ELSE sempPc[u]]
  BY SameSemaphore DEF Machines!ReturnMachine
<1>2. /\ semMachine' \in Semaphores(Worker) /\ Distinct(Release(semMachine))
      /\ \A u : Waits(Release(semMachine), u) <=> Waits(semMachine, u) /\ u \notin Woken(semMachine)
  BY <1>1, ReleaseEffect
<1>3. sempPc' \in [Worker -> {"new", "acquire", "wait", "work"}] BY <1>1
<1>4. ~Waits(semMachine, w) BY <1>1
<1>5. \A u \in Worker : sempPc'[u] = "wait" <=> Waits(semMachine', u)
  BY <1>1, <1>2, <1>4
<1>6. w \in Machines!Working BY <1>1 DEF Machines!Working
<1>7. /\ Cardinality(Machines!Working \ {w}) = Cardinality(Machines!Working) - 1
      /\ IsFiniteSet(Machines!Working \ {w}) /\ Cardinality(Machines!Working \ {w}) \in Nat
  BY <1>6, WorkingFinite, FS_RemoveElement, FS_Subset, FS_CardinalityType
<1>8. semMachine.count \in Nat BY DEF Semaphores
<1>9. CASE semMachine.queue = <<>>
  <2>1. /\ semMachine'.count = semMachine.count + 1 /\ semMachine'.queue = <<>>
        /\ Woken(semMachine) = {}
    BY <1>1, <1>9, ReleaseEffect
  <2>2. Machines!Working' = Machines!Working \ {w}
    BY <1>1, <2>1 DEF Machines!Working
  <2>3. semMachine'.count + Cardinality(Machines!Working)' = MachineNumber
    BY <1>7, <1>8, <2>1, <2>2, WorkingFinite
  <2> QED BY <1>1, <1>2, <1>3, <1>5, <2>1, <2>3
<1>10. CASE semMachine.queue # <<>>
  <2> DEFINE h == Head(semMachine.queue)
  <2>1. /\ semMachine'.count = semMachine.count /\ Woken(semMachine) = {h}
        /\ h \in Worker /\ Waits(semMachine, h)
    BY <1>1, <1>10, ReleaseEffect
  <2> HIDE DEF h
  <2>2. sempPc[h] = "wait" /\ h # w BY <1>4, <2>1
  <2>3. /\ Machines!Working' = (Machines!Working \ {w}) \union {h}
        /\ h \notin Machines!Working \ {w}
    BY <1>1, <2>1, <2>2 DEF Machines!Working
  <2>4. Cardinality(Machines!Working)' = Cardinality(Machines!Working \ {w}) + 1
    BY <1>7, <2>3, FS_AddElement
  <2>5. semMachine'.count + Cardinality(Machines!Working)' = MachineNumber
    BY <1>7, <1>8, <2>1, <2>4, WorkingFinite
  <2>6. ~(semMachine'.count > 0) BY <1>8, <1>10, <2>1
  <2> QED BY <1>1, <1>2, <1>3, <1>5, <2>5, <2>6
<1> QED BY <1>9, <1>10

LEMMA MachineNext == SamplesAssumption /\ MachineInv /\ Machines!Next => MachineInv'
<1>1. SUFFICES ASSUME SamplesAssumption, MachineInv, Machines!Next PROVE MachineInv'
  OBVIOUS
<1>2. ASSUME NEW w \in Worker, Machines!worker_thread(w) PROVE MachineInv'
  BY <1>1, <1>2, AcquireMachineKeeps, ReturnMachineKeeps DEF Machines!worker_thread
<1>3. CASE Machines!Create
  <2>1. /\ UNCHANGED semMachine
        /\ sempPc' \in [Worker -> {"new", "acquire", "wait", "work"}]
        /\ \A u \in Worker : /\ sempPc'[u] = "wait" <=> sempPc[u] = "wait"
                             /\ sempPc'[u] = "work" <=> sempPc[u] = "work"
    BY <1>1, <1>3 DEF Machines!Create, MachineInv
  <2>2. Machines!Working' = Machines!Working BY <2>1 DEF Machines!Working
  <2> QED BY <1>1, <2>1, <2>2 DEF MachineInv
<1> QED BY <1>1, <1>2, <1>3 DEF Machines!Next

LEMMA MachineAlways == BoardSpec => []MachineInv
<1>1. BoardInit => MachineInv BY SamplesAssumption, MachineInit DEF BoardInit
<1>2. MachineInv /\ [BoardNext]_boardVars => MachineInv'
  <2>1. SUFFICES ASSUME MachineInv, [BoardNext]_boardVars PROVE MachineInv'
    OBVIOUS
  <2>2. CASE Machines!Next BY <2>1, <2>2, SamplesAssumption, MachineNext
  <2>3. CASE UNCHANGED machineVars
    BY <2>1, <2>3 DEF machineVars, MachineInv, Machines!Working
  <2> QED
    BY <2>1, <2>2, <2>3 DEF BoardNext, boardVars, SempStep, MutexStep, MessageStep, MachineStep,
      KernelStep
<1> QED BY <1>1, <1>2, PTL DEF BoardSpec

\* For any number of workers and machines: no more workers work than there are machines, and
\* one waits only while all machines are taken.
THEOREM WorkersSafe == BoardSpec => [](Machines!TypeOK /\ Machines!MachinesShared)
<1>1. MachineInv => Machines!TypeOK /\ Machines!MachinesShared
  <2>1. SUFFICES ASSUME MachineInv PROVE Machines!TypeOK /\ Machines!MachinesShared
    OBVIOUS
  <2> USE <2>1 DEF MachineInv
  <2>2. /\ semMachine = [count |-> semMachine.count, queue |-> semMachine.queue]
        /\ semMachine.count \in Nat /\ semMachine.queue \in Seq(Worker)
    BY DEF Semaphores
  <2>3. Cardinality(Machines!Working) \in Nat /\ MachineNumber \in Nat
    BY SamplesAssumption, WorkingFinite DEF SamplesAssumption
  <2>4. semMachine.count \in 0 .. MachineNumber /\ Cardinality(Machines!Working) <= MachineNumber
    BY <2>2, <2>3
  <2>5. Machines!TypeOK BY <2>2, <2>4 DEF Machines!TypeOK
  <2>6. ASSUME NEW w \in Worker, sempPc[w] = "wait"
        PROVE  Cardinality(Machines!Working) = MachineNumber
    <3>1. semMachine.queue # <<>> BY <2>6 DEF Waits
    <3>2. semMachine.count = 0 BY <2>2, <3>1
    <3> QED BY <2>3, <3>2
  <2>7. (\E w \in Worker : sempPc[w] = "wait") => Cardinality(Machines!Working) = MachineNumber
    BY <2>6
  <2>8. Machines!MachinesShared BY <2>4, <2>7, SameCount DEF Machines!MachinesShared
  <2> QED BY <2>5, <2>8
<1> QED BY <1>1, MachineAlways, PTL

(***************************************************************************)
(* Threads, delays and timers.  The time left to a deadline falls by one   *)
(* with every tick, also over the wrap of the counter: the main thread and *)
(* the timer it watches sleep in step, and a count is paid for by the two  *)
(* ticks after it.                                                         *)
(***************************************************************************)

Later(t, k) == (t + k) % Word

\* A deadline no further away than the counter is wide.
LEMMA Wraps ==
  ASSUME SamplesAssumption, NEW t \in 0 .. Word - 1, NEW k \in 0 .. 40
  PROVE  /\ Later(t, k) = IF t + k < Word THEN t + k ELSE t + k - Word
         /\ Later(t, k) \in 0 .. Word - 1
<1>0. Word \in Nat /\ Word > 40 BY DEF SamplesAssumption
<1>1. CASE t + k < Word
  <2>1. t + k \in 0 .. Word - 1 BY <1>0, <1>1
  <2>2. (t + k) % Word = t + k BY <1>0, <2>1
  <2> QED BY <1>1, <2>1, <2>2 DEF Later
<1>2. CASE ~(t + k < Word)
  <2>1. t + k - Word \in 0 .. Word - 1 /\ t + k = (t + k - Word) + Word BY <1>0, <1>2
  <2>2. (t + k) % Word = t + k - Word BY <1>0, <2>1
  <2> QED BY <1>2, <2>1, <2>2 DEF Later
<1> QED BY <1>1, <1>2

\* One tick brings it nearer by one.
LEMMA Nearer ==
  ASSUME SamplesAssumption, NEW t \in 0 .. Word - 1, NEW k \in 1 .. 39
  PROVE  /\ Later(Later(t, 1), k - 1) = Later(t, k)
         /\ Later(t, k) = Later(t, 1) <=> k = 1
<1>0. Word \in Nat /\ Word > 40 BY DEF SamplesAssumption
<1>1. Later(t, 1) = (IF t + 1 < Word THEN t + 1 ELSE t + 1 - Word) /\ Later(t, 1) \in 0 .. Word - 1
  <2>1. 1 \in 0 .. 40 OBVIOUS
  <2> QED BY <2>1, Wraps
<1>2. Later(t, k) = IF t + k < Word THEN t + k ELSE t + k - Word
  <2>1. k \in 0 .. 40 OBVIOUS
  <2> QED BY <2>1, Wraps
<1>3. Later(Later(t, 1), k - 1) =
        IF Later(t, 1) + (k - 1) < Word THEN Later(t, 1) + (k - 1)
        ELSE Later(t, 1) + (k - 1) - Word
  <2>1. k - 1 \in 0 .. 40 OBVIOUS
  <2> QED BY <1>1, <2>1, Wraps
<1> QED BY <1>0, <1>1, <1>2, <1>3

KernelTypes ==
  /\ demo \in {"delay", "timer", "timer_once", "thread", "thread_basic"}
  /\ kernelPc \in {"start", "delayed", "create", "poll", "stop", "priority", "suspend", "resume",
                   "wait", "terminate", "count", "done", "failed"}
  /\ wake \in 0 .. Word /\ now \in 0 .. Word - 1 /\ kernelCount \in Nat
  /\ timer \in [running : BOOLEAN, expires : 0 .. Word - 1, due : BOOLEAN]
  /\ times \in [called : Nat, polled : 0 .. 10]
  /\ thread \in [state : {"none", "ready", "suspended", "terminated"}, wake : 0 .. Word,
                 high : BOOLEAN]
  /\ elapsed \in [all : 0 .. MaxElapsed, counting : Nat]

Resting == timer.running = FALSE /\ timer.due = FALSE
\* So many periods of the periodic timer have ended or are about to.
Called(n) == times.called <= n /\ (timer.due = TRUE => times.called < n)

TimerInv ==
  /\ kernelPc \in {"start", "poll", "stop", "done", "failed"}
  /\ kernelPc \in {"start", "failed"} => Resting /\ times.called = 0
  /\ kernelPc \in {"start", "stop"} => wake = Word
  /\ kernelPc \in {"poll", "stop"} =>
       /\ timer.running = TRUE
       /\ IF wake = Word THEN timer.expires = Later(now, 10)
          ELSE \E k \in 1 .. 10 : wake = Later(now, k) /\ timer.expires = Later(now, k)
  /\ Called(4) /\ (kernelPc = "poll" /\ wake # Word => Called(3))
  /\ kernelPc \in {"stop", "done"} => times.called >= 3
  /\ kernelPc = "done" => timer.running = FALSE

TimerOnceInv ==
  /\ kernelPc \in {"start", "create", "poll", "done", "failed"}
  /\ times.called = 0 /\ timer.due = FALSE
  /\ kernelPc \in {"start", "create", "done", "failed"} => timer.running = FALSE
  /\ kernelPc \in {"start", "create"} => times.polled = 0
  /\ kernelPc = "poll" =>
       IF wake = Word THEN timer.expires = Later(now, 20 - times.polled)
       ELSE /\ wake = Later(now, 1) /\ times.polled >= 1
            /\ timer.expires = Later(now, 21 - times.polled)

ThreadInv ==
  /\ kernelPc \in {"start", "create", "priority", "suspend", "resume", "wait", "terminate", "done"}
  /\ kernelPc \in {"start", "create"} => thread.state = "none"
  /\ thread.state = "none" => kernelCount = 0
  /\ thread.state = "terminated" => kernelPc = "done" /\ 2 * kernelCount <= elapsed.counting + 2
  /\ thread.state \in {"none", "ready", "suspended"} =>
       IF thread.wake = Word THEN 2 * kernelCount <= elapsed.counting
       ELSE \E k \in 1 .. 2 :
              thread.wake = Later(now, k) /\ 2 * kernelCount <= elapsed.counting + k

KernelInv ==
  /\ KernelTypes
  /\ demo = "timer" => TimerInv
  /\ demo = "timer_once" => TimerOnceInv
  /\ demo = "thread" => ThreadInv

LEMMA KernelInit == SamplesAssumption /\ Kernel!Init => KernelInv
<1>1. SUFFICES ASSUME SamplesAssumption, Kernel!Init PROVE KernelInv
  OBVIOUS
<1> USE <1>1 DEF SamplesAssumption, Kernel!Init, Kernel!Ready, Kernel!NoTimer, Kernel!NoThread
<1>2. /\ timer = [running |-> FALSE, expires |-> 0, due |-> FALSE]
      /\ times = [called |-> 0, polled |-> 0]
      /\ thread = [state |-> "none", wake |-> Word, high |-> FALSE]
      /\ elapsed = [all |-> 0, counting |-> 0]
      /\ kernelPc = "start" /\ wake = Word /\ kernelCount = 0 /\ now \in {0, Word - 5}
  OBVIOUS
<1>3. /\ timer.running = FALSE /\ timer.due = FALSE /\ times.called = 0 /\ times.polled = 0
      /\ thread.state = "none" /\ thread.wake = Word /\ elapsed.counting = 0
  BY <1>2
<1>4. KernelTypes
  <2>1. timer \in [running : BOOLEAN, expires : 0 .. Word - 1, due : BOOLEAN]
    BY <1>2
  <2>2. thread \in [state : {"none", "ready", "suspended", "terminated"}, wake : 0 .. Word,
                    high : BOOLEAN]
    BY <1>2
  <2>3. times \in [called : Nat, polled : 0 .. 10] BY <1>2
  <2>4. elapsed \in [all : 0 .. MaxElapsed, counting : Nat] BY <1>2
  <2> QED BY <1>2, <2>1, <2>2, <2>3, <2>4 DEF KernelTypes
<1>5. TimerInv BY <1>2, <1>3 DEF TimerInv, Resting, Called
<1>6. TimerOnceInv BY <1>2, <1>3 DEF TimerOnceInv
<1>7. ThreadInv BY <1>2, <1>3 DEF ThreadInv
<1> QED BY <1>4, <1>5, <1>6, <1>7 DEF KernelInv

\* The records, field by field.
LEMMA KernelParts ==
  ASSUME KernelTypes
  PROVE  /\ timer = [running |-> timer.running, expires |-> timer.expires, due |-> timer.due]
         /\ timer.running \in BOOLEAN /\ timer.expires \in 0 .. Word - 1 /\ timer.due \in BOOLEAN
         /\ times = [called |-> times.called, polled |-> times.polled]
         /\ times.called \in Nat /\ times.polled \in 0 .. 10
         /\ thread = [state |-> thread.state, wake |-> thread.wake, high |-> thread.high]
         /\ thread.state \in {"none", "ready", "suspended", "terminated"}
         /\ thread.wake \in 0 .. Word /\ thread.high \in BOOLEAN
         /\ elapsed = [all |-> elapsed.all, counting |-> elapsed.counting]
         /\ elapsed.all \in 0 .. MaxElapsed /\ elapsed.counting \in Nat
BY DEF KernelTypes

\* Deadlines are values of the counter.
LEMMA AfterType ==
  ASSUME SamplesAssumption, now \in 0 .. Word - 1, NEW k \in 0 .. 40
  PROVE  Kernel!After(k) \in 0 .. Word - 1 /\ Kernel!After(k) = Later(now, k)
BY Wraps DEF Kernel!After, Later

LEMMA DelayKeeps ==
  ASSUME SamplesAssumption, KernelInv, Kernel!rtosv2_delay_main \/ Kernel!rtosv2_thread_main
  PROVE  KernelInv'
<1>1. /\ demo \in {"delay", "thread_basic"} /\ kernelPc' \in {"delayed", "done", "count"}
      /\ UNCHANGED <<demo, now, timer, times, thread, elapsed>>
      /\ wake' \in {wake, Kernel!After(10), Kernel!After(1)}
      /\ kernelCount' \in {kernelCount, kernelCount + 1}
  BY DEF Kernel!rtosv2_delay_main, Kernel!rtosv2_thread_main, Kernel!Goes, Kernel!Sleep
<1>2. now \in 0 .. Word - 1 /\ wake \in 0 .. Word BY DEF KernelInv, KernelTypes
<1>3. wake' \in 0 .. Word
  <2>1. 1 \in 0 .. 40 /\ 10 \in 0 .. 40 /\ Word \in Nat BY DEF SamplesAssumption
  <2>2. Kernel!After(1) \in 0 .. Word /\ Kernel!After(10) \in 0 .. Word
    BY <1>2, <2>1, AfterType
  <2> QED BY <1>1, <1>2, <2>2
<1>4. KernelTypes' BY <1>1, <1>3 DEF KernelInv, KernelTypes
<1> QED BY <1>1, <1>4 DEF KernelInv

LEMMA CallbackKeeps ==
  ASSUME SamplesAssumption, KernelInv, Kernel!Callback PROVE KernelInv'
<1> USE KernelParts DEF KernelInv
<1>1. /\ timer.due /\ timer' = [timer EXCEPT !.due = FALSE]
      /\ times' = [times EXCEPT !.called = @ + 1]
      /\ UNCHANGED <<demo, kernelPc, wake, now, thread, kernelCount, elapsed>>
  BY DEF Kernel!Callback
<1>2. timer.due = TRUE BY <1>1
<1>3. timer' = [running |-> timer.running, expires |-> timer.expires, due |-> FALSE]
  BY <1>1
<1>4. /\ timer'.running = timer.running /\ timer'.expires = timer.expires /\ timer'.due = FALSE
      /\ timer' \in [running : BOOLEAN, expires : 0 .. Word - 1, due : BOOLEAN]
  BY <1>3
<1>5. /\ times'.called = times.called + 1 /\ times'.polled = times.polled
      /\ times' \in [called : Nat, polled : 0 .. 10]
  BY <1>1
<1>6. KernelTypes' BY <1>1, <1>4, <1>5 DEF KernelTypes
<1>7. (demo = "timer" => TimerInv)'
  BY <1>1, <1>2, <1>4, <1>5 DEF TimerInv, Resting, Called
<1>8. (demo = "timer_once" => TimerOnceInv)'
  BY <1>1, <1>2 DEF TimerOnceInv
<1>9. (demo = "thread" => ThreadInv)' BY <1>1 DEF ThreadInv
<1> QED BY <1>6, <1>7, <1>8, <1>9

\* The states a started and a stopped timer are in.
LEMMA TimerStates ==
  ASSUME SamplesAssumption, KernelTypes, NEW n \in {10, 20}, NEW s,
         s = Kernel!Started(n) \/ s = [timer EXCEPT !.running = FALSE]
  PROVE  /\ s \in [running : BOOLEAN, expires : 0 .. Word - 1, due : BOOLEAN]
         /\ s = Kernel!Started(n) =>
              s.running = TRUE /\ s.expires = Later(now, n) /\ s.due = FALSE
         /\ s = [timer EXCEPT !.running = FALSE] => s.running = FALSE /\ s.due = timer.due
<1>1. now \in 0 .. Word - 1 /\ n \in 0 .. 40 BY DEF KernelTypes
<1>2. Kernel!After(n) \in 0 .. Word - 1 /\ Kernel!After(n) = Later(now, n) BY <1>1, AfterType
<1>3. CASE s = Kernel!Started(n)
  <2>1. s = [running |-> TRUE, expires |-> Kernel!After(n), due |-> FALSE]
    BY <1>3 DEF Kernel!Started
  <2>2. s.running = TRUE /\ s.expires = Later(now, n) /\ s.due = FALSE BY <1>2, <2>1
  <2>3. s \in [running : BOOLEAN, expires : 0 .. Word - 1, due : BOOLEAN] BY <1>2, <2>1
  <2>4. s = [timer EXCEPT !.running = FALSE] => s.due = timer.due /\ s.running = FALSE
    BY DEF KernelTypes
  <2> QED BY <2>2, <2>3, <2>4
<1>4. CASE s = [timer EXCEPT !.running = FALSE] /\ s # Kernel!Started(n)
  <2>1. s.running = FALSE /\ s.due = timer.due BY <1>4 DEF KernelTypes
  <2>2. s \in [running : BOOLEAN, expires : 0 .. Word - 1, due : BOOLEAN]
    BY <1>4 DEF KernelTypes
  <2> QED BY <1>4, <2>1, <2>2
<1> QED BY <1>3, <1>4

\* What the step of a demonstration leaves alone, and where its main thread sleeps.
LEMMA SleepType ==
  ASSUME SamplesAssumption, KernelTypes
  PROVE  /\ Kernel!After(1) = Later(now, 1) /\ Kernel!After(10) = Later(now, 10)
         /\ Kernel!After(2) = Later(now, 2)
         /\ Later(now, 1) \in 0 .. Word - 1 /\ Later(now, 10) \in 0 .. Word - 1
         /\ Later(now, 2) \in 0 .. Word - 1 /\ Word \in Nat /\ Word > 40
<1>1. now \in 0 .. Word - 1 /\ 1 \in 0 .. 40 /\ 10 \in 0 .. 40 /\ 2 \in 0 .. 40
  BY DEF KernelTypes
<1> QED BY <1>1, AfterType DEF SamplesAssumption

LEMMA PeriodicKeeps ==
  ASSUME SamplesAssumption, KernelInv, Kernel!timer_periodic PROVE KernelInv'
<1>1. /\ demo = "timer" /\ TimerInv /\ KernelTypes
      /\ UNCHANGED <<demo, now, times, thread, kernelCount, elapsed>>
  BY DEF KernelInv, Kernel!timer_periodic
<1>2. wake = Word /\ wake \in 0 .. Word /\ times.called \in Nat
  BY <1>1, KernelParts DEF Kernel!timer_periodic, Kernel!Goes, Kernel!Runs, Kernel!Ready, KernelTypes
<1>3. 10 \in {10, 20} OBVIOUS
<1>4. CASE Kernel!Goes("start", "failed") /\ UNCHANGED <<timer, wake>>
  BY <1>1, <1>2, <1>4 DEF KernelInv, KernelTypes, TimerInv, Resting, Called, Kernel!Goes
<1>5. CASE Kernel!Goes("start", "poll") /\ timer' = Kernel!Started(10) /\ UNCHANGED wake
  <2>1. /\ timer'.running = TRUE /\ timer'.expires = Later(now, 10) /\ timer'.due = FALSE
        /\ timer' \in [running : BOOLEAN, expires : 0 .. Word - 1, due : BOOLEAN]
    BY <1>1, <1>3, <1>5, TimerStates
  <2>2. kernelPc = "start" /\ kernelPc' = "poll" /\ wake' = Word BY <1>2, <1>5 DEF Kernel!Goes
  <2>3. times.called = 0 BY <1>1, <2>2 DEF TimerInv
  <2>4. KernelTypes' BY <1>1, <1>2, <2>1, <2>2 DEF KernelTypes
  <2>5. TimerInv' BY <1>1, <2>1, <2>2, <2>3 DEF TimerInv, Called
  <2> QED BY <1>1, <2>4, <2>5 DEF KernelInv
<1>6. CASE times.called < 3 /\ Kernel!Goes("poll", "poll") /\ Kernel!Sleep(10) /\ UNCHANGED timer
  <2>1. wake' = Later(now, 10) /\ wake' \in 0 .. Word - 1 /\ Word \in Nat
    BY <1>1, <1>6, SleepType DEF Kernel!Sleep
  <2>2. kernelPc = "poll" /\ kernelPc' = "poll" BY <1>6 DEF Kernel!Goes
  <2>3. wake' # Word /\ wake' \in 0 .. Word BY <2>1
  <2>4. Called(3)' BY <1>1, <1>2, <1>6 DEF Called
  <2>5. \E k \in 1 .. 10 : wake' = Later(now', k) /\ timer'.expires = Later(now', k)
    <3>1. 10 \in 1 .. 10 OBVIOUS
    <3> QED BY <1>1, <1>2, <1>6, <2>1, <2>2, <3>1 DEF TimerInv
  <2>6. KernelTypes' BY <1>1, <1>6, <2>2, <2>3 DEF KernelTypes
  <2>7. TimerInv' BY <1>1, <1>6, <2>2, <2>3, <2>4, <2>5 DEF TimerInv, Called
  <2> QED BY <1>1, <2>6, <2>7 DEF KernelInv
<1>7. CASE times.called >= 3 /\ Kernel!Goes("poll", "stop") /\ UNCHANGED <<timer, wake>>
  BY <1>1, <1>2, <1>7 DEF KernelInv, KernelTypes, TimerInv, Called, Kernel!Goes
<1>8. CASE Kernel!Goes("stop", "done") /\ timer' = [timer EXCEPT !.running = FALSE] /\ UNCHANGED wake
  <2>1. /\ timer'.running = FALSE /\ timer'.due = timer.due
        /\ timer' \in [running : BOOLEAN, expires : 0 .. Word - 1, due : BOOLEAN]
    BY <1>1, <1>3, <1>8, TimerStates
  <2>2. kernelPc = "stop" /\ kernelPc' = "done" BY <1>8 DEF Kernel!Goes
  <2>3. KernelTypes' BY <1>1, <1>2, <1>8, <2>1, <2>2 DEF KernelTypes
  <2>4. TimerInv' BY <1>1, <1>2, <1>8, <2>1, <2>2 DEF TimerInv, Called
  <2> QED BY <1>1, <2>3, <2>4 DEF KernelInv
<1> QED BY <1>4, <1>5, <1>6, <1>7, <1>8 DEF Kernel!timer_periodic

LEMMA OnceKeeps ==
  ASSUME SamplesAssumption, KernelInv, Kernel!timer_once PROVE KernelInv'
<1>1. /\ demo = "timer_once" /\ TimerOnceInv /\ KernelTypes
      /\ UNCHANGED <<demo, now, thread, kernelCount, elapsed>>
  BY DEF KernelInv, Kernel!timer_once
<1>2. wake = Word /\ wake \in 0 .. Word /\ times.called = 0 /\ times.polled \in 0 .. 10
  BY <1>1, KernelParts DEF Kernel!timer_once, Kernel!Goes, Kernel!Runs, Kernel!Ready, KernelTypes,
    TimerOnceInv
<1>3. 20 \in {10, 20} OBVIOUS
<1>4. CASE Kernel!Goes("start", "create") /\ Kernel!Sleep(10) /\ UNCHANGED <<timer, times>>
  <2>1. wake' \in 0 .. Word
    BY <1>1, <1>4, SleepType DEF Kernel!Sleep
  <2>2. kernelPc = "start" /\ kernelPc' = "create" BY <1>4 DEF Kernel!Goes
  <2> QED BY <1>1, <1>4, <2>1, <2>2 DEF KernelInv, KernelTypes, TimerOnceInv
<1>5. CASE Kernel!Goes("create", "failed") /\ UNCHANGED <<timer, wake, times>>
  BY <1>1, <1>5 DEF KernelInv, KernelTypes, TimerOnceInv, Kernel!Goes
<1>6. CASE Kernel!Goes("create", "poll") /\ timer' = Kernel!Started(20) /\ UNCHANGED <<wake, times>>
  <2>1. /\ timer'.expires = Later(now, 20) /\ timer'.due = FALSE
        /\ timer' \in [running : BOOLEAN, expires : 0 .. Word - 1, due : BOOLEAN]
    BY <1>1, <1>3, <1>6, TimerStates
  <2>2. kernelPc = "create" /\ kernelPc' = "poll" BY <1>6 DEF Kernel!Goes
  <2>3. times.polled = 0 /\ 20 - times.polled = 20 BY <1>1, <2>2 DEF TimerOnceInv
  <2>4. KernelTypes' BY <1>1, <1>6, <2>1, <2>2 DEF KernelTypes
  <2>5. TimerOnceInv' BY <1>1, <1>2, <1>6, <2>1, <2>2, <2>3 DEF TimerOnceInv
  <2> QED BY <1>1, <2>4, <2>5 DEF KernelInv
<1>7. CASE /\ times.polled < 10 /\ Kernel!Goes("poll", "poll") /\ Kernel!Sleep(1) /\ UNCHANGED timer
           /\ times' = [times EXCEPT !.polled = @ + 1]
  <2>1. /\ times'.called = 0 /\ times'.polled = times.polled + 1
        /\ times' \in [called : Nat, polled : 0 .. 10]
    BY <1>1, <1>2, <1>7, KernelParts
  <2>2. wake' = Later(now, 1) /\ wake' \in 0 .. Word - 1 /\ Word \in Nat
    BY <1>1, <1>7, SleepType DEF Kernel!Sleep
  <2>3. kernelPc = "poll" /\ kernelPc' = "poll" BY <1>7 DEF Kernel!Goes
  <2>4. timer.expires = Later(now, 20 - times.polled) /\ 20 - times.polled = 21 - times'.polled
    BY <1>1, <1>2, <2>1, <2>3 DEF TimerOnceInv
  <2>5. KernelTypes' BY <1>1, <1>7, <2>1, <2>2, <2>3 DEF KernelTypes
  <2>6. TimerOnceInv'
    <3>1. wake' # Word /\ times'.polled >= 1 BY <1>2, <2>1, <2>2
    <3>2. timer'.expires = Later(now', 21 - times'.polled) BY <1>1, <1>7, <2>4
    <3>3. timer'.due = FALSE BY <1>1, <1>7 DEF TimerOnceInv
    <3> QED BY <1>1, <2>1, <2>2, <2>3, <3>1, <3>2, <3>3 DEF TimerOnceInv
  <2> QED BY <1>1, <2>5, <2>6 DEF KernelInv
<1>8. CASE /\ times.polled = 10 /\ Kernel!Goes("poll", "done") /\ UNCHANGED <<wake, times>>
           /\ timer' = [timer EXCEPT !.running = FALSE]
  <2>1. /\ timer'.running = FALSE /\ timer'.due = timer.due
        /\ timer' \in [running : BOOLEAN, expires : 0 .. Word - 1, due : BOOLEAN]
    BY <1>1, <1>3, <1>8, TimerStates
  <2>2. kernelPc = "poll" /\ kernelPc' = "done" BY <1>8 DEF Kernel!Goes
  <2>3. KernelTypes' BY <1>1, <1>2, <1>8, <2>1, <2>2 DEF KernelTypes
  <2>4. TimerOnceInv' BY <1>1, <1>2, <1>8, <2>1, <2>2 DEF TimerOnceInv
  <2> QED BY <1>1, <2>3, <2>4 DEF KernelInv
<1> QED BY <1>4, <1>5, <1>6, <1>7, <1>8 DEF Kernel!timer_once

\* The steps of the main thread leave the other's place in its delay as it was.
LEMMA ThreadMainKeeps ==
  ASSUME SamplesAssumption, KernelInv, Kernel!threadMain PROVE KernelInv'
<1>1. /\ demo = "thread" /\ ThreadInv /\ KernelTypes
      /\ UNCHANGED <<demo, now, timer, times, kernelCount, elapsed>>
  BY DEF KernelInv, Kernel!threadMain
<1>2. /\ wake = Word /\ wake \in 0 .. Word /\ kernelCount \in Nat /\ elapsed.counting \in Nat
      /\ Word \in Nat
  BY <1>1, KernelParts DEF Kernel!threadMain, Kernel!Goes, Kernel!Runs, Kernel!Ready, KernelTypes,
    SamplesAssumption
<1>3. ASSUME KernelTypes', ThreadInv' PROVE KernelInv'
  BY <1>1, <1>3 DEF KernelInv
<1>4. CASE \/ Kernel!Goes("start", "create") /\ Kernel!Sleep(10) /\ UNCHANGED thread
           \/ Kernel!Goes("wait", "terminate") /\ Kernel!Sleep(10) /\ UNCHANGED thread
  <2>1. wake' \in 0 .. Word BY <1>1, <1>4, SleepType DEF Kernel!Sleep
  <2>2. \/ kernelPc = "start" /\ kernelPc' = "create"
        \/ kernelPc = "wait" /\ kernelPc' = "terminate"
    BY <1>4 DEF Kernel!Goes
  <2>3. KernelTypes' BY <1>1, <1>4, <2>1, <2>2 DEF KernelTypes
  <2>4. ThreadInv' BY <1>1, <1>4, <2>2 DEF ThreadInv
  <2> QED BY <1>3, <2>3, <2>4
<1>5. CASE Kernel!Goes("create", "priority") /\ Kernel!newThread /\ UNCHANGED wake
  <2>1. kernelPc = "create" /\ kernelPc' = "priority" BY <1>5 DEF Kernel!Goes
  <2>2. kernelCount = 0 BY <1>1, <2>1 DEF ThreadInv
  <2>3. /\ thread'.state \in {"none", "ready"} /\ thread'.wake = Word
        /\ thread' \in [state : {"none", "ready", "suspended", "terminated"}, wake : 0 .. Word,
                        high : BOOLEAN]
    <3>1. \/ thread' = [state |-> "ready", wake |-> Word, high |-> FALSE]
          \/ thread' = [state |-> "none", wake |-> Word, high |-> FALSE]
      BY <1>5 DEF Kernel!newThread, Kernel!NoThread, Kernel!Ready
    <3>2. Word \in 0 .. Word BY <1>2
    <3>4. CASE thread' = [state |-> "ready", wake |-> Word, high |-> FALSE] BY <3>2, <3>4
    <3>5. CASE thread' = [state |-> "none", wake |-> Word, high |-> FALSE] BY <3>2, <3>5
    <3> QED BY <3>1, <3>4, <3>5
  <2>4. KernelTypes' BY <1>1, <1>2, <1>5, <2>1, <2>3 DEF KernelTypes
  <2>5. ThreadInv' BY <1>1, <1>2, <2>1, <2>2, <2>3 DEF ThreadInv
  <2> QED BY <1>3, <2>4, <2>5
<1>6. ASSUME NEW next,
             \/ kernelPc = "priority" /\ kernelPc' = "suspend" /\ next = [thread EXCEPT !.high = TRUE]
             \/ kernelPc = "suspend" /\ kernelPc' = "resume" /\ next = [thread EXCEPT !.state = "suspended"]
             \/ kernelPc = "resume" /\ kernelPc' = "wait" /\ next = [thread EXCEPT !.state = "ready"]
             \/ kernelPc = "terminate" /\ kernelPc' = "done" /\ next = [thread EXCEPT !.state = "terminated"],
             thread' = (IF thread.state = "none" THEN thread ELSE next), wake' = wake
      PROVE  KernelInv'
  <2>1. next \in [state : {"none", "ready", "suspended", "terminated"}, wake : 0 .. Word,
                  high : BOOLEAN]
    BY ZenonT(60), <1>1, <1>6 DEF KernelTypes
  <2>2. next.wake = thread.wake /\ next.state \in {thread.state, "suspended", "ready", "terminated"}
        /\ (next.state = "terminated" <=> kernelPc' = "done")
    <3>1. thread.state # "terminated" BY <1>1, <1>6 DEF ThreadInv
    <3> QED BY <1>1, <1>6, <3>1 DEF KernelTypes
  <2>3. KernelTypes' BY <1>1, <1>2, <1>6, <2>1 DEF KernelTypes
  <2>4. ASSUME thread.state = "none" PROVE ThreadInv'
    BY <1>1, <1>2, <1>6, <2>4 DEF ThreadInv
  <2>5. ASSUME thread.state # "none" PROVE ThreadInv'
    <3>1. thread' = next BY <1>6, <2>5
    <3>2. thread.state \in {"ready", "suspended"}
      BY <1>1, <1>6, <2>5, KernelParts DEF ThreadInv
    <3>3. 2 * kernelCount <= elapsed.counting + 2 BY <1>1, <1>2, <3>2 DEF ThreadInv
    <3>4. next.state # "none" BY <1>6, <2>2, <2>5
    <3> QED BY <1>1, <1>2, <1>6, <2>2, <3>1, <3>2, <3>3, <3>4 DEF ThreadInv
  <2>6. ThreadInv' BY <2>4, <2>5
  <2> QED BY <1>3, <2>3, <2>6
<1>7. CASE Kernel!Goes("priority", "suspend") /\ Kernel!OnThread([thread EXCEPT !.high = TRUE])
             /\ UNCHANGED wake
  BY <1>6, <1>7 DEF Kernel!Goes, Kernel!OnThread
<1>8. CASE Kernel!Goes("suspend", "resume") /\ Kernel!OnThread([thread EXCEPT !.state = "suspended"])
             /\ UNCHANGED wake
  BY <1>6, <1>8 DEF Kernel!Goes, Kernel!OnThread
<1>9. CASE Kernel!Goes("resume", "wait") /\ Kernel!OnThread([thread EXCEPT !.state = "ready"])
             /\ UNCHANGED wake
  BY <1>6, <1>9 DEF Kernel!Goes, Kernel!OnThread
<1>10. CASE Kernel!Goes("terminate", "done") /\ Kernel!OnThread([thread EXCEPT !.state = "terminated"])
              /\ UNCHANGED wake
  BY <1>6, <1>10 DEF Kernel!Goes, Kernel!OnThread
<1> QED BY <1>4, <1>5, <1>7, <1>8, <1>9, <1>10 DEF Kernel!threadMain

\* A count is taken when the delay has ended, and the next delay begins with it.
LEMMA ThreadTestKeeps ==
  ASSUME SamplesAssumption, KernelInv, Kernel!threadTest PROVE KernelInv'
<1>1. /\ KernelTypes /\ thread.state = "ready" /\ thread.wake = Word
      /\ kernelCount' = kernelCount + 1 /\ thread' = [thread EXCEPT !.wake = Kernel!After(2)]
      /\ UNCHANGED <<demo, kernelPc, wake, now, timer, times, elapsed>>
  BY DEF KernelInv, Kernel!threadTest, Kernel!Ready
<1>2. /\ Kernel!After(2) = Later(now, 2) /\ Later(now, 2) \in 0 .. Word - 1 /\ Word \in Nat
      /\ kernelCount \in Nat /\ elapsed.counting \in Nat
  BY <1>1, SleepType, KernelParts DEF KernelTypes
<1>3. /\ thread'.wake = Later(now, 2) /\ thread'.state = "ready"
      /\ thread' \in [state : {"none", "ready", "suspended", "terminated"}, wake : 0 .. Word,
                      high : BOOLEAN]
  BY <1>1, <1>2 DEF KernelTypes
<1>4. KernelTypes' BY <1>1, <1>2, <1>3 DEF KernelTypes
<1>5. demo = "thread" => ThreadInv'
  <2>1. HAVE demo = "thread"
  <2>2. ThreadInv BY <2>1 DEF KernelInv
  <2>3. 2 * kernelCount' <= elapsed'.counting + 2 BY <1>1, <1>2, <2>2 DEF ThreadInv
  <2>4. thread'.wake # Word BY <1>2, <1>3
  <2>5. \E k \in 1 .. 2 :
          thread'.wake = Later(now', k) /\ 2 * kernelCount' <= elapsed'.counting + k
    BY <1>1, <1>3, <2>3
  <2>6. kernelPc \notin {"start", "create"} BY <1>1, <2>2 DEF ThreadInv
  <2> QED BY <1>1, <1>3, <2>2, <2>4, <2>5, <2>6 DEF ThreadInv
<1>6. (demo = "timer" => TimerInv)' BY <1>1 DEF KernelInv, TimerInv, Resting, Called
<1>7. (demo = "timer_once" => TimerOnceInv)' BY <1>1 DEF KernelInv, TimerOnceInv
<1> QED BY <1>1, <1>4, <1>5, <1>6, <1>7 DEF KernelInv

\* What a tick does to a deadline k units away.
LEMMA WokenLater ==
  ASSUME SamplesAssumption, now \in 0 .. Word - 1, NEW k \in 1 .. 39
  PROVE  /\ Later(now, k) = Kernel!After(1) <=> k = 1
         /\ Later(Kernel!After(1), k - 1) = Later(now, k)
         /\ k = 1 => Kernel!Woken(Later(now, k), Kernel!After(1)) = Word
         /\ k # 1 => Kernel!Woken(Later(now, k), Kernel!After(1)) = Later(Kernel!After(1), k - 1)
         /\ Later(Kernel!After(1), k - 1) # Word
<1>1. 1 \in 0 .. 40 /\ k - 1 \in 0 .. 40 OBVIOUS
<1>2. Kernel!After(1) = Later(now, 1) /\ Kernel!After(1) \in 0 .. Word - 1 BY <1>1, AfterType
<1>3. Later(Kernel!After(1), k - 1) = Later(now, k) /\ (Later(now, k) = Kernel!After(1) <=> k = 1)
  BY <1>2, Nearer
<1>4. Later(Kernel!After(1), k - 1) \in 0 .. Word - 1 BY <1>1, <1>2, Wraps
<1>5. Word \in Nat BY DEF SamplesAssumption
<1> QED BY <1>3, <1>4, <1>5 DEF Kernel!Woken, Kernel!Ready

\* A tick, in terms of the time it brings.
LEMMA TickParts ==
  ASSUME SamplesAssumption, KernelTypes, Kernel!Tick
  PROVE  /\ elapsed.all < MaxElapsed /\ timer.due = FALSE
         /\ wake # Word \/ kernelPc \in {"done", "failed"}
         /\ ~(thread.state = "ready" /\ thread.wake = Word)
         /\ now' = Kernel!After(1) /\ wake' = Kernel!Woken(wake, now')
         /\ thread'.wake = Kernel!Woken(thread.wake, now')
         /\ thread'.state = thread.state /\ thread'.high = thread.high
         /\ IF timer.running = TRUE /\ timer.expires = now'
            THEN /\ timer'.running = (demo = "timer") /\ timer'.due = TRUE
                 /\ timer'.expires = (now' + 10) % Word
            ELSE timer' = timer
         /\ elapsed'.all = elapsed.all + 1
         /\ elapsed'.counting = IF thread.state \in {"none", "terminated"} THEN elapsed.counting
                                ELSE elapsed.counting + 1
         /\ UNCHANGED <<demo, kernelPc, times, kernelCount>>
         /\ KernelTypes'
<1>1. /\ elapsed.all < MaxElapsed /\ ~timer.due
      /\ wake # Word \/ kernelPc \in {"done", "failed"}
      /\ ~(thread.state = "ready" /\ thread.wake = Word)
      /\ now' = Kernel!After(1) /\ wake' = Kernel!Woken(wake, now')
      /\ thread' = [thread EXCEPT !.wake = Kernel!Woken(@, now')]
      /\ timer' = IF timer.running /\ timer.expires = now'
                  THEN [running |-> demo = "timer", expires |-> (now' + 10) % Word, due |-> TRUE]
                  ELSE timer
      /\ elapsed' = [all |-> elapsed.all + 1,
                     counting |-> IF thread.state \in {"none", "terminated"} THEN elapsed.counting
                                  ELSE elapsed.counting + 1]
      /\ UNCHANGED <<demo, kernelPc, times, kernelCount>>
  BY DEF Kernel!Tick, Kernel!ThreadReady, Kernel!Ready
<1>2. /\ timer.running \in BOOLEAN /\ timer.due \in BOOLEAN /\ thread.wake \in 0 .. Word
      /\ elapsed.all \in 0 .. MaxElapsed /\ elapsed.counting \in Nat
  BY KernelParts
<1>3. now' \in 0 .. Word - 1 /\ Word \in Nat /\ Word > 40 /\ MaxElapsed \in Nat
  BY <1>1, SleepType DEF SamplesAssumption
<1>4. wake' \in 0 .. Word /\ Kernel!Woken(thread.wake, now') \in 0 .. Word
  BY <1>1, <1>2, <1>3 DEF KernelTypes, Kernel!Woken, Kernel!Ready
<1>5. /\ thread'.wake = Kernel!Woken(thread.wake, now')
      /\ thread'.state = thread.state /\ thread'.high = thread.high
      /\ thread' \in [state : {"none", "ready", "suspended", "terminated"}, wake : 0 .. Word,
                      high : BOOLEAN]
  BY <1>1, <1>4 DEF KernelTypes
<1>6. (now' + 10) % Word \in 0 .. Word - 1
  <2>1. 10 \in 0 .. 40 OBVIOUS
  <2> QED BY <1>3, <2>1, Wraps DEF Later
<1>7. /\ IF timer.running = TRUE /\ timer.expires = now'
         THEN /\ timer'.running = (demo = "timer") /\ timer'.due = TRUE
              /\ timer'.expires = (now' + 10) % Word
         ELSE timer' = timer
      /\ timer' \in [running : BOOLEAN, expires : 0 .. Word - 1, due : BOOLEAN]
  <2>1. CASE timer.running = TRUE /\ timer.expires = now'
    <3>1. timer' = [running |-> demo = "timer", expires |-> (now' + 10) % Word, due |-> TRUE]
      BY <1>1, <2>1
    <3> QED BY <1>6, <2>1, <3>1
  <2>2. CASE ~(timer.running = TRUE /\ timer.expires = now')
    <3>1. timer' = timer BY <1>1, <1>2, <2>2
    <3> QED BY <2>2, <3>1 DEF KernelTypes
  <2> QED BY <2>1, <2>2
<1>8. /\ elapsed'.all = elapsed.all + 1
      /\ elapsed'.counting = IF thread.state \in {"none", "terminated"} THEN elapsed.counting
                             ELSE elapsed.counting + 1
      /\ elapsed' \in [all : 0 .. MaxElapsed, counting : Nat]
  BY <1>1, <1>2, <1>3
<1>9. KernelTypes' BY <1>1, <1>3, <1>4, <1>5, <1>7, <1>8 DEF KernelTypes
<1>10. timer.due = FALSE BY <1>1, <1>2
<1> QED BY <1>1, <1>5, <1>7, <1>8, <1>9, <1>10

\* The periodic timer ends a period on the tick that wakes the main thread, and never twice
\* while that sleeps.
LEMMA TickTimer ==
  ASSUME SamplesAssumption, KernelInv, Kernel!Tick, demo = "timer" PROVE TimerInv'
<1>1. KernelTypes /\ TimerInv /\ now \in 0 .. Word - 1 BY DEF KernelInv, KernelTypes
<1>2. /\ timer.due = FALSE
      /\ wake # Word \/ kernelPc \in {"done", "failed"}
      /\ now' = Kernel!After(1) /\ wake' = Kernel!Woken(wake, now')
      /\ IF timer.running = TRUE /\ timer.expires = now'
         THEN timer'.running = TRUE /\ timer'.due = TRUE /\ timer'.expires = Later(now', 10)
         ELSE timer' = timer
      /\ kernelPc' = kernelPc /\ times' = times
  BY <1>1, TickParts DEF Later
<1>3. times.called \in Nat BY <1>1, KernelParts
<1>4. CASE kernelPc = "poll"
  <2>1. PICK k \in 1 .. 10 : wake = Later(now, k) /\ timer.expires = Later(now, k)
    BY <1>1, <1>2, <1>4 DEF TimerInv
  <2>2. timer.running = TRUE /\ Called(3) BY <1>1, <1>2, <1>4 DEF TimerInv
  <2>3. k \in 1 .. 39 OBVIOUS
  <2>4. /\ Later(now, k) = now' <=> k = 1
        /\ Later(now', k - 1) = Later(now, k)
        /\ k = 1 => wake' = Word
        /\ k # 1 => wake' = Later(now', k - 1) /\ wake' # Word
    BY <1>1, <1>2, <2>1, <2>3, WokenLater
  <2>5. CASE k = 1
    <3>1. timer'.running = TRUE /\ timer'.due = TRUE /\ timer'.expires = Later(now', 10)
      BY <1>2, <2>1, <2>2, <2>4, <2>5
    <3>2. Called(4)' BY <1>2, <1>3, <2>2 DEF Called
    <3> QED BY <1>2, <1>4, <2>4, <2>5, <3>1, <3>2 DEF TimerInv
  <2>6. CASE k # 1
    <3>1. timer' = timer BY <1>2, <2>1, <2>4, <2>6
    <3>2. Called(3)' /\ Called(4)' BY <1>2, <1>3, <2>2, <3>1 DEF Called
    <3>3. k - 1 \in 1 .. 10 BY <2>6
    <3>4. \E j \in 1 .. 10 : wake' = Later(now', j) /\ timer'.expires = Later(now', j)
      BY <2>1, <2>4, <2>6, <3>1, <3>3
    <3> QED BY <1>2, <1>4, <2>2, <2>4, <2>6, <3>1, <3>2, <3>4 DEF TimerInv
  <2> QED BY <2>5, <2>6
<1>5. CASE kernelPc \in {"done", "failed"}
  <2>1. timer.running = FALSE BY <1>1, <1>5 DEF TimerInv, Resting
  <2>2. timer' = timer BY <1>2, <2>1
  <2> QED BY <1>1, <1>2, <1>5, <2>2 DEF TimerInv, Resting, Called
<1> QED BY <1>1, <1>2, <1>4, <1>5 DEF TimerInv

\* The timer of timer_once is stopped before its period ends.
LEMMA TickTimerOnce ==
  ASSUME SamplesAssumption, KernelInv, Kernel!Tick, demo = "timer_once" PROVE TimerOnceInv'
<1>1. KernelTypes /\ TimerOnceInv /\ now \in 0 .. Word - 1 BY DEF KernelInv, KernelTypes
<1>2. /\ wake # Word \/ kernelPc \in {"done", "failed"}
      /\ now' = Kernel!After(1) /\ wake' = Kernel!Woken(wake, now')
      /\ (timer.running = TRUE /\ timer.expires = now') \/ timer' = timer
      /\ kernelPc' = kernelPc /\ times' = times
  BY <1>1, TickParts
<1>3. times.polled \in 0 .. 10 /\ times.called = 0 BY <1>1, KernelParts DEF TimerOnceInv
<1>4. CASE kernelPc = "poll"
  <2>1. /\ wake = Later(now, 1) /\ times.polled >= 1
        /\ timer.expires = Later(now, 21 - times.polled)
    BY <1>1, <1>2, <1>4 DEF TimerOnceInv
  <2>2. 1 \in 1 .. 39 /\ 21 - times.polled \in 1 .. 39 /\ 21 - times.polled # 1
        /\ (21 - times.polled) - 1 = 20 - times.polled
    BY <1>3, <2>1
  <2>3. wake' = Word BY <1>1, <1>2, <2>1, <2>2, WokenLater
  <2>4. timer.expires # now' /\ timer.expires = Later(now', 20 - times.polled)
    BY <1>1, <1>2, <2>1, <2>2, WokenLater
  <2>5. timer' = timer BY <1>2, <2>4
  <2> QED BY <1>1, <1>2, <1>3, <1>4, <2>3, <2>4, <2>5 DEF TimerOnceInv
<1>5. CASE kernelPc # "poll"
  <2>1. timer.running = FALSE BY <1>1, <1>5 DEF TimerOnceInv
  <2>2. timer' = timer BY <1>2, <2>1
  <2> QED BY <1>1, <1>2, <1>5, <2>2 DEF TimerOnceInv
<1> QED BY <1>4, <1>5

\* The thread gains a tick while it is there.
LEMMA TickThread ==
  ASSUME SamplesAssumption, KernelInv, Kernel!Tick, demo = "thread" PROVE ThreadInv'
<1>1. KernelTypes /\ ThreadInv /\ now \in 0 .. Word - 1 BY DEF KernelInv, KernelTypes
<1>2. /\ ~(thread.state = "ready" /\ thread.wake = Word)
      /\ now' = Kernel!After(1) /\ thread'.wake = Kernel!Woken(thread.wake, now')
      /\ thread'.state = thread.state
      /\ elapsed'.counting = IF thread.state \in {"none", "terminated"} THEN elapsed.counting
                             ELSE elapsed.counting + 1
      /\ kernelPc' = kernelPc /\ kernelCount' = kernelCount
  BY <1>1, TickParts
<1>3. /\ kernelCount \in Nat /\ elapsed.counting \in Nat
      /\ thread.state \in {"none", "ready", "suspended", "terminated"}
      /\ Word \in Nat /\ now' \in 0 .. Word - 1
  BY <1>1, <1>2, KernelParts, SleepType DEF KernelTypes
<1>4. CASE thread.state = "terminated" BY <1>1, <1>2, <1>4 DEF ThreadInv
<1>5. CASE thread.state # "terminated" /\ thread.wake = Word
  <2>1. thread'.wake = Word BY <1>2, <1>5 DEF Kernel!Woken, Kernel!Ready
  <2>2. 2 * kernelCount <= elapsed'.counting BY <1>1, <1>2, <1>3, <1>5 DEF ThreadInv
  <2> QED BY <1>1, <1>2, <1>3, <1>5, <2>1, <2>2 DEF ThreadInv
<1>6. CASE thread.state # "terminated" /\ thread.wake # Word
  <2>1. PICK k \in 1 .. 2 :
          thread.wake = Later(now, k) /\ 2 * kernelCount <= elapsed.counting + k
    BY <1>1, <1>3, <1>6 DEF ThreadInv
  <2>2. k \in 1 .. 39 OBVIOUS
  <2>3. /\ k = 1 => thread'.wake = Word
        /\ k # 1 => thread'.wake = Later(now', k - 1) /\ thread'.wake # Word
    BY <1>1, <1>2, <2>1, <2>2, WokenLater
  <2>4. thread.state = "none" => kernelCount = 0 BY <1>1 DEF ThreadInv
  <2>5. 2 * kernelCount <= elapsed'.counting + (k - 1)
    BY <1>2, <1>3, <1>6, <2>1, <2>4
  <2>6. CASE k = 1
    <3>1. thread'.wake = Word /\ 2 * kernelCount' <= elapsed'.counting
      BY <1>2, <1>3, <2>3, <2>5, <2>6
    <3> QED BY <1>1, <1>2, <1>6, <3>1 DEF ThreadInv
  <2>7. CASE k = 2
    <3>1. thread'.wake # Word /\ thread'.wake = Later(now', 1)
          /\ 2 * kernelCount' <= elapsed'.counting + 1
      BY <1>2, <1>3, <2>3, <2>5, <2>7
    <3>2. \E j \in 1 .. 2 :
            thread'.wake = Later(now', j) /\ 2 * kernelCount' <= elapsed'.counting + j
      BY <3>1
    <3> QED BY <1>1, <1>2, <1>6, <3>1, <3>2 DEF ThreadInv
  <2> QED BY <2>6, <2>7
<1> QED BY <1>4, <1>5, <1>6

LEMMA KernelNext == SamplesAssumption /\ KernelInv /\ Kernel!Next => KernelInv'
<1>1. SUFFICES ASSUME SamplesAssumption, KernelInv, Kernel!Next PROVE KernelInv'
  OBVIOUS
<1>2. CASE Kernel!rtosv2_delay_main \/ Kernel!rtosv2_thread_main BY <1>1, <1>2, DelayKeeps
<1>3. CASE Kernel!timer_periodic BY <1>1, <1>3, PeriodicKeeps
<1>4. CASE Kernel!timer_once BY <1>1, <1>4, OnceKeeps
<1>5. CASE Kernel!threadMain BY <1>1, <1>5, ThreadMainKeeps
<1>6. CASE Kernel!Callback BY <1>1, <1>6, CallbackKeeps
<1>7. CASE Kernel!threadTest BY <1>1, <1>7, ThreadTestKeeps
<1>8. CASE Kernel!Tick
  <2>1. KernelTypes' /\ demo' = demo BY <1>1, <1>8, TickParts DEF KernelInv
  <2>2. (demo = "timer" => TimerInv)' BY <1>1, <1>8, <2>1, TickTimer
  <2>3. (demo = "timer_once" => TimerOnceInv)' BY <1>1, <1>8, <2>1, TickTimerOnce
  <2>4. (demo = "thread" => ThreadInv)' BY <1>1, <1>8, <2>1, TickThread
  <2> QED BY <2>1, <2>2, <2>3, <2>4 DEF KernelInv
<1> QED BY <1>1, <1>2, <1>3, <1>4, <1>5, <1>6, <1>7, <1>8 DEF Kernel!Next, Kernel!Main

LEMMA KernelAlways == BoardSpec => []KernelInv
<1>1. BoardInit => KernelInv
  BY SamplesAssumption, KernelInit DEF BoardInit
<1>2. KernelInv /\ [BoardNext]_boardVars => KernelInv'
  <2>1. SUFFICES ASSUME KernelInv, [BoardNext]_boardVars PROVE KernelInv'
    OBVIOUS
  <2>2. CASE KernelStep BY <2>1, <2>2, SamplesAssumption, KernelNext DEF KernelStep
  <2>3. CASE UNCHANGED kernelVars
    BY <2>1, <2>3 DEF kernelVars, KernelInv, KernelTypes, TimerInv, TimerOnceInv, ThreadInv,
      Resting, Called
  <2>4. KernelStep \/ UNCHANGED kernelVars
    BY <2>1 DEF BoardNext, SempStep, MutexStep, MessageStep, MachineStep, boardVars
  <2> QED BY <2>2, <2>3, <2>4
<1> QED BY <1>1, <1>2, PTL DEF BoardSpec

\* For any counter wider than the waits, from any value of it: the timer that is stopped in
\* time never calls, the periodic one three or four times, and the thread that is suspended
\* and terminated counts no faster than its delay allows.
THEOREM TimersAndThreadsSafe ==
  BoardSpec => [](Kernel!TypeOK /\ Kernel!TimerCalls /\ Kernel!CountPaced)
<1>1. KernelInv => Kernel!TypeOK /\ Kernel!TimerCalls /\ Kernel!CountPaced
  <2>1. SUFFICES ASSUME KernelInv PROVE Kernel!TypeOK /\ Kernel!TimerCalls /\ Kernel!CountPaced
    OBVIOUS
  <2>2. KernelTypes BY <2>1 DEF KernelInv
  <2>3. Kernel!TypeOK
    <3>1. times.polled \in 0 .. 20 BY <2>2, KernelParts
    <3> QED BY <2>2, <3>1, KernelParts DEF KernelTypes, Kernel!TypeOK
  <2>4. Kernel!TimerCalls
    <3>1. demo = "timer_once" => times.called = 0 BY <2>1 DEF KernelInv, TimerOnceInv
    <3>2. demo = "timer" => times.called <= 4 /\ (kernelPc \in {"stop", "done"} => times.called >= 3)
      BY <2>1 DEF KernelInv, TimerInv, Called
    <3> QED BY <3>1, <3>2 DEF Kernel!TimerCalls
  <2>5. Kernel!CountPaced
    <3>1. SUFFICES ASSUME demo = "thread" PROVE kernelCount <= elapsed.counting \div 2 + 1
      BY DEF Kernel!CountPaced
    <3>2. kernelCount \in Nat /\ elapsed.counting \in Nat
          /\ thread.state \in {"none", "ready", "suspended", "terminated"}
      BY <2>2, KernelParts DEF KernelTypes
    <3>3. 2 * kernelCount <= elapsed.counting + 2
      BY <2>1, <3>1, <3>2 DEF KernelInv, ThreadInv
    <3> QED BY <3>2, <3>3
  <2> QED BY <2>3, <2>4, <2>5
<1> QED BY <1>1, KernelAlways, PTL

(***************************************************************************)
(* The warehouse on the board: the steps of the board are its steps, or    *)
(* leave it alone.                                                         *)
(***************************************************************************)

LEMMA WarehouseSteps == BoardSpec => Spec
<1>1. BoardInit => Init BY DEF BoardInit
<1>2. [BoardNext]_boardVars => [Next]_vars
  BY DEF BoardNext, SempStep, MutexStep, MessageStep, MachineStep, KernelStep, boardVars
<1> QED BY <1>1, <1>2, PTL DEF BoardSpec, Spec

\* What is proved of the producers and consumers holds on the board.
THEOREM BoardStockSafe == BoardSpec => []StockSafe
BY WarehouseSteps, StockSafeAlways, PTL

\* The board implements the abstract warehouse, whatever its image.
THEOREM BoardImplements == BoardSpec => Implements
BY WarehouseSteps, Refinement, PTL
=============================================================================
