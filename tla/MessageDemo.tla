---------------------------- MODULE MessageDemo ----------------------------
(***************************************************************************)
(* Senders and receivers over one message queue (message_demo/message.c).  *)
(* The senders number their messages from one counter that no lock         *)
(* protects; the main thread terminates first the receivers and then the   *)
(* senders, wherever they are, and deletes the queue.                      *)
(***************************************************************************)
EXTENDS Naturals, Sequences, SequencesExt, FiniteSets

CONSTANTS
  Sender, Receiver,
  QueueSize,    \* QUEUE_SIZE
  MaxCount      \* bound of the model: messages put

VARIABLES
  queue,        \* the messages, by number and sender
  blocked,      \* the senders that wait for room, in order
  count,        \* the static counter of sender_thread
  pc, entry,    \* the place of each thread; the number it holds
  terminated,
  put           \* history: messages put

vars == <<queue, blocked, count, pc, entry, terminated, put>>

Thread == Sender \union Receiver
Alive(t) == t \in Thread \ terminated

\* rtosv2_msgq_main up to its delay.
Init ==
  /\ queue = <<>> /\ blocked = <<>> /\ count = 0
  /\ pc = [t \in Thread |-> IF t \in Sender THEN "send" ELSE "receive"]
  /\ entry = [t \in Thread |-> 0]
  /\ terminated = {} /\ put = 0

Message(t) == [tid |-> t, count |-> entry[t]]

\* The entry is filled in.
Fill(s) ==
  /\ pc[s] = "send"
  /\ entry' = [entry EXCEPT ![s] = count]
  /\ pc' = [pc EXCEPT ![s] = "put"]
  /\ UNCHANGED <<queue, blocked, count, terminated, put>>

\* osMessageQueuePut with osWaitForever.
Put(s) ==
  /\ pc[s] = "put" /\ put + Len(blocked) < MaxCount
  /\ IF Len(queue) < QueueSize
     THEN /\ queue' = Append(queue, Message(s))
          /\ put' = put + 1
          /\ pc' = [pc EXCEPT ![s] = "load"]
          /\ UNCHANGED blocked
     ELSE /\ blocked' = Append(blocked, s)
          /\ pc' = [pc EXCEPT ![s] = "blocked"]
          /\ UNCHANGED <<queue, put>>
  /\ UNCHANGED <<count, entry, terminated>>

\* count++ reads the counter and writes it later.
Load(s) ==
  /\ pc[s] = "load"
  /\ entry' = [entry EXCEPT ![s] = count]
  /\ pc' = [pc EXCEPT ![s] = "store"]
  /\ UNCHANGED <<queue, blocked, count, terminated, put>>

Store(s) ==
  /\ pc[s] = "store"
  /\ count' = entry[s] + 1
  /\ pc' = [pc EXCEPT ![s] = "send"]
  /\ UNCHANGED <<queue, blocked, entry, terminated, put>>

sender_thread(s) == Fill(s) \/ Put(s) \/ Load(s) \/ Store(s)

\* Mutant: the sender that waits is not woken.
GetQuiet(r) ==
  /\ pc[r] = "receive" /\ queue # <<>>
  /\ queue' = Tail(queue)
  /\ UNCHANGED <<blocked, count, pc, entry, terminated, put>>

\* osMessageQueueGet: the first message is taken, and the sender that has waited
\* longest puts its own.
Get(r) ==
  /\ pc[r] = "receive" /\ queue # <<>>
  /\ IF blocked = <<>>
     THEN queue' = Tail(queue) /\ UNCHANGED <<blocked, pc, put>>
     ELSE /\ queue' = Append(Tail(queue), Message(Head(blocked)))
          /\ blocked' = Tail(blocked)
          /\ pc' = [pc EXCEPT ![Head(blocked)] = "load"]
          /\ put' = put + 1
  /\ UNCHANGED <<count, entry, terminated>>

\* osThreadTerminate.
Terminate ==
  \E t \in Thread \ terminated :
    /\ t \in Sender => Receiver \subseteq terminated
    /\ terminated' = terminated \union {t}
    /\ IF t \in ToSet(blocked)
       THEN \E i \in DOMAIN blocked : blocked[i] = t /\ blocked' = RemoveAt(blocked, i)
       ELSE UNCHANGED blocked
    /\ UNCHANGED <<queue, count, pc, entry, put>>

Next ==
  \/ \E s \in Sender \ terminated : sender_thread(s)
  \/ \E r \in Receiver \ terminated : Get(r)
  \/ Terminate

(***************************************************************************)
(* Properties.                                                             *)
(***************************************************************************)

\* Types: the queue, the counter and where each thread is.
TypeOK ==
  /\ queue \in Seq([tid : Sender, count : 0 .. MaxCount]) /\ Len(queue) <= QueueSize
  /\ blocked \in Seq(Sender)
  /\ count \in 0 .. MaxCount /\ put \in 0 .. MaxCount
  /\ pc \in [Thread -> {"send", "put", "blocked", "load", "store", "receive"}]
  /\ entry \in [Thread -> 0 .. MaxCount]
  /\ terminated \subseteq Thread

\* Though updates of the counter get lost, it never runs ahead: no message carries a
\* number that as many messages before it have not been put for.
CountBehind ==
  /\ count <= put
  /\ \A i \in 1 .. Len(queue) : queue[i].count <= put - (Len(queue) - i + 1)

\* A sender waits only while the queue is full, once, and is not forgotten.
BlockedSound ==
  /\ blocked # <<>> => Len(queue) = QueueSize
  /\ \A s \in Sender \ terminated : pc[s] = "blocked" <=> s \in ToSet(blocked)
  /\ IsInjective(blocked)

\* While the receivers run, a sender that waits gets its message into the queue.
SenderGoesOn ==
  \A s \in Sender : pc[s] = "blocked" ~> pc[s] # "blocked" \/ terminated # {}
=============================================================================
