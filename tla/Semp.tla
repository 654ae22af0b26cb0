-------------------------------- MODULE Semp --------------------------------
(***************************************************************************)
(* Producers and consumers of semaphore_demo/semp.c: empty_id counts the   *)
(* free places of the warehouse, filled_id the products in it, and         *)
(* product_number, which no lock protects, is printed as the stock.  The   *)
(* main thread terminates the others one by one, wherever they are.        *)
(***************************************************************************)
EXTENDS Integers, FiniteSets, Semaphore

CONSTANTS
  Producer, Consumer,
  BufferSize,   \* BUFFER_SIZE
  IntRange      \* bound of the model: product_number wraps here, not at 2^32

ASSUME SempAssumption ==
  /\ IsFiniteSet(Producer) /\ IsFiniteSet(Consumer)
  /\ Producer # {} /\ Consumer # {}
  /\ Producer \intersect Consumer = {}
  /\ BufferSize \in Nat \ {0}
  /\ IntRange \in Nat /\ IntRange > BufferSize

VARIABLES
  empty_id, filled_id,   \* the semaphores
  product_number,
  pc,                    \* the place of each thread, where it was terminated if it was
  loaded,                \* the value a thread has read of product_number
  terminated, deleted    \* the threads terminated; the semaphores are deleted

vars == <<empty_id, filled_id, product_number, pc, loaded, terminated, deleted>>

Thread == Producer \union Consumer
Alive == Thread \ terminated

Init ==
  /\ empty_id = Sem(BufferSize) /\ filled_id = Sem(0)
  /\ product_number = 0
  /\ pc = [t \in Thread |-> "acquire"]
  /\ loaded = [t \in Thread |-> 0]
  /\ terminated = {} /\ deleted = FALSE

\* Where a thread is after it has asked s for a token.
AfterAcquire(s) == IF Available(s) THEN "load" ELSE "wait"

\* The places after t has released s: it goes round again, a waiter goes on.
AfterRelease(s, t) ==
  [u \in Thread |-> IF u = t THEN "acquire" ELSE IF u \in Woken(s) THEN "load" ELSE pc[u]]

\* Mutant: a producer does not wait for a free place.
ProducerAcquireFree(p) ==
  /\ pc[p] = "acquire"
  /\ pc' = [pc EXCEPT ![p] = "load"]
  /\ UNCHANGED <<empty_id, filled_id, product_number, loaded, terminated, deleted>>

ProducerAcquire(p) ==
  /\ pc[p] = "acquire"
  /\ empty_id' = Acquire(empty_id, p)
  /\ pc' = [pc EXCEPT ![p] = AfterAcquire(empty_id)]
  /\ UNCHANGED <<filled_id, product_number, loaded, terminated, deleted>>

\* product_number++ and product_number-- read the number and write it later.
Load(t) ==
  /\ pc[t] = "load"
  /\ loaded' = [loaded EXCEPT ![t] = product_number]
  /\ pc' = [pc EXCEPT ![t] = "store"]
  /\ UNCHANGED <<empty_id, filled_id, product_number, terminated, deleted>>

Store(t, value) ==
  /\ pc[t] = "store"
  /\ product_number' = value % IntRange
  /\ loaded' = [loaded EXCEPT ![t] = 0]
  /\ pc' = [pc EXCEPT ![t] = "release"]
  /\ UNCHANGED <<empty_id, filled_id, terminated, deleted>>

ProducerRelease(p) ==
  /\ pc[p] = "release"
  /\ filled_id' = Release(filled_id)
  /\ pc' = AfterRelease(filled_id, p)
  /\ UNCHANGED <<empty_id, product_number, loaded, terminated, deleted>>

producer_thread(p) ==
  ProducerAcquire(p) \/ Load(p) \/ Store(p, loaded[p] + 1) \/ ProducerRelease(p)

ConsumerAcquire(c) ==
  /\ pc[c] = "acquire"
  /\ filled_id' = Acquire(filled_id, c)
  /\ pc' = [pc EXCEPT ![c] = AfterAcquire(filled_id)]
  /\ UNCHANGED <<empty_id, product_number, loaded, terminated, deleted>>

ConsumerRelease(c) ==
  /\ pc[c] = "release"
  /\ empty_id' = Release(empty_id)
  /\ pc' = AfterRelease(empty_id, c)
  /\ UNCHANGED <<filled_id, product_number, loaded, terminated, deleted>>

consumer_thread(c) ==
  ConsumerAcquire(c) \/ Load(c) \/ Store(c, loaded[c] - 1) \/ ConsumerRelease(c)

\* Mutant: a thread that is terminated stays in the queue.
TerminateQueued(t) ==
  /\ terminated' = terminated \union {t}
  /\ UNCHANGED <<empty_id, filled_id, product_number, pc, loaded, deleted>>

\* osThreadTerminate: wherever the thread is, a token it holds is lost.
Terminate(t) ==
  /\ terminated' = terminated \union {t}
  /\ empty_id' = Without(empty_id, t) /\ filled_id' = Without(filled_id, t)
  /\ UNCHANGED <<product_number, pc, loaded, deleted>>

\* The main thread: after its delay the producers, then the consumers, then the
\* semaphores.
MainTerminate ==
  \E t \in Alive : (t \in Consumer => Producer \subseteq terminated) /\ Terminate(t)

MainDelete ==
  /\ Alive = {} /\ ~deleted
  /\ deleted' = TRUE
  /\ UNCHANGED <<empty_id, filled_id, product_number, pc, loaded, terminated>>

Next ==
  \/ \E p \in Producer \ terminated : producer_thread(p)
  \/ \E c \in Consumer \ terminated : consumer_thread(c)
  \/ MainTerminate \/ MainDelete

Spec == Init /\ [][Next]_vars

\* LiteOS runs threads of one priority in turn.
FairSpec ==
  /\ Spec
  /\ \A p \in Producer : WF_vars(p \in Alive /\ producer_thread(p))
  /\ \A c \in Consumer : WF_vars(c \in Alive /\ consumer_thread(c))

(***************************************************************************)
(* Properties.                                                             *)
(***************************************************************************)

TypeOK ==
  /\ empty_id \in [count : Nat, queue : Seq(Producer)]
  /\ filled_id \in [count : Nat, queue : Seq(Consumer)]
  /\ product_number \in 0 .. IntRange - 1
  /\ pc \in [Thread -> {"acquire", "wait", "load", "store", "release"}]
  /\ loaded \in [Thread -> 0 .. IntRange - 1]
  /\ terminated \subseteq Thread /\ deleted \in BOOLEAN

\* The threads between their two semaphores; those terminated there stay there.
Holders == {t \in Thread : pc[t] \in {"load", "store", "release"}}

\* Every place of the warehouse is a token of one of the two semaphores or in the
\* hands of one thread: none is lost but with a terminated thread, none is made.
TokensConserved == empty_id.count + filled_id.count + Cardinality(Holders) = BufferSize

\* A semaphore with a token has no thread waiting for it.
NoIdleToken == \A s \in {empty_id, filled_id} : s.queue # <<>> => s.count = 0

\* The threads in a queue are the live ones that wait, each once: none is woken
\* twice, forgotten, or woken after it was terminated.
QueueSound ==
  /\ \A p \in Producer : Waits(empty_id, p) <=> p \notin terminated /\ pc[p] = "wait"
  /\ \A c \in Consumer : Waits(filled_id, c) <=> c \notin terminated /\ pc[c] = "wait"
  /\ Distinct(empty_id) /\ Distinct(filled_id)

\* While the main thread lets them run, the threads never all wait.
NotAllWaiting == terminated = {} => \E t \in Thread : pc[t] # "wait"

\* What keeps the stock of semp.c right: no token is lost, doubled or idle beside a waiter,
\* the queues hold just the waiting threads, and these are never all of them.
StockSafe == TypeOK /\ TokensConserved /\ NoIdleToken /\ QueueSound /\ NotAllWaiting

\* The products in the warehouse: released and not taken, or in the hands of a
\* thread that has counted it in and not released it, or taken and not yet
\* counted it out.
Stored == {p \in Producer : pc[p] = "release"}
Taken == {c \in Consumer : pc[c] \in {"load", "store"}}
Stock == filled_id.count + Cardinality(Stored) + Cardinality(Taken)

\* The head comment of semp.c: producers wait when the warehouse is full, and
\* consumers when it is empty.
W == INSTANCE Warehouse WITH stock <- Stock
Implements == W!WSpec

\* A thread that waits gets its token while no thread is terminated.
NoStarvation ==
  \A t \in Thread : pc[t] = "wait" ~> pc[t] # "wait" \/ terminated # {}

\* The comment of product_number: the number of products.
NumberIsStock == product_number = Stock
=============================================================================
