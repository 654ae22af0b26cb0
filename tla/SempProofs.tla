----------------------------- MODULE SempProofs -----------------------------
(***************************************************************************)
(* For any number of producers and consumers and any size of warehouse:    *)
(* the two semaphores of semp.c lose no token, never block every thread,   *)
(* and implement the warehouse.                                            *)
(***************************************************************************)
EXTENDS Semp, SemaphoreProofs, FiniteSetTheorems

\* The inductive invariant.
IInv == TypeOK /\ TokensConserved /\ NoIdleToken /\ QueueSound

Places == {"acquire", "wait", "load", "store", "release"}

\* The sets that are counted are finite.
LEMMA SubsetsFinite ==
  ASSUME NEW T, T \subseteq Thread
  PROVE  IsFiniteSet(T) /\ Cardinality(T) \in Nat
<1>1. IsFiniteSet(Thread)
  BY SempAssumption, FS_Union DEF Thread
<1> QED BY <1>1, FS_Subset, FS_CardinalityType

\* Adding to, and taking from, a set of threads.
LEMMA AddOne ==
  ASSUME NEW T, T \subseteq Thread, NEW t \in Thread, t \notin T
  PROVE  Cardinality(T \union {t}) = Cardinality(T) + 1
BY SubsetsFinite, FS_AddElement

LEMMA TakeOne ==
  ASSUME NEW T, T \subseteq Thread, NEW t \in T
  PROVE  Cardinality(T \ {t}) = Cardinality(T) - 1 /\ Cardinality(T) >= 1
<1>1. Cardinality(T \ {t}) = Cardinality(T) - 1
  BY SubsetsFinite, FS_RemoveElement
<1>2. Cardinality(T \ {t}) \in Nat /\ Cardinality(T) \in Nat
  BY SubsetsFinite
<1> QED BY <1>1, <1>2

\* One thread goes out of a set and another comes in.
LEMMA SwapOne ==
  ASSUME NEW T, T \subseteq Thread, NEW t \in T, NEW u \in Thread, u \notin T
  PROVE  Cardinality((T \ {t}) \union {u}) = Cardinality(T)
<1>1. Cardinality((T \ {t}) \union {u}) = Cardinality(T \ {t}) + 1
  BY AddOne
<1>2. Cardinality(T) \in Nat
  BY SubsetsFinite
<1> QED BY <1>1, <1>2, TakeOne

LEMMA InitInv == Init => IInv
<1> SUFFICES ASSUME Init PROVE IInv
  OBVIOUS
<1>1. TypeOK
  <2>1. /\ empty_id = [count |-> BufferSize, queue |-> <<>>] /\ BufferSize \in Nat
        /\ filled_id = [count |-> 0, queue |-> <<>>]
    BY SempAssumption DEF Init, Sem
  <2>2. <<>> \in Seq(Producer) /\ <<>> \in Seq(Consumer)
    OBVIOUS
  <2>3. 0 \in 0 .. IntRange - 1
    BY SempAssumption
  <2>4. /\ empty_id \in [count : Nat, queue : Seq(Producer)]
        /\ filled_id \in [count : Nat, queue : Seq(Consumer)]
    BY <2>1, <2>2
  <2>5. /\ pc \in [Thread -> {"acquire", "wait", "load", "store", "release"}]
        /\ loaded \in [Thread -> 0 .. IntRange - 1] /\ product_number \in 0 .. IntRange - 1
    BY <2>3 DEF Init
  <2> QED BY <2>4, <2>5 DEF Init, TypeOK
<1>2. Holders = {}
  BY DEF Init, Holders
<1>3. TokensConserved
  BY <1>2, FS_EmptySet, SempAssumption DEF Init, TokensConserved, Sem
<1>4. NoIdleToken
  BY DEF Init, NoIdleToken, Sem
<1>5. QueueSound
  BY DEF Init, QueueSound, Sem, Waits, Distinct, Thread
<1> QED BY <1>1, <1>3, <1>4, <1>5 DEF IInv

\* A live producer takes a token of empty_id, or a place in its queue.
LEMMA ProducerAcquireInv ==
  ASSUME IInv, NEW p \in Producer \ terminated, ProducerAcquire(p)
  PROVE  IInv'
<1> USE DEF IInv
<1>0. /\ p \in Thread /\ pc[p] = "acquire" /\ p \notin Consumer /\ p \notin Holders
      /\ empty_id \in Semaphores(Producer) /\ pc \in [Thread -> Places]
      /\ empty_id.count \in Nat /\ filled_id.count \in Nat
  BY SempAssumption DEF ProducerAcquire, Thread, Holders, TypeOK, Semaphores, Places
<1>1. ~Waits(empty_id, p)
  BY <1>0 DEF QueueSound
<1>2. Holders \subseteq Thread /\ Cardinality(Holders) \in Nat
  BY SubsetsFinite DEF Holders
<1>3. CASE Available(empty_id)
  <2>1. /\ empty_id' \in Semaphores(Producer)
        /\ empty_id'.count = empty_id.count - 1 /\ empty_id'.queue = empty_id.queue
    BY <1>0, <1>3, AcquireEffect DEF ProducerAcquire
  <2>2. pc' = [pc EXCEPT ![p] = "load"]
    BY <1>3 DEF ProducerAcquire, AfterAcquire
  <2>3. TypeOK'
    BY <1>0, <2>1, <2>2 DEF TypeOK, ProducerAcquire, Semaphores, Places
  <2>4. Holders' = Holders \union {p}
    BY <1>0, <2>2 DEF Holders
  <2>5. TokensConserved'
    BY <1>0, <1>2, <2>1, <2>4, AddOne DEF TokensConserved, ProducerAcquire
  <2>6. NoIdleToken'
    BY <1>0, <1>3, <2>1 DEF NoIdleToken, ProducerAcquire, Available
  <2>7. QueueSound'
    BY <1>0, <2>1, <2>2 DEF QueueSound, ProducerAcquire, Waits, Distinct, Thread
  <2> QED BY <2>3, <2>5, <2>6, <2>7
<1>4. CASE ~Available(empty_id)
  <2>1. /\ empty_id' \in Semaphores(Producer)
        /\ empty_id'.count = empty_id.count /\ empty_id.count = 0
    BY <1>0, <1>4, AcquireEffect DEF ProducerAcquire
  <2>2. \A u : Waits(empty_id', u) <=> Waits(empty_id, u) \/ u = p
    BY <1>0, <1>4, AcquireEffect, Zenon DEF ProducerAcquire
  <2>3. Distinct(empty_id')
    BY <1>0, <1>1, <1>4, AcquireEffect, Zenon DEF ProducerAcquire, QueueSound
  <2>4. pc' = [pc EXCEPT ![p] = "wait"]
    BY <1>4 DEF ProducerAcquire, AfterAcquire
  <2>5. TypeOK'
    BY <1>0, <2>1, <2>4 DEF TypeOK, ProducerAcquire, Semaphores, Places
  <2>6. Holders' = Holders
    BY <1>0, <2>4 DEF Holders
  <2>7. TokensConserved'
    BY <2>1, <2>6 DEF TokensConserved, ProducerAcquire
  <2>8. NoIdleToken'
    BY <2>1 DEF NoIdleToken, ProducerAcquire
  <2>9. QueueSound'
    <3>1. ASSUME NEW q \in Producer
          PROVE  Waits(empty_id', q) <=> q \notin terminated' /\ pc'[q] = "wait"
      <4>1. CASE q = p
        BY <1>0, <2>2, <2>4, <4>1 DEF ProducerAcquire
      <4>2. CASE q # p
        <5>1. pc'[q] = pc[q] /\ terminated' = terminated
          BY <1>0, <2>4, <4>2 DEF ProducerAcquire
        <5> QED BY <2>2, <4>2, <5>1, Zenon DEF QueueSound
      <4> QED BY <4>1, <4>2
    <3>2. ASSUME NEW c \in Consumer
          PROVE  Waits(filled_id', c) <=> c \notin terminated' /\ pc'[c] = "wait"
      <4>1. pc'[c] = pc[c] /\ terminated' = terminated /\ filled_id' = filled_id
        BY <1>0, <2>4 DEF ProducerAcquire, Thread
      <4> QED BY <4>1 DEF QueueSound
    <3>3. Distinct(filled_id')
      BY DEF ProducerAcquire, QueueSound
    <3> QED BY <2>3, <3>1, <3>2, <3>3, Zenon DEF QueueSound
  <2> QED BY <2>5, <2>7, <2>8, <2>9
<1> QED BY <1>3, <1>4
\* A live consumer takes a token of filled_id, or a place in its queue.
LEMMA ConsumerAcquireInv ==
  ASSUME IInv, NEW k \in Consumer \ terminated, ConsumerAcquire(k)
  PROVE  IInv'
<1> USE DEF IInv
<1>0. /\ k \in Thread /\ pc[k] = "acquire" /\ k \notin Producer /\ k \notin Holders
      /\ filled_id \in Semaphores(Consumer) /\ pc \in [Thread -> Places]
      /\ filled_id.count \in Nat /\ empty_id.count \in Nat
  BY SempAssumption DEF ConsumerAcquire, Thread, Holders, TypeOK, Semaphores, Places
<1>1. ~Waits(filled_id, k)
  BY <1>0 DEF QueueSound
<1>2. Holders \subseteq Thread /\ Cardinality(Holders) \in Nat
  BY SubsetsFinite DEF Holders
<1>3. CASE Available(filled_id)
  <2>1. /\ filled_id' \in Semaphores(Consumer)
        /\ filled_id'.count = filled_id.count - 1 /\ filled_id'.queue = filled_id.queue
    BY <1>0, <1>3, AcquireEffect DEF ConsumerAcquire
  <2>2. pc' = [pc EXCEPT ![k] = "load"]
    BY <1>3 DEF ConsumerAcquire, AfterAcquire
  <2>3. TypeOK'
    BY <1>0, <2>1, <2>2 DEF TypeOK, ConsumerAcquire, Semaphores, Places
  <2>4. Holders' = Holders \union {k}
    BY <1>0, <2>2 DEF Holders
  <2>5. TokensConserved'
    BY <1>0, <1>2, <2>1, <2>4, AddOne DEF TokensConserved, ConsumerAcquire
  <2>6. NoIdleToken'
    BY <1>0, <1>3, <2>1 DEF NoIdleToken, ConsumerAcquire, Available
  <2>7. QueueSound'
    BY <1>0, <2>1, <2>2 DEF QueueSound, ConsumerAcquire, Waits, Distinct, Thread
  <2> QED BY <2>3, <2>5, <2>6, <2>7
<1>4. CASE ~Available(filled_id)
  <2>1. /\ filled_id' \in Semaphores(Consumer)
        /\ filled_id'.count = filled_id.count /\ filled_id.count = 0
    BY <1>0, <1>4, AcquireEffect DEF ConsumerAcquire
  <2>2. \A u : Waits(filled_id', u) <=> Waits(filled_id, u) \/ u = k
    BY <1>0, <1>4, AcquireEffect, Zenon DEF ConsumerAcquire
  <2>3. Distinct(filled_id')
    BY <1>0, <1>1, <1>4, AcquireEffect, Zenon DEF ConsumerAcquire, QueueSound
  <2>4. pc' = [pc EXCEPT ![k] = "wait"]
    BY <1>4 DEF ConsumerAcquire, AfterAcquire
  <2>5. TypeOK'
    BY <1>0, <2>1, <2>4 DEF TypeOK, ConsumerAcquire, Semaphores, Places
  <2>6. Holders' = Holders
    BY <1>0, <2>4 DEF Holders
  <2>7. TokensConserved'
    BY <2>1, <2>6 DEF TokensConserved, ConsumerAcquire
  <2>8. NoIdleToken'
    BY <2>1 DEF NoIdleToken, ConsumerAcquire
  <2>9. QueueSound'
    <3>1. ASSUME NEW c \in Consumer
          PROVE  Waits(filled_id', c) <=> c \notin terminated' /\ pc'[c] = "wait"
      <4>1. CASE c = k
        BY <1>0, <2>2, <2>4, <4>1 DEF ConsumerAcquire
      <4>2. CASE c # k
        <5>1. pc'[c] = pc[c] /\ terminated' = terminated
          BY <1>0, <2>4, <4>2 DEF ConsumerAcquire
        <5> QED BY <2>2, <4>2, <5>1, Zenon DEF QueueSound
      <4> QED BY <4>1, <4>2
    <3>2. ASSUME NEW p \in Producer
          PROVE  Waits(empty_id', p) <=> p \notin terminated' /\ pc'[p] = "wait"
      <4>1. pc'[p] = pc[p] /\ terminated' = terminated /\ empty_id' = empty_id
        BY <1>0, <2>4 DEF ConsumerAcquire, Thread
      <4> QED BY <4>1 DEF QueueSound
    <3>3. Distinct(empty_id')
      BY DEF ConsumerAcquire, QueueSound
    <3> QED BY <2>3, <3>1, <3>2, <3>3, Zenon DEF QueueSound
  <2> QED BY <2>5, <2>7, <2>8, <2>9
<1> QED BY <1>3, <1>4
\* A producer releases filled_id: one token more, or the first consumer served.
LEMMA ProducerReleaseInv ==
  ASSUME IInv, NEW k \in Producer \ terminated, ProducerRelease(k)
  PROVE  IInv'
<1> USE DEF IInv
<1>0. /\ k \in Thread /\ pc[k] = "release" /\ k \notin Consumer /\ k \in Holders
      /\ filled_id \in Semaphores(Consumer) /\ pc \in [Thread -> Places]
      /\ empty_id.count \in Nat /\ filled_id.count \in Nat
      /\ Distinct(filled_id)
  BY SempAssumption DEF ProducerRelease, Thread, Holders, TypeOK, Semaphores, Places, QueueSound
<1>1. /\ filled_id' = Release(filled_id) /\ filled_id' \in Semaphores(Consumer) /\ Distinct(filled_id')
  BY <1>0, ReleaseEffect DEF ProducerRelease
<1>2. \A u : Waits(filled_id', u) <=> Waits(filled_id, u) /\ u \notin Woken(filled_id)
  BY <1>0, ReleaseEffect, Zenon DEF ProducerRelease
<1>3. Holders \subseteq Thread /\ Cardinality(Holders) \in Nat
  BY SubsetsFinite DEF Holders
<1>4. Woken(filled_id) \subseteq Consumer /\ \A u \in Woken(filled_id) : Waits(filled_id, u)
  <2>1. CASE filled_id.queue = <<>>
    BY <1>0, <2>1, ReleaseEffect
  <2>2. CASE filled_id.queue # <<>>
    <3>1. Woken(filled_id) = {Head(filled_id.queue)} /\ Head(filled_id.queue) \in Consumer
      BY <1>0, <2>2, ReleaseEffect
    <3>2. Waits(filled_id, Head(filled_id.queue))
      BY <1>0, <2>2, ReleaseEffect, Zenon
    <3> QED BY <3>1, <3>2, Zenon
  <2> QED BY <2>1, <2>2
<1>5. /\ pc' \in [Thread -> Places] /\ pc'[k] = "acquire"
      /\ \A u \in Woken(filled_id) : pc'[u] = "load" /\ pc[u] = "wait"
      /\ \A u \in Thread \ (Woken(filled_id) \union {k}) : pc'[u] = pc[u]
  BY <1>0, <1>4, SempAssumption DEF ProducerRelease, AfterRelease, Places, Thread, QueueSound
<1>6. TypeOK'
  BY <1>1, <1>5 DEF TypeOK, ProducerRelease, Semaphores, Places
<1>7. TokensConserved' /\ NoIdleToken'
  <2>1. CASE filled_id.queue = <<>>
    <3>1. filled_id'.count = filled_id.count + 1 /\ filled_id'.queue = filled_id.queue /\ Woken(filled_id) = {}
      BY <1>0, <1>1, <2>1, ReleaseEffect
    <3>2. Holders' = Holders \ {k}
      BY <1>0, <1>5, <3>1 DEF Holders
    <3>3. TokensConserved'
      BY <1>0, <1>3, <3>1, <3>2, TakeOne DEF TokensConserved, ProducerRelease
    <3> QED BY <2>1, <3>1, <3>3 DEF NoIdleToken, ProducerRelease
  <2>2. CASE filled_id.queue # <<>>
    <3> DEFINE h == Head(filled_id.queue)
    <3>1. filled_id'.count = filled_id.count /\ Woken(filled_id) = {h} /\ h \in Consumer
      BY <1>0, <1>1, <2>2, ReleaseEffect
    <3> HIDE DEF h
    <3>2. Holders' = (Holders \ {k}) \union {h} /\ h \notin Holders /\ h \in Thread
      BY <1>0, <1>5, <3>1 DEF Holders, Thread
    <3>3. TokensConserved'
      BY <1>0, <3>1, <3>2, <1>3, SwapOne DEF TokensConserved, ProducerRelease
    <3> QED BY <2>2, <3>1, <3>3 DEF NoIdleToken, ProducerRelease
  <2> QED BY <2>1, <2>2
<1>8. QueueSound'
  <2>1. ASSUME NEW t \in Consumer
        PROVE  Waits(filled_id', t) <=> t \notin terminated' /\ pc'[t] = "wait"
    <3>1. terminated' = terminated /\ t \in Thread /\ t # k
      BY <1>0 DEF ProducerRelease, Thread
    <3>2. Waits(filled_id, t) <=> t \notin terminated /\ pc[t] = "wait"
      BY DEF QueueSound
    <3>3. CASE t \in Woken(filled_id)
      BY <1>2, <1>5, <3>3
    <3>4. CASE t \notin Woken(filled_id)
      <4>1. pc'[t] = pc[t]
        BY <1>5, <3>1, <3>4
      <4>2. Waits(filled_id', t) <=> Waits(filled_id, t)
        BY <1>2, <3>4, Zenon
      <4> QED BY <3>1, <3>2, <4>1, <4>2, Zenon
    <3> QED BY <3>3, <3>4
  <2>2. ASSUME NEW t \in Producer
        PROVE  Waits(empty_id', t) <=> t \notin terminated' /\ pc'[t] = "wait"
    <3>1. /\ terminated' = terminated /\ empty_id' = empty_id /\ t \in Thread
          /\ t \notin Woken(filled_id)
      BY <1>4, SempAssumption DEF ProducerRelease, Thread
    <3>2. Waits(empty_id, t) <=> t \notin terminated /\ pc[t] = "wait"
      BY DEF QueueSound
    <3>3. pc'[t] = "wait" <=> pc[t] = "wait"
      BY <1>0, <1>5, <3>1
    <3> QED BY <3>1, <3>2, <3>3, Zenon
  <2>3. Distinct(empty_id')
    BY DEF ProducerRelease, QueueSound
  <2> QED BY <1>1, <2>1, <2>2, <2>3, Zenon DEF QueueSound
<1> QED BY <1>6, <1>7, <1>8

\* A consumer releases empty_id: one token more, or the first producer served.
LEMMA ConsumerReleaseInv ==
  ASSUME IInv, NEW k \in Consumer \ terminated, ConsumerRelease(k)
  PROVE  IInv'
<1> USE DEF IInv
<1>0. /\ k \in Thread /\ pc[k] = "release" /\ k \notin Producer /\ k \in Holders
      /\ empty_id \in Semaphores(Producer) /\ pc \in [Thread -> Places]
      /\ empty_id.count \in Nat /\ filled_id.count \in Nat
      /\ Distinct(empty_id)
  BY SempAssumption DEF ConsumerRelease, Thread, Holders, TypeOK, Semaphores, Places, QueueSound
<1>1. /\ empty_id' = Release(empty_id) /\ empty_id' \in Semaphores(Producer) /\ Distinct(empty_id')
  BY <1>0, ReleaseEffect DEF ConsumerRelease
<1>2. \A u : Waits(empty_id', u) <=> Waits(empty_id, u) /\ u \notin Woken(empty_id)
  BY <1>0, ReleaseEffect, Zenon DEF ConsumerRelease
<1>3. Holders \subseteq Thread /\ Cardinality(Holders) \in Nat
  BY SubsetsFinite DEF Holders
<1>4. Woken(empty_id) \subseteq Producer /\ \A u \in Woken(empty_id) : Waits(empty_id, u)
  <2>1. CASE empty_id.queue = <<>>
    BY <1>0, <2>1, ReleaseEffect
  <2>2. CASE empty_id.queue # <<>>
    <3>1. Woken(empty_id) = {Head(empty_id.queue)} /\ Head(empty_id.queue) \in Producer
      BY <1>0, <2>2, ReleaseEffect
    <3>2. Waits(empty_id, Head(empty_id.queue))
      BY <1>0, <2>2, ReleaseEffect, Zenon
    <3> QED BY <3>1, <3>2, Zenon
  <2> QED BY <2>1, <2>2
<1>5. /\ pc' \in [Thread -> Places] /\ pc'[k] = "acquire"
      /\ \A u \in Woken(empty_id) : pc'[u] = "load" /\ pc[u] = "wait"
      /\ \A u \in Thread \ (Woken(empty_id) \union {k}) : pc'[u] = pc[u]
  BY <1>0, <1>4, SempAssumption DEF ConsumerRelease, AfterRelease, Places, Thread, QueueSound
<1>6. TypeOK'
  BY <1>1, <1>5 DEF TypeOK, ConsumerRelease, Semaphores, Places
<1>7. TokensConserved' /\ NoIdleToken'
  <2>1. CASE empty_id.queue = <<>>
    <3>1. empty_id'.count = empty_id.count + 1 /\ empty_id'.queue = empty_id.queue /\ Woken(empty_id) = {}
      BY <1>0, <1>1, <2>1, ReleaseEffect
    <3>2. Holders' = Holders \ {k}
      BY <1>0, <1>5, <3>1 DEF Holders
    <3>3. TokensConserved'
      BY <1>0, <1>3, <3>1, <3>2, TakeOne DEF TokensConserved, ConsumerRelease
    <3> QED BY <2>1, <3>1, <3>3 DEF NoIdleToken, ConsumerRelease
  <2>2. CASE empty_id.queue # <<>>
    <3> DEFINE h == Head(empty_id.queue)
    <3>1. empty_id'.count = empty_id.count /\ Woken(empty_id) = {h} /\ h \in Producer
      BY <1>0, <1>1, <2>2, ReleaseEffect
    <3> HIDE DEF h
    <3>2. Holders' = (Holders \ {k}) \union {h} /\ h \notin Holders /\ h \in Thread
      BY <1>0, <1>5, <3>1 DEF Holders, Thread
    <3>3. TokensConserved'
      BY <1>0, <3>1, <3>2, <1>3, SwapOne DEF TokensConserved, ConsumerRelease
    <3> QED BY <2>2, <3>1, <3>3 DEF NoIdleToken, ConsumerRelease
  <2> QED BY <2>1, <2>2
<1>8. QueueSound'
  <2>1. ASSUME NEW t \in Producer
        PROVE  Waits(empty_id', t) <=> t \notin terminated' /\ pc'[t] = "wait"
    <3>1. terminated' = terminated /\ t \in Thread /\ t # k
      BY <1>0 DEF ConsumerRelease, Thread
    <3>2. Waits(empty_id, t) <=> t \notin terminated /\ pc[t] = "wait"
      BY DEF QueueSound
    <3>3. CASE t \in Woken(empty_id)
      BY <1>2, <1>5, <3>3
    <3>4. CASE t \notin Woken(empty_id)
      <4>1. pc'[t] = pc[t]
        BY <1>5, <3>1, <3>4
      <4>2. Waits(empty_id', t) <=> Waits(empty_id, t)
        BY <1>2, <3>4, Zenon
      <4> QED BY <3>1, <3>2, <4>1, <4>2, Zenon
    <3> QED BY <3>3, <3>4
  <2>2. ASSUME NEW t \in Consumer
        PROVE  Waits(filled_id', t) <=> t \notin terminated' /\ pc'[t] = "wait"
    <3>1. /\ terminated' = terminated /\ filled_id' = filled_id /\ t \in Thread
          /\ t \notin Woken(empty_id)
      BY <1>4, SempAssumption DEF ConsumerRelease, Thread
    <3>2. Waits(filled_id, t) <=> t \notin terminated /\ pc[t] = "wait"
      BY DEF QueueSound
    <3>3. pc'[t] = "wait" <=> pc[t] = "wait"
      BY <1>0, <1>5, <3>1
    <3> QED BY <3>1, <3>2, <3>3, Zenon
  <2>3. Distinct(filled_id')
    BY DEF ConsumerRelease, QueueSound
  <2> QED BY <1>1, <2>1, <2>2, <2>3, Zenon DEF QueueSound
<1> QED BY <1>6, <1>7, <1>8

\* Reading and writing product_number moves no token.
LEMMA CountInv ==
  ASSUME IInv, NEW t \in Thread, NEW v \in Int, Load(t) \/ Store(t, v)
  PROVE  IInv'
<1> USE DEF IInv
<1>0. /\ pc \in [Thread -> Places] /\ pc[t] \in {"load", "store"}
      /\ pc' = [pc EXCEPT ![t] = pc'[t]] /\ pc'[t] \in {"store", "release"}
      /\ empty_id' = empty_id /\ filled_id' = filled_id /\ terminated' = terminated
  BY DEF Load, Store, TypeOK, Places
<1>1. TypeOK'
  <2>1. CASE Load(t)
    BY <1>0, <2>1 DEF TypeOK, Load, Places
  <2>2. CASE Store(t, v)
    <3>1. v % IntRange \in 0 .. IntRange - 1 /\ 0 \in 0 .. IntRange - 1
      BY SempAssumption
    <3> QED BY <1>0, <2>2, <3>1 DEF TypeOK, Store, Places
  <2> QED BY <2>1, <2>2
<1>2. Holders' = Holders
  BY <1>0 DEF Holders
<1>3. TokensConserved' /\ NoIdleToken'
  BY <1>0, <1>2 DEF TokensConserved, NoIdleToken
<1>4. QueueSound'
  <2>1. \A u \in Thread : pc'[u] = "wait" <=> pc[u] = "wait"
    BY <1>0
  <2> QED BY <1>0, <2>1 DEF QueueSound, Thread
<1> QED BY <1>1, <1>3, <1>4

\* A thread is terminated wherever it is; nobody else moves.
LEMMA TerminateInv ==
  ASSUME IInv, NEW t \in Thread, Terminate(t)
  PROVE  IInv'
<1> USE DEF IInv
<1>0. /\ empty_id \in Semaphores(Producer) /\ filled_id \in Semaphores(Consumer)
      /\ Distinct(empty_id) /\ Distinct(filled_id)
      /\ empty_id' = Without(empty_id, t) /\ filled_id' = Without(filled_id, t)
      /\ terminated' = terminated \union {t} /\ pc' = pc
  BY DEF Terminate, TypeOK, Semaphores, QueueSound
<1>1. /\ empty_id' \in Semaphores(Producer) /\ empty_id'.count = empty_id.count
      /\ Distinct(empty_id')
      /\ empty_id.queue = <<>> => empty_id'.queue = <<>>
  BY <1>0, WithoutEffect
<1>2. /\ filled_id' \in Semaphores(Consumer) /\ filled_id'.count = filled_id.count
      /\ Distinct(filled_id')
      /\ filled_id.queue = <<>> => filled_id'.queue = <<>>
  BY <1>0, WithoutEffect
<1>3. TypeOK'
  BY <1>0, <1>1, <1>2 DEF TypeOK, Terminate, Semaphores
<1>4. TokensConserved' /\ NoIdleToken'
  <2>1. Holders' = Holders
    BY <1>0 DEF Holders
  <2> QED BY <1>1, <1>2, <2>1 DEF TokensConserved, NoIdleToken
<1>5. QueueSound'
  <2>1. \A u : Waits(empty_id', u) <=> Waits(empty_id, u) /\ u # t
    BY <1>0, WithoutEffect, Zenon
  <2>2. \A u : Waits(filled_id', u) <=> Waits(filled_id, u) /\ u # t
    BY <1>0, WithoutEffect, Zenon
  <2>3. \A u : u \notin terminated' <=> u \notin terminated /\ u # t
    BY <1>0
  <2> QED BY <1>0, <1>1, <1>2, <2>1, <2>2, <2>3, Zenon DEF QueueSound
<1> QED BY <1>3, <1>4, <1>5

LEMMA NextInv == IInv /\ [Next]_vars => IInv'
<1> SUFFICES ASSUME IInv, [Next]_vars PROVE IInv'
  OBVIOUS
<1>1. ASSUME NEW p \in Producer \ terminated, producer_thread(p) PROVE IInv'
  <2>1. p \in Thread /\ loaded[p] + 1 \in Int
    BY SempAssumption DEF Thread, IInv, TypeOK
  <2> QED BY <1>1, <2>1, ProducerAcquireInv, CountInv, ProducerReleaseInv DEF producer_thread
<1>2. ASSUME NEW c \in Consumer \ terminated, consumer_thread(c) PROVE IInv'
  <2>1. c \in Thread /\ loaded[c] - 1 \in Int
    BY SempAssumption DEF Thread, IInv, TypeOK
  <2> QED BY <1>2, <2>1, ConsumerAcquireInv, CountInv, ConsumerReleaseInv DEF consumer_thread
<1>3. CASE MainTerminate
  BY <1>3, TerminateInv DEF MainTerminate, Alive
<1>4. CASE MainDelete
  BY <1>4 DEF MainDelete, IInv, TypeOK, TokensConserved, Holders, NoIdleToken, QueueSound
<1>5. CASE UNCHANGED vars
  BY <1>5 DEF vars, IInv, TypeOK, TokensConserved, Holders, NoIdleToken, QueueSound
<1> QED BY <1>1, <1>2, <1>3, <1>4, <1>5 DEF Next

\* Types, conservation of tokens, no idle token, sound queues.
THEOREM Invariance == Spec => []IInv
BY InitInv, NextInv, PTL DEF Spec

\* The types of the state.
THEOREM TypeCorrect == Spec => []TypeOK
BY Invariance, PTL DEF IInv

\* Every place of the warehouse is one token, in a semaphore or in a thread's hands.
THEOREM TokensConservedAlways == Spec => []TokensConserved
BY Invariance, PTL DEF IInv

\* The queues hold the live threads that wait, each once.
THEOREM QueueSoundAlways == Spec => []QueueSound
BY Invariance, PTL DEF IInv

\* If every thread waited, both semaphores would be empty and no thread would hold
\* a token: but then the tokens would not add up to the size of the warehouse.
THEOREM NotAllWaitingAlways == Spec => []NotAllWaiting
<1>1. IInv => NotAllWaiting
  <2> SUFFICES ASSUME IInv, terminated = {}, \A t \in Thread : pc[t] = "wait"
               PROVE  FALSE
    BY DEF NotAllWaiting
  <2>1. Holders = {}
    BY DEF Holders
  <2>2. empty_id.count + filled_id.count + 0 = BufferSize
    BY <2>1, FS_EmptySet DEF IInv, TokensConserved
  <2>3. PICK p \in Producer, c \in Consumer : TRUE
    BY SempAssumption
  <2>4. Waits(empty_id, p) /\ Waits(filled_id, c)
    BY <2>3 DEF IInv, QueueSound, Thread
  <2>5. empty_id.queue # <<>> /\ filled_id.queue # <<>>
    BY <2>4 DEF Waits
  <2>6. empty_id.count = 0 /\ filled_id.count = 0
    BY <2>5 DEF IInv, NoIdleToken
  <2> QED BY <2>2, <2>6, SempAssumption
<1> QED BY <1>1, Invariance, PTL

\* The parts together: what the runs check on an instance holds for every one.
THEOREM StockSafeAlways == Spec => []StockSafe
<1>1. IInv => TypeOK /\ TokensConserved /\ NoIdleToken /\ QueueSound
  BY DEF IInv
<1> QED BY <1>1, Invariance, NotAllWaitingAlways, PTL DEF StockSafe

\* What is counted in Stock is in the hands of threads that hold a token.
LEMMA StockParts ==
  ASSUME IInv
  PROVE  /\ Stored \subseteq Thread /\ Taken \subseteq Thread
         /\ Cardinality(Stored) \in Nat /\ Cardinality(Taken) \in Nat
         /\ filled_id.count \in Nat /\ empty_id.count \in Nat
         /\ Cardinality(Stored) + Cardinality(Taken) = Cardinality(Stored \union Taken)
<1>1. Stored \subseteq Thread /\ Taken \subseteq Thread /\ Stored \intersect Taken = {}
  BY SempAssumption DEF Stored, Taken, Thread
<1>2. /\ IsFiniteSet(Stored) /\ IsFiniteSet(Taken)
      /\ Cardinality(Stored) \in Nat /\ Cardinality(Taken) \in Nat
  BY <1>1, SubsetsFinite
<1>3. Cardinality(Stored \union Taken) = Cardinality(Stored) + Cardinality(Taken) - 0
  <2>1. Cardinality(Stored \union Taken)
          = Cardinality(Stored) + Cardinality(Taken) - Cardinality(Stored \intersect Taken)
    BY <1>2, FS_Union
  <2>2. Cardinality(Stored \intersect Taken) = 0
    BY <1>1, FS_EmptySet
  <2> QED BY <2>1, <2>2
<1> QED BY <1>1, <1>2, <1>3 DEF IInv, TypeOK

\* A producer that counts a product in has found room for it.
LEMMA ProduceStep ==
  ASSUME IInv, NEW p \in Producer, Store(p, loaded[p] + 1)
  PROVE  W!Produce
<1>1. /\ p \in Thread /\ p \notin Stored /\ p \notin Taken /\ p \in Holders
      /\ Stored \union Taken \subseteq Holders \ {p}
      /\ Holders \subseteq Thread
  BY SempAssumption DEF Store, Stored, Taken, Holders, Thread, IInv, TypeOK
<1>2. Stored' = Stored \union {p} /\ Taken' = Taken /\ filled_id' = filled_id
  BY SempAssumption DEF Store, Stored, Taken, Thread, IInv, TypeOK
<1>3. Stock' = Stock + 1
  BY <1>1, <1>2, AddOne, StockParts DEF Stock
<1>4. Stock < BufferSize
  <2>1. Cardinality(Stored \union Taken) <= Cardinality(Holders \ {p})
    <3>1. Holders \ {p} \subseteq Thread
      BY <1>1
    <3> QED BY <1>1, <3>1, SubsetsFinite, FS_Subset
  <2>2. Cardinality(Holders \ {p}) = Cardinality(Holders) - 1 /\ Cardinality(Holders) \in Nat
    BY <1>1, TakeOne, SubsetsFinite
  <2>3. Cardinality(Stored \union Taken) \in Nat
    BY <1>1, SubsetsFinite
  <2> QED BY <2>1, <2>2, <2>3, StockParts, SempAssumption DEF Stock, IInv, TokensConserved
<1> QED BY <1>3, <1>4 DEF W!Produce

\* A consumer that counts a product out has one.
LEMMA ConsumeStep ==
  ASSUME IInv, NEW c \in Consumer, Store(c, loaded[c] - 1)
  PROVE  W!Consume
<1>1. Taken \subseteq Thread /\ c \in Taken
  BY SempAssumption DEF Store, Taken, Thread
<1>2. Taken' = Taken \ {c} /\ Stored' = Stored /\ filled_id' = filled_id
  BY SempAssumption DEF Store, Stored, Taken, Thread, IInv, TypeOK
<1>3. Stock' = Stock - 1 /\ Stock > 0
  <2>1. Cardinality(Taken') = Cardinality(Taken) - 1 /\ Cardinality(Taken) >= 1
    BY <1>1, <1>2, TakeOne
  <2> QED BY <1>2, <2>1, StockParts DEF Stock
<1> QED BY <1>3 DEF W!Consume

\* Every other step leaves the stock alone.
LEMMA ConsumerAcquireStock ==
  ASSUME IInv, NEW c \in Consumer, ConsumerAcquire(c)
  PROVE  Stock' = Stock
<1>1. /\ c \in Thread /\ c \notin Taken /\ Taken \subseteq Thread
      /\ filled_id \in Semaphores(Consumer) /\ Stored' = Stored
  BY SempAssumption DEF ConsumerAcquire, Taken, Stored, Thread, Semaphores, IInv, TypeOK
<1>2. CASE Available(filled_id)
  <2>1. Taken' = Taken \union {c}
    BY <1>1, <1>2 DEF ConsumerAcquire, AfterAcquire, Taken, IInv, TypeOK
  <2>2. filled_id'.count = filled_id.count - 1
    BY <1>1, <1>2, AcquireEffect DEF ConsumerAcquire
  <2> QED BY <1>1, <2>1, <2>2, AddOne, StockParts DEF Stock
<1>3. CASE ~Available(filled_id)
  <2>1. Taken' = Taken
    BY <1>1, <1>3 DEF ConsumerAcquire, AfterAcquire, Taken, IInv, TypeOK
  <2>2. filled_id'.count = filled_id.count
    BY <1>1, <1>3, AcquireEffect DEF ConsumerAcquire
  <2> QED BY <1>1, <2>1, <2>2 DEF Stock
<1> QED BY <1>2, <1>3

LEMMA ProducerReleaseStock ==
  ASSUME IInv, NEW p \in Producer, ProducerRelease(p)
  PROVE  Stock' = Stock
<1>1. /\ p \in Thread /\ p \in Stored /\ p \notin Consumer
      /\ Stored \subseteq Thread /\ Taken \subseteq Thread
      /\ filled_id \in Semaphores(Consumer) /\ Distinct(filled_id)
      /\ filled_id' = Release(filled_id) /\ pc \in [Thread -> Places]
  BY SempAssumption
     DEF ProducerRelease, Stored, Taken, Thread, Semaphores, IInv, TypeOK, Places, QueueSound
<1>2. CASE filled_id.queue = <<>>
  <2>1. Woken(filled_id) = {} /\ filled_id'.count = filled_id.count + 1
    BY <1>1, <1>2, ReleaseEffect
  <2>2. Stored' = Stored \ {p} /\ Taken' = Taken
    BY <1>1, <2>1, SempAssumption DEF ProducerRelease, AfterRelease, Stored, Taken, Thread
  <2>3. Cardinality(Stored') = Cardinality(Stored) - 1
    BY <1>1, <2>2, TakeOne
  <2> QED BY <2>1, <2>2, <2>3, StockParts DEF Stock
<1>3. CASE filled_id.queue # <<>>
  <2> DEFINE h == Head(filled_id.queue)
  <2>1. Woken(filled_id) = {h} /\ filled_id'.count = filled_id.count /\ h \in Consumer
    BY <1>1, <1>3, ReleaseEffect
  <2>2. Waits(filled_id, h)
    BY <1>1, <1>3, ReleaseEffect, Zenon
  <2>3. pc[h] = "wait"
    BY <2>1, <2>2 DEF IInv, QueueSound
  <2> HIDE DEF h
  <2>4. /\ Stored' = Stored \ {p} /\ Taken' = Taken \union {h}
        /\ h \notin Taken /\ h \in Thread
    BY <1>1, <2>1, <2>3, SempAssumption
       DEF ProducerRelease, AfterRelease, Stored, Taken, Thread
  <2> QED BY <1>1, <2>1, <2>4, TakeOne, AddOne, StockParts DEF Stock
<1> QED BY <1>2, <1>3

LEMMA ConsumerReleaseStock ==
  ASSUME IInv, NEW c \in Consumer, ConsumerRelease(c)
  PROVE  Stock' = Stock
<1>1. /\ empty_id \in Semaphores(Producer) /\ Distinct(empty_id) /\ pc[c] = "release"
      /\ pc' = AfterRelease(empty_id, c) /\ filled_id' = filled_id /\ c \in Thread
  BY DEF ConsumerRelease, Semaphores, IInv, TypeOK, QueueSound, Thread
<1>2. \A u \in Woken(empty_id) : u \in Producer /\ pc[u] = "wait"
  <2>1. CASE empty_id.queue = <<>>
    BY <1>1, <2>1, ReleaseEffect
  <2>2. CASE empty_id.queue # <<>>
    <3>1. Woken(empty_id) = {Head(empty_id.queue)} /\ Head(empty_id.queue) \in Producer
      BY <1>1, <2>2, ReleaseEffect
    <3>2. Waits(empty_id, Head(empty_id.queue))
      BY <1>1, <2>2, ReleaseEffect, Zenon
    <3>3. pc[Head(empty_id.queue)] = "wait"
      BY <3>1, <3>2 DEF IInv, QueueSound
    <3> QED BY <3>1, <3>3
  <2> QED BY <2>1, <2>2
<1>3. Stored' = Stored /\ Taken' = Taken
  BY <1>1, <1>2, SempAssumption DEF AfterRelease, Stored, Taken, Thread
<1> QED BY <1>1, <1>3 DEF Stock

LEMMA QuietStock ==
  ASSUME IInv,
         \/ \E p \in Producer : ProducerAcquire(p)
         \/ \E t \in Thread : Load(t)
         \/ MainTerminate \/ MainDelete \/ UNCHANGED vars
  PROVE  Stock' = Stock
<1>1. filled_id'.count = filled_id.count
  <2>1. ASSUME NEW t, Terminate(t) PROVE filled_id'.count = filled_id.count
    BY <2>1, WithoutEffect DEF Terminate, Semaphores, IInv, TypeOK, QueueSound
  <2> QED BY <2>1 DEF ProducerAcquire, Load, MainTerminate, MainDelete, vars
<1>2. Stored' = Stored /\ Taken' = Taken
  <2>1. ASSUME NEW p \in Producer, ProducerAcquire(p) PROVE Stored' = Stored /\ Taken' = Taken
    BY <2>1, SempAssumption
       DEF ProducerAcquire, AfterAcquire, Stored, Taken, Thread, IInv, TypeOK
  <2>2. ASSUME NEW t \in Thread, Load(t) PROVE Stored' = Stored /\ Taken' = Taken
    BY <2>2, SempAssumption DEF Load, Stored, Taken, Thread, IInv, TypeOK
  <2>3. CASE pc' = pc
    BY <2>3 DEF Stored, Taken
  <2> QED BY <2>1, <2>2, <2>3 DEF MainTerminate, Terminate, MainDelete, vars
<1> QED BY <1>1, <1>2 DEF Stock

\* The program of the two semaphores implements the warehouse: the stock is never
\* more than the places, and nothing is taken from an empty one.
THEOREM Refinement == Spec => Implements
<1>1. Init => W!WInit
  <2> SUFFICES ASSUME Init PROVE Stock = 0
    BY DEF W!WInit
  <2>1. Stored = {} /\ Taken = {} /\ filled_id.count = 0
    BY DEF Init, Stored, Taken, Sem, Thread
  <2> QED BY <2>1, FS_EmptySet DEF Stock
<1>2. IInv /\ [Next]_vars => [W!Produce \/ W!Consume]_Stock
  <2> SUFFICES ASSUME IInv, [Next]_vars PROVE W!Produce \/ W!Consume \/ Stock' = Stock
    OBVIOUS
  <2>1. ASSUME NEW p \in Producer, producer_thread(p)
        PROVE  W!Produce \/ W!Consume \/ Stock' = Stock
    BY <2>1, ProduceStep, ProducerReleaseStock, QuietStock DEF producer_thread, Thread
  <2>2. ASSUME NEW c \in Consumer, consumer_thread(c)
        PROVE  W!Produce \/ W!Consume \/ Stock' = Stock
    BY <2>2, ConsumeStep, ConsumerAcquireStock, ConsumerReleaseStock, QuietStock
       DEF consumer_thread, Thread
  <2> QED BY <2>1, <2>2, QuietStock DEF Next
<1> QED BY <1>1, <1>2, Invariance, PTL DEF Spec, Implements, W!WSpec
=============================================================================
