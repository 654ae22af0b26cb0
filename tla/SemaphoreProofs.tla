--------------------------- MODULE SemaphoreProofs ---------------------------
(* What the operations of a semaphore do to its tokens and to its queue,      *)
(* thread by thread.                                                          *)
EXTENDS Semaphore, TLAPS

Semaphores(S) == [count : Nat, queue : Seq(S)]

\* osSemaphoreAcquire: one token less, or one waiter more.
LEMMA AcquireEffect ==
  ASSUME NEW S, NEW s \in Semaphores(S), NEW t \in S
  PROVE  /\ Acquire(s, t) \in Semaphores(S)
         /\ Available(s) => Acquire(s, t).count = s.count - 1 /\ Acquire(s, t).queue = s.queue
         /\ ~Available(s) => /\ Acquire(s, t).count = s.count /\ s.count = 0
                             /\ \A u : Waits(Acquire(s, t), u) <=> Waits(s, u) \/ u = t
                             /\ Distinct(s) /\ ~Waits(s, t) => Distinct(Acquire(s, t))
<1>1. s = [count |-> s.count, queue |-> s.queue] /\ s.count \in Nat /\ s.queue \in Seq(S)
  BY DEF Semaphores
<1>2. CASE Available(s)
  BY <1>1, <1>2 DEF Semaphores, Acquire, Available
<1>3. CASE ~Available(s)
  <2> DEFINE q == Append(s.queue, t)
  <2>1. Acquire(s, t) = [count |-> s.count, queue |-> q] /\ s.count = 0
    BY <1>1, <1>3 DEF Acquire, Available
  <2>2. /\ q \in Seq(S) /\ Len(q) = Len(s.queue) + 1 /\ Len(s.queue) \in Nat
        /\ q[Len(s.queue) + 1] = t
        /\ \A i \in 1 .. Len(s.queue) : q[i] = s.queue[i]
    BY <1>1
  <2>3. 1 .. Len(s.queue) + 1 = (1 .. Len(s.queue)) \union {Len(s.queue) + 1}
    BY <2>2
  <2>4. \A u : Waits(Acquire(s, t), u) <=> Waits(s, u) \/ u = t
    BY <2>1, <2>2, <2>3 DEF Waits
  <2>5. Distinct(s) /\ ~Waits(s, t) => Distinct(Acquire(s, t))
    BY <2>1, <2>2, <2>3 DEF Distinct, Waits
  <2>6. Acquire(s, t) \in Semaphores(S)
    BY <1>1, <2>1, <2>2 DEF Semaphores
  <2>7. Acquire(s, t).count = s.count /\ s.count = 0
    BY <2>1
  <2> HIDE DEF q
  <2> QED BY <1>3, <2>4, <2>5, <2>6, <2>7, Zenon
<1> QED BY <1>2, <1>3

\* osSemaphoreRelease: one token more, or the first waiter served.
LEMMA ReleaseEffect ==
  ASSUME NEW S, NEW s \in Semaphores(S), Distinct(s)
  PROVE  /\ Release(s) \in Semaphores(S) /\ Distinct(Release(s))
         /\ s.queue = <<>> => /\ Release(s).count = s.count + 1 /\ Release(s).queue = s.queue
                              /\ Woken(s) = {}
         /\ s.queue # <<>> => /\ Release(s).count = s.count
                              /\ Woken(s) = {Head(s.queue)}
                              /\ Head(s.queue) \in S /\ Waits(s, Head(s.queue))
         /\ \A u : Waits(Release(s), u) <=> Waits(s, u) /\ u \notin Woken(s)
<1>1. s = [count |-> s.count, queue |-> s.queue] /\ s.count \in Nat /\ s.queue \in Seq(S)
  BY DEF Semaphores
<1>2. CASE s.queue = <<>>
  <2>1. Release(s) = [count |-> s.count + 1, queue |-> s.queue] /\ Woken(s) = {}
    BY <1>1, <1>2 DEF Release, Woken
  <2>2. Release(s) \in Semaphores(S)
    BY <1>1, <2>1 DEF Semaphores
  <2>3. Distinct(Release(s)) /\ \A u : Waits(Release(s), u) <=> Waits(s, u)
    BY <2>1 DEF Distinct, Waits
  <2> QED BY <1>2, <2>1, <2>2, <2>3
<1>3. CASE s.queue # <<>>
  <2> DEFINE q == Tail(s.queue)
             h == Head(s.queue)
  <2>1. Release(s) = [count |-> s.count, queue |-> q] /\ Woken(s) = {h}
    BY <1>1, <1>3 DEF Release, Woken
  <2>2. /\ q \in Seq(S) /\ Len(q) = Len(s.queue) - 1 /\ Len(s.queue) \in Nat \ {0}
        /\ h = s.queue[1] /\ h \in S
        /\ \A i \in 1 .. Len(q) : q[i] = s.queue[i + 1]
    BY <1>1, <1>3
  <2>3. Waits(s, h)
    BY <2>2 DEF Waits
  <2>4. ASSUME NEW u PROVE Waits(Release(s), u) <=> Waits(s, u) /\ u # h
    <3>1. ASSUME Waits(Release(s), u) PROVE Waits(s, u) /\ u # h
      <4>1. PICK i \in 1 .. Len(q) : q[i] = u
        BY <2>1, <3>1 DEF Waits
      <4>2. i + 1 \in 1 .. Len(s.queue) /\ s.queue[i + 1] = u /\ 1 \in 1 .. Len(s.queue) /\ i + 1 # 1
        BY <2>2, <4>1
      <4> QED BY <2>2, <4>2 DEF Waits, Distinct
    <3>2. ASSUME Waits(s, u), u # h PROVE Waits(Release(s), u)
      <4>1. PICK i \in 1 .. Len(s.queue) : s.queue[i] = u
        BY <3>2 DEF Waits
      <4>2. i # 1
        BY <2>2, <3>2, <4>1
      <4>3. i - 1 \in 1 .. Len(q) /\ q[i - 1] = u
        <5>1. i - 1 \in 1 .. Len(q) /\ (i - 1) + 1 = i
          BY <2>2, <4>1, <4>2
        <5> QED BY <2>2, <4>1, <5>1
      <4>4. Release(s).queue = q
        BY <2>1
      <4> HIDE DEF q
      <4> QED BY <4>3, <4>4 DEF Waits
    <3> QED BY <3>1, <3>2
  <2>5. Distinct(Release(s))
    <3> SUFFICES ASSUME NEW i \in 1 .. Len(q), NEW j \in 1 .. Len(q), q[i] = q[j]
                 PROVE  i = j
      BY <2>1 DEF Distinct
    <3>1. i + 1 \in 1 .. Len(s.queue) /\ j + 1 \in 1 .. Len(s.queue)
          /\ s.queue[i + 1] = s.queue[j + 1]
      BY <2>2
    <3>2. i + 1 = j + 1
      BY <3>1 DEF Distinct
    <3> QED BY <3>2
  <2>6. Release(s) \in Semaphores(S)
    BY <1>1, <2>1, <2>2 DEF Semaphores
  <2>7. \A u : Waits(Release(s), u) <=> Waits(s, u) /\ u \notin Woken(s)
    BY <2>1, <2>4
  <2>8. /\ Release(s).count = s.count /\ Woken(s) = {Head(s.queue)}
        /\ Head(s.queue) \in S /\ Waits(s, Head(s.queue))
    BY <2>1, <2>2, <2>3
  <2> HIDE DEF q, h
  <2> QED BY <1>3, <2>5, <2>6, <2>7, <2>8, Zenon
<1> QED BY <1>2, <1>3

\* osThreadTerminate: the thread is out of the queue, the others keep their order.
LEMMA WithoutEffect ==
  ASSUME NEW S, NEW s \in Semaphores(S), NEW t, Distinct(s)
  PROVE  /\ Without(s, t) \in Semaphores(S) /\ Distinct(Without(s, t))
         /\ Without(s, t).count = s.count
         /\ s.queue = <<>> => Without(s, t).queue = <<>>
         /\ \A u : Waits(Without(s, t), u) <=> Waits(s, u) /\ u # t
<1>1. s = [count |-> s.count, queue |-> s.queue] /\ s.count \in Nat /\ s.queue \in Seq(S)
  BY DEF Semaphores
<1>2. CASE ~Waits(s, t)
  BY <1>1, <1>2 DEF Without
<1>3. CASE Waits(s, t)
  <2> DEFINE n == Len(s.queue)
             k == Place(s, t)
             from(i) == IF i < k THEN i ELSE i + 1
             q == [i \in 1 .. n - 1 |-> s.queue[from(i)]]
  <2>1. k \in 1 .. n /\ s.queue[k] = t
    <3>1. \E i \in 1 .. n : s.queue[i] = t
      BY <1>3 DEF Waits
    <3> QED BY <3>1, Zenon DEF Place
  <2>2. Without(s, t) = [count |-> s.count, queue |-> q]
    BY <1>3 DEF Without
  <2>3. n \in Nat \ {0} /\ \A i \in 1 .. n : s.queue[i] \in S
    BY <1>1, <2>1
  <2>4. \A i \in 1 .. n - 1 : from(i) \in 1 .. n /\ from(i) # k
    BY <2>1, <2>3
  <2>5. q \in Seq(S) /\ Len(q) = n - 1
    <3>1. \A i \in 1 .. n - 1 : s.queue[from(i)] \in S
      BY <2>3, <2>4
    <3>2. q \in [1 .. n - 1 -> S]
      <4> HIDE DEF from
      <4> QED BY <3>1
    <3>3. n - 1 \in Nat
      BY <2>3
    <3> HIDE DEF q
    <3> QED BY <3>2, <3>3
  <2>6. \A i \in 1 .. n - 1 : q[i] = s.queue[from(i)]
    OBVIOUS
  <2> HIDE DEF q
  <2>7. Distinct(Without(s, t))
    <3> SUFFICES ASSUME NEW i \in 1 .. n - 1, NEW j \in 1 .. n - 1, q[i] = q[j]
                 PROVE  i = j
      BY <2>2, <2>5 DEF Distinct
    <3>1. from(i) = from(j)
      <4>1. s.queue[from(i)] = s.queue[from(j)]
        BY <2>6
      <4> QED BY <2>4, <4>1 DEF Distinct
    <3> QED BY <3>1, <2>1, <2>3
  <2>8. ASSUME NEW u PROVE Waits(Without(s, t), u) <=> Waits(s, u) /\ u # t
    <3>1. ASSUME Waits(Without(s, t), u) PROVE Waits(s, u) /\ u # t
      <4>1. PICK i \in 1 .. n - 1 : q[i] = u
        BY <2>2, <2>5, <3>1 DEF Waits
      <4>2. from(i) \in 1 .. n /\ from(i) # k /\ s.queue[from(i)] = u
        BY <2>4, <2>6, <4>1
      <4> HIDE DEF from
      <4> QED BY <2>1, <4>2 DEF Waits, Distinct
    <3>2. ASSUME Waits(s, u), u # t PROVE Waits(Without(s, t), u)
      <4>1. PICK i \in 1 .. n : s.queue[i] = u
        BY <3>2 DEF Waits
      <4>2. i # k
        BY <2>1, <3>2, <4>1
      <4>3. CASE i < k
        <5>1. i \in 1 .. n - 1 /\ from(i) = i
          BY <2>1, <2>3, <4>1, <4>3
        <5>2. q[i] = u
          BY <2>6, <4>1, <5>1
        <5> QED BY <2>2, <2>5, <5>1, <5>2 DEF Waits
      <4>4. CASE i > k
        <5>1. i - 1 \in 1 .. n - 1 /\ from(i - 1) = i
          BY <2>1, <2>3, <4>1, <4>4
        <5>2. q[i - 1] = u
          BY <2>6, <4>1, <5>1
        <5> QED BY <2>2, <2>5, <5>1, <5>2 DEF Waits
      <4> QED BY <2>1, <2>3, <4>2, <4>3, <4>4
    <3> QED BY <3>1, <3>2
  <2>9. s.queue # <<>>
    BY <1>1, <2>3
  <2> QED BY <1>1, <2>2, <2>5, <2>7, <2>8, <2>9 DEF Semaphores
<1> QED BY <1>2, <1>3
=============================================================================
