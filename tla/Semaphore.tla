----------------------------- MODULE Semaphore -----------------------------
(***************************************************************************)
(* A counting semaphore of CMSIS-RTOS2 on LiteOS: tokens, and the threads  *)
(* of one priority that wait for one, first come first served.  A token    *)
(* that is released while a thread waits goes to that thread directly.     *)
(***************************************************************************)
EXTENDS Naturals, Sequences

\* osSemaphoreNew with n tokens.  The maximum is not enforced by LiteOS.
Sem(n) == [count |-> n, queue |-> <<>>]

Available(s) == s.count > 0

\* Mutant: the last to come is served first.
AcquireFirst(s, t) ==
  IF Available(s) THEN [count |-> s.count - 1, queue |-> s.queue]
                  ELSE [count |-> s.count, queue |-> <<t>> \o s.queue]

\* osSemaphoreAcquire by t: a token, or a place in the queue.
Acquire(s, t) ==
  IF Available(s) THEN [count |-> s.count - 1, queue |-> s.queue]
                  ELSE [count |-> s.count, queue |-> Append(s.queue, t)]

\* osSemaphoreRelease, and the thread it wakes.
Release(s) ==
  IF s.queue = <<>> THEN [count |-> s.count + 1, queue |-> s.queue]
                    ELSE [count |-> s.count, queue |-> Tail(s.queue)]
Woken(s) == IF s.queue = <<>> THEN {} ELSE {Head(s.queue)}

\* A thread that is terminated leaves the queue.
Waits(s, t) == \E i \in 1 .. Len(s.queue) : s.queue[i] = t
Distinct(s) == \A i, j \in 1 .. Len(s.queue) : s.queue[i] = s.queue[j] => i = j
Place(s, t) == CHOOSE i \in 1 .. Len(s.queue) : s.queue[i] = t
Without(s, t) ==
  IF ~Waits(s, t) THEN s
  ELSE [count |-> s.count,
        queue |-> [i \in 1 .. Len(s.queue) - 1 |->
                     s.queue[IF i < Place(s, t) THEN i ELSE i + 1]]]
=============================================================================
