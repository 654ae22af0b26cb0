----------------------------- MODULE MutexDemo -----------------------------
(***************************************************************************)
(* Threads that count under a mutex (mutex_demo/mutex.c).  A thread waits  *)
(* for the mutex at most 100 ticks and tries again at once; the main       *)
(* thread terminates the threads anywhere, also one that owns the mutex.   *)
(***************************************************************************)
EXTENDS Naturals, FiniteSets

CONSTANTS
  Thread,
  MaxValue      \* bound of the model

NoThread == 0

VARIABLES
  owner, waiting,     \* the mutex: its owner, and the threads that wait for it
  value,              \* g_test_value
  pc, loaded, terminated,
  increments          \* history: the increments finished

vars == <<owner, waiting, value, pc, loaded, terminated, increments>>

\* rtosv2_mutex_main up to its delay.
Init ==
  /\ owner = NoThread /\ waiting = {} /\ value = 0 /\ increments = 0
  /\ pc = [t \in Thread |-> "acquire"] /\ loaded = [t \in Thread |-> 0]
  /\ terminated = {}

\* Mutant: the result of osMutexAcquire is not looked at.
AcquireAnyway(t) ==
  /\ pc[t] = "acquire"
  /\ pc' = [pc EXCEPT ![t] = "load"]
  /\ owner' = IF owner = NoThread THEN t ELSE owner
  /\ UNCHANGED <<waiting, value, loaded, terminated, increments>>

\* osMutexAcquire(mid, 100).
Acquire(t) ==
  /\ pc[t] = "acquire"
  /\ IF owner = NoThread
     THEN owner' = t /\ pc' = [pc EXCEPT ![t] = "load"] /\ UNCHANGED waiting
     ELSE /\ waiting' = waiting \union {t}
          /\ pc' = [pc EXCEPT ![t] = "wait"]
          /\ UNCHANGED owner
  /\ UNCHANGED <<value, loaded, terminated, increments>>

\* The 100 ticks are over.
TimeOut(t) ==
  /\ pc[t] = "wait" /\ t \in waiting
  /\ waiting' = waiting \ {t}
  /\ pc' = [pc EXCEPT ![t] = "acquire"]
  /\ UNCHANGED <<owner, value, loaded, terminated, increments>>

\* g_test_value++.
Load(t) ==
  /\ pc[t] = "load" /\ value < MaxValue
  /\ loaded' = [loaded EXCEPT ![t] = value]
  /\ pc' = [pc EXCEPT ![t] = "store"]
  /\ UNCHANGED <<owner, waiting, value, terminated, increments>>

Store(t) ==
  /\ pc[t] = "store"
  /\ value' = loaded[t] + 1 /\ increments' = increments + 1
  /\ pc' = [pc EXCEPT ![t] = "release"]
  /\ UNCHANGED <<owner, waiting, loaded, terminated>>

\* osMutexRelease hands the mutex to a thread that waits.
Release(t) ==
  /\ pc[t] = "release"
  /\ IF waiting = {}
     THEN owner' = NoThread /\ pc' = [pc EXCEPT ![t] = "acquire"] /\ UNCHANGED waiting
     ELSE \E u \in waiting :
            /\ owner' = u /\ waiting' = waiting \ {u}
            /\ pc' = [pc EXCEPT ![t] = "acquire", ![u] = "load"]
  /\ UNCHANGED <<value, loaded, terminated, increments>>

number_thread(t) == Acquire(t) \/ TimeOut(t) \/ Load(t) \/ Store(t) \/ Release(t)

\* osThreadTerminate: the mutex of a thread stays taken.
Terminate ==
  \E t \in Thread \ terminated :
    /\ terminated' = terminated \union {t}
    /\ waiting' = waiting \ {t}
    /\ UNCHANGED <<owner, value, pc, loaded, increments>>

Next == (\E t \in Thread \ terminated : number_thread(t)) \/ Terminate

(***************************************************************************)
(* Properties.                                                             *)
(***************************************************************************)

\* Types: the owner, the waiting threads, and the value each has loaded.
TypeOK ==
  /\ owner \in Thread \union {NoThread} /\ waiting \subseteq Thread
  /\ value \in 0 .. MaxValue /\ increments \in 0 .. MaxValue
  /\ pc \in [Thread -> {"acquire", "wait", "load", "store", "release"}]
  /\ loaded \in [Thread -> 0 .. MaxValue] /\ terminated \subseteq Thread

\* Whatever times out and whoever is terminated, no increment is lost.
NoLostUpdate == value = increments

\* No thread is left waiting for a mutex that nobody owns, and the owner is the one
\* thread past its acquire.
MutexSound ==
  /\ waiting # {} => owner # NoThread
  /\ \A t \in Thread : pc[t] \in {"load", "store", "release"} => owner = t
=============================================================================
