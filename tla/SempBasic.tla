----------------------------- MODULE SempBasic -----------------------------
(***************************************************************************)
(* Workers that share machines over one semaphore                          *)
(* (semaphore_demo/semp_basic.c).                                          *)
(***************************************************************************)
EXTENDS Naturals, FiniteSets, Semaphore

CONSTANTS Worker, MachineNumber

VARIABLES
  semMachine,
  pc            \* the place of each worker; a worker not yet created is "new"

vars == <<semMachine, pc>>

Init == semMachine = Sem(MachineNumber) /\ pc = [w \in Worker |-> "new"]

\* The main thread creates the workers one after the other.
Create ==
  \E w \in Worker :
    /\ pc[w] = "new"
    /\ pc' = [pc EXCEPT ![w] = "acquire"]
    /\ UNCHANGED semMachine

AcquireMachine(w) ==
  /\ pc[w] = "acquire"
  /\ semMachine' = Acquire(semMachine, w)
  /\ pc' = [pc EXCEPT ![w] = IF Available(semMachine) THEN "work" ELSE "wait"]

\* Mutant: a worker keeps its machine.
ReturnMachineKept(w) ==
  /\ pc[w] = "work"
  /\ pc' = [pc EXCEPT ![w] = "acquire"]
  /\ UNCHANGED semMachine

ReturnMachine(w) ==
  /\ pc[w] = "work"
  /\ semMachine' = Release(semMachine)
  /\ pc' = [u \in Worker |-> IF u = w THEN "acquire"
                             ELSE IF u \in Woken(semMachine) THEN "work" ELSE pc[u]]

worker_thread(w) == AcquireMachine(w) \/ ReturnMachine(w)

Next == Create \/ \E w \in Worker : worker_thread(w)

(***************************************************************************)
(* Properties.                                                             *)
(***************************************************************************)

\* Types: the semaphore, the machines and where each worker is.
TypeOK ==
  /\ semMachine \in [count : 0 .. MachineNumber, queue : Seq(Worker)]
  /\ pc \in [Worker -> {"new", "acquire", "wait", "work"}]

Working == {w \in Worker : pc[w] = "work"}

\* The head comment: at most as many workers as machines work at one time; and a
\* worker waits only while they all do.
MachinesShared ==
  /\ Cardinality(Working) <= MachineNumber
  /\ (\E w \in Worker : pc[w] = "wait") => Cardinality(Working) = MachineNumber

\* A worker that waits gets a machine.
WorkerServed == \A w \in Worker : pc[w] = "wait" ~> pc[w] = "work"
=============================================================================
