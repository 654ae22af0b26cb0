----------------------------- MODULE MCSamples -----------------------------
(***************************************************************************)
(* Instance: one board, whose image is one of the programs that show the   *)
(* kernel: threads and timers, a mutex, a message queue, semaphores.  The  *)
(* image is chosen when the board starts, and nothing else then runs.      *)
(***************************************************************************)
EXTENDS Semp

CONSTANTS
  MutexThread, MaxValue, Sender, Receiver, QueueSize, MaxCount, Worker, MachineNumber, Word, MaxElapsed

VARIABLES image,
  owner, waiting, value, mutexPc, mutexLoaded, mutexTerminated, increments,
  queue, blocked, count, messagePc, entry, messageTerminated, put,
  semMachine, sempPc,
  demo, kernelPc, wake, now, timer, times, thread, kernelCount, elapsed

\* No thread is NULL and none both sends and receives; there is room for a message and a
\* machine; the tick counter is wider than any wait of the programs.
ASSUME SamplesAssumption ==
  /\ 0 \notin MutexThread /\ MaxValue \in Nat
  /\ Sender \intersect Receiver = {} /\ IsFiniteSet(Sender)
  /\ QueueSize \in Nat \ {0} /\ MaxCount \in Nat
  /\ IsFiniteSet(Worker) /\ MachineNumber \in Nat \ {0}
  /\ Word \in Nat /\ Word > 40 /\ MaxElapsed \in Nat

Mutex == INSTANCE MutexDemo
  WITH Thread <- MutexThread, pc <- mutexPc, loaded <- mutexLoaded, terminated <- mutexTerminated
Message == INSTANCE MessageDemo WITH pc <- messagePc, terminated <- messageTerminated
Machines == INSTANCE SempBasic WITH pc <- sempPc
Kernel == INSTANCE KernelDemo WITH pc <- kernelPc, count <- kernelCount

mutexVars == <<owner, waiting, value, mutexPc, mutexLoaded, mutexTerminated, increments>>
messageVars == <<queue, blocked, count, messagePc, entry, messageTerminated, put>>
machineVars == <<semMachine, sempPc>>
kernelVars == <<demo, kernelPc, wake, now, timer, times, thread, kernelCount, elapsed>>
boardVars == <<image, vars, mutexVars, messageVars, machineVars, kernelVars>>

BoardInit ==
  /\ image \in {"semp", "mutex", "message", "machines", "kernel"}
  /\ Init /\ Mutex!Init /\ Message!Init /\ Machines!Init /\ Kernel!Init
  /\ image # "kernel" => demo = "delay" /\ now = 0

SempStep ==
  image = "semp" /\ Next /\ UNCHANGED <<image, mutexVars, messageVars, machineVars, kernelVars>>
MutexStep ==
  image = "mutex" /\ Mutex!Next /\ UNCHANGED <<image, vars, messageVars, machineVars, kernelVars>>
MessageStep ==
  image = "message" /\ Message!Next /\ UNCHANGED <<image, vars, mutexVars, machineVars, kernelVars>>
MachineStep ==
  image = "machines" /\ Machines!Next /\ UNCHANGED <<image, vars, mutexVars, messageVars, kernelVars>>
KernelStep ==
  image = "kernel" /\ Kernel!Next /\ UNCHANGED <<image, vars, mutexVars, messageVars, machineVars>>

BoardNext == SempStep \/ MutexStep \/ MessageStep \/ MachineStep \/ KernelStep

\* A thread that can run is scheduled, as the kernel's round robin has it; the machines are
\* taken up fairly for as long as no one ends the threads.
BoardFairness ==
  /\ \A p \in Producer : WF_vars(image = "semp" /\ p \in Alive /\ producer_thread(p))
  /\ \A c \in Consumer : WF_vars(image = "semp" /\ c \in Alive /\ consumer_thread(c))
  /\ \A s \in Sender : WF_messageVars(image = "message" /\ s \notin messageTerminated /\ Message!sender_thread(s))
  /\ \A r \in Receiver : WF_messageVars(image = "message" /\ r \notin messageTerminated /\ Message!Get(r))
  /\ WF_machineVars(image = "machines" /\ Machines!Create)
  /\ \A w \in Worker : WF_machineVars(image = "machines" /\ Machines!worker_thread(w))
  /\ WF_kernelVars(image = "kernel" /\ Kernel!Main)
  /\ WF_kernelVars(image = "kernel" /\ Kernel!Callback)
  /\ WF_kernelVars(image = "kernel" /\ Kernel!threadTest)
  /\ WF_kernelVars(image = "kernel" /\ Kernel!Tick)

BoardSpec == BoardInit /\ [][BoardNext]_boardVars /\ BoardFairness

\* The properties of the modules, each for the image it is about: in the others the state of
\* the module rests at its start, where the invariants hold too.

\* MutexDemo: whatever times out and whoever is ended, the mutex has one owner, is not free
\* while one waits for it, and no increment is lost.
MutexSafe == Mutex!TypeOK /\ Mutex!MutexSound /\ Mutex!NoLostUpdate

\* MessageDemo: a sender waits for a full queue only and gets its message in, and no message
\* carries a number ahead of those before it.
MessagesGoOn ==
  /\ [](Message!TypeOK /\ Message!BlockedSound /\ Message!CountBehind)
  /\ (image = "message" => Message!SenderGoesOn)

\* SempBasic: no more workers than machines, none waits for a free one, and each has its turn.
WorkersServed ==
  /\ [](Machines!TypeOK /\ Machines!MachinesShared)
  /\ (image = "machines" => Machines!WorkerServed)

\* KernelDemo: a timer calls as often as it has periods, the counting thread keeps its pace,
\* and neither keeps the main thread from its end.
MainUndisturbed ==
  /\ [](Kernel!TypeOK /\ Kernel!TimerCalls /\ Kernel!CountPaced)
  /\ (image = "kernel" => Kernel!MainEnds)
=============================================================================
