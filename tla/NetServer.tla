----------------------------- MODULE NetServer -----------------------------
(***************************************************************************)
(* The TCP server of the netcfg component (astronauts_game/common/netcfg,  *)
(* network_server.c): one server task that multiplexes its clients with    *)
(* select(), a global record g_netServer that the API functions change     *)
(* from other threads, and no lock between them.                           *)
(*                                                                         *)
(* FD is the descriptor table of the socket library: accept() takes any    *)
(* descriptor that is not open, so a closed one may come back as another   *)
(* client.  sockfd[0] is reserved for the client that has introduced       *)
(* itself with the special message; the others sit in sockfd[1..].         *)
(*                                                                         *)
(* A read of g_netServer that decides what the next step does, a call into *)
(* the socket library and a write of a slot are steps of their own: what   *)
(* another thread sees between close() and the slot set to -1 is a state.  *)
(* A local variable that goes out of scope is reset.                       *)
(***************************************************************************)
EXTENDS Integers, FiniteSets

CONSTANTS
  FD,           \* descriptors the socket library can hand out
  NoFd,         \* -1, an empty slot
  Listener,     \* the listening socket, as a member of a select() result
  MaxConnect,   \* MAX_CONNECT
  ConnBound     \* bound of the model: clients connect while connAmount is below

ASSUME NetServerAssumption ==
  /\ IsFiniteSet(FD)
  /\ NoFd \notin FD /\ Listener \notin FD /\ NoFd # Listener
  /\ MaxConnect \in Nat /\ MaxConnect >= 2
  /\ ConnBound \in Nat

VARIABLES
  sockfd, connAmount, isActive, serRun,   \* g_netServer
  task, scan, curFd, ready,               \* the server task and its locals
  open, inbox, backlog,                   \* the socket library
  app, deinitIdx, deinitFd,               \* the thread that stops the server
  greeted                                 \* history: the connections on which
                                          \* IsSpecialSocket was answered true

server  == <<sockfd, connAmount>>
flags   == <<isActive, serRun>>
locals  == <<scan, curFd, ready>>
net     == <<open, inbox, backlog>>
appVars == <<app, deinitIdx, deinitFd>>
vars    == <<server, flags, task, locals, net, appVars, greeted>>

Slots == 0 .. MaxConnect - 1

\* What the next recv() on a descriptor returns: nothing yet (it would block),
\* the special message, any other message, or 0 because the peer has gone.
Input == {"none", "special", "data", "eof"}

InSlots == {sockfd[i] : i \in Slots} \ {NoFd}

Occupied == {i \in Slots : sockfd[i] # NoFd}

\* close(f): f is free again, and what was sent on it is lost.
Closed(f) ==
  /\ open' = open \ {f}
  /\ inbox' = [g \in FD |-> IF g = f THEN "none" ELSE inbox[g]]
  /\ greeted' = greeted \ {f}

Listening == task \notin {"top", "poll", "start", "exit"}

\* The state after NetServerInit: slots empty, the task created, not running.
Init ==
  /\ sockfd = [i \in Slots |-> NoFd] /\ connAmount = 0
  /\ isActive = TRUE /\ serRun = FALSE
  /\ task = "top" /\ scan = 0 /\ curFd = NoFd /\ ready = {}
  /\ open = {} /\ inbox = [f \in FD |-> "none"] /\ backlog = 0
  /\ app = "idle" /\ deinitIdx = 0 /\ deinitFd = NoFd
  /\ greeted = {}

(***************************************************************************)
(* The server task.                                                        *)
(***************************************************************************)

\* Mutant: the loop of NetServerTask ends when the server does not run.
TaskLoopRunning ==
  /\ task = "top"
  /\ task' = IF isActive /\ serRun THEN "poll" ELSE "exit"
  /\ UNCHANGED <<server, flags, locals, net, appVars, greeted>>

\* NetServerTask reads isActive, then serRun.
TaskLoop ==
  /\ task = "top"
  /\ task' = IF isActive THEN "poll" ELSE "exit"
  /\ UNCHANGED <<server, flags, locals, net, appVars, greeted>>

TaskPoll ==
  /\ task = "poll"
  /\ task' = IF serRun THEN "start" ELSE "top"
  /\ UNCHANGED <<server, flags, locals, net, appVars, greeted>>

\* StartServer: socket, bind and listen succeed, or one of them fails.
StartServer ==
  /\ task = "start"
  /\ \/ task' = "listen" /\ UNCHANGED serRun
     \/ task' = "top" /\ serRun' = FALSE
  /\ UNCHANGED <<server, isActive, locals, net, appVars, greeted>>

\* SocketListen: the loop condition holds, select() is called.
ListenLoop ==
  /\ task = "listen" /\ serRun
  /\ task' = "select"
  /\ UNCHANGED <<server, flags, locals, net, appVars, greeted>>

\* The loop condition fails: the slots are gone through, one after the other.
ListenEnd ==
  /\ task = "listen" /\ ~serRun
  /\ task' = "end" /\ scan' = 0
  /\ UNCHANGED <<server, flags, curFd, ready, net, appVars, greeted>>

EndSlot ==
  /\ task = "end" /\ scan < MaxConnect
  /\ IF sockfd[scan] # NoFd
       THEN task' = "endClose" /\ UNCHANGED scan
       ELSE scan' = scan + 1 /\ UNCHANGED task
  /\ UNCHANGED <<server, flags, curFd, ready, net, appVars, greeted>>

\* A slot that was in use is read again and what it names is closed, ...
EndClose ==
  /\ task = "endClose"
  /\ Closed(sockfd[scan])
  /\ task' = "endClear"
  /\ UNCHANGED <<server, flags, locals, backlog, appVars>>

\* ... and then it is emptied.
EndClear ==
  /\ task = "endClear"
  /\ sockfd' = [sockfd EXCEPT ![scan] = NoFd]
  /\ task' = "end" /\ scan' = scan + 1
  /\ UNCHANGED <<connAmount, flags, curFd, ready, net, appVars, greeted>>

\* StartServer closes the listening socket, and with it the clients it has not
\* accepted.
EndServer ==
  /\ task = "end" /\ scan = MaxConnect
  /\ backlog' = 0
  /\ task' = "top" /\ scan' = 0
  /\ UNCHANGED <<server, flags, curFd, ready, open, inbox, appVars, greeted>>

\* Mutant: the descriptor set is filled from slot 1 on.
ReadableFromOne == {f \in {sockfd[i] : i \in Slots \ {0}} \ {NoFd} : inbox[f] # "none"}

\* The descriptors in the slots that select() reports.
Readable == {f \in InSlots : inbox[f] # "none"}

\* select() over the descriptors in the slots returns with the readable ones,
\* or times out with none.
Select ==
  /\ task = "select"
  /\ ready' = Readable \union (IF backlog > 0 THEN {Listener} ELSE {})
  /\ scan' = 0
  /\ task' = IF ready' = {} THEN "listen" ELSE "scan"
  /\ UNCHANGED <<server, flags, curFd, net, appVars, greeted>>

\* The for loop over the slots tests one slot ...
ScanSlot ==
  /\ task = "scan" /\ scan < MaxConnect
  /\ IF sockfd[scan] \in ready
       THEN task' = "read" /\ UNCHANGED scan
       ELSE scan' = scan + 1 /\ UNCHANGED task
  /\ UNCHANGED <<server, flags, curFd, ready, net, appVars, greeted>>

ScanEnd ==
  /\ task = "scan" /\ scan = MaxConnect
  /\ task' = "check" /\ scan' = 0
  /\ UNCHANGED <<server, flags, curFd, ready, net, appVars, greeted>>

\* ... and ReadHandle reads it again: it may have been emptied in between.
ReadLoad ==
  /\ task = "read"
  /\ curFd' = sockfd[scan]
  /\ task' = "recv"
  /\ UNCHANGED <<server, flags, scan, ready, net, appVars, greeted>>

\* Mutant: the loop index moves on twice.
ReadDoneTwice == task' = "scan" /\ scan' = scan + 2 /\ curFd' = NoFd

\* ReadHandle returns, and the loop goes on to the next slot.
ReadDone == task' = "scan" /\ scan' = scan + 1 /\ curFd' = NoFd

\* recv() <= 0: the peer has gone, or the descriptor is -1.  It is closed, ...
ReadClosed ==
  /\ task = "recv"
  /\ curFd \in FD => inbox[curFd] = "eof"
  /\ Closed(curFd)
  /\ ready' = ready \ {curFd}
  /\ task' = "closed"
  /\ UNCHANGED <<server, flags, scan, curFd, backlog, appVars>>

\* Mutant: the client that leaves its slot stays in it.
LeaveSlotKept == UNCHANGED sockfd

LeaveSlot == sockfd' = [sockfd EXCEPT ![scan] = NoFd]

\* ... its slot is emptied, ...
ReadCleared ==
  /\ task = "closed"
  /\ LeaveSlot
  /\ task' = "cleared"
  /\ UNCHANGED <<connAmount, flags, locals, net, appVars, greeted>>

\* ... and it is no longer counted.
ReadUncounted ==
  /\ task = "cleared"
  /\ connAmount' = connAmount - 1
  /\ ReadDone
  /\ UNCHANGED <<sockfd, flags, ready, net, appVars, greeted>>

\* IsSpecialSocket, asked only while sockfd[0] is empty.
WantsReserved == inbox[curFd] = "special" /\ sockfd[0] = NoFd

\* The special message, and nobody sits in sockfd[0]: the client leaves its slot ...
ReadSpecial ==
  /\ task = "recv" /\ curFd \in FD
  /\ WantsReserved
  /\ inbox' = [inbox EXCEPT ![curFd] = "none"]
  /\ LeaveSlot
  /\ greeted' = greeted \union {curFd}
  /\ task' = "moving"
  /\ UNCHANGED <<connAmount, flags, locals, open, backlog, appVars>>

\* ... and takes the reserved one.
TakeReserved ==
  /\ task = "moving"
  /\ sockfd' = [sockfd EXCEPT ![0] = curFd]
  /\ ReadDone
  /\ UNCHANGED <<connAmount, flags, ready, net, appVars, greeted>>

\* Any other message goes to the callback and is answered on the same socket.
ReadData ==
  /\ task = "recv" /\ curFd \in FD
  /\ inbox[curFd] \in {"special", "data"} /\ ~WantsReserved
  /\ inbox' = [inbox EXCEPT ![curFd] = "none"]
  /\ ReadDone
  /\ UNCHANGED <<server, flags, ready, open, backlog, appVars, greeted>>

\* CheckNewSocket: no client waits, or accept() fails for want of a descriptor.
CheckNothing ==
  /\ task = "check"
  /\ Listener \notin ready \/ FD \subseteq open
  /\ task' = "listen" /\ ready' = {}
  /\ UNCHANGED <<server, flags, scan, curFd, net, appVars, greeted>>

\* Mutant: the loop over the slots does not test for an empty one.
StoreFirst(f) == sockfd' = [sockfd EXCEPT ![1] = f]

\* Mutant: the loop over the slots begins with the reserved one.
StoreFromZero(f) ==
  LET free == {i \in Slots : sockfd[i] = NoFd} IN
  IF free = {} THEN UNCHANGED sockfd
  ELSE \E first \in free : /\ \A i \in free : first <= i
                           /\ sockfd' = [sockfd EXCEPT ![first] = f]

\* The first empty slot of 1 .. MaxConnect - 1 takes the new descriptor; when
\* there is none the code keeps no reference to it.
Store(f) ==
  LET free == {i \in Slots \ {0} : sockfd[i] = NoFd} IN
  IF free = {} THEN UNCHANGED sockfd
  ELSE \E first \in free : /\ \A i \in free : first <= i
                           /\ sockfd' = [sockfd EXCEPT ![first] = f]

\* Mutant: the new connection is not counted.
AcceptedUncounted ==
  /\ backlog' = backlog - 1 /\ connAmount' = connAmount
  /\ task' = "listen" /\ ready' = {}

\* A connection is counted before the count is compared with the limit.
Accepted ==
  /\ backlog' = backlog - 1 /\ connAmount' = connAmount + 1
  /\ task' = "listen" /\ ready' = {}

\* Below the limit: the connection is kept.
CheckAccept ==
  /\ task = "check" /\ Listener \in ready
  /\ connAmount + 1 < MaxConnect
  /\ \E f \in FD \ open :
       /\ open' = open \union {f}
       /\ Store(f)
  /\ Accepted
  /\ UNCHANGED <<flags, scan, curFd, inbox, appVars, greeted>>

\* Too many clients: the new socket is closed at once; connAmount stays raised.
CheckReject ==
  /\ task = "check" /\ Listener \in ready
  /\ ~(FD \subseteq open)
  /\ connAmount + 1 >= MaxConnect
  /\ Accepted
  /\ UNCHANGED <<sockfd, flags, scan, curFd, open, inbox, appVars, greeted>>

ServerTask ==
  \/ TaskLoop \/ TaskPoll \/ StartServer
  \/ ListenLoop \/ Select
  \/ ListenEnd \/ EndSlot \/ EndClose \/ EndClear \/ EndServer
  \/ ScanSlot \/ ScanEnd
  \/ ReadLoad \/ ReadClosed \/ ReadCleared \/ ReadUncounted
  \/ ReadSpecial \/ TakeReserved \/ ReadData
  \/ CheckNothing \/ CheckAccept \/ CheckReject

(***************************************************************************)
(* The API, called from other threads.                                     *)
(***************************************************************************)

NetServerStart ==
  /\ ~serRun
  /\ serRun' = TRUE
  /\ UNCHANGED <<server, isActive, task, locals, net, appVars, greeted>>

NetServerStop ==
  /\ app = "idle" /\ serRun
  /\ serRun' = FALSE
  /\ UNCHANGED <<server, isActive, task, locals, net, appVars, greeted>>

\* NetServerDeinit clears serRun, shuts every slot down, waits, clears isActive.
NetServerDeinit ==
  /\ app = "idle"
  /\ app' = "deinit" /\ deinitIdx' = 0
  /\ serRun' = FALSE
  /\ UNCHANGED <<server, isActive, task, locals, net, deinitFd, greeted>>

\* A slot in use is read for the call of shutdown(), an empty one is passed over.
DeinitSlot ==
  /\ app = "deinit" /\ deinitIdx < MaxConnect
  /\ IF sockfd[deinitIdx] # NoFd
       THEN /\ deinitFd' = sockfd[deinitIdx] /\ app' = "shut"
            /\ UNCHANGED deinitIdx
       ELSE /\ deinitIdx' = deinitIdx + 1
            /\ UNCHANGED <<app, deinitFd>>
  /\ UNCHANGED <<server, flags, task, locals, net, greeted>>

\* shutdown() makes the next recv() return 0; the descriptor stays open.  It
\* fails on one that the server task has closed in the meantime.
DeinitShut ==
  /\ app = "shut"
  /\ inbox' = [f \in FD |-> IF f = deinitFd /\ f \in open THEN "eof" ELSE inbox[f]]
  /\ app' = "clear" /\ deinitFd' = NoFd
  /\ UNCHANGED <<server, flags, task, locals, open, backlog, deinitIdx, greeted>>

\* The slot is emptied, whoever sits in it by now.
DeinitClear ==
  /\ app = "clear"
  /\ sockfd' = [sockfd EXCEPT ![deinitIdx] = NoFd]
  /\ deinitIdx' = deinitIdx + 1
  /\ app' = "deinit"
  /\ UNCHANGED <<connAmount, flags, task, locals, net, deinitFd, greeted>>

\* Mutant: the task is not told to end.
DeinitDoneActive ==
  /\ app = "deinit" /\ deinitIdx = MaxConnect
  /\ app' = "off"
  /\ UNCHANGED <<server, flags, task, locals, net, deinitIdx, deinitFd, greeted>>

DeinitDone ==
  /\ app = "deinit" /\ deinitIdx = MaxConnect
  /\ isActive' = FALSE
  /\ app' = "off"
  /\ UNCHANGED <<server, serRun, task, locals, net, deinitIdx, deinitFd, greeted>>

AppStep == DeinitSlot \/ DeinitShut \/ DeinitClear \/ DeinitDone

(***************************************************************************)
(* The clients.                                                            *)
(***************************************************************************)

ClientConnect ==
  /\ Listening
  /\ connAmount + backlog < ConnBound
  /\ backlog' = backlog + 1
  /\ UNCHANGED <<server, flags, task, locals, open, inbox, appVars, greeted>>

\* A client sends a message or closes its end.
ClientInput(f, m) ==
  /\ f \in open /\ inbox[f] = "none"
  /\ inbox' = [inbox EXCEPT ![f] = m]
  /\ UNCHANGED <<server, flags, task, locals, open, backlog, appVars, greeted>>

Client == ClientConnect \/ \E f \in FD, m \in Input \ {"none"} : ClientInput(f, m)

Next ==
  \/ ServerTask
  \/ NetServerStart \/ NetServerStop \/ NetServerDeinit \/ AppStep
  \/ Client

\* The RTOS schedules every thread that is ready: the server task, and the
\* thread inside NetServerDeinit.  Nothing obliges a client or a caller to act.
Fairness == WF_vars(ServerTask) /\ WF_vars(AppStep)

Spec == Init /\ [][Next]_vars

FairSpec == Spec /\ Fairness

(***************************************************************************)
(* Properties.                                                             *)
(***************************************************************************)

\* The type invariant of the module.
TypeOK ==
  /\ sockfd \in [Slots -> FD \union {NoFd}]
  /\ connAmount \in Int
  /\ isActive \in BOOLEAN /\ serRun \in BOOLEAN
  /\ task \in {"top", "poll", "start", "listen", "select", "scan", "read",
               "recv", "closed", "cleared", "moving", "check",
               "end", "endClose", "endClear", "exit"}
  /\ scan \in 0 .. MaxConnect
  /\ curFd \in FD \union {NoFd}
  /\ ready \subseteq FD \union {Listener}
  /\ open \subseteq FD
  /\ inbox \in [FD -> Input]
  /\ backlog \in Nat
  /\ app \in {"idle", "deinit", "shut", "clear", "off"}
  /\ deinitIdx \in 0 .. MaxConnect
  /\ app \in {"shut", "clear"} => deinitIdx < MaxConnect
  /\ deinitFd \in FD \union {NoFd}
  /\ greeted \subseteq FD

\* connAmount never understates the connections held: it covers every occupied
\* slot, the client on its way from its slot to the reserved one, and the
\* decrement ReadHandle is about to make for a slot that is empty already, by
\* its own hand or because NetServerDeinit has emptied it.  Were it smaller,
\* CheckNewSocket would accept a client it has no slot for.
Emptied ==
  \/ task \in {"read", "recv", "closed", "cleared"} /\ sockfd[scan] = NoFd
  \/ task = "moving"
CountCovers ==
  Cardinality(Occupied) + (IF Emptied THEN 1 ELSE 0) <= connAmount

\* The slot whose connection the server task has closed and not yet emptied.
Closing == IF task \in {"closed", "endClear"} THEN {scan} ELSE {}

\* No descriptor sits in two slots, and every slot names an open descriptor but
\* the one the server task is closing, between close() and the slot set to -1:
\* after a close, a reuse by accept() or the move to sockfd[0], a slot never
\* refers to somebody else's connection, and an API function that reads the
\* slots meets a stale number in that one slot at most.
SlotsSound ==
  /\ \A i, j \in Occupied : sockfd[i] = sockfd[j] => i = j
  /\ \A i \in Occupied \ Closing : sockfd[i] \in open

\* Until NetServerDeinit is called, an accepted connection is in a slot or on its
\* way to the reserved one: the server task loses none of them, whatever the
\* clients, NetServerStart and NetServerStop do.
Moving == IF task = "moving" THEN {curFd} ELSE {}
NoLeak == app = "idle" => open \subseteq InSlots \union Moving

\* The reserved slot belongs to the client that NetServerSendMsg is for.  Whoever
\* sits in it has introduced himself on that very connection, however often its
\* descriptor was closed and handed out anew; and until NetServerDeinit a client
\* that was taken for it stays in it, or is being moved there, as long as its
\* connection is open: no later client, scan or restart displaces it.
ReservedForGreeter ==
  /\ sockfd[0] \in open => sockfd[0] \in greeted
  /\ app = "idle" => greeted \subseteq {sockfd[0]} \union Moving

\* A message a connected client has sent is read (and answered, or its sender
\* moved to slot 0), as long as the server is left running.
RequestServed ==
  (<>[]serRun /\ [](app = "idle"))
    => \A f \in FD : inbox[f] \in {"special", "data"} ~> inbox[f] \notin {"special", "data"}

\* A server that is suspended for good ends up holding no connection in its
\* slots, with its task back in the outer loop.
SuspendCloses == <>[](~serRun) => <>[](InSlots = {} /\ ~Listening)

\* Once NetServerDeinit has finished and nobody starts the server again, the
\* server task ends.
DeinitEndsTask == (<>(app = "off") /\ <>[](~serRun)) => <>[](task = "exit")

\* Both ends of serving: by NetServerStop for good, and by NetServerDeinit.
StopsServing == SuspendCloses /\ DeinitEndsTask

\* A client is turned away only when as many connections as fit beside the
\* reserved slot are held, which is what the log line of that branch says
\* ("max connections arrive", network_server.c).
RejectOnlyWhenFull ==
  [][ (app = "idle" /\ task = "check" /\ connAmount' > connAmount /\ open' = open)
        => Cardinality(Occupied) >= MaxConnect - 1 ]_vars
=============================================================================
