-------------------------- MODULE NetServerProofs --------------------------
(***************************************************************************)
(* Safety of the TCP server for every number of slots and descriptors: the *)
(* count of connections covers the slots, no descriptor is in two slots or *)
(* closed while in one but during the close itself, none is lost before    *)
(* NetServerDeinit, and the reserved slot stays with whom it was given to. *)
(***************************************************************************)
EXTENDS NetServer, FiniteSetTheorems, TLAPS

\* The scans stay inside the slots.
ScanInv ==
  task \in {"read", "recv", "closed", "cleared", "moving", "endClose", "endClear"}
    => scan \in Slots

\* While ReadHandle works on a slot, the descriptor it has loaded is open until it
\* closes it, and it is the slot's unless NetServerDeinit has emptied the slot
\* meanwhile; on its way to the reserved slot it is in none.
ReadInv ==
  /\ task \in {"recv", "closed"} =>
       /\ sockfd[scan] \in {curFd, NoFd}
       /\ sockfd[scan] = NoFd => curFd \notin InSlots
  /\ task = "recv" /\ curFd \in FD => curFd \in open
  /\ task = "cleared" => sockfd[scan] = NoFd
  /\ task = "moving" =>
       /\ sockfd[0] = NoFd
       /\ curFd \in open /\ curFd \in greeted /\ curFd \notin InSlots

\* Nothing is left open of a slot that is about to be emptied.
CloseInv == task \in {"closed", "endClear"} => sockfd[scan] \notin open

\* Who has introduced himself is connected: close() forgets him.
GreetInv == greeted \subseteq open

\* The listening socket is reported readable only while a client waits.
WaitInv ==
  (task \in {"scan", "read", "recv", "closed", "cleared", "moving", "check"}
      /\ Listener \in ready)
    => backlog > 0

Inner == ScanInv /\ ReadInv /\ CloseInv /\ GreetInv /\ WaitInv

IInv == TypeOK /\ CountCovers /\ SlotsSound /\ NoLeak /\ ReservedForGreeter /\ Inner

(***************************************************************************)
(* Facts about the set of occupied slots.                                  *)
(***************************************************************************)

\* There are MaxConnect slots, and one less beside the reserved one.
LEMMA SlotsCount ==
  /\ IsFiniteSet(Slots) /\ Cardinality(Slots) = MaxConnect
  /\ IsFiniteSet(Slots \ {0}) /\ Cardinality(Slots \ {0}) = MaxConnect - 1
<1>1. IsFiniteSet(Slots) /\ Cardinality(Slots) = MaxConnect
  BY NetServerAssumption, FS_Interval, SMT DEF Slots
<1>2. 0 \in Slots
  BY NetServerAssumption DEF Slots
<1>. QED
  BY <1>1, <1>2, FS_RemoveElement

\* The occupied slots form a finite set.
LEMMA OccupiedFinite == IsFiniteSet(Occupied) /\ Cardinality(Occupied) \in Nat
<1>1. Occupied \in SUBSET Slots
  BY DEF Occupied
<1>. QED
  BY <1>1, SlotsCount, FS_Subset, FS_CardinalityType

\* Emptying one slot takes it from the occupied ones.
LEMMA EmptySlot ==
  ASSUME TypeOK, NEW i \in Slots, sockfd' = [sockfd EXCEPT ![i] = NoFd]
  PROVE  /\ Occupied' = Occupied \ {i}
         /\ InSlots' \subseteq InSlots
         /\ Cardinality(Occupied') = IF sockfd[i] = NoFd THEN Cardinality(Occupied)
                                                         ELSE Cardinality(Occupied) - 1
<1>1. Occupied' = Occupied \ {i}
  BY DEF TypeOK, Occupied
<1>2. i \in Occupied <=> sockfd[i] # NoFd
  BY DEF Occupied
<1>3. InSlots' \subseteq InSlots
  BY DEF TypeOK, InSlots
<1>. QED
  BY <1>1, <1>2, <1>3, OccupiedFinite, FS_RemoveElement

\* Filling an empty slot adds it to them.
LEMMA FillSlot ==
  ASSUME TypeOK, NEW i \in Slots, NEW f \in FD, sockfd[i] = NoFd,
         sockfd' = [sockfd EXCEPT ![i] = f]
  PROVE  /\ Occupied' = Occupied \union {i}
         /\ InSlots' = InSlots \union {f}
         /\ Cardinality(Occupied') = Cardinality(Occupied) + 1
<1>1. Occupied' = Occupied \union {i}
  BY NetServerAssumption DEF TypeOK, Occupied
<1>2. i \notin Occupied
  BY DEF Occupied
<1>3. InSlots' = InSlots \union {f}
  BY NetServerAssumption DEF TypeOK, InSlots
<1>. QED
  BY <1>1, <1>2, <1>3, OccupiedFinite, FS_AddElement

\* When the count leaves room, a slot beside the reserved one is empty.
LEMMA RoomMeansFree ==
  ASSUME TypeOK, CountCovers, connAmount + 1 < MaxConnect
  PROVE  \E i \in Slots \ {0} : sockfd[i] = NoFd
<1>. SUFFICES ASSUME \A i \in Slots \ {0} : sockfd[i] # NoFd PROVE FALSE
  OBVIOUS
<1>1. Slots \ {0} \in SUBSET Occupied
  BY DEF Occupied
<1>2. MaxConnect - 1 <= Cardinality(Occupied)
  BY <1>1, SlotsCount, OccupiedFinite, FS_Subset
<1>3. Cardinality(Occupied) <= connAmount
  BY OccupiedFinite DEF CountCovers, TypeOK
<1>. QED
  BY <1>2, <1>3, OccupiedFinite, NetServerAssumption DEF TypeOK

(***************************************************************************)
(* The invariant.                                                          *)
(***************************************************************************)

\* NetServerInit establishes the invariant.
LEMMA InitInv == Init => IInv
<1>. SUFFICES ASSUME Init PROVE IInv
  OBVIOUS
<1>1. Occupied = {} /\ InSlots = {}
  BY DEF Init, Occupied, InSlots
<1>2. Cardinality(Occupied) = 0
  BY <1>1, FS_EmptySet
<1>3. TypeOK
  <2>1. sockfd \in [Slots -> FD \union {NoFd}] /\ inbox \in [FD -> Input]
    BY DEF Init, Input
  <2>2. scan \in 0 .. MaxConnect /\ deinitIdx \in 0 .. MaxConnect
        /\ deinitFd \in FD \union {NoFd}
    BY NetServerAssumption DEF Init
  <2>3. isActive \in BOOLEAN /\ serRun \in BOOLEAN
    BY DEF Init
  <2>4. connAmount \in Int /\ backlog \in Nat
    BY DEF Init
  <2>5. ready \subseteq FD \union {Listener} /\ open \subseteq FD /\ greeted \subseteq FD
    BY DEF Init
  <2>6. curFd \in FD \union {NoFd}
    BY DEF Init
  <2>7. task = "top" /\ app = "idle"
    BY DEF Init
  <2>. QED
    BY <2>1, <2>2, <2>3, <2>4, <2>5, <2>6, <2>7 DEF TypeOK
<1>4. CountCovers
  BY <1>2 DEF Init, CountCovers, Emptied
<1>5. SlotsSound /\ NoLeak /\ ReservedForGreeter /\ Inner
  BY <1>1 DEF Init, SlotsSound, NoLeak, ReservedForGreeter, Inner, ScanInv, ReadInv, CloseInv,
              GreetInv, WaitInv
<1>. QED
  BY <1>3, <1>4, <1>5 DEF IInv

\* Steps that leave the slots and the sockets alone.
QuietTask ==
  \/ TaskLoop \/ TaskPoll \/ StartServer \/ ListenLoop \/ ListenEnd \/ EndSlot \/ EndServer
  \/ Select \/ ScanSlot \/ ScanEnd \/ ReadLoad \/ ReadData \/ CheckNothing
QuietApi ==
  \/ NetServerStart \/ NetServerStop \/ NetServerDeinit
  \/ DeinitSlot \/ DeinitShut \/ DeinitDone \/ Client \/ UNCHANGED vars

\* Those of the server task preserve the invariant.
LEMMA QuietTaskStep ==
  ASSUME IInv, QuietTask
  PROVE  IInv'
<1>. USE NetServerAssumption DEF IInv, Inner, server, flags, locals, net, appVars
<1>1. /\ sockfd' = sockfd /\ connAmount' = connAmount /\ open' = open /\ greeted' = greeted
      /\ app' = app /\ deinitIdx' = deinitIdx /\ deinitFd' = deinitFd /\ isActive' = isActive
  BY DEF QuietTask, TaskLoop, TaskPoll, StartServer, ListenLoop, ListenEnd, EndSlot, EndServer,
         Select, ScanSlot, ScanEnd, ReadLoad, ReadData, CheckNothing
<1>2. Occupied' = Occupied /\ InSlots' = InSlots
  BY <1>1 DEF Occupied, InSlots
<1>3. /\ task \notin {"closed", "cleared", "moving", "endClose", "endClear"}
      /\ task' \notin {"closed", "cleared", "moving", "endClear"}
  BY DEF QuietTask, TaskLoop, TaskPoll, StartServer, ListenLoop, ListenEnd, EndSlot, EndServer,
         Select, ScanSlot, ScanEnd, ReadLoad, ReadData, ReadDone, CheckNothing
<1>4. TypeOK'
  <2>1. CASE TaskLoop \/ TaskPoll \/ StartServer \/ ListenLoop \/ CheckNothing
    BY <2>1, <1>1 DEF TypeOK, TaskLoop, TaskPoll, StartServer, ListenLoop, CheckNothing
  <2>6. CASE ListenEnd
    <3>1. scan' \in 0 .. MaxConnect
      BY <2>6 DEF ListenEnd
    <3>. QED
      BY <2>6, <1>1, <3>1 DEF TypeOK, ListenEnd
  <2>2. CASE ScanSlot \/ ScanEnd \/ ReadLoad
    BY <2>2, <1>1 DEF TypeOK, Slots, ScanInv, ScanSlot, ScanEnd, ReadLoad
  <2>3. CASE Select
    BY <2>3, <1>1 DEF TypeOK, Readable, InSlots, Slots, Select
  <2>4. CASE EndSlot \/ EndServer
    BY <2>4, <1>1 DEF TypeOK, EndSlot, EndServer
  <2>5. CASE ReadData
    BY <2>5, <1>1 DEF TypeOK, Input, Slots, ScanInv, ReadData, ReadDone
  <2>. QED
    BY <2>1, <2>2, <2>3, <2>4, <2>5, <2>6 DEF QuietTask
<1>5. ScanInv'
  BY <1>1 DEF ScanInv, TypeOK, Slots, QuietTask, TaskLoop, TaskPoll, StartServer, ListenLoop,
         ListenEnd, EndSlot, EndServer, Select, ScanSlot, ScanEnd, ReadLoad, ReadData, ReadDone,
         CheckNothing
<1>6. ReadInv'
  <2>1. task' = "recv" => ReadLoad
    BY <1>3 DEF QuietTask, TaskLoop, TaskPoll, StartServer, ListenLoop, ListenEnd, EndSlot,
         EndServer, Select, ScanSlot, ScanEnd, ReadLoad, ReadData, ReadDone, CheckNothing
  <2>2. CASE ReadLoad
    <3>1. scan \in Slots /\ curFd' = sockfd[scan] /\ scan' = scan
      BY <2>2 DEF ReadLoad, ScanInv
    <3>2. curFd' \in FD => curFd' \in open
      BY <2>2, <3>1 DEF ReadLoad, SlotsSound, Closing, Occupied
    <3>3. NoFd \notin InSlots
      BY DEF InSlots
    <3>. QED
      BY <1>1, <1>2, <1>3, <3>1, <3>2, <3>3 DEF ReadInv
  <2>. QED
    BY <2>1, <2>2, <1>3 DEF ReadInv
<1>7. CloseInv' /\ GreetInv'
  BY <1>1, <1>3 DEF CloseInv, GreetInv
<1>8. WaitInv'
  BY <1>3 DEF WaitInv, TypeOK, Readable, InSlots, Slots, QuietTask, TaskLoop, TaskPoll,
         StartServer, ListenLoop, ListenEnd, EndSlot, EndServer, Select, ScanSlot, ScanEnd,
         ReadLoad, ReadData, ReadDone, CheckNothing
<1>9. Emptied' => Emptied
  BY <1>1, <1>3 DEF Emptied, TypeOK, QuietTask, TaskLoop, TaskPoll, StartServer, ListenLoop,
         ListenEnd, EndSlot, EndServer, Select, ScanSlot, ScanEnd, ReadLoad, ReadData, ReadDone,
         CheckNothing
<1>10. CountCovers'
  BY <1>1, <1>2, <1>9, OccupiedFinite DEF CountCovers, TypeOK
<1>11. SlotsSound' /\ NoLeak' /\ ReservedForGreeter'
  BY <1>1, <1>2, <1>3 DEF SlotsSound, Closing, NoLeak, ReservedForGreeter, Moving
<1>. QED
  BY <1>4, <1>5, <1>6, <1>7, <1>8, <1>10, <1>11

\* So do those of the API and of the clients.
LEMMA QuietApiStep ==
  ASSUME IInv, QuietApi
  PROVE  IInv'
<1>. USE NetServerAssumption DEF IInv, Inner, server, flags, locals, net, appVars
<1>1. /\ sockfd' = sockfd /\ connAmount' = connAmount /\ open' = open /\ greeted' = greeted
      /\ task' = task /\ scan' = scan /\ curFd' = curFd /\ ready' = ready
  BY DEF QuietApi, NetServerStart, NetServerStop, NetServerDeinit, DeinitSlot, DeinitShut,
         DeinitDone, Client, ClientConnect, ClientInput, vars
<1>2. Occupied' = Occupied /\ InSlots' = InSlots
  BY <1>1 DEF Occupied, InSlots
<1>3. (app' = "idle" => app = "idle") /\ (backlog \in Nat => backlog' >= backlog)
  BY DEF QuietApi, NetServerStart, NetServerStop, NetServerDeinit, DeinitSlot, DeinitShut,
         DeinitDone, Client, ClientConnect, ClientInput, vars
<1>4. TypeOK'
  <2>1. CASE Client
    BY <2>1 DEF TypeOK, Input, Client, ClientConnect, ClientInput
  <2>2. CASE NetServerStart \/ NetServerStop \/ DeinitDone \/ UNCHANGED vars
    BY <2>2 DEF TypeOK, NetServerStart, NetServerStop, DeinitDone, vars
  <2>3. CASE NetServerDeinit
    <3>1. deinitIdx' \in 0 .. MaxConnect
      BY <2>3 DEF NetServerDeinit
    <3>. QED
      BY <2>3, <3>1 DEF TypeOK, NetServerDeinit
  <2>4. CASE DeinitSlot
    BY <2>4 DEF TypeOK, Slots, DeinitSlot
  <2>5. CASE DeinitShut
    BY <2>5 DEF TypeOK, Input, DeinitShut
  <2>. QED
    BY <2>1, <2>2, <2>3, <2>4, <2>5 DEF QuietApi
<1>5. ScanInv' /\ ReadInv' /\ CloseInv' /\ GreetInv'
  BY <1>1, <1>2 DEF ScanInv, ReadInv, CloseInv, GreetInv
<1>6. WaitInv'
  BY <1>1, <1>3, <1>4 DEF WaitInv, TypeOK
<1>7. CountCovers'
  BY <1>1, <1>2 DEF CountCovers, Emptied
<1>8. SlotsSound' /\ NoLeak' /\ ReservedForGreeter'
  BY <1>1, <1>2, <1>3 DEF SlotsSound, Closing, NoLeak, ReservedForGreeter, Moving
<1>. QED
  BY <1>4, <1>5, <1>6, <1>7, <1>8

(***************************************************************************)
(* Closing a connection: close(), the slot, the count.                     *)
(***************************************************************************)

\* ReadHandle and the end of the listen loop close what their slot names: from
\* then on the slot is the one that names a closed descriptor.
LEMMA CloseStep ==
  ASSUME IInv, ReadClosed \/ EndClose
  PROVE  IInv'
<1> DEFINE x == IF task = "recv" THEN curFd ELSE sockfd[scan]
<1>. USE NetServerAssumption DEF IInv, Inner
<1>1. /\ sockfd' = sockfd /\ connAmount' = connAmount /\ app' = app /\ scan' = scan
      /\ curFd' = curFd /\ backlog' = backlog /\ ready' \subseteq ready
      /\ deinitIdx' = deinitIdx /\ deinitFd' = deinitFd /\ isActive' = isActive
      /\ serRun' = serRun
      /\ \/ task = "recv" /\ task' = "closed"
         \/ task = "endClose" /\ task' = "endClear"
  BY DEF ReadClosed, EndClose, server, flags, locals, appVars
<1>2. /\ open' = open \ {x} /\ greeted' = greeted \ {x}
      /\ inbox' = [g \in FD |-> IF g = x THEN "none" ELSE inbox[g]]
  BY DEF ReadClosed, EndClose, Closed
<1>3. Occupied' = Occupied /\ InSlots' = InSlots
  BY <1>1 DEF Occupied, InSlots
<1>4. scan \in Slots /\ sockfd[scan] \in {x, NoFd} /\ Closing = {} /\ Closing' = {scan}
  BY <1>1 DEF ScanInv, ReadInv, Closing
<1>5. sockfd[scan] = NoFd => x \notin InSlots
  BY <1>1 DEF ReadInv, InSlots
<1>6. TypeOK'
  BY <1>1, <1>2 DEF TypeOK, Input
<1>7. CountCovers'
  BY <1>1, <1>3 DEF CountCovers, Emptied
<1>8. SlotsSound'
  <2>. SUFFICES ASSUME NEW i \in Occupied, i # scan PROVE sockfd[i] \in open \ {x}
    BY <1>1, <1>2, <1>3, <1>4 DEF SlotsSound
  <2>1. i \in Slots /\ sockfd[i] \in open /\ sockfd[i] \in InSlots
    BY <1>4 DEF SlotsSound, Occupied, InSlots
  <2>2. sockfd[i] # x
    BY <2>1, <1>4, <1>5 DEF SlotsSound, Occupied
  <2>. QED
    BY <2>1, <2>2
<1>9. NoLeak' /\ ReservedForGreeter'
  BY <1>1, <1>2, <1>3 DEF NoLeak, ReservedForGreeter, Moving
<1>10. ScanInv' /\ GreetInv' /\ WaitInv'
  BY <1>1, <1>2, <1>4 DEF ScanInv, GreetInv, WaitInv
<1>11. CloseInv'
  BY <1>1, <1>2, <1>4 DEF CloseInv, TypeOK
<1>12. ReadInv'
  BY <1>1, <1>3 DEF ReadInv
<1>. QED
  BY <1>6, <1>7, <1>8, <1>9, <1>10, <1>11, <1>12

\* Then they empty it: nothing open is lost with it.
LEMMA ClearStep ==
  ASSUME IInv, ReadCleared \/ EndClear
  PROVE  IInv'
<1>. USE NetServerAssumption DEF IInv, Inner
<1>1. /\ sockfd' = [sockfd EXCEPT ![scan] = NoFd] /\ connAmount' = connAmount /\ app' = app
      /\ open' = open /\ greeted' = greeted /\ inbox' = inbox /\ backlog' = backlog
      /\ curFd' = curFd /\ ready' = ready
      /\ deinitIdx' = deinitIdx /\ deinitFd' = deinitFd /\ isActive' = isActive
      /\ serRun' = serRun
      /\ \/ task = "closed" /\ task' = "cleared" /\ scan' = scan
         \/ task = "endClear" /\ task' = "end" /\ scan' = scan + 1
  BY DEF ReadCleared, LeaveSlot, EndClear, flags, locals, net, appVars
<1>2. scan \in Slots /\ sockfd[scan] \notin open
  BY <1>1 DEF ScanInv, CloseInv
<1>3. /\ Occupied' = Occupied \ {scan} /\ InSlots' \subseteq InSlots
      /\ Cardinality(Occupied') = IF sockfd[scan] = NoFd THEN Cardinality(Occupied)
                                                         ELSE Cardinality(Occupied) - 1
  BY <1>1, <1>2, EmptySlot
<1>4. TypeOK'
  BY <1>1, <1>2 DEF TypeOK, Slots
<1>5. CountCovers'
  <2>1. Emptied => sockfd[scan] = NoFd
    BY <1>1 DEF Emptied
  <2>2. Emptied' => task = "closed"
    BY <1>1 DEF Emptied
  <2>3. task = "closed" /\ sockfd[scan] = NoFd => Emptied
    BY DEF Emptied
  <2>. QED
    BY <1>1, <1>3, <2>1, <2>2, <2>3, OccupiedFinite DEF CountCovers, TypeOK
<1>6. \A i \in Occupied' : i \in Occupied /\ i # scan /\ sockfd'[i] = sockfd[i]
  BY <1>1, <1>2, <1>3 DEF TypeOK, Occupied
<1>7. SlotsSound'
  BY <1>1, <1>6 DEF SlotsSound, Closing
<1>8. NoLeak'
  <2>. SUFFICES ASSUME app = "idle", NEW f \in open PROVE f \in InSlots'
    BY <1>1 DEF NoLeak
  <2>1. PICK i \in Slots : sockfd[i] = f /\ f # NoFd
    BY <1>1 DEF NoLeak, Moving, InSlots
  <2>. QED
    BY <1>1, <1>2, <2>1 DEF InSlots, TypeOK
<1>9. ReservedForGreeter'
  <2>1. sockfd'[0] = sockfd[0] \/ (sockfd'[0] = NoFd /\ sockfd[0] \notin open)
    BY <1>1, <1>2 DEF TypeOK, Slots
  <2>2. NoFd \notin open
    BY DEF TypeOK
  <2>. QED
    BY <1>1, <2>1, <2>2 DEF ReservedForGreeter, Moving, GreetInv
<1>10. Inner'
  BY <1>1, <1>2 DEF ScanInv, ReadInv, CloseInv, GreetInv, WaitInv, TypeOK
<1>. QED
  BY <1>4, <1>5, <1>7, <1>8, <1>9, <1>10

\* At last ReadHandle takes the connection out of the count.
LEMMA UncountStep ==
  ASSUME IInv, ReadUncounted
  PROVE  IInv'
<1>. USE NetServerAssumption DEF IInv, Inner, ReadUncounted, ReadDone, flags, net, appVars
<1>1. Occupied' = Occupied /\ InSlots' = InSlots
  BY DEF Occupied, InSlots
<1>2. TypeOK'
  BY DEF TypeOK, Slots, ScanInv
<1>3. CountCovers'
  BY <1>1, OccupiedFinite DEF CountCovers, Emptied, ReadInv, TypeOK
<1>4. SlotsSound' /\ NoLeak' /\ ReservedForGreeter'
  BY <1>1 DEF SlotsSound, Closing, NoLeak, ReservedForGreeter, Moving
<1>5. Inner'
  BY <1>1 DEF ScanInv, ReadInv, CloseInv, GreetInv, WaitInv
<1>. QED
  BY <1>2, <1>3, <1>4, <1>5

(***************************************************************************)
(* The move to the reserved slot.                                          *)
(***************************************************************************)

\* The client that introduces itself while nobody holds the reserved slot leaves
\* its own; nobody else who has done so is connected.
LEMMA ReadSpecialStep ==
  ASSUME IInv, ReadSpecial
  PROVE  IInv'
<1>. USE NetServerAssumption
     DEF IInv, Inner, ReadSpecial, WantsReserved, LeaveSlot, flags, locals, appVars
<1>1. scan \in Slots /\ sockfd[scan] \in {curFd, NoFd} /\ curFd \in open /\ curFd # NoFd
  BY DEF ScanInv, ReadInv
<1>2. /\ Occupied' = Occupied \ {scan} /\ InSlots' \subseteq InSlots
      /\ Cardinality(Occupied') = IF sockfd[scan] = NoFd THEN Cardinality(Occupied)
                                                         ELSE Cardinality(Occupied) - 1
  BY <1>1, EmptySlot
<1>3. TypeOK'
  BY DEF TypeOK, Input
<1>4. CountCovers'
  BY <1>2, OccupiedFinite DEF CountCovers, Emptied, TypeOK
<1>5. \A i \in Occupied' : i \in Occupied /\ i # scan /\ sockfd'[i] = sockfd[i]
  BY <1>1, <1>2 DEF TypeOK, Occupied
<1>6. SlotsSound'
  BY <1>5 DEF SlotsSound, Closing
<1>7. curFd \notin InSlots'
  <2>. SUFFICES ASSUME NEW i \in Slots, sockfd'[i] = curFd PROVE FALSE
    BY DEF InSlots
  <2>1. i \in Occupied /\ i # scan /\ sockfd[i] = curFd
    BY <1>1, <1>5 DEF Occupied
  <2>2. curFd \in InSlots
    BY <1>1, <2>1 DEF InSlots, Occupied
  <2>. QED
    BY <1>1, <2>1, <2>2 DEF ReadInv, SlotsSound, Occupied
<1>8. NoLeak'
  <2>. SUFFICES ASSUME app = "idle", NEW f \in open, f # curFd PROVE f \in InSlots'
    BY DEF NoLeak, Moving
  <2>1. PICK i \in Slots : sockfd[i] = f /\ f # NoFd
    BY DEF NoLeak, Moving, InSlots
  <2>. QED
    BY <1>1, <2>1 DEF InSlots, TypeOK
<1>9. sockfd'[0] = NoFd
  BY <1>1 DEF TypeOK, Slots
<1>10. NoFd \notin open /\ NoFd \notin greeted
  BY DEF TypeOK
<1>11. ReservedForGreeter'
  BY <1>9, <1>10 DEF ReservedForGreeter, Moving
<1>12. Inner'
  BY <1>1, <1>7, <1>9 DEF ScanInv, ReadInv, CloseInv, GreetInv, WaitInv
<1>. QED
  BY <1>3, <1>4, <1>6, <1>8, <1>11, <1>12

\* It takes the reserved slot, which is still empty.
LEMMA TakeReservedStep ==
  ASSUME IInv, TakeReserved
  PROVE  IInv'
<1>. USE NetServerAssumption DEF IInv, Inner, TakeReserved, ReadDone, flags, net, appVars
<1>1. /\ 0 \in Slots /\ scan \in Slots /\ sockfd[0] = NoFd
      /\ curFd \in FD /\ curFd \in open /\ curFd \in greeted /\ curFd \notin InSlots
  BY DEF Slots, ScanInv, ReadInv, TypeOK
<1>2. /\ Occupied' = Occupied \union {0} /\ InSlots' = InSlots \union {curFd}
      /\ Cardinality(Occupied') = Cardinality(Occupied) + 1
  BY <1>1, FillSlot
<1>3. TypeOK'
  BY <1>1 DEF TypeOK, Slots
<1>4. CountCovers'
  BY <1>2, OccupiedFinite DEF CountCovers, Emptied, TypeOK
<1>5. sockfd'[0] = curFd /\ \A i \in Occupied : i # 0 /\ sockfd'[i] = sockfd[i] /\ sockfd[i] # curFd
  BY <1>1 DEF TypeOK, Occupied, InSlots
<1>6. SlotsSound'
  BY <1>1, <1>2, <1>5 DEF SlotsSound, Closing
<1>7. NoLeak' /\ ReservedForGreeter'
  BY <1>1, <1>2, <1>5 DEF NoLeak, ReservedForGreeter, Moving, TypeOK
<1>8. Inner'
  BY DEF ScanInv, ReadInv, CloseInv, GreetInv, WaitInv
<1>. QED
  BY <1>3, <1>4, <1>6, <1>7, <1>8

(***************************************************************************)
(* New connections, and NetServerDeinit.                                   *)
(***************************************************************************)

\* CheckNewSocket keeps a client: the count leaves room, so a slot is free.
LEMMA CheckAcceptStep ==
  ASSUME IInv, CheckAccept
  PROVE  IInv'
<1>. USE NetServerAssumption DEF IInv, Inner, CheckAccept, Accepted, flags, appVars
<1>1. PICK f \in FD \ open : open' = open \union {f} /\ Store(f)
  OBVIOUS
<1>2. \E i \in Slots \ {0} : sockfd[i] = NoFd
  BY RoomMeansFree
<1>3. PICK i \in Slots \ {0} : sockfd[i] = NoFd /\ sockfd' = [sockfd EXCEPT ![i] = f]
  BY <1>1, <1>2 DEF Store
<1>4. /\ Occupied' = Occupied \union {i} /\ InSlots' = InSlots \union {f}
      /\ Cardinality(Occupied') = Cardinality(Occupied) + 1
  BY <1>3, FillSlot
<1>5. TypeOK'
  BY <1>1, <1>3 DEF TypeOK, Slots, WaitInv
<1>6. CountCovers'
  BY <1>4, OccupiedFinite DEF CountCovers, Emptied, TypeOK
<1>7. sockfd'[i] = f /\ \A j \in Occupied : j # i /\ sockfd'[j] = sockfd[j] /\ sockfd[j] \in open
  BY <1>3 DEF SlotsSound, Closing, Occupied, TypeOK
<1>8. SlotsSound'
  BY <1>1, <1>4, <1>7 DEF SlotsSound, Closing
<1>9. NoLeak'
  BY <1>1, <1>4 DEF NoLeak, Moving
<1>10. ReservedForGreeter'
  <2>1. 0 \in Slots /\ sockfd'[0] = sockfd[0]
    BY <1>3 DEF Slots, TypeOK
  <2>2. sockfd[0] # NoFd => sockfd[0] \in open
    BY <1>7, <2>1 DEF Occupied
  <2>3. sockfd[0] \in open' => sockfd[0] \in open
    BY <1>1, <2>2
  <2>. QED
    BY <2>1, <2>3 DEF ReservedForGreeter, Moving
<1>11. Inner'
  BY <1>1 DEF ScanInv, ReadInv, CloseInv, GreetInv, WaitInv
<1>. QED
  BY <1>5, <1>6, <1>8, <1>9, <1>10, <1>11

\* CheckNewSocket turns a client away: only the count changes, upwards.
LEMMA CheckRejectStep ==
  ASSUME IInv, CheckReject
  PROVE  IInv'
<1>. USE NetServerAssumption DEF IInv, Inner, CheckReject, Accepted, flags, appVars
<1>1. Occupied' = Occupied /\ InSlots' = InSlots
  BY DEF Occupied, InSlots
<1>2. TypeOK'
  BY DEF TypeOK, WaitInv
<1>3. CountCovers'
  BY <1>1, OccupiedFinite DEF CountCovers, Emptied, TypeOK
<1>4. SlotsSound' /\ NoLeak' /\ ReservedForGreeter'
  BY <1>1 DEF SlotsSound, Closing, NoLeak, ReservedForGreeter, Moving
<1>5. Inner'
  BY DEF ScanInv, ReadInv, CloseInv, GreetInv, WaitInv
<1>. QED
  BY <1>2, <1>3, <1>4, <1>5

\* NetServerDeinit empties a slot, perhaps the one ReadHandle is working on.
LEMMA DeinitClearStep ==
  ASSUME IInv, DeinitClear
  PROVE  IInv'
<1>. USE NetServerAssumption DEF IInv, Inner, DeinitClear, flags, locals, net
<1>1. deinitIdx \in Slots /\ sockfd' = [sockfd EXCEPT ![deinitIdx] = NoFd]
  BY DEF TypeOK, Slots
<1>2. /\ Occupied' = Occupied \ {deinitIdx} /\ InSlots' \subseteq InSlots
      /\ Cardinality(Occupied') = IF sockfd[deinitIdx] = NoFd THEN Cardinality(Occupied)
                                  ELSE Cardinality(Occupied) - 1
  BY <1>1, EmptySlot
<1>3. TypeOK'
  BY <1>1 DEF TypeOK, Slots
<1>4. Emptied' => Emptied \/ sockfd[deinitIdx] # NoFd
  BY <1>1 DEF Emptied, TypeOK
<1>5. CountCovers'
  BY <1>2, <1>4, OccupiedFinite DEF CountCovers, TypeOK
<1>6. \A i \in Occupied' : i \in Occupied /\ i # deinitIdx /\ sockfd'[i] = sockfd[i]
  BY <1>1, <1>2 DEF TypeOK, Occupied
<1>7. SlotsSound'
  BY <1>6 DEF SlotsSound, Closing
<1>8. NoLeak'
  BY DEF NoLeak
<1>9. \A i \in Slots : sockfd'[i] = sockfd[i] \/ sockfd'[i] = NoFd
  BY <1>1 DEF TypeOK
<1>10. NoFd \notin open
  BY DEF TypeOK
<1>11. ReservedForGreeter'
  BY <1>9, <1>10 DEF ReservedForGreeter, Slots
<1>12. ScanInv' /\ GreetInv' /\ WaitInv'
  BY DEF ScanInv, GreetInv, WaitInv
<1>13. CloseInv'
  BY <1>9, <1>10 DEF CloseInv, ScanInv
<1>14. ReadInv'
  <2>1. CASE task \in {"recv", "closed"}
    <3>1. scan \in Slots /\ sockfd'[scan] \in {curFd, NoFd}
      BY <1>9, <2>1 DEF ScanInv, ReadInv
    <3>2. ASSUME sockfd'[scan] = NoFd, NEW i \in Slots, sockfd'[i] = curFd, curFd # NoFd
          PROVE FALSE
      <4>1. i \in Occupied /\ i # deinitIdx /\ sockfd[i] = curFd
        BY <1>6, <3>2 DEF Occupied
      <4>2. sockfd[scan] = curFd
        BY <2>1, <3>1, <3>2, <4>1 DEF ReadInv, InSlots, Occupied
      <4>3. scan \in Occupied /\ i = scan
        BY <3>1, <3>2, <4>1, <4>2 DEF SlotsSound, Occupied
      <4>. QED
        BY <3>2, <4>3
    <3>3. sockfd'[scan] = NoFd => curFd \notin InSlots'
      BY <3>2 DEF InSlots
    <3>. QED
      BY <2>1, <3>1, <3>3 DEF ReadInv
  <2>2. CASE task \notin {"recv", "closed"}
    <3>1. 0 \in Slots
      BY DEF Slots
    <3>. QED
      BY <1>2, <1>9, <2>2, <3>1 DEF ReadInv, ScanInv
  <2>. QED
    BY <2>1, <2>2
<1>. QED
  BY <1>3, <1>5, <1>7, <1>8, <1>11, <1>12, <1>13, <1>14

\* Every step of the system preserves the invariant.
LEMMA NextInv == IInv /\ [Next]_vars => IInv'
<1>. SUFFICES ASSUME IInv, [Next]_vars PROVE IInv'
  OBVIOUS
<1>1. CASE ServerTask
  BY <1>1, QuietTaskStep, CloseStep, ClearStep, UncountStep, ReadSpecialStep, TakeReservedStep,
     CheckAcceptStep, CheckRejectStep DEF ServerTask, QuietTask
<1>2. CASE NetServerStart \/ NetServerStop \/ NetServerDeinit \/ Client \/ UNCHANGED vars
  BY <1>2, QuietApiStep DEF QuietApi
<1>3. CASE AppStep
  BY <1>3, QuietApiStep, DeinitClearStep DEF AppStep, QuietApi
<1>. QED
  BY <1>1, <1>2, <1>3 DEF Next

(***************************************************************************)
(* The theorems.                                                           *)
(***************************************************************************)

\* The invariant holds in every reachable state.
THEOREM Invariance == Spec => []IInv
  BY InitInv, NextInv, PTL DEF Spec

\* connAmount of network_server.c covers the occupied slots at all times.
THEOREM CountCoversAlways == Spec => []CountCovers
<1>1. IInv => CountCovers
  BY DEF IInv
<1>. QED
  BY Invariance, <1>1, PTL

\* A slot never names a descriptor that another slot names, nor a closed one, but
\* the slot that the server task is emptying after its close().
THEOREM SlotsSoundAlways == Spec => []SlotsSound
<1>1. IInv => SlotsSound
  BY DEF IInv
<1>. QED
  BY Invariance, <1>1, PTL

\* The server task loses no accepted connection before NetServerDeinit.
THEOREM NoLeakAlways == Spec => []NoLeak
<1>1. IInv => NoLeak
  BY DEF IInv
<1>. QED
  BY Invariance, <1>1, PTL

\* Every variable of the server keeps its type.
THEOREM TypeCorrect == Spec => []TypeOK
<1>1. IInv => TypeOK
  BY DEF IInv
<1>. QED
  BY Invariance, <1>1, PTL

\* Who sits in the reserved slot has introduced himself on that connection, and who
\* was taken for it keeps it as long as he is connected (ReadHandle, CheckNewSocket and
\* the end of SocketListen in network_server.c).
THEOREM ReservedForGreeterAlways == Spec => []ReservedForGreeter
<1>1. IInv => ReservedForGreeter
  BY DEF IInv
<1>. QED
  BY Invariance, <1>1, PTL

(***************************************************************************)
(* The server under the network manager (NetManager).  What the            *)
(* configuration task does to the server is to start it, and the manager   *)
(* ends it by NetServerDeinit only, so the composition is one of the       *)
(* environments of the server, and all its safety holds there.             *)
(***************************************************************************)

CONSTANTS ConnectTimeout, RetryCount, DirectConnect, AppMode
VARIABLES mode, status, netRun, pc, netCfgMode, timecnt, result, wifiPc, retry,
  station, registered, link, hotspot, phone

Manager == INSTANCE NetManager

\* NetManagerRegister initialises the server.
LEMMA ManagerInit == Manager!Init => Init
BY DEF Manager!Init, Manager!S!Init, Init, Manager!S!Slots, Slots

\* What its task, its clients and NetServerDeinit do is what they do alone.
LEMMA ServerSame ==
  Manager!S!ServerTask \/ Manager!S!Client \/ Manager!S!NetServerDeinit \/ Manager!S!AppStep => Next
<1>1. Manager!S!TaskLoop \/ Manager!S!TaskPoll \/ Manager!S!StartServer \/ Manager!S!ListenLoop
        \/ Manager!S!Select => ServerTask
  BY DEF Manager!S!TaskLoop, Manager!S!TaskPoll, Manager!S!StartServer, Manager!S!ListenLoop,
    Manager!S!Select, Manager!S!Readable, Manager!S!InSlots, Manager!S!Slots,
    Manager!S!server, Manager!S!flags, Manager!S!locals, Manager!S!net, Manager!S!appVars,
    ServerTask, TaskLoop, TaskPoll, StartServer, ListenLoop, Select, Readable, InSlots,
    Slots, server, flags, locals, net, appVars
<1>2. Manager!S!ListenEnd \/ Manager!S!EndSlot \/ Manager!S!EndClose \/ Manager!S!EndClear
        \/ Manager!S!EndServer => ServerTask
  BY DEF Manager!S!ListenEnd, Manager!S!EndSlot, Manager!S!EndClose, Manager!S!EndClear,
    Manager!S!EndServer, Manager!S!Closed, Manager!S!server, Manager!S!flags, Manager!S!locals,
    Manager!S!net, Manager!S!appVars, ServerTask, ListenEnd, EndSlot, EndClose, EndClear,
    EndServer, Closed, server, flags, locals, net, appVars
<1>3. Manager!S!ScanSlot \/ Manager!S!ScanEnd \/ Manager!S!ReadLoad \/ Manager!S!ReadClosed
        \/ Manager!S!ReadCleared \/ Manager!S!ReadUncounted => ServerTask
  BY DEF Manager!S!ScanSlot, Manager!S!ScanEnd, Manager!S!ReadLoad, Manager!S!ReadClosed,
    Manager!S!ReadCleared, Manager!S!ReadUncounted, Manager!S!LeaveSlot, Manager!S!Closed,
    Manager!S!ReadDone, Manager!S!server, Manager!S!flags, Manager!S!locals, Manager!S!net,
    Manager!S!appVars, ServerTask, ScanSlot, ScanEnd, ReadLoad, ReadClosed, ReadCleared,
    ReadUncounted, LeaveSlot, Closed, ReadDone, server, flags, locals, net, appVars
<1>4. Manager!S!ReadSpecial \/ Manager!S!TakeReserved \/ Manager!S!ReadData => ServerTask
  BY DEF Manager!S!ReadSpecial, Manager!S!TakeReserved, Manager!S!ReadData,
    Manager!S!WantsReserved, Manager!S!LeaveSlot, Manager!S!ReadDone, Manager!S!server,
    Manager!S!flags, Manager!S!locals, Manager!S!net, Manager!S!appVars, ServerTask, ReadSpecial,
    TakeReserved, ReadData, WantsReserved, LeaveSlot, ReadDone, server, flags, locals, net,
    appVars
<1>5. Manager!S!CheckNothing \/ Manager!S!CheckAccept \/ Manager!S!CheckReject => ServerTask
  <2>1. ASSUME NEW f, Manager!S!Store(f) PROVE Store(f)
    BY <2>1 DEF Manager!S!Store, Store, Manager!S!Slots, Slots
  <2> QED
    BY <2>1 DEF Manager!S!CheckNothing, Manager!S!CheckAccept, Manager!S!CheckReject,
      Manager!S!Accepted, Manager!S!server, Manager!S!flags, Manager!S!locals, Manager!S!net,
      Manager!S!appVars, ServerTask, CheckNothing, CheckAccept, CheckReject, Accepted,
      server, flags, locals, net, appVars
<1>6. Manager!S!Client => Client
  BY DEF Manager!S!Client, Manager!S!ClientConnect, Manager!S!ClientInput, Manager!S!Input,
    Manager!S!Listening, Manager!S!server, Manager!S!flags, Manager!S!locals, Manager!S!appVars,
    Client, ClientConnect, ClientInput, Input, Listening, server, flags, locals, appVars
<1>7. Manager!S!NetServerDeinit \/ Manager!S!AppStep => NetServerDeinit \/ AppStep
  BY DEF Manager!S!NetServerDeinit, Manager!S!AppStep, Manager!S!DeinitSlot,
    Manager!S!DeinitShut, Manager!S!DeinitClear, Manager!S!DeinitDone, Manager!S!server, Manager!S!flags, Manager!S!locals, Manager!S!net,
    NetServerDeinit, AppStep, DeinitSlot, DeinitShut, DeinitClear, DeinitDone, server, flags, locals, net
<1> QED
  BY <1>1, <1>2, <1>3, <1>4, <1>5, <1>6, <1>7 DEF Next, Manager!S!ServerTask

\* The configuration touches the run flag only, and sets it (NetServerStart).
LEMMA ConfigStarts ==
  Manager!C!NetCfgTask \/ Manager!C!Wifi \/ Manager!C!NetCfgSetMode \/ Manager!C!Phone
    \/ Manager!C!NetCfgStop
    => serRun' = serRun \/ serRun' = TRUE
<1>1. Manager!C!NetCfgTask => serRun' = serRun \/ serRun' = TRUE
  BY DEF Manager!C!NetCfgTask, Manager!C!TaskExit, Manager!C!TaskAdopt, Manager!C!StartConfig,
    Manager!C!StationOff, Manager!C!SoftApStart, Manager!C!ConfigFails, Manager!C!NetCfgSocket,
    Manager!C!ServeLoop, Manager!C!Accept, Manager!C!ValueMode, Manager!C!ValueRecv,
    Manager!C!ValueParsed, Manager!C!StationOn, Manager!C!StationJoin, Manager!C!Poll,
    Manager!C!JoinFailed, Manager!C!JoinUndo, Manager!C!Joined, Manager!C!Reply,
    Manager!C!ServerStart, Manager!C!CloseClient, Manager!C!SoftApStop
<1>2. Manager!C!Wifi \/ Manager!C!NetCfgSetMode \/ Manager!C!Phone \/ Manager!C!NetCfgStop
        => serRun' = serRun
  BY DEF Manager!C!Wifi, Manager!C!LinkUp, Manager!C!LinkDown, Manager!C!HandlerStep,
    Manager!C!StatusConnected, Manager!C!StatusLost, Manager!C!ModeLost, Manager!C!NetCfgSetMode,
    Manager!C!Phone, Manager!C!PhoneConnects, Manager!C!PhoneSends, Manager!C!NetCfgStop
<1> QED BY <1>1, <1>2

\* Each step of the composition is one of the server or leaves it alone.
LEMMA ManagerStep ==
  ASSUME serRun \in BOOLEAN, [Manager!Next]_(Manager!vars)
  PROVE  [Next]_vars /\ serRun' \in BOOLEAN
<1> USE DEF Manager!serverOnly
<1>1. CASE Manager!S!ServerTask \/ Manager!S!Client \/ Manager!S!NetServerDeinit
             \/ Manager!S!AppStep
  <2>1. Next BY <1>1, ServerSame
  <2>2. Next => serRun' \in BOOLEAN
    BY DEF Next, ServerTask, TaskLoop, TaskPoll, StartServer, ListenLoop, ListenEnd, EndSlot,
      EndClose, EndClear, EndServer, Select, ScanSlot, ScanEnd, ReadLoad, ReadClosed, ReadCleared,
      ReadUncounted, ReadSpecial, TakeReserved, ReadData, CheckNothing, CheckAccept,
      CheckReject, NetServerStart, NetServerStop, NetServerDeinit, AppStep, DeinitSlot,
      DeinitShut, DeinitClear, DeinitDone, Client, ClientConnect, ClientInput, flags
  <2> QED BY <2>1, <2>2
<1>2. CASE /\ Manager!C!NetCfgTask \/ Manager!C!Wifi \/ Manager!C!NetCfgSetMode
                \/ Manager!C!Phone \/ Manager!C!NetCfgStop
           /\ UNCHANGED Manager!serverOnly
  <2>1. serRun' = serRun \/ serRun' = TRUE BY <1>2, ConfigStarts
  <2>2. serRun' = serRun => UNCHANGED vars
    BY <1>2 DEF vars, server, flags, locals, net, appVars
  <2>3. ~serRun /\ serRun' = TRUE => NetServerStart
    BY <1>2 DEF NetServerStart, server, locals, net, appVars
  <2> QED BY <2>1, <2>2, <2>3 DEF Next
<1>3. CASE UNCHANGED Manager!vars
  BY <1>3 DEF Manager!vars, vars, server, flags, locals, net, appVars
<1> QED
  BY <1>1, <1>2, <1>3 DEF Manager!Next, Manager!ServerSide, Manager!ConfigSide, Manager!UnRegister

\* The composition of network_manager_service.c implements the server: whatever the
\* configuration, the Wi-Fi and the phone do, the server takes steps of its own, is started
\* or is not touched.
THEOREM ManagerRunsServer == Manager!Spec => Spec
<1>1. Manager!Init => Init /\ serRun \in BOOLEAN
  BY ManagerInit DEF Init
<1>2. serRun \in BOOLEAN /\ [Manager!Next]_(Manager!vars) => [Next]_vars /\ (serRun \in BOOLEAN)'
  BY ManagerStep
<1> QED BY <1>1, <1>2, PTL DEF Manager!Spec, Spec

\* So the server is safe there: the count covers the slots, each slot has a connection of
\* its own, none is lost before NetServerDeinit, and the reserved slot stays with the client
\* that has introduced itself.
THEOREM SafeInManager ==
  Manager!Spec => [](CountCovers /\ SlotsSound /\ NoLeak /\ ReservedForGreeter)
<1>1. IInv => CountCovers /\ SlotsSound /\ NoLeak /\ ReservedForGreeter
  BY DEF IInv
<1>. QED
  BY ManagerRunsServer, Invariance, <1>1, PTL
=============================================================================
