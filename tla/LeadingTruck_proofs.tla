------------------------- MODULE LeadingTruck_proofs -------------------------
(***************************************************************************)
(* Proofs about the process of the leading truck, for any number of        *)
(* trucks, descriptors, slots and messages.                                *)
(***************************************************************************)
EXTENDS LeadingTruck, TruckManager_proofs

ConnPcs == {"new", "recv", "auth_reply", "remove", "done"}

\* What the registry shares with the connection threads.
regvars == <<trucks, currentOrder, connPc, fd, isAuthenticated>>

\* The inductive invariant behind NoGhostTruck: a connection that has not been
\* accepted has not authenticated, one that is to be answered has, and an open
\* one has a descriptor.
OwnInv ==
    /\ TMInv
    /\ connPc \in [TruckIds -> ConnPcs]
    /\ fd \in [TruckIds -> Sockets \cup {NoSocket}]
    /\ isAuthenticated \in [TruckIds -> BOOLEAN]
    /\ \A c \in TruckIds :
         /\ connPc[c] = "new" => ~isAuthenticated[c]
         /\ connPc[c] = "auth_reply" => isAuthenticated[c]
         /\ connPc[c] \in {"recv", "auth_reply"} => fd[c] \in Sockets
    /\ NoGhostTruck

-----------------------------------------------------------------------------
(* The registry *)

\* What removeTruck leaves: entries of other trucks, each once.
LEMMA RemoveLeavesOthers ==
    ASSUME TMInv, NEW id, removeTruck(id),
           \A o, p \in DOMAIN trucks : trucks[o].id = trucks[p].id => o = p
    PROVE  /\ \A o \in DOMAIN trucks' : \E p \in DOMAIN trucks :
                 trucks'[o] = trucks[p] /\ trucks[p].id # id
           /\ \A o, p \in DOMAIN trucks' : trucks'[o].id = trucks'[p].id => o = p
<1>1. CASE id \in Registered
  <2> DEFINE n == currentOrder
             r == find(id)
             at(i) == IF i < r THEN i ELSE i + 1
  <2>1. n \in Nat /\ r \in 1 .. n /\ DOMAIN trucks = 1 .. n /\ trucks[r].id = id
    BY <1>1, FindFirst DEF TMInv
  <2>2. trucks' = [i \in 1 .. n - 1 |-> IF i < r THEN trucks[i] ELSE trucks[i + 1]]
    BY <1>1, RemoveClosesGap
  <2> HIDE DEF n, r
  <2>3. DOMAIN trucks' = 1 .. n - 1
    BY <2>2
  <2>4. \A i \in 1 .. n - 1 : /\ trucks'[i] = trucks[at(i)]
                              /\ at(i) \in 1 .. n /\ at(i) # r
    BY <2>1, <2>2
  <2>5. \A i, j \in 1 .. n - 1 : at(i) = at(j) => i = j
    BY <2>1
  <2> HIDE DEF at
  <2>6. \A i \in 1 .. n - 1 : trucks[at(i)].id # id
    BY <2>1, <2>4
  <2> QED
    BY <2>1, <2>3, <2>4, <2>5, <2>6
<1>2. CASE id \notin Registered
  BY <1>2 DEF removeTruck, tmvars, Registered
<1> QED
  BY <1>1, <1>2

\* Removing a truck keeps the other entries as they are owned.
LEMMA RemoveKeepsOwned ==
    ASSUME OwnInv, NEW id, removeTruck(id), UNCHANGED <<fd, isAuthenticated>>,
           connPc' \in [TruckIds -> ConnPcs],
           \A c \in TruckIds : connPc'[c] = connPc[c] \/ (c = id /\ connPc'[c] = "done")
    PROVE  OwnInv'
<1>1. TMInv'
  BY RemoveKeepsInv DEF OwnInv
<1>2. \A o, p \in DOMAIN trucks : trucks[o].id = trucks[p].id => o = p
  BY DEF OwnInv, NoGhostTruck
<1>3. /\ \A o \in DOMAIN trucks' : \E p \in DOMAIN trucks :
            trucks'[o] = trucks[p] /\ trucks[p].id # id
      /\ \A o, p \in DOMAIN trucks' : trucks'[o].id = trucks'[p].id => o = p
  BY <1>2, RemoveLeavesOthers DEF OwnInv
<1>4. \A p \in DOMAIN trucks : trucks[p].id \in TruckIds
  BY DEF OwnInv, TMInv, Truck
<1>5. NoGhostTruck'
  <2> SUFFICES ASSUME NEW o \in DOMAIN trucks'
               PROVE  LET c == trucks'[o].id
                      IN  /\ isAuthenticated'[c]
                          /\ connPc'[c] \in {"auth_reply", "recv", "remove"}
                          /\ connPc'[c] # "remove" => trucks'[o].socket = fd'[c]
                          /\ \A p \in DOMAIN trucks' : trucks'[p].id = c => p = o
    BY DEF NoGhostTruck
  <2>1. PICK p \in DOMAIN trucks : trucks'[o] = trucks[p] /\ trucks[p].id # id
    BY <1>3
  <2>2. connPc'[trucks[p].id] = connPc[trucks[p].id]
    BY <1>4, <2>1
  <2> QED
    BY <1>3, <2>1, <2>2 DEF OwnInv, NoGhostTruck
<1> QED
  BY <1>1, <1>5 DEF OwnInv

-----------------------------------------------------------------------------
(* The steps of the process *)

\* A thread that touches neither the registry nor the connections.
LEMMA OtherStepsLeaveRegistry ==
    ASSUME NEW w \in Workers, processCommands(w), ~leaveEntry(w)
    PROVE  UNCHANGED regvars
<1> USE DEF regvars, psvars, connvars, tmvars
<1>1. CASE Dequeue(w) \/ setState(w) \/ handleEvent(w)
  BY <1>1 DEF Dequeue, setState, handleEvent
<1>2. CASE handleJoin(w)
  BY <1>2 DEF handleJoin, joinLookup, joinCheck, joinAccept
<1>3. CASE handleLeave(w)
  BY <1>3 DEF handleLeave, readSpeed, readBrake, ReadField, writeSpeed, writeBrake,
              slowDown, leaveLookup, leaveStart, syncList
<1>4. CASE Sync(w)
  BY <1>4 DEF Sync, syncNext, syncSend
<1>5. CASE handleCommunicate(w)
  BY <1>5 DEF handleCommunicate, communicate, switchToEmergency, switchApp,
              setEmergencyEnabled
<1>6. CASE handleExternal(w)
  BY <1>6 DEF handleExternal, external, switchToNormal, switchApp
<1> QED
  BY <1>1, <1>2, <1>3, <1>4, <1>5, <1>6 DEF processCommands

LEMMA AppLeavesRegistry ==
    ASSUME appThread
    PROVE  UNCHANGED regvars
  BY DEF appThread, appSwitch, initSpeed, initBrake, toIdle, toNormal, appAssign,
         normalOperation, syncList, Sync, syncNext, syncSend, emergencyBrake,
         regvars, psvars, connvars, tmvars

LEMMA OwnUnchanged ==
    ASSUME OwnInv, UNCHANGED regvars
    PROVE  OwnInv'
  BY DEF OwnInv, regvars, NoGhostTruck, TMInv

\* A new connection gets a descriptor nobody holds.
LEMMA AcceptKeepsOwned ==
    ASSUME OwnInv, NEW c \in TruckIds, accept(c)
    PROVE  OwnInv'
<1>1. /\ connPc[c] = "new" /\ ~isAuthenticated[c]
      /\ connPc' = [connPc EXCEPT ![c] = "recv"]
      /\ \E s \in Sockets : fd' = [fd EXCEPT ![c] = s]
      /\ UNCHANGED <<isAuthenticated, trucks, currentOrder>>
  BY DEF OwnInv, accept, tmvars
<1>2. \A o \in DOMAIN trucks : trucks[o].id # c /\ trucks[o].id \in TruckIds
  BY <1>1 DEF OwnInv, NoGhostTruck, TMInv, Truck
<1>3. NoGhostTruck'
  BY <1>1, <1>2 DEF OwnInv, NoGhostTruck
<1> QED
  BY <1>1, <1>3 DEF OwnInv, TMInv, ConnPcs

\* The truck that authenticates is not in the registry yet.
LEMMA AuthenticateKeepsOwned ==
    ASSUME OwnInv, NEW c \in TruckIds, authenticateTruck(c)
    PROVE  OwnInv'
<1>1. /\ connPc[c] = "recv" /\ ~isAuthenticated[c] /\ fd[c] \in Sockets
      /\ addTruck(c, fd[c])
      /\ connPc' = [connPc EXCEPT ![c] = "auth_reply"]
      /\ isAuthenticated' = [isAuthenticated EXCEPT ![c] = TRUE]
      /\ fd' = fd
  BY DEF OwnInv, authenticateTruck, Receive
<1>2. TMInv'
  BY <1>1, AddKeepsInv DEF OwnInv
<1>3. \A o \in DOMAIN trucks : trucks[o].id # c /\ trucks[o].id \in TruckIds
  BY <1>1 DEF OwnInv, NoGhostTruck, TMInv, Truck
<1>4. /\ DOMAIN trucks = 1 .. currentOrder /\ currentOrder \in Nat
      /\ trucks' = [o \in 1 .. currentOrder + 1 |->
                      IF o = currentOrder + 1
                      THEN [id |-> c, socket |-> fd[c]] ELSE trucks[o]]
  BY <1>1, AddAppends DEF OwnInv, TMInv
<1>5. \A o \in DOMAIN trucks' :
         \/ o \in DOMAIN trucks /\ trucks'[o] = trucks[o]
         \/ o = currentOrder + 1 /\ trucks'[o] = [id |-> c, socket |-> fd[c]]
  BY <1>4
<1>6. \A o, p \in DOMAIN trucks' : trucks'[p].id = trucks'[o].id => p = o
  BY <1>3, <1>5 DEF OwnInv, NoGhostTruck
<1>7. NoGhostTruck'
  <2> SUFFICES ASSUME NEW o \in DOMAIN trucks'
               PROVE  LET t == trucks'[o]
                      IN  /\ isAuthenticated'[t.id]
                          /\ connPc'[t.id] \in {"auth_reply", "recv", "remove"}
                          /\ connPc'[t.id] # "remove" => t.socket = fd'[t.id]
    BY <1>6 DEF NoGhostTruck
  <2>1. CASE trucks'[o] = [id |-> c, socket |-> fd[c]]
    BY <1>1, <2>1 DEF OwnInv
  <2>2. CASE o \in DOMAIN trucks /\ trucks'[o] = trucks[o]
    BY <1>1, <1>3, <2>2 DEF OwnInv, NoGhostTruck
  <2> QED
    BY <1>5, <2>1, <2>2
<1> QED
  BY <1>1, <1>2, <1>7 DEF OwnInv, ConnPcs

LEMMA ReplyKeepsOwned ==
    ASSUME OwnInv, NEW c \in TruckIds, replyAuthOk(c)
    PROVE  OwnInv'
<1>1. /\ connPc[c] = "auth_reply"
      /\ connPc' = [connPc EXCEPT ![c] = "recv"]
      /\ UNCHANGED <<fd, isAuthenticated, trucks, currentOrder>>
  BY DEF replyAuthOk, tmvars
<1>2. \A o \in DOMAIN trucks : trucks[o].id \in TruckIds
  BY DEF OwnInv, TMInv, Truck
<1>3. NoGhostTruck'
  BY <1>1, <1>2 DEF OwnInv, NoGhostTruck
<1> QED
  BY <1>1, <1>3 DEF OwnInv, TMInv, ConnPcs

LEMMA CloseKeepsOwned ==
    ASSUME OwnInv, NEW c \in TruckIds, closeSocket(c)
    PROVE  OwnInv'
<1>1. /\ connPc[c] = "recv"
      /\ connPc' = [connPc EXCEPT ![c] = "remove"]
      /\ fd' = [fd EXCEPT ![c] = NoSocket]
      /\ UNCHANGED <<isAuthenticated, trucks, currentOrder>>
  BY DEF closeSocket, tmvars
<1>2. \A o \in DOMAIN trucks : trucks[o].id \in TruckIds
  BY DEF OwnInv, TMInv, Truck
<1>3. NoGhostTruck'
  BY <1>1, <1>2 DEF OwnInv, NoGhostTruck
<1> QED
  BY <1>1, <1>3 DEF OwnInv, TMInv, ConnPcs

\* A connection that never authenticated has no entry to remove.
LEMMA EndKeepsOwned ==
    ASSUME OwnInv, NEW c \in TruckIds, removeClosed(c)
    PROVE  OwnInv'
<1>1. /\ connPc' = [connPc EXCEPT ![c] = "done"]
      /\ UNCHANGED <<fd, isAuthenticated>>
  BY DEF removeClosed
<1>2. removeTruck(c)
  <2>1. CASE isAuthenticated[c]
    BY <2>1 DEF removeClosed
  <2>2. CASE ~isAuthenticated[c]
    <3>1. c \notin Registered
      BY <2>2 DEF OwnInv, NoGhostTruck, Registered
    <3> QED
      BY <2>2, <3>1 DEF removeClosed, removeTruck
  <2> QED
    BY <2>1, <2>2
<1>3. connPc' \in [TruckIds -> ConnPcs]
  BY <1>1 DEF OwnInv, ConnPcs
<1>4. \A d \in TruckIds : connPc'[d] = connPc[d] \/ (d = c /\ connPc'[d] = "done")
  BY <1>1 DEF OwnInv
<1> QED
  BY <1>1, <1>2, <1>3, <1>4, RemoveKeepsOwned

LEMMA LeaveKeepsOwned ==
    ASSUME OwnInv, NEW w \in Workers, leaveEntry(w)
    PROVE  OwnInv'
<1>1. UNCHANGED <<connPc, fd, isAuthenticated>>
  BY DEF leaveEntry, psvars, connvars
<1>2. CASE removeTruck(msg[w].id)
  <2>1. connPc' \in [TruckIds -> ConnPcs]
    BY <1>1 DEF OwnInv
  <2> QED
    BY <1>1, <1>2, <2>1, RemoveKeepsOwned
<1>3. CASE UNCHANGED tmvars
  BY <1>1, <1>3, OwnUnchanged DEF regvars, tmvars
<1> QED
  BY <1>2, <1>3 DEF leaveEntry

LEMMA ServerKeepsOwned ==
    ASSUME OwnInv, Server
    PROVE  OwnInv'
<1>1. PICK c \in TruckIds :
         \/ accept(c) \/ authenticateTruck(c)
         \/ \E why \in Rejections : rejectMessage(c, why)
         \/ \E r \in Requests : enqueueMessage(c, r)
         \/ closeSocket(c) \/ replyAuthOk(c) \/ removeClosed(c)
  BY DEF Server, PSNext, PSThread
<1>2. CASE \E why \in Rejections : rejectMessage(c, why)
  BY <1>2, OwnUnchanged DEF rejectMessage, regvars, tmvars
<1>3. CASE \E r \in Requests : enqueueMessage(c, r)
  BY <1>3, OwnUnchanged DEF enqueueMessage, regvars, tmvars
<1> QED
  BY <1>1, <1>2, <1>3, AcceptKeepsOwned, AuthenticateKeepsOwned, CloseKeepsOwned,
     ReplyKeepsOwned, EndKeepsOwned

LEMMA OwnInit == Init => OwnInv
<1> SUFFICES ASSUME Init PROVE OwnInv
  OBVIOUS
<1>1. TMInv
  BY TMInitInv DEF Init
<1>2. DOMAIN trucks = {}
  BY DEF Init, TMInit
<1>3. NoGhostTruck
  BY <1>2 DEF NoGhostTruck
<1> QED
  BY <1>1, <1>3 DEF Init, PSInit, OwnInv, ConnPcs

LEMMA OwnStep == OwnInv /\ [Next]_vars => OwnInv'
<1> SUFFICES ASSUME OwnInv, [Next]_vars PROVE OwnInv'
  OBVIOUS
<1>1. CASE Server
  BY <1>1, ServerKeepsOwned
<1>2. CASE appThread
  BY <1>2, AppLeavesRegistry, OwnUnchanged
<1>3. CASE \E w \in Workers : processCommands(w)
  BY <1>3, LeaveKeepsOwned, OtherStepsLeaveRegistry, OwnUnchanged
<1>4. CASE UNCHANGED vars
  BY <1>4, OwnUnchanged DEF vars, regvars, tmvars, connvars
<1> QED
  BY <1>1, <1>2, <1>3, <1>4 DEF Next

LEMMA OwnInvariance == Spec => []OwnInv
  BY OwnInit, OwnStep, PTL DEF Spec

\* The registry holds live, authenticated connections only, each once and with
\* its own descriptor, whatever the interleaving of the threads.
THEOREM RegistryHasNoGhost == Spec => []NoGhostTruck
<1>1. OwnInv => NoGhostTruck
  BY DEF OwnInv
<1> QED
  BY <1>1, OwnInvariance, PTL

-----------------------------------------------------------------------------
(* A truck leaves the registry by itself *)

\* removeTruck takes no other truck with it.
LEMMA RemoveTakesOne ==
    ASSUME TMInv, NEW id, removeTruck(id)
    PROVE  \A c \in Registered : c \in Registered' \/ c = id
<1>1. CASE id \in Registered
  <2> SUFFICES ASSUME NEW c \in Registered, c # id PROVE c \in Registered'
    OBVIOUS
  <2> DEFINE n == currentOrder
             r == find(id)
  <2>1. n \in Nat /\ r \in 1 .. n /\ DOMAIN trucks = 1 .. n /\ trucks[r].id = id
    BY <1>1, FindFirst DEF TMInv
  <2>2. trucks' = [i \in 1 .. n - 1 |-> IF i < r THEN trucks[i] ELSE trucks[i + 1]]
    BY <1>1, RemoveClosesGap
  <2> HIDE DEF n, r
  <2>3. PICK o \in 1 .. n : trucks[o].id = c
    BY <2>1 DEF Registered
  <2>4. o # r
    BY <2>1, <2>3
  <2>5. PICK i \in 1 .. n - 1 : trucks'[i] = trucks[o]
    <3>1. CASE o < r
      BY <2>1, <2>2, <2>3, <3>1
    <3>2. CASE o > r
      <4>1. o - 1 \in 1 .. n - 1 /\ ~(o - 1 < r) /\ (o - 1) + 1 = o
        BY <2>1, <3>2
      <4>2. trucks'[o - 1] = trucks[o]
        BY <2>2, <4>1
      <4> QED
        BY <4>1, <4>2
    <3> QED
      BY <2>1, <2>4, <3>1, <3>2
  <2>6. i \in DOMAIN trucks'
    BY <2>2
  <2> QED
    BY <2>3, <2>5, <2>6 DEF Registered
<1>2. CASE id \notin Registered
  BY <1>2 DEF removeTruck, tmvars, Registered
<1> QED
  BY <1>1, <1>2

LEMMA RemoveAddsNone ==
    ASSUME TMInv, NEW id, removeTruck(id)
    PROVE  Registered' \subseteq Registered
<1>1. CASE id \in Registered
  <2>1. find(id) \in 1 .. currentOrder /\ currentOrder \in Nat
    BY <1>1, FindFirst DEF TMInv
  <2>2. \A i \in DOMAIN trucks' : \E o \in DOMAIN trucks : trucks'[i] = trucks[o]
    BY <1>1, <2>1, RemoveClosesGap DEF TMInv
  <2> QED
    BY <2>2 DEF Registered
<1>2. CASE id \notin Registered
  BY <1>2 DEF removeTruck, tmvars, Registered
<1> QED
  BY <1>1, <1>2

LEMMA AddTakesNone ==
    ASSUME TMInv, NEW id \in TruckIds, NEW s \in Sockets, addTruck(id, s)
    PROVE  Registered' = Registered \cup {id}
<1>1. /\ DOMAIN trucks = 1 .. currentOrder /\ currentOrder \in Nat
      /\ trucks' = [o \in 1 .. currentOrder + 1 |->
                      IF o = currentOrder + 1
                      THEN [id |-> id, socket |-> s] ELSE trucks[o]]
  BY AddAppends DEF TMInv
<1>2. DOMAIN trucks' = DOMAIN trucks \cup {currentOrder + 1}
  BY <1>1
<1>3. \A o \in DOMAIN trucks : trucks'[o] = trucks[o]
  BY <1>1
<1>4. trucks'[currentOrder + 1].id = id
  BY <1>1
<1> QED
  BY <1>2, <1>3, <1>4 DEF Registered

LEMMA StepRemovesItsOwn ==
    ASSUME OwnInv, Next, NEW c \in Registered, c \notin Registered'
    PROVE  \/ connPc[c] = "remove"
           \/ \E w \in Workers : /\ At(w, "leave")
                                 /\ msg[w].id = c /\ msg[w].cmd = "leave_done"
<1>1. ASSUME UNCHANGED tmvars PROVE FALSE
  BY <1>1 DEF tmvars, Registered
<1>2. CASE Server
  <2>1. PICK d \in TruckIds :
           \/ accept(d) \/ authenticateTruck(d)
           \/ \E why \in Rejections : rejectMessage(d, why)
           \/ \E r \in Requests : enqueueMessage(d, r)
           \/ closeSocket(d) \/ replyAuthOk(d) \/ removeClosed(d)
    BY <1>2 DEF Server, PSNext, PSThread
  <2>2. CASE authenticateTruck(d)
    <3>1. fd[d] \in Sockets /\ addTruck(d, fd[d])
      BY <2>2 DEF OwnInv, authenticateTruck, Receive
    <3> QED
      BY <3>1, AddTakesNone DEF OwnInv
  <2>3. CASE removeClosed(d)
    <3>1. removeTruck(d) \/ UNCHANGED tmvars
      BY <2>3 DEF removeClosed
    <3>2. c = d
      BY <1>1, <3>1, RemoveTakesOne DEF OwnInv
    <3> QED
      BY <2>3, <3>2 DEF removeClosed
  <2> QED
    BY <1>1, <2>1, <2>2, <2>3
       DEF accept, rejectMessage, enqueueMessage, closeSocket, replyAuthOk
<1>3. CASE appThread
  BY <1>1, <1>3, AppLeavesRegistry DEF regvars, tmvars
<1>4. CASE \E w \in Workers : processCommands(w)
  <2>1. PICK w \in Workers : processCommands(w)
    BY <1>4
  <2>2. leaveEntry(w)
    BY <1>1, <2>1, OtherStepsLeaveRegistry DEF regvars, tmvars
  <2>3. At(w, "leave") /\ msg[w].cmd = "leave_done" /\ removeTruck(msg[w].id)
    BY <1>1, <2>2 DEF leaveEntry
  <2>4. c = msg[w].id
    BY <2>3, RemoveTakesOne DEF OwnInv
  <2> QED
    BY <2>3, <2>4
<1> QED
  BY <1>2, <1>3, <1>4 DEF Next

\* No truck is dropped from the registry because of another one.
THEOREM TrucksLeaveByThemselves == Spec => RemovalIsItsOwn
<1>1. OwnInv /\ [Next]_vars =>
        [\A c \in Registered :
           c \notin Registered' =>
              \/ connPc[c] = "remove"
              \/ \E w \in Workers : /\ At(w, "leave")
                                    /\ msg[w].id = c /\ msg[w].cmd = "leave_done"]_vars
  BY StepRemovesItsOwn
<1> QED
  BY <1>1, OwnInvariance, PTL DEF Spec, RemovalIsItsOwn

-----------------------------------------------------------------------------
(* Who the messages are from *)

\* The ids a message can carry.
Known == {c \in TruckIds : isAuthenticated[c]} \cup {NoTruck}

KnownMessage == {m \in Message : m.id \in Known}

\* Every message in a queue or a worker's hands, and every accepted truck, is
\* that of a connection that authenticated, or a test message.
MsgInv ==
    /\ queue \in [Workers -> Seq(KnownMessage)]
    /\ msg \in [Threads -> KnownMessage]
    /\ accepted \subseteq Known

LEMMA NoMsgKnown == NoMsg \in KnownMessage
  BY DEF NoMsg, KnownMessage, Message, Known, Commands

\* Connections do not lose their authentication, so messages stay known.
LEMMA KnownGrows ==
    ASSUME \A c \in TruckIds : isAuthenticated[c] => isAuthenticated'[c]
    PROVE  /\ Known \subseteq Known'
           /\ KnownMessage \subseteq KnownMessage'
           /\ Seq(KnownMessage) \subseteq Seq(KnownMessage')
<1>1. Known \subseteq Known'
  BY DEF Known
<1>2. KnownMessage \subseteq KnownMessage'
  BY <1>1 DEF KnownMessage
<1> HIDE DEF KnownMessage
<1> QED
  BY <1>1, <1>2

LEMMA KnownUnchanged ==
    ASSUME MsgInv, UNCHANGED <<queue, isAuthenticated, accepted>>,
           NEW t \in Threads,
           msg' = msg \/ msg' = [msg EXCEPT ![t] = NoMsg]
    PROVE  MsgInv'
<1>1. Known' = Known
  BY DEF Known
<1>2. KnownMessage' = KnownMessage
  BY <1>1 DEF KnownMessage
<1> QED
  BY <1>1, <1>2, NoMsgKnown DEF MsgInv

\* Everything a worker does but taking a message and accepting a truck.
LEMMA OtherStepsLeaveMessages ==
    ASSUME NEW w \in Workers, processCommands(w), ~Dequeue(w), ~joinCheck(w)
    PROVE  /\ UNCHANGED <<queue, isAuthenticated, accepted>>
           /\ msg' = msg \/ msg' = [msg EXCEPT ![w] = NoMsg]
<1> USE DEF psvars, connvars, history, locals, Finish
<1>1. CASE setState(w) \/ handleEvent(w)
  BY <1>1 DEF setState, handleEvent
<1>2. CASE handleJoin(w)
  BY <1>2 DEF handleJoin, joinLookup, joinAccept
<1>3. CASE handleLeave(w)
  BY <1>3 DEF handleLeave, leaveEntry, readSpeed, readBrake, ReadField, writeSpeed,
              writeBrake, slowDown, leaveLookup, leaveStart, syncList
<1>4. CASE Sync(w)
  BY <1>4 DEF Sync, syncNext, syncSend
<1>5. CASE handleCommunicate(w)
  BY <1>5 DEF handleCommunicate, communicate, switchToEmergency, switchApp,
              setEmergencyEnabled
<1>6. CASE handleExternal(w)
  BY <1>6 DEF handleExternal, external, switchToNormal, switchApp
<1> QED
  BY <1>1, <1>2, <1>3, <1>4, <1>5, <1>6 DEF processCommands

LEMMA AppLeavesMessages ==
    ASSUME appThread
    PROVE  /\ UNCHANGED <<queue, isAuthenticated, accepted>>
           /\ msg' = msg \/ msg' = [msg EXCEPT !["app"] = NoMsg]
  BY DEF appThread, appSwitch, initSpeed, initBrake, toIdle, toNormal, appAssign,
         normalOperation, syncList, Sync, syncNext, syncSend, emergencyBrake, Finish,
         locals, history, psvars, connvars

LEMMA EnqueueKeepsKnown ==
    ASSUME OwnInv, MsgInv, NEW c \in TruckIds, NEW r \in Requests, enqueueMessage(c, r),
           UNCHANGED <<msg, accepted>>
    PROVE  MsgInv'
<1> DEFINE m == [id   |-> IF isAuthenticated[c] THEN c ELSE NoTruck,
                 cmd  |-> r.cmd,
                 near |-> r.near]
           q == QueueOf(r.cmd)
<1>1. m \in KnownMessage
  BY RequestAssumption DEF KnownMessage, Message, Known
<1>2. q \in Workers
  BY DEF QueueOf, Workers
<1>3. queue' = [queue EXCEPT ![q] = Append(@, m)] /\ isAuthenticated' = isAuthenticated
  BY DEF enqueueMessage
<1>4. Known' = Known /\ KnownMessage' = KnownMessage
  BY <1>3 DEF Known, KnownMessage
<1> HIDE DEF m, q
<1>5. queue' \in [Workers -> Seq(KnownMessage)]
  <2>1. Append(queue[q], m) \in Seq(KnownMessage)
    BY <1>1, <1>2 DEF MsgInv
  <2> QED
    BY <1>2, <1>3, <2>1 DEF MsgInv
<1> QED
  BY <1>4, <1>5 DEF MsgInv

LEMMA ServerKeepsKnown ==
    ASSUME OwnInv, MsgInv, Server
    PROVE  MsgInv'
<1>1. UNCHANGED <<msg, accepted>>
  BY DEF Server, emvars, locals, history
<1>2. PICK c \in TruckIds :
         \/ accept(c) \/ authenticateTruck(c)
         \/ \E why \in Rejections : rejectMessage(c, why)
         \/ \E r \in Requests : enqueueMessage(c, r)
         \/ closeSocket(c) \/ replyAuthOk(c) \/ removeClosed(c)
  BY DEF Server, PSNext, PSThread
<1>3. CASE authenticateTruck(c)
  <2>1. \A d \in TruckIds : isAuthenticated[d] => isAuthenticated'[d]
    BY <1>3 DEF authenticateTruck, OwnInv
  <2>2. queue' = queue
    BY <1>3 DEF authenticateTruck
  <2> QED
    BY <1>1, <2>1, <2>2, KnownGrows DEF MsgInv
<1>4. CASE \E r \in Requests : enqueueMessage(c, r)
  BY <1>1, <1>4, EnqueueKeepsKnown
<1>5. ASSUME UNCHANGED <<queue, isAuthenticated>> PROVE MsgInv'
  BY <1>1, <1>5, KnownUnchanged DEF Threads
<1> QED
  BY <1>2, <1>3, <1>4, <1>5
     DEF accept, rejectMessage, closeSocket, replyAuthOk, removeClosed

LEMMA DequeueKeepsKnown ==
    ASSUME MsgInv, NEW w \in Workers, Dequeue(w)
    PROVE  MsgInv'
<1>1. /\ queue[w] # <<>> /\ queue[w] \in Seq(KnownMessage)
      /\ msg' = [msg EXCEPT ![w] = Head(queue[w])]
      /\ queue' = [queue EXCEPT ![w] = Tail(queue[w])]
      /\ UNCHANGED <<isAuthenticated, accepted>>
  BY DEF Dequeue, MsgInv, connvars, history
<1>2. Known' = Known /\ KnownMessage' = KnownMessage
  BY <1>1 DEF Known, KnownMessage
<1>3. Head(queue[w]) \in KnownMessage /\ Tail(queue[w]) \in Seq(KnownMessage)
  BY <1>1
<1> QED
  BY <1>1, <1>2, <1>3 DEF MsgInv

LEMMA JoinKeepsKnown ==
    ASSUME MsgInv, NEW w \in Workers, joinCheck(w)
    PROVE  MsgInv'
<1>1. /\ UNCHANGED <<queue, isAuthenticated>>
      /\ accepted' = accepted \/ accepted' = accepted \cup {msg[w].id}
      /\ msg' = msg \/ msg' = [msg EXCEPT ![w] = NoMsg]
  BY DEF joinCheck, locals, Finish, psvars, connvars
<1>2. Known' = Known /\ KnownMessage' = KnownMessage
  BY <1>1 DEF Known, KnownMessage
<1>3. msg[w].id \in Known
  BY DEF MsgInv, Threads, KnownMessage
<1> QED
  BY <1>1, <1>2, <1>3, NoMsgKnown DEF MsgInv

LEMMA MsgStep == OwnInv /\ MsgInv /\ [Next]_vars => MsgInv'
<1> SUFFICES ASSUME OwnInv, MsgInv, [Next]_vars PROVE MsgInv'
  OBVIOUS
<1>1. CASE Server
  BY <1>1, ServerKeepsKnown
<1>2. CASE appThread
  BY <1>2, AppLeavesMessages, KnownUnchanged DEF Threads
<1>3. CASE \E w \in Workers : processCommands(w)
  BY <1>3, DequeueKeepsKnown, JoinKeepsKnown, OtherStepsLeaveMessages, KnownUnchanged
     DEF Threads
<1>4. CASE UNCHANGED vars
  BY <1>4, KnownUnchanged DEF vars, emvars, locals, history, connvars, Threads
<1> QED
  BY <1>1, <1>2, <1>3, <1>4 DEF Next

LEMMA MsgInit == Init => MsgInv
  BY NoMsgKnown DEF Init, PSInit, EMInit, MsgInv

-----------------------------------------------------------------------------
(* No more trucks than slots *)

\* There are no more registered trucks than entries.
LEMMA RegisteredFinite ==
    ASSUME TMInv
    PROVE  /\ IsFiniteSet(Registered) /\ IsFiniteSet(DOMAIN trucks)
           /\ Cardinality(Registered) <= Cardinality(DOMAIN trucks)
<1> DEFINE idOf == [o \in DOMAIN trucks |-> trucks[o].id]
<1>1. IsFiniteSet(DOMAIN trucks)
  BY FS_Interval DEF TMInv
<1>2. idOf \in Surjection(DOMAIN trucks, Registered)
  BY DEF Surjection, Registered
<1> QED
  BY <1>1, <1>2, FS_Surjection

\* A part of the registered trucks is no larger than a part that holds it.
LEMMA FewerAccepted ==
    ASSUME NEW S, IsFiniteSet(S), NEW T \in SUBSET S, Cardinality(S) < NumTrucks
    PROVE  Cardinality(T) < NumTrucks
<1>1. Cardinality(T) <= Cardinality(S) /\ IsFiniteSet(T)
  BY FS_Subset
<1>2. Cardinality(T) \in Nat /\ Cardinality(S) \in Nat
  BY <1>1, FS_CardinalityType
<1> QED
  BY <1>1, <1>2, NumAssumption

LEMMA SameAcceptedFewer ==
    ASSUME TMInv, PlatoonCapacity, accepted' = accepted,
           accepted \cap Registered' \subseteq accepted \cap Registered
    PROVE  PlatoonCapacity'
<1>1. IsFiniteSet(accepted \cap Registered)
  <2>1. IsFiniteSet(Registered)
    BY RegisteredFinite
  <2> QED
    BY <2>1, FS_Subset
<1>2. Cardinality(accepted \cap Registered) < NumTrucks
        => Cardinality(accepted \cap Registered') < NumTrucks
  BY <1>1, FewerAccepted
<1> QED
  BY <1>2 DEF PlatoonCapacity

\* The slot check itself: fewer entries than slots, and one of them the truck
\* that asks.
LEMMA JoinKeepsCapacity ==
    ASSUME OwnInv, PlatoonCapacity, NEW w \in Workers, joinCheck(w)
    PROVE  PlatoonCapacity'
<1>1. UNCHANGED tmvars
  BY DEF joinCheck
<1>2. Registered' = Registered
  BY <1>1 DEF tmvars, Registered
<1>3. CASE isSlotAvailable
  <2>1. /\ IsFiniteSet(Registered) /\ IsFiniteSet(DOMAIN trucks)
        /\ Cardinality(Registered) <= Cardinality(DOMAIN trucks)
    BY RegisteredFinite DEF OwnInv
  <2>2. Cardinality(Registered) \in Nat /\ Cardinality(DOMAIN trucks) \in Nat
    BY <2>1, FS_CardinalityType
  <2>3. Cardinality(Registered) < NumTrucks
    BY <1>3, <2>1, <2>2, NumAssumption DEF isSlotAvailable
  <2>4. Cardinality(accepted' \cap Registered) < NumTrucks
    BY <2>1, <2>3, FewerAccepted
  <2> QED
    BY <1>2, <2>4 DEF PlatoonCapacity
<1>4. CASE ~isSlotAvailable
  BY <1>2, <1>4, SameAcceptedFewer DEF joinCheck, OwnInv
<1> QED
  BY <1>3, <1>4

\* A truck that authenticates has not been accepted.
LEMMA ServerKeepsCapacity ==
    ASSUME OwnInv, MsgInv, PlatoonCapacity, Server
    PROVE  PlatoonCapacity'
<1>1. accepted' = accepted
  BY DEF Server, emvars, history
<1>2. PICK c \in TruckIds :
         \/ accept(c) \/ authenticateTruck(c)
         \/ \E why \in Rejections : rejectMessage(c, why)
         \/ \E r \in Requests : enqueueMessage(c, r)
         \/ closeSocket(c) \/ replyAuthOk(c) \/ removeClosed(c)
  BY DEF Server, PSNext, PSThread
<1>3. accepted \cap Registered' \subseteq accepted \cap Registered
  <2>1. CASE authenticateTruck(c)
    <3>1. fd[c] \in Sockets /\ addTruck(c, fd[c]) /\ ~isAuthenticated[c]
      BY <2>1 DEF OwnInv, authenticateTruck, Receive
    <3>2. Registered' = Registered \cup {c}
      BY <3>1, AddTakesNone DEF OwnInv
    <3>3. c \notin accepted
      BY <3>1, RequestAssumption DEF MsgInv, Known
    <3> QED
      BY <3>2, <3>3
  <2>2. CASE removeClosed(c)
    <3>1. removeTruck(c) \/ UNCHANGED tmvars
      BY <2>2 DEF removeClosed
    <3>2. Registered' \subseteq Registered
      BY <3>1, RemoveAddsNone DEF OwnInv, tmvars, Registered
    <3> QED
      BY <3>2
  <2>3. ASSUME UNCHANGED tmvars
        PROVE  accepted \cap Registered' \subseteq accepted \cap Registered
    BY <2>3 DEF tmvars, Registered
  <2> QED
    BY <1>2, <2>1, <2>2, <2>3
       DEF accept, rejectMessage, enqueueMessage, closeSocket, replyAuthOk
<1> QED
  BY <1>1, <1>3, SameAcceptedFewer DEF OwnInv

LEMMA WorkerKeepsCapacity ==
    ASSUME OwnInv, PlatoonCapacity, NEW w \in Workers, processCommands(w)
    PROVE  PlatoonCapacity'
<1>1. CASE joinCheck(w)
  BY <1>1, JoinKeepsCapacity
<1>2. CASE ~joinCheck(w)
  <2>1. accepted' = accepted
    <3>1. CASE Dequeue(w)
      BY <3>1 DEF Dequeue, history
    <3>2. CASE ~Dequeue(w)
      BY <1>2, <3>2, OtherStepsLeaveMessages
    <3> QED
      BY <3>1, <3>2
  <2>2. Registered' \subseteq Registered
    <3>1. CASE leaveEntry(w)
      <4>1. removeTruck(msg[w].id) \/ UNCHANGED tmvars
        BY <3>1 DEF leaveEntry
      <4> QED
        BY <4>1, RemoveAddsNone DEF OwnInv, tmvars, Registered
    <3>2. CASE ~leaveEntry(w)
      BY <3>2, OtherStepsLeaveRegistry DEF regvars, Registered
    <3> QED
      BY <3>1, <3>2
  <2> QED
    BY <2>1, <2>2, SameAcceptedFewer DEF OwnInv
<1> QED
  BY <1>1, <1>2

LEMMA CapacityStep == OwnInv /\ MsgInv /\ PlatoonCapacity /\ [Next]_vars => PlatoonCapacity'
<1> SUFFICES ASSUME OwnInv, MsgInv, PlatoonCapacity, [Next]_vars PROVE PlatoonCapacity'
  OBVIOUS
<1>1. CASE Server
  BY <1>1, ServerKeepsCapacity
<1>2. CASE appThread
  <2>1. accepted' = accepted /\ Registered' = Registered
    BY <1>2, AppLeavesMessages, AppLeavesRegistry DEF regvars, Registered
  <2> QED
    BY <2>1 DEF PlatoonCapacity
<1>3. CASE \E w \in Workers : processCommands(w)
  BY <1>3, WorkerKeepsCapacity
<1>4. CASE UNCHANGED vars
  BY <1>4 DEF vars, emvars, history, tmvars, Registered, PlatoonCapacity
<1> QED
  BY <1>1, <1>2, <1>3, <1>4 DEF Next

\* Fewer than NUM_TRUCKS accepted trucks are in the registry at any time: no
\* truck slips in between the slot check of one worker and that of the other,
\* or between a check and a registration.
THEOREM SlotsRespected == Spec => []PlatoonCapacity
<1>1. Init => PlatoonCapacity
  BY DEF Init, EMInit, PlatoonCapacity
<1> QED
  BY <1>1, OwnInit, OwnStep, MsgInit, MsgStep, CapacityStep, PTL DEF Spec

-----------------------------------------------------------------------------
(* Type correctness *)

FsmStates == {"Idle", "Authen", "Join", "Leave", "Communicate", "Emergency",
              "Obstacle", "External"}

\* The locals of the threads and the shared data; a thread about to send "sync"
\* has somebody left on its list.
LocalInv ==
    /\ pc \in [Threads -> Labels]
    /\ list \in [Threads -> Seq(Truck)]
    /\ sock \in [Threads -> Sockets \cup {NoSocket}]
    /\ temp \in [Threads -> Int]
    /\ \A t \in Threads : pc[t] = "sync_send" => list[t] # <<>>

SharedInv ==
    /\ currentState \in FsmStates
    /\ emergencyEnabled \in BOOLEAN
    /\ appState \in {"INIT", "IDLE", "NORMAL_OPERATION", "EMERGENCY"}
    /\ speed \in Int /\ brakeForce \in Int
    /\ postponed \subseteq TruckIds
    /\ wire.reached \in TruckIds \cup {NoTruck}
    /\ budget \in Budgets

LEMMA HolderIsKnown == \A s : HolderOf(s) \in TruckIds \cup {NoTruck}
  BY DEF HolderOf, OpenSockets

LEMMA SendReaches ==
    ASSUME NEW s, NEW cmd, NEW for, sendResponse(s, cmd, for)
    PROVE  wire'.reached \in TruckIds \cup {NoTruck}
  BY HolderIsKnown DEF sendResponse

LEMMA SocketAnswer ==
    ASSUME TMInv, NEW id
    PROVE  getSocketId(id) \in Sockets \cup {NoSocket}
<1>1. CASE id \in Registered
  <2>1. find(id) \in 1 .. currentOrder
    BY <1>1, FindFirst
  <2> QED
    BY <1>1, <2>1 DEF getSocketId, TMInv, Truck
<1>2. CASE id \notin Registered
  BY <1>2 DEF getSocketId
<1> QED
  BY <1>1, <1>2

LEMMA TrucksAreListed == TMInv => getTrucks \in Seq(Truck)
<1> SUFFICES ASSUME TMInv PROVE getTrucks \in Seq(Truck)
  OBVIOUS
<1>1. getTrucks = trucks
  BY LineIsTheMap
<1>2. trucks \in Seq(Truck)
  BY DEF TMInv
<1> QED
  BY <1>1, <1>2

\* A thread that moves to a label other than "sync_send".
LEMMA GotoKeepsLocals ==
    ASSUME LocalInv, NEW t \in Threads, NEW l \in Labels \ {"sync_send"}, Goto(t, l),
           UNCHANGED <<list, sock, temp>>
    PROVE  LocalInv'
  BY DEF LocalInv, Goto

LEMMA FinishKeepsLocals ==
    ASSUME LocalInv, NEW t \in Threads, Finish(t)
    PROVE  LocalInv'
<1>1. Top(t) \in Labels \ {"sync_send"}
  BY DEF Top, Labels
<1>2. /\ pc' = [pc EXCEPT ![t] = Top(t)]
      /\ list' = [list EXCEPT ![t] = <<>>]
      /\ sock' = [sock EXCEPT ![t] = NoSocket]
      /\ temp' = [temp EXCEPT ![t] = 0]
  BY DEF Finish, Goto
<1> QED
  BY <1>1, <1>2 DEF LocalInv

LEMMA LocalsUnchanged ==
    ASSUME LocalInv, UNCHANGED <<pc, list, sock, temp>>
    PROVE  LocalInv'
  BY DEF LocalInv

LEMMA WorkersAreThreads == Workers \subseteq Threads /\ "app" \in Threads
  BY DEF Threads

LEMMA HandlerLabels == \A state : HandlerOf(state) \in (Labels \ {"sync_send"}) \cup {"nothing"}
  BY DEF HandlerOf, Labels

LEMMA DispatchKeepsLocals ==
    ASSUME LocalInv, NEW w \in Workers, Dequeue(w) \/ setState(w) \/ handleEvent(w)
    PROVE  LocalInv'
<1> w \in Threads
  BY WorkersAreThreads
<1>1. CASE Dequeue(w)
  BY <1>1, GotoKeepsLocals DEF Dequeue, Labels
<1>2. CASE setState(w)
  BY <1>2, GotoKeepsLocals, FinishKeepsLocals DEF setState, locals, Labels
<1>3. CASE handleEvent(w)
  BY <1>3, GotoKeepsLocals, FinishKeepsLocals, HandlerLabels DEF handleEvent, locals
<1> QED
  BY <1>1, <1>2, <1>3

LEMMA JoinKeepsLocals ==
    ASSUME TMInv, LocalInv, NEW w \in Workers, handleJoin(w)
    PROVE  LocalInv'
<1> w \in Threads
  BY WorkersAreThreads
<1>1. CASE joinLookup(w)
  <2>1. getSocketId(msg[w].id) \in Sockets \cup {NoSocket}
    BY SocketAnswer
  <2> QED
    BY <1>1, <2>1 DEF joinLookup, LocalInv, Goto, Labels
<1>2. CASE joinCheck(w)
  BY <1>2, GotoKeepsLocals, FinishKeepsLocals DEF joinCheck, locals, Labels
<1>3. CASE joinAccept(w)
  BY <1>3, FinishKeepsLocals DEF joinAccept
<1> QED
  BY <1>1, <1>2, <1>3 DEF handleJoin

LEMMA SyncKeepsLocals ==
    ASSUME TMInv, LocalInv, NEW t \in Threads, syncList(t) \/ Sync(t)
    PROVE  LocalInv'
<1>1. CASE syncList(t)
  <2>1. getTrucks \in Seq(Truck)
    BY TrucksAreListed
  <2> QED
    BY <1>1, <2>1 DEF syncList, LocalInv, Goto, Labels
<1>2. CASE syncNext(t)
  <2>1. CASE list[t] = <<>>
    BY <1>2, <2>1, FinishKeepsLocals DEF syncNext
  <2>2. CASE list[t] # <<>>
    <3>1. getSocketId(Head(list[t]).id) \in Sockets \cup {NoSocket}
      BY SocketAnswer
    <3> QED
      BY <1>2, <2>2, <3>1 DEF syncNext, LocalInv, Goto, Labels
  <2> QED
    BY <2>1, <2>2
<1>3. CASE syncSend(t)
  <2>1. list[t] # <<>> /\ list[t] \in Seq(Truck)
    BY <1>3 DEF syncSend, At, LocalInv
  <2>2. Tail(list[t]) \in Seq(Truck)
    BY <2>1
  <2> QED
    BY <1>3, <2>2 DEF syncSend, LocalInv, Goto, Labels
<1> QED
  BY <1>1, <1>2, <1>3 DEF Sync

LEMMA LeaveKeepsLocals ==
    ASSUME TMInv, LocalInv, SharedInv, NEW w \in Workers, handleLeave(w)
    PROVE  LocalInv'
<1> w \in Threads
  BY WorkersAreThreads
<1>1. CASE leaveEntry(w)
  <2>1. getTrucks \in Seq(Truck)
    BY TrucksAreListed
  <2>2. CASE Goto(w, "speed_read") /\ UNCHANGED locals
    BY <2>2, GotoKeepsLocals DEF locals, Labels
  <2>3. CASE Finish(w)
    BY <2>3, FinishKeepsLocals
  <2>4. CASE /\ list' = [list EXCEPT ![w] = getTrucks]
             /\ Goto(w, "speed_read")
             /\ UNCHANGED <<msg, sock, temp>>
    BY <2>1, <2>4 DEF LocalInv, Goto, Labels
  <2> QED
    BY <1>1, <2>2, <2>3, <2>4 DEF leaveEntry
<1>2. CASE readSpeed(w) \/ readBrake(w)
  BY <1>2 DEF readSpeed, readBrake, ReadField, LocalInv, SharedInv, Goto, Labels
<1>3. CASE writeSpeed(w)
  BY <1>3, GotoKeepsLocals DEF writeSpeed, locals, Labels
<1>4. CASE writeBrake(w)
  BY <1>4 DEF writeBrake, LocalInv, Goto, Labels
<1>5. CASE slowDown(w)
  <2>1. CASE list[w] = <<>>
    BY <1>5, <2>1, GotoKeepsLocals DEF slowDown, Labels
  <2>2. CASE list[w] # <<>>
    <3>1. Tail(list[w]) \in Seq(Truck)
      BY <2>2 DEF LocalInv
    <3> QED
      BY <1>5, <2>2, <3>1 DEF slowDown, At, LocalInv
  <2> QED
    BY <2>1, <2>2
<1>6. CASE leaveLookup(w)
  <2>1. getSocketId(msg[w].id) \in Sockets \cup {NoSocket}
    BY SocketAnswer
  <2> QED
    BY <1>6, <2>1 DEF leaveLookup, LocalInv, Goto, Labels
<1>7. CASE leaveStart(w)
  BY <1>7, FinishKeepsLocals DEF leaveStart
<1>8. CASE syncList(w)
  BY <1>8, SyncKeepsLocals
<1> QED
  BY <1>1, <1>2, <1>3, <1>4, <1>5, <1>6, <1>7, <1>8 DEF handleLeave

LEMMA AlarmKeepsLocals ==
    ASSUME LocalInv, NEW w \in Workers, handleCommunicate(w) \/ handleExternal(w)
    PROVE  LocalInv'
<1> w \in Threads
  BY WorkersAreThreads
<1>1. CASE communicate(w) \/ external(w)
  BY <1>1, GotoKeepsLocals, FinishKeepsLocals DEF communicate, external, locals, Labels
<1>2. CASE switchToEmergency(w) \/ switchToNormal(w)
  BY <1>2, GotoKeepsLocals DEF switchToEmergency, switchToNormal, switchApp, locals, Labels
<1>3. CASE setEmergencyEnabled(w)
  BY <1>3, FinishKeepsLocals DEF setEmergencyEnabled
<1> QED
  BY <1>1, <1>2, <1>3 DEF handleCommunicate, handleExternal

LEMMA AppKeepsLocals ==
    ASSUME TMInv, LocalInv, SharedInv, appThread
    PROVE  LocalInv'
<1> "app" \in Threads
  BY WorkersAreThreads
<1>1. CASE appSwitch
  <2>1. \E l \in {"init", "idle", "sync", "broadcast"} : Goto("app", l)
    BY <1>1, Zenon DEF appSwitch, SharedInv
  <2> QED
    BY <1>1, <2>1, GotoKeepsLocals DEF appSwitch, locals, Labels
<1>2. CASE initSpeed \/ initBrake \/ toIdle \/ toNormal \/ emergencyBrake
  BY <1>2, GotoKeepsLocals
     DEF initSpeed, initBrake, toIdle, toNormal, appAssign, emergencyBrake, locals, Labels
<1>3. CASE normalOperation
  BY <1>3, SyncKeepsLocals DEF normalOperation
<1> QED
  BY <1>1, <1>2, <1>3 DEF appThread

LEMMA LocalStep == OwnInv /\ LocalInv /\ SharedInv /\ [Next]_vars => LocalInv'
<1> SUFFICES ASSUME OwnInv, LocalInv, SharedInv, [Next]_vars PROVE LocalInv'
  OBVIOUS
<1>1. TMInv
  BY DEF OwnInv
<1>2. CASE Server
  BY <1>2, LocalsUnchanged DEF Server, emvars, locals
<1>3. CASE appThread
  BY <1>1, <1>3, AppKeepsLocals
<1>4. CASE \E w \in Workers : processCommands(w)
  BY <1>1, <1>4, WorkersAreThreads, DispatchKeepsLocals, JoinKeepsLocals, LeaveKeepsLocals,
     SyncKeepsLocals, AlarmKeepsLocals DEF processCommands
<1>5. CASE UNCHANGED vars
  BY <1>5, LocalsUnchanged DEF vars, emvars, locals
<1> QED
  BY <1>2, <1>3, <1>4, <1>5 DEF Next

LEMMA SharedUnchanged ==
    ASSUME SharedInv, UNCHANGED <<fsmvars, data, postponed, wire, budget>>
    PROVE  SharedInv'
  BY DEF SharedInv, fsmvars, data

\* The steps of a worker on the FSM, the data and the history.
LEMMA WorkerKeepsShared ==
    ASSUME OwnInv, MsgInv, LocalInv, SharedInv, NEW w \in Workers, processCommands(w)
    PROVE  SharedInv'
<1> USE DEF fsmvars, data, history, psvars, connvars
<1> w \in Threads
  BY WorkersAreThreads
<1>1. CASE Dequeue(w) \/ handleEvent(w)
  BY <1>1, SharedUnchanged DEF Dequeue, handleEvent
<1>2. CASE setState(w)
  <2>1. \A c \in DOMAIN StateOf : StateOf[c] \in FsmStates
    BY Zenon DEF StateOf, FsmStates
  <2> QED
    BY <1>2, <2>1 DEF setState, SharedInv
<1>3. CASE joinLookup(w) \/ joinCheck(w)
  BY <1>3, SharedUnchanged DEF joinLookup, joinCheck
<1>4. CASE joinAccept(w)
  BY <1>4, SendReaches DEF joinAccept, SharedInv
<1>5. CASE leaveEntry(w)
  BY <1>5 DEF leaveEntry, SharedInv
<1>6. CASE readSpeed(w) \/ readBrake(w) \/ leaveLookup(w) \/ syncList(w) \/ syncNext(w)
  BY <1>6, SharedUnchanged
     DEF readSpeed, readBrake, ReadField, leaveLookup, syncList, syncNext
<1>7. CASE writeSpeed(w) \/ writeBrake(w)
  <2>1. temp[w] \in Int /\ Direction(msg[w]) \in Int
    BY DEF LocalInv, Direction
  <2> QED
    BY <1>7, <2>1 DEF writeSpeed, writeBrake, SharedInv
<1>8. CASE slowDown(w)
  BY <1>8, SendReaches DEF slowDown, SharedInv
<1>9. CASE leaveStart(w)
  BY <1>9, SendReaches DEF leaveStart, SharedInv
<1>10. CASE syncSend(w)
  BY <1>10, SendReaches DEF syncSend, SharedInv
<1>11. CASE communicate(w) \/ external(w)
  BY <1>11, SharedUnchanged DEF communicate, external
<1>12. CASE switchToEmergency(w) \/ switchToNormal(w) \/ setEmergencyEnabled(w)
  BY <1>12 DEF switchToEmergency, switchToNormal, switchApp, setEmergencyEnabled, SharedInv
<1> QED
  BY <1>1, <1>2, <1>3, <1>4, <1>5, <1>6, <1>7, <1>8, <1>9, <1>10, <1>11, <1>12
     DEF processCommands, handleJoin, handleLeave, Sync, handleCommunicate, handleExternal

LEMMA AppKeepsShared ==
    ASSUME SharedInv, appThread
    PROVE  SharedInv'
<1> USE DEF fsmvars, data, history, psvars, connvars
<1>1. CASE appSwitch \/ syncList("app") \/ syncNext("app")
  BY <1>1, SharedUnchanged DEF appSwitch, syncList, syncNext
<1>2. CASE initSpeed \/ initBrake
  BY <1>2, DataAssumption DEF initSpeed, initBrake, SharedInv
<1>3. CASE toIdle \/ toNormal
  BY <1>3 DEF toIdle, toNormal, appAssign, SharedInv
<1>4. CASE syncSend("app")
  BY <1>4, SendReaches DEF syncSend, SharedInv
<1>5. CASE emergencyBrake
  BY <1>5 DEF emergencyBrake, SharedInv
<1> QED
  BY <1>1, <1>2, <1>3, <1>4, <1>5 DEF appThread, normalOperation, Sync

LEMMA ServerKeepsShared ==
    ASSUME OwnInv, SharedInv, Server
    PROVE  SharedInv'
<1> USE DEF fsmvars, data, history
<1>1. UNCHANGED <<fsmvars, data, postponed>>
  BY DEF Server, emvars
<1>2. PICK c \in TruckIds :
         \/ accept(c) \/ authenticateTruck(c)
         \/ \E why \in Rejections : rejectMessage(c, why)
         \/ \E r \in Requests : enqueueMessage(c, r)
         \/ closeSocket(c) \/ replyAuthOk(c) \/ removeClosed(c)
  BY DEF Server, PSNext, PSThread
<1>3. wire'.reached \in TruckIds \cup {NoTruck}
  BY <1>2, SendReaches DEF SharedInv, accept, authenticateTruck, rejectMessage,
     enqueueMessage, closeSocket, replyAuthOk, removeClosed
<1>4. budget' \in Budgets
  <2>1. \/ budget' = budget
        \/ budget.messages > 0 /\ budget' = [budget EXCEPT !.messages = @ - 1]
        \/ budget.connections > 0 /\ budget' = [budget EXCEPT !.connections = @ - 1]
    BY <1>2 DEF accept, authenticateTruck, rejectMessage, enqueueMessage, closeSocket,
       replyAuthOk, removeClosed, Receive
  <2> QED
    BY <2>1 DEF SharedInv, Budgets
<1> QED
  BY <1>1, <1>3, <1>4 DEF SharedInv

LEMMA SharedStep == OwnInv /\ MsgInv /\ LocalInv /\ SharedInv /\ [Next]_vars => SharedInv'
<1> SUFFICES ASSUME OwnInv, MsgInv, LocalInv, SharedInv, [Next]_vars PROVE SharedInv'
  OBVIOUS
<1>1. CASE UNCHANGED vars
  BY <1>1, SharedUnchanged DEF vars, emvars, history, connvars
<1> QED
  BY <1>1, ServerKeepsShared, AppKeepsShared, WorkerKeepsShared DEF Next

LEMMA LocalInit == Init => LocalInv /\ SharedInv
<1> SUFFICES ASSUME Init PROVE LocalInv /\ SharedInv
  OBVIOUS
<1>1. LocalInv
  BY DEF Init, EMInit, LocalInv, Threads, Workers, Labels
<1>2. SharedInv
  <2>1. emergencyEnabled \in BOOLEAN
    BY Zenon DEF Init, EMInit
  <2>2. budget \in Budgets
    BY RequestAssumption DEF Init, PSInit
  <2>3. wire.reached = NoTruck
    BY DEF Init, PSInit
  <2>4. currentState = "Idle" /\ appState = "INIT" /\ speed = 0 /\ brakeForce = 0 /\ postponed = {}
    BY DEF Init, EMInit
  <2> QED
    BY <2>1, <2>2, <2>3, <2>4 DEF SharedInv, FsmStates
<1> QED
  BY <1>1, <1>2

\* Every variable of the process keeps its type.
THEOREM ProcessTypeCorrect == Spec => []TypeOK
<1>1. OwnInv /\ MsgInv /\ LocalInv /\ SharedInv => TypeOK
  <2> SUFFICES ASSUME OwnInv, MsgInv, LocalInv, SharedInv PROVE TypeOK
    OBVIOUS
  <2>1. TMTypeOK
    BY DEF OwnInv, TMInv, TMTypeOK
  <2>2. queue \in [Workers -> Seq(Message)] /\ msg \in [Threads -> Message]
    <3>1. KnownMessage \subseteq Message
      BY DEF KnownMessage
    <3> HIDE DEF KnownMessage
    <3>2. Seq(KnownMessage) \subseteq Seq(Message)
      BY <3>1
    <3> QED
      BY <3>1, <3>2 DEF MsgInv
  <2>3. PSTypeOK
    BY <2>2 DEF OwnInv, SharedInv, PSTypeOK, ConnPcs
  <2>4. accepted \subseteq TruckIds \cup {NoTruck}
    BY DEF MsgInv, Known
  <2>5. EMTypeOK
    BY <2>2, <2>4 DEF LocalInv, SharedInv, FsmStates, EMTypeOK
  <2> QED
    BY <2>1, <2>3, <2>5 DEF TypeOK
<1> QED
  BY <1>1, OwnInit, OwnStep, MsgInit, MsgStep, LocalInit, LocalStep, SharedStep, PTL
     DEF Spec

-----------------------------------------------------------------------------
(* An emergency stays *)

LEMMA EmergencyStep ==
    ASSUME Next, appState = "EMERGENCY", appState' # "EMERGENCY"
    PROVE  \/ \E w \in Workers : At(w, "to_normal")
           \/ pc["app"] \in {"init_done", "idle"}
<1> USE DEF fsmvars
<1>1. CASE Server
  BY <1>1 DEF Server, emvars
<1>2. CASE appThread
  BY <1>2 DEF appThread, appSwitch, initSpeed, initBrake, toIdle, toNormal, appAssign,
     normalOperation, syncList, Sync, syncNext, syncSend, emergencyBrake, At
<1>3. CASE \E w \in Workers : processCommands(w)
  <2>1. PICK w \in Workers : processCommands(w)
    BY <1>3
  <2>2. CASE Dequeue(w) \/ setState(w) \/ handleEvent(w)
    BY <2>2 DEF Dequeue, setState, handleEvent
  <2>3. CASE handleJoin(w)
    BY <2>3 DEF handleJoin, joinLookup, joinCheck, joinAccept
  <2>4. CASE handleLeave(w)
    BY <2>4 DEF handleLeave, leaveEntry, readSpeed, readBrake, ReadField, writeSpeed,
       writeBrake, slowDown, leaveLookup, leaveStart, syncList
  <2>5. CASE Sync(w)
    BY <2>5 DEF Sync, syncNext, syncSend
  <2>6. CASE handleCommunicate(w)
    BY <2>6 DEF handleCommunicate, communicate, switchToEmergency, switchApp,
       setEmergencyEnabled
  <2>7. CASE external(w)
    BY <2>7 DEF external
  <2>8. CASE switchToNormal(w)
    BY <2>8 DEF switchToNormal, switchApp
  <2> QED
    BY <2>1, <2>2, <2>3, <2>4, <2>5, <2>6, <2>7, <2>8 DEF processCommands, handleExternal
<1> QED
  BY <1>1, <1>2, <1>3 DEF Next

\* Once the process has booted, only test_normal ends an emergency.
THEOREM EmergencyEndsOnRequest == Spec => EmergencyLatched
<1>1. [Next]_vars => [appState = "EMERGENCY" /\ appState' # "EMERGENCY" =>
                       \/ \E w \in Workers : At(w, "to_normal")
                       \/ pc["app"] \in {"init_done", "idle"}]_vars
  BY EmergencyStep
<1> QED
  BY <1>1, PTL DEF Spec, EmergencyLatched
=============================================================================
