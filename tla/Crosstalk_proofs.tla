-------------------------- MODULE Crosstalk_proofs --------------------------
(***************************************************************************)
(* The proof that stale sockets do no harm to connected trucks: sockets    *)
(* are looked up, kept in locals and lists, and used after other threads   *)
(* have closed and reopened connections.                                   *)
(***************************************************************************)
EXTENDS LeadingTruck_proofs

(* Nothing meant for a connected truck reaches another one *)

\* A socket that was looked up for a truck is still the truck's own, or -1, as
\* long as the truck is connected.
SockOk(s, id) == id \in TruckIds /\ fd[id] # NoSocket => s \in {fd[id], NoSocket}

Arrived(id) == id \in TruckIds => connPc[id] # "new"

ListOk(l) == \A i \in 1 .. Len(l) : Arrived(l[i].id) /\ SockOk(l[i].socket, l[i].id)

\* What a thread carries between its lookups and its sends.
ThreadOk(t) ==
    /\ ListOk(list[t])
    /\ pc[t] \in {"join_check", "join_accept", "leave_start"} => SockOk(sock[t], msg[t].id)
    /\ pc[t] = "sync_send" => SockOk(sock[t], Head(list[t]).id)

WireOk == Arrived(wire.for) /\ NoCrosstalkWhileConnected

\* The inductive invariant behind NoCrosstalkWhileConnected: open connections
\* have different descriptors, and whatever a thread has kept is still right
\* for the trucks that are connected.
CrossInv ==
    /\ \A c \in TruckIds : connPc[c] \in {"new", "remove", "done"} => fd[c] = NoSocket
    /\ \A c, d \in TruckIds : fd[c] = fd[d] /\ fd[c] # NoSocket => c = d
    /\ \A t \in Threads : ThreadOk(t)
    /\ WireOk

\* A connection that was accepted keeps its descriptor until it closes, and
\* never opens again.
Steady == \A c \in TruckIds :
            connPc[c] # "new" => connPc'[c] # "new" /\ fd'[c] \in {fd[c], NoSocket}

LEMMA KeptSocketStaysOk ==
    ASSUME Steady, NEW s, NEW id, Arrived(id), SockOk(s, id)
    PROVE  Arrived(id)' /\ SockOk(s, id)'
  BY DEF Steady, Arrived, SockOk

LEMMA ServerIsSteady ==
    ASSUME OwnInv, CrossInv, Server
    PROVE  /\ Steady
           /\ \A c \in TruckIds : connPc'[c] \in {"new", "remove", "done"} => fd'[c] = NoSocket
           /\ \A c, d \in TruckIds : fd'[c] = fd'[d] /\ fd'[c] # NoSocket => c = d
<1>1. PICK c \in TruckIds :
         \/ accept(c) \/ authenticateTruck(c)
         \/ \E why \in Rejections : rejectMessage(c, why)
         \/ \E r \in Requests : enqueueMessage(c, r)
         \/ closeSocket(c) \/ replyAuthOk(c) \/ removeClosed(c)
  BY DEF Server, PSNext, PSThread
<1>2. CASE accept(c)
  <2>1. PICK s \in Sockets \ OpenSockets : fd' = [fd EXCEPT ![c] = s]
    BY <1>2 DEF accept
  <2>2. connPc[c] = "new" /\ connPc' = [connPc EXCEPT ![c] = "recv"]
    BY <1>2 DEF accept
  <2>3. \A d \in TruckIds : fd[d] = s => s = NoSocket
    BY <2>1 DEF OpenSockets
  <2>4. s # NoSocket
    BY <2>1, SocketAssumption DEF NoSocket
  <2> QED
    BY <2>1, <2>2, <2>3, <2>4 DEF OwnInv, CrossInv, Steady
<1>3. CASE closeSocket(c)
  BY <1>3 DEF closeSocket, OwnInv, CrossInv, Steady
<1>4. CASE UNCHANGED <<connPc, fd>>
  BY <1>4 DEF CrossInv, Steady
<1>5. CASE authenticateTruck(c) \/ replyAuthOk(c) \/ removeClosed(c)
  BY <1>5 DEF authenticateTruck, Receive, replyAuthOk, removeClosed, OwnInv, CrossInv, Steady
<1> QED
  BY <1>1, <1>2, <1>3, <1>4, <1>5 DEF rejectMessage, enqueueMessage

\* The descriptor of a connected truck leads to that truck, and -1 to nobody.
LEMMA HolderIsAddressee ==
    ASSUME OwnInv, CrossInv, NEW s, NEW id, SockOk(s, id), id \in TruckIds, fd[id] # NoSocket
    PROVE  HolderOf(s) \in {id, NoTruck}
<1>1. CASE s = NoSocket
  BY <1>1 DEF HolderOf, OpenSockets
<1>2. CASE s = fd[id] /\ s # NoSocket
  <2>1. \A c \in TruckIds : fd[c] = s => c = id
    BY <1>2 DEF CrossInv
  <2> QED
    BY <1>2, <2>1 DEF HolderOf
<1> QED
  BY <1>1, <1>2 DEF SockOk

LEMMA SendIsOk ==
    ASSUME OwnInv, CrossInv, UNCHANGED <<connPc, fd>>,
           NEW s, NEW cmd, NEW id, SockOk(s, id), Arrived(id), sendResponse(s, cmd, id)
    PROVE  WireOk'
<1>1. wire'.for = id /\ wire'.reached = HolderOf(s)
  BY DEF sendResponse
<1>2. id \in TruckIds /\ fd[id] # NoSocket => HolderOf(s) \in {id, NoTruck}
  BY HolderIsAddressee
<1> QED
  BY <1>1, <1>2 DEF WireOk, Arrived, NoCrosstalkWhileConnected, IsOpen

LEMMA WireStaysOk ==
    ASSUME WireOk, Steady, wire' = wire
    PROVE  WireOk'
  BY DEF WireOk, Steady, Arrived, NoCrosstalkWhileConnected, IsOpen

LEMMA ServerKeepsWire ==
    ASSUME OwnInv, CrossInv, Server
    PROVE  WireOk'
<1>1. PICK c \in TruckIds :
         \/ accept(c) \/ authenticateTruck(c)
         \/ \E why \in Rejections : rejectMessage(c, why)
         \/ \E r \in Requests : enqueueMessage(c, r)
         \/ closeSocket(c) \/ replyAuthOk(c) \/ removeClosed(c)
  BY DEF Server, PSNext, PSThread
<1>2. SockOk(fd[c], c)
  BY DEF SockOk
<1>3. ASSUME wire' = wire PROVE WireOk'
  BY <1>3, ServerIsSteady, WireStaysOk DEF CrossInv
<1>4. CASE \E why \in Rejections : rejectMessage(c, why)
  <2>1. PICK why \in Rejections : rejectMessage(c, why)
    BY <1>4
  <2>2. CASE sendResponse(fd[c], why, c)
    <3>1. Arrived(c) /\ UNCHANGED <<connPc, fd>>
      BY <2>1 DEF rejectMessage, Receive, Arrived
    <3> QED
      BY <1>2, <2>2, <3>1, SendIsOk
  <2> QED
    BY <1>3, <2>1, <2>2 DEF rejectMessage
<1>5. CASE replyAuthOk(c)
  <2>1. wire'.for = c /\ wire'.reached = HolderOf(fd[c])
    BY <1>5 DEF replyAuthOk, sendResponse
  <2>2. fd[c] # NoSocket => HolderOf(fd[c]) \in {c, NoTruck}
    BY <1>2, HolderIsAddressee
  <2>3. fd' = fd /\ connPc'[c] # "new"
    BY <1>5 DEF replyAuthOk, OwnInv
  <2> QED
    BY <2>1, <2>2, <2>3 DEF WireOk, Arrived, NoCrosstalkWhileConnected, IsOpen
<1> QED
  BY <1>1, <1>3, <1>4, <1>5
     DEF accept, authenticateTruck, enqueueMessage, closeSocket, removeClosed

LEMMA KnownHasArrived ==
    ASSUME OwnInv, MsgInv, NEW t \in Threads
    PROVE  Arrived(msg[t].id)
  BY RequestAssumption DEF OwnInv, MsgInv, Known, KnownMessage, Arrived

LEMMA ServerKeepsCross ==
    ASSUME OwnInv, MsgInv, LocalInv, CrossInv, Server
    PROVE  CrossInv'
<1>1. Steady
  BY ServerIsSteady
<1>2. UNCHANGED <<pc, msg, list, sock>>
  BY DEF Server, emvars, locals
<1>3. ASSUME NEW t \in Threads PROVE ThreadOk(t)'
  <2>1. ThreadOk(t) /\ list[t] \in Seq(Truck) /\ (pc[t] = "sync_send" => list[t] # <<>>)
    BY DEF CrossInv, LocalInv
  <2>2. ListOk(list[t])'
    BY <1>1, <1>2, <2>1, KeptSocketStaysOk DEF ThreadOk, ListOk
  <2>3. Arrived(msg[t].id)
    BY KnownHasArrived
  <2>4. SockOk(sock[t], msg[t].id) => SockOk(sock[t], msg[t].id)'
    BY <1>1, <1>2, <2>3 DEF Steady, Arrived, SockOk
  <2>5. list[t] # <<>> => Arrived(Head(list[t]).id)
    BY <2>1 DEF ThreadOk, ListOk
  <2>6. list[t] # <<>> /\ SockOk(sock[t], Head(list[t]).id)
           => SockOk(sock[t], Head(list[t]).id)'
    BY <1>1, <1>2, <2>5 DEF Steady, Arrived, SockOk
  <2> QED
    BY <1>2, <2>1, <2>2, <2>4, <2>6 DEF ThreadOk
<1> QED
  BY <1>3, ServerIsSteady, ServerKeepsWire DEF CrossInv

\* A step of thread t, which moves no connection and no other thread.
StepOf(t) ==
    /\ UNCHANGED <<connPc, fd>>
    /\ \A u \in Threads \ {t} : /\ pc'[u] = pc[u] /\ msg'[u] = msg[u]
                                /\ list'[u] = list[u] /\ sock'[u] = sock[u]

LEMMA StepKeepsCross ==
    ASSUME CrossInv, NEW t \in Threads, StepOf(t), ThreadOk(t)', WireOk'
    PROVE  CrossInv'
<1>1. ASSUME NEW u \in Threads \ {t} PROVE ThreadOk(u)'
  <2>1. ThreadOk(u)
    BY DEF CrossInv
  <2> QED
    BY <2>1 DEF StepOf, ThreadOk, ListOk, Arrived, SockOk
<1> QED
  BY <1>1 DEF CrossInv, StepOf

LEMMA WireKept ==
    ASSUME CrossInv, UNCHANGED <<connPc, fd, wire>>
    PROVE  WireOk'
  BY DEF CrossInv, WireOk, Arrived, NoCrosstalkWhileConnected, IsOpen

\* The round of a thread ends: it keeps nothing.
LEMMA FinishIsOk ==
    ASSUME LocalInv, MsgInv, NEW t \in Threads, Finish(t), UNCHANGED <<connPc, fd>>
    PROVE  StepOf(t) /\ ThreadOk(t)'
<1>1. /\ pc' = [pc EXCEPT ![t] = Top(t)] /\ msg' = [msg EXCEPT ![t] = NoMsg]
      /\ list' = [list EXCEPT ![t] = <<>>] /\ sock' = [sock EXCEPT ![t] = NoSocket]
  BY DEF Finish, Goto
<1>2. pc'[t] \notin {"join_check", "join_accept", "leave_start", "sync_send"}
  BY <1>1 DEF LocalInv, Top
<1>3. list'[t] = <<>>
  BY <1>1 DEF LocalInv
<1>4. StepOf(t)
  BY <1>1 DEF LocalInv, MsgInv, StepOf
<1> QED
  BY <1>2, <1>3, <1>4 DEF ThreadOk, ListOk

\* A move to a label where no looked-up socket is kept.
LEMMA GotoIsOk ==
    ASSUME LocalInv, CrossInv, NEW t \in Threads,
           NEW l \in Labels \ {"join_check", "join_accept", "leave_start", "sync_send"},
           Goto(t, l), UNCHANGED <<connPc, fd, list, sock>>,
           \A u \in Threads \ {t} : msg'[u] = msg[u]
    PROVE  StepOf(t) /\ ThreadOk(t)'
<1>1. pc' = [pc EXCEPT ![t] = l]
  BY DEF Goto
<1>2. ThreadOk(t)
  BY DEF CrossInv
<1>3. StepOf(t)
  BY <1>1 DEF LocalInv, StepOf
<1>4. pc'[t] = l
  BY <1>1 DEF LocalInv
<1> QED
  BY <1>2, <1>3, <1>4 DEF ThreadOk, ListOk, Arrived, SockOk

\* What the registry answers is right at that moment.
LEMMA SocketAnswerIsOk ==
    ASSUME OwnInv, CrossInv, NEW id
    PROVE  SockOk(getSocketId(id), id)
<1>1. CASE id \in Registered
  <2>1. find(id) \in DOMAIN trucks /\ trucks[find(id)].id = id
    BY <1>1, FindFirst DEF OwnInv, TMInv
  <2>2. /\ getSocketId(id) = trucks[find(id)].socket
        /\ connPc[id] # "remove" => trucks[find(id)].socket = fd[id]
    BY <1>1, <2>1 DEF getSocketId, OwnInv, NoGhostTruck
  <2>3. id \in TruckIds /\ connPc[id] = "remove" => fd[id] = NoSocket
    BY DEF CrossInv
  <2> QED
    BY <2>2, <2>3 DEF SockOk
<1>2. CASE id \notin Registered
  BY <1>2 DEF getSocketId, SockOk
<1> QED
  BY <1>1, <1>2

LEMMA ListAnswerIsOk ==
    ASSUME OwnInv, CrossInv
    PROVE  ListOk(getTrucks)
<1>1. /\ getTrucks = trucks /\ Len(getTrucks) = currentOrder
      /\ DOMAIN trucks = 1 .. currentOrder
  BY LineIsTheMap DEF OwnInv, TMInv
<1>2. ASSUME NEW o \in DOMAIN trucks
      PROVE  Arrived(trucks[o].id) /\ SockOk(trucks[o].socket, trucks[o].id)
  <2>1. /\ connPc[trucks[o].id] \in {"auth_reply", "recv", "remove"}
        /\ connPc[trucks[o].id] # "remove" => trucks[o].socket = fd[trucks[o].id]
    BY DEF OwnInv, NoGhostTruck
  <2>2. trucks[o].id \in TruckIds /\ connPc[trucks[o].id] = "remove"
           => fd[trucks[o].id] = NoSocket
    BY DEF CrossInv
  <2> QED
    BY <2>1, <2>2 DEF Arrived, SockOk
<1> QED
  BY <1>1, <1>2 DEF ListOk

\* A lookup, and a move to the label where its answer is used.
LEMMA LookupIsOk ==
    ASSUME OwnInv, LocalInv, CrossInv, NEW t \in Threads, UNCHANGED <<connPc, fd, list, msg>>,
           NEW l \in {"join_check", "leave_start"}, Goto(t, l),
           sock' = [sock EXCEPT ![t] = getSocketId(msg[t].id)]
    PROVE  StepOf(t) /\ ThreadOk(t)'
<1>1. pc' = [pc EXCEPT ![t] = l]
  BY DEF Goto
<1>2. ThreadOk(t) /\ SockOk(getSocketId(msg[t].id), msg[t].id)
  BY SocketAnswerIsOk DEF CrossInv
<1>3. StepOf(t)
  BY <1>1 DEF LocalInv, StepOf
<1>4. pc'[t] = l /\ sock'[t] = getSocketId(msg[t].id)
  BY <1>1 DEF LocalInv
<1> QED
  BY <1>2, <1>3, <1>4 DEF ThreadOk, ListOk, Arrived, SockOk

\* A list is replaced: by what the registry answers, or by its own rest.
LEMMA ListIsOk ==
    ASSUME LocalInv, CrossInv, NEW t \in Threads, UNCHANGED <<connPc, fd, msg>>,
           NEW l \in Labels \ {"join_check", "join_accept", "leave_start", "sync_send"},
           pc' = [pc EXCEPT ![t] = l],
           NEW q, ListOk(q), list' = [list EXCEPT ![t] = q],
           sock' = sock \/ sock' = [sock EXCEPT ![t] = NoSocket]
    PROVE  StepOf(t) /\ ThreadOk(t)'
<1>1. StepOf(t)
  BY DEF LocalInv, StepOf
<1>2. pc'[t] = l /\ list'[t] = q
  BY DEF LocalInv
<1> QED
  BY <1>1, <1>2 DEF ThreadOk, ListOk, Arrived, SockOk

LEMMA RestIsOk ==
    ASSUME NEW q \in Seq(Truck), q # <<>>, ListOk(q)
    PROVE  /\ ListOk(Tail(q))
           /\ Arrived(Head(q).id) /\ SockOk(Head(q).socket, Head(q).id)
<1>1. \A i \in 1 .. Len(Tail(q)) : i + 1 \in 1 .. Len(q) /\ Tail(q)[i] = q[i + 1]
  OBVIOUS
<1>2. 1 \in 1 .. Len(q) /\ Head(q) = q[1]
  OBVIOUS
<1> QED
  BY <1>1, <1>2 DEF ListOk

LEMMA SyncKeepsCross ==
    ASSUME OwnInv, MsgInv, LocalInv, CrossInv, NEW t \in Threads, syncList(t) \/ Sync(t)
    PROVE  CrossInv'
<1> USE DEF psvars, connvars
<1>1. UNCHANGED <<connPc, fd>>
  BY DEF Sync, syncList, syncNext, syncSend
<1>2. CASE syncList(t)
  <2>1. /\ pc' = [pc EXCEPT ![t] = "sync_next"]
        /\ list' = [list EXCEPT ![t] = getTrucks]
        /\ UNCHANGED <<msg, sock, wire>>
    BY <1>2 DEF syncList, Goto
  <2>2. "sync_next" \in Labels \ {"join_check", "join_accept", "leave_start", "sync_send"}
    BY DEF Labels
  <2> QED
    BY <1>1, <2>1, <2>2, ListAnswerIsOk, ListIsOk, WireKept, StepKeepsCross
<1>3. CASE syncNext(t)
  <2>1. CASE list[t] = <<>>
    BY <1>1, <1>3, <2>1, FinishIsOk, WireKept, StepKeepsCross DEF syncNext
  <2>2. CASE list[t] # <<>>
    <3>1. /\ pc' = [pc EXCEPT ![t] = "sync_send"]
          /\ sock' = [sock EXCEPT ![t] = getSocketId(Head(list[t]).id)]
          /\ UNCHANGED <<msg, list, wire>>
      BY <1>3, <2>2 DEF syncNext, Goto
    <3>2. ThreadOk(t) /\ SockOk(getSocketId(Head(list[t]).id), Head(list[t]).id)
      BY SocketAnswerIsOk DEF CrossInv
    <3>3. pc'[t] = "sync_send" /\ sock'[t] = getSocketId(Head(list[t]).id)
      BY <3>1 DEF LocalInv
    <3>4. ThreadOk(t)'
      BY <1>1, <3>1, <3>2, <3>3 DEF ThreadOk, ListOk, Arrived, SockOk
    <3>5. StepOf(t)
      BY <1>1, <3>1 DEF LocalInv, StepOf
    <3> QED
      BY <1>1, <3>1, <3>4, <3>5, WireKept, StepKeepsCross
  <2> QED
    BY <2>1, <2>2
<1>4. CASE syncSend(t)
  <2>1. /\ pc[t] = "sync_send" /\ pc' = [pc EXCEPT ![t] = "sync_next"]
        /\ sendResponse(sock[t], "sync", Head(list[t]).id)
        /\ list' = [list EXCEPT ![t] = Tail(list[t])]
        /\ sock' = [sock EXCEPT ![t] = NoSocket]
        /\ msg' = msg
    BY <1>4 DEF syncSend, Goto, At
  <2>2. /\ list[t] \in Seq(Truck) /\ list[t] # <<>> /\ ListOk(list[t])
        /\ SockOk(sock[t], Head(list[t]).id)
    BY <2>1 DEF LocalInv, CrossInv, ThreadOk
  <2>3. ListOk(Tail(list[t])) /\ Arrived(Head(list[t]).id)
    BY <2>2, RestIsOk
  <2>4. WireOk'
    BY <1>1, <2>1, <2>2, <2>3, SendIsOk
  <2>5. "sync_next" \in Labels \ {"join_check", "join_accept", "leave_start", "sync_send"}
    BY DEF Labels
  <2> QED
    BY <1>1, <2>1, <2>3, <2>4, <2>5, ListIsOk, StepKeepsCross
<1> QED
  BY <1>2, <1>3, <1>4 DEF Sync

LEMMA DispatchKeepsCross ==
    ASSUME OwnInv, MsgInv, LocalInv, CrossInv, NEW w \in Workers,
           Dequeue(w) \/ setState(w) \/ handleEvent(w)
    PROVE  CrossInv'
<1> USE DEF psvars, connvars
<1> w \in Threads
  BY WorkersAreThreads
<1>1. UNCHANGED <<connPc, fd, wire>>
  BY DEF Dequeue, setState, handleEvent
<1>2. WireOk'
  BY <1>1, WireKept
<1>3. {"set_state", "handle"} \subseteq Labels \ {"join_check", "join_accept", "leave_start", "sync_send"}
  BY DEF Labels
<1>4. CASE Dequeue(w)
  <2>1. Goto(w, "set_state") /\ UNCHANGED <<list, sock>>
        /\ \A u \in Threads \ {w} : msg'[u] = msg[u]
    BY <1>4 DEF Dequeue, MsgInv
  <2> QED
    BY <1>1, <1>2, <1>3, <2>1, GotoIsOk, StepKeepsCross
<1>5. CASE setState(w)
  <2>1. Finish(w) \/ (Goto(w, "handle") /\ UNCHANGED locals)
    BY <1>5 DEF setState
  <2>2. CASE Finish(w)
    BY <1>1, <1>2, <2>2, FinishIsOk, StepKeepsCross
  <2>3. CASE Goto(w, "handle") /\ UNCHANGED locals
    BY <1>1, <1>2, <1>3, <2>3, GotoIsOk, StepKeepsCross DEF locals
  <2> QED
    BY <2>1, <2>2, <2>3
<1>6. CASE handleEvent(w)
  <2>1. CASE HandlerOf(currentState) = "nothing"
    BY <1>1, <1>2, <1>6, <2>1, FinishIsOk, StepKeepsCross DEF handleEvent
  <2>2. CASE HandlerOf(currentState) # "nothing"
    <3>1. HandlerOf(currentState)
            \in Labels \ {"join_check", "join_accept", "leave_start", "sync_send"}
      BY <2>2 DEF HandlerOf, Labels
    <3> QED
      BY <1>1, <1>2, <1>6, <2>2, <3>1, GotoIsOk, StepKeepsCross DEF handleEvent, locals
  <2> QED
    BY <2>1, <2>2
<1> QED
  BY <1>4, <1>5, <1>6

LEMMA JoinKeepsCross ==
    ASSUME OwnInv, MsgInv, LocalInv, CrossInv, NEW w \in Workers, handleJoin(w)
    PROVE  CrossInv'
<1> USE DEF psvars, connvars
<1> w \in Threads
  BY WorkersAreThreads
<1>1. UNCHANGED <<connPc, fd>>
  BY DEF handleJoin, joinLookup, joinCheck, joinAccept
<1>2. CASE joinLookup(w)
  BY <1>1, <1>2, LookupIsOk, WireKept, StepKeepsCross DEF joinLookup
<1>3. CASE joinCheck(w)
  <2>1. wire' = wire
    BY <1>3 DEF joinCheck
  <2>2. CASE Finish(w)
    BY <1>1, <2>1, <2>2, FinishIsOk, WireKept, StepKeepsCross
  <2>3. CASE Goto(w, "join_accept") /\ UNCHANGED locals
    <3>1. /\ pc[w] = "join_check" /\ pc' = [pc EXCEPT ![w] = "join_accept"]
          /\ UNCHANGED <<msg, list, sock>>
      BY <1>3, <2>3 DEF joinCheck, At, Goto, locals
    <3>2. ThreadOk(w)
      BY DEF CrossInv
    <3>3. pc'[w] = "join_accept"
      BY <3>1 DEF LocalInv
    <3>4. ThreadOk(w)'
      BY <1>1, <3>1, <3>2, <3>3 DEF ThreadOk, ListOk, Arrived, SockOk
    <3>5. StepOf(w)
      BY <1>1, <3>1 DEF LocalInv, StepOf
    <3> QED
      BY <1>1, <2>1, <3>4, <3>5, WireKept, StepKeepsCross
  <2> QED
    BY <1>3, <2>2, <2>3 DEF joinCheck
<1>4. CASE joinAccept(w)
  <2>1. /\ pc[w] = "join_accept" /\ Finish(w)
        /\ sendResponse(sock[w], "join_accepted", msg[w].id)
    BY <1>4 DEF joinAccept, At
  <2>2. SockOk(sock[w], msg[w].id) /\ Arrived(msg[w].id)
    BY <2>1, KnownHasArrived DEF CrossInv, ThreadOk
  <2>3. WireOk'
    BY <1>1, <2>1, <2>2, SendIsOk
  <2> QED
    BY <1>1, <2>1, <2>3, FinishIsOk, StepKeepsCross
<1> QED
  BY <1>2, <1>3, <1>4 DEF handleJoin

LEMMA LeaveKeepsCross ==
    ASSUME OwnInv, MsgInv, LocalInv, CrossInv, NEW w \in Workers, handleLeave(w)
    PROVE  CrossInv'
<1> USE DEF psvars, connvars
<1> w \in Threads
  BY WorkersAreThreads
<1> DEFINE Plain == Labels \ {"join_check", "join_accept", "leave_start", "sync_send"}
<1>1. {"speed_read", "speed_write", "brake_read", "brake_write", "slow_down",
       "leave_lookup", "sync"} \subseteq Plain
  BY DEF Labels
<1> HIDE DEF Plain
<1>2. ASSUME NEW l \in Plain, Goto(w, l), UNCHANGED <<connPc, fd, wire, list, sock, msg>>
      PROVE  CrossInv'
  BY <1>2, GotoIsOk, WireKept, StepKeepsCross DEF Plain
<1>3. CASE leaveEntry(w)
  <2>1. UNCHANGED <<connPc, fd, wire>>
    BY <1>3 DEF leaveEntry
  <2>2. CASE Goto(w, "speed_read") /\ UNCHANGED locals
    BY <1>1, <1>2, <2>1, <2>2 DEF locals
  <2>3. CASE Finish(w)
    BY <2>1, <2>3, FinishIsOk, WireKept, StepKeepsCross
  <2>4. CASE /\ list' = [list EXCEPT ![w] = getTrucks]
             /\ Goto(w, "speed_read") /\ UNCHANGED <<msg, sock, temp>>
    <3>1. pc' = [pc EXCEPT ![w] = "speed_read"] /\ "speed_read" \in Plain
      BY <1>1, <2>4 DEF Goto
    <3> QED
      BY <2>1, <2>4, <3>1, ListAnswerIsOk, ListIsOk, WireKept, StepKeepsCross DEF Plain
  <2> QED
    BY <1>3, <2>2, <2>3, <2>4 DEF leaveEntry
<1>4. CASE readSpeed(w) \/ readBrake(w)
  BY <1>1, <1>2, <1>4 DEF readSpeed, readBrake, ReadField
<1>5. CASE writeSpeed(w)
  BY <1>1, <1>2, <1>5 DEF writeSpeed, locals
<1>6. CASE writeBrake(w)
  <2>1. Goto(w, "sync") \/ Goto(w, "slow_down")
    BY <1>6 DEF writeBrake
  <2> QED
    BY <1>1, <1>2, <1>6, <2>1 DEF writeBrake
<1>7. CASE slowDown(w)
  <2>1. UNCHANGED <<connPc, fd, msg, sock>> /\ pc[w] = "slow_down"
    BY <1>7 DEF slowDown, At
  <2>2. CASE list[w] = <<>>
    BY <1>1, <1>2, <1>7, <2>1, <2>2 DEF slowDown
  <2>3. CASE list[w] # <<>>
    <3> DEFINE e == Head(list[w])
    <3>1. /\ wire' = wire \/ sendResponse(e.socket, "slow_down", e.id)
          /\ list' = [list EXCEPT ![w] = Tail(list[w])]
          /\ pc' = pc
      BY <1>7, <2>3 DEF slowDown
    <3>2. list[w] \in Seq(Truck) /\ ListOk(list[w])
      BY DEF LocalInv, CrossInv, ThreadOk
    <3>3. ListOk(Tail(list[w])) /\ Arrived(e.id) /\ SockOk(e.socket, e.id)
      BY <2>3, <3>2, RestIsOk
    <3> HIDE DEF e
    <3>4. WireOk'
      BY <2>1, <3>1, <3>3, SendIsOk, WireKept
    <3>5. pc' = [pc EXCEPT ![w] = "slow_down"] /\ "slow_down" \in Plain
      BY <1>1, <2>1, <3>1 DEF LocalInv
    <3> QED
      BY <2>1, <3>1, <3>3, <3>4, <3>5, ListIsOk, StepKeepsCross DEF Plain
  <2> QED
    BY <2>2, <2>3
<1>8. CASE leaveLookup(w)
  BY <1>8, LookupIsOk, WireKept, StepKeepsCross DEF leaveLookup
<1>9. CASE leaveStart(w)
  <2>1. /\ pc[w] = "leave_start" /\ Finish(w) /\ UNCHANGED <<connPc, fd>>
        /\ sendResponse(sock[w], "leave_start", msg[w].id)
    BY <1>9 DEF leaveStart, At
  <2>2. SockOk(sock[w], msg[w].id) /\ Arrived(msg[w].id)
    BY <2>1, KnownHasArrived DEF CrossInv, ThreadOk
  <2>3. WireOk'
    BY <2>1, <2>2, SendIsOk
  <2> QED
    BY <2>1, <2>3, FinishIsOk, StepKeepsCross
<1>10. CASE syncList(w)
  BY <1>10, SyncKeepsCross
<1> QED
  BY <1>3, <1>4, <1>5, <1>6, <1>7, <1>8, <1>9, <1>10 DEF handleLeave

LEMMA AlarmKeepsCross ==
    ASSUME OwnInv, MsgInv, LocalInv, CrossInv, NEW w \in Workers,
           handleCommunicate(w) \/ handleExternal(w)
    PROVE  CrossInv'
<1> USE DEF psvars, connvars
<1> w \in Threads
  BY WorkersAreThreads
<1>1. UNCHANGED <<connPc, fd, wire>>
  BY DEF handleCommunicate, handleExternal, communicate, external, switchToEmergency,
         switchToNormal, switchApp, setEmergencyEnabled
<1>2. \/ Finish(w)
      \/ \E l \in {"to_emergency", "to_normal", "enable", "disable"} :
           Goto(w, l) /\ UNCHANGED locals
  BY DEF handleCommunicate, handleExternal, communicate, external, switchToEmergency,
         switchToNormal, switchApp, setEmergencyEnabled
<1>3. CASE Finish(w)
  BY <1>1, <1>3, FinishIsOk, WireKept, StepKeepsCross
<1>4. CASE \E l \in {"to_emergency", "to_normal", "enable", "disable"} :
             Goto(w, l) /\ UNCHANGED locals
  <2>1. {"to_emergency", "to_normal", "enable", "disable"}
          \subseteq Labels \ {"join_check", "join_accept", "leave_start", "sync_send"}
    BY DEF Labels
  <2> QED
    BY <1>1, <1>4, <2>1, GotoIsOk, WireKept, StepKeepsCross DEF locals
<1> QED
  BY <1>2, <1>3, <1>4

LEMMA AppKeepsCross ==
    ASSUME OwnInv, MsgInv, LocalInv, SharedInv, CrossInv, appThread
    PROVE  CrossInv'
<1> USE DEF psvars, connvars
<1> "app" \in Threads
  BY WorkersAreThreads
<1>1. CASE normalOperation
  BY <1>1, SyncKeepsCross DEF normalOperation
<1>2. CASE ~normalOperation
  <2>1. \/ appSwitch \/ initSpeed \/ initBrake \/ toIdle \/ toNormal \/ emergencyBrake
    BY <1>2 DEF appThread
  <2>2. UNCHANGED <<connPc, fd>> /\ UNCHANGED locals
    BY <2>1 DEF appSwitch, initSpeed, initBrake, toIdle, toNormal, appAssign, emergencyBrake
  <2>3. \E l \in {"init", "init_brake", "init_done", "idle", "sync", "broadcast", "switch"} :
          Goto("app", l)
    <3>1. CASE appSwitch
      BY <3>1, Zenon DEF appSwitch, SharedInv
    <3>2. CASE ~appSwitch
      BY <2>1, <3>2 DEF initSpeed, initBrake, toIdle, toNormal, appAssign, emergencyBrake
    <3> QED
      BY <3>1, <3>2
  <2>4. {"init", "init_brake", "init_done", "idle", "sync", "broadcast", "switch"}
          \subseteq Labels \ {"join_check", "join_accept", "leave_start", "sync_send"}
    BY DEF Labels
  <2>5. StepOf("app") /\ ThreadOk("app")'
    BY <2>2, <2>3, <2>4, GotoIsOk DEF locals
  <2>6. WireOk'
    <3>1. CASE emergencyBrake
      <4>1. wire'.for = NoTruck
        BY <3>1 DEF emergencyBrake
      <4> QED
        BY <4>1, RequestAssumption DEF WireOk, Arrived, NoCrosstalkWhileConnected, IsOpen
    <3>2. CASE ~emergencyBrake
      <4>1. wire' = wire
        BY <2>1, <3>2 DEF appSwitch, initSpeed, initBrake, toIdle, toNormal, appAssign
      <4> QED
        BY <2>2, <4>1, WireKept
    <3> QED
      BY <3>1, <3>2
  <2> QED
    BY <2>5, <2>6, StepKeepsCross
<1> QED
  BY <1>1, <1>2

LEMMA CrossStep ==
    OwnInv /\ MsgInv /\ LocalInv /\ SharedInv /\ CrossInv /\ [Next]_vars => CrossInv'
<1> SUFFICES ASSUME OwnInv, MsgInv, LocalInv, SharedInv, CrossInv, [Next]_vars
             PROVE  CrossInv'
  OBVIOUS
<1>1. CASE Server
  BY <1>1, ServerKeepsCross
<1>2. CASE appThread
  BY <1>2, AppKeepsCross
<1>3. CASE \E w \in Workers : processCommands(w)
  BY <1>3, WorkersAreThreads, DispatchKeepsCross, JoinKeepsCross, LeaveKeepsCross,
     SyncKeepsCross, AlarmKeepsCross DEF processCommands
<1>4. CASE UNCHANGED vars
  <2>1. UNCHANGED <<connPc, fd, wire, pc, msg, list, sock>>
    BY <1>4 DEF vars, emvars, locals, connvars
  <2> QED
    BY <2>1 DEF CrossInv, ThreadOk, ListOk, Arrived, SockOk, WireOk,
       NoCrosstalkWhileConnected, IsOpen
<1> QED
  BY <1>1, <1>2, <1>3, <1>4 DEF Next

LEMMA CrossInit == Init => CrossInv
<1> SUFFICES ASSUME Init PROVE CrossInv
  OBVIOUS
<1>1. \A t \in Threads : ThreadOk(t)
  BY DEF Init, EMInit, ThreadOk, ListOk, Threads, Workers
<1>2. WireOk
  BY RequestAssumption DEF Init, PSInit, WireOk, Arrived, NoCrosstalkWhileConnected, IsOpen
<1> QED
  BY <1>1, <1>2 DEF Init, PSInit, CrossInv

\* While a truck is connected, what is meant for it reaches nobody else, for any
\* number of trucks, workers' lists of any age and any reuse of descriptors.
THEOREM NoCrosstalk == Spec => []NoCrosstalkWhileConnected
<1>1. CrossInv => NoCrosstalkWhileConnected
  BY DEF CrossInv, WireOk
<1> QED
  BY <1>1, OwnInit, OwnStep, MsgInit, MsgStep, LocalInit, LocalStep, SharedStep,
     CrossInit, CrossStep, PTL DEF Spec
=============================================================================
