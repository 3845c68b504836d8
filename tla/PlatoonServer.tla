---------------------------- MODULE PlatoonServer ----------------------------
(***************************************************************************)
(* The TCP server of the leading truck, communication/platoon_server.cpp:  *)
(* the accept loop and one detached thread per connection running          *)
(* handleTruckSocket.  The thread of a connection is named by the id it    *)
(* would draw from generateTruckID (a fresh UUID), so a connection and the *)
(* truck it authenticates are the same element of TruckIds.                *)
(*                                                                         *)
(* The kernel's descriptor table is external: accept() returns the lowest  *)
(* free descriptor, and a descriptor is free again once it was closed.     *)
(***************************************************************************)
EXTENDS TruckManager

CONSTANTS
    Requests,    \* [cmd, test, near]: what an honest peer may send after the
                 \* key exchange; test: isTesting(); near: distances below the
                 \* threshold of handleCommunicate
    Rejections,  \* kinds of message the server turns down
    Workloads    \* a behaviour draws one: how many connections are made, how many
                 \* messages are received over all of them, and which

NoTruck == "none"   \* an id no server drew
Commands == {"Idle", "authen", "join", "join_done", "leave", "leave_done",
             "status", "emergency", "obstacle", "test_emergency_on",
             "test_emergency_off", "test_normal", "unknown"}

Budgets == [connections : Nat, messages : Nat,
            requests : SUBSET Requests, rejections : SUBSET Rejections]

ASSUME RequestAssumption ==
    /\ Requests \subseteq [cmd : Commands, test : BOOLEAN, near : BOOLEAN]
    /\ Rejections \subseteq {"no_key", "auth_failed", "message_format_error"}
    /\ Workloads \subseteq Budgets
    /\ NoTruck \notin TruckIds

VARIABLES
    connPc,           \* per connection: "new" (not accepted), "recv", "auth_reply",
                      \* "remove" (closed, still in the registry), "done"
    fd,               \* per connection: its clientSocket while open, else NoSocket
    isAuthenticated,  \* per connection: local of handleTruckSocket
    budget,           \* the workload, less what has come of it
    queue,            \* regularQueue and emergencyQueue
    wire              \* the last send: command, truck it is meant for, connection
                      \* that owned the descriptor when send() ran

connvars == <<connPc, fd, isAuthenticated, budget>>

Message == [id : TruckIds \cup {NoTruck}, cmd : Commands, near : BOOLEAN]

Workers == {"regular", "emergency"}

-----------------------------------------------------------------------------
(* Sockets *)

OpenSockets == {fd[c] : c \in TruckIds} \ {NoSocket}

IsOpen(c) == c \in TruckIds /\ fd[c] # NoSocket

\* The connection a descriptor belongs to now.
HolderOf(s) ==
    IF s \in OpenSockets THEN CHOOSE c \in TruckIds : fd[c] = s ELSE NoTruck

\* send(socket, ...): the result is never looked at, so a send to -1 or to a
\* closed descriptor is lost silently.
sendResponse(s, cmd, for) ==
    wire' = [cmd |-> cmd, for |-> for, reached |-> HolderOf(s)]

-----------------------------------------------------------------------------
(* Actions *)

PSInit ==
    /\ connPc = [c \in TruckIds |-> "new"]
    /\ fd = [c \in TruckIds |-> NoSocket]
    /\ isAuthenticated = [c \in TruckIds |-> FALSE]
    /\ budget \in Workloads
    /\ queue = [w \in Workers |-> <<>>]
    /\ wire = [cmd |-> "none", for |-> NoTruck, reached |-> NoTruck]

\* start(): accept() returns the lowest free descriptor; the thread starts.
accept(c) ==
    /\ connPc[c] = "new" /\ budget.connections > 0
    /\ budget' = [budget EXCEPT !.connections = @ - 1]
    /\ \E s \in Sockets \ OpenSockets :
         /\ \A u \in Sockets \ OpenSockets : s <= u
         /\ fd' = [fd EXCEPT ![c] = s]
    /\ connPc' = [connPc EXCEPT ![c] = "recv"]
    /\ UNCHANGED <<isAuthenticated, queue, wire, tmvars>>

\* recv() has returned a message for the connection.
Receive(c) ==
    /\ connPc[c] = "recv" /\ budget.messages > 0
    /\ budget' = [budget EXCEPT !.messages = @ - 1]

\* Mutant: a truck that sends its key again is registered again.
authenticateTruck_Again(c) ==
    /\ Receive(c)
    /\ isAuthenticated' = [isAuthenticated EXCEPT ![c] = TRUE]
    /\ addTruck(c, fd[c])
    /\ connPc' = [connPc EXCEPT ![c] = "auth_reply"]
    /\ UNCHANGED <<fd, queue, wire>>

\* First message with the right key: an id is drawn and the truck added to the
\* registry before it hears of it.
authenticateTruck(c) ==
    /\ Receive(c) /\ ~isAuthenticated[c]
    /\ isAuthenticated' = [isAuthenticated EXCEPT ![c] = TRUE]
    /\ addTruck(c, fd[c])
    /\ connPc' = [connPc EXCEPT ![c] = "auth_reply"]
    /\ UNCHANGED <<fd, queue, wire>>

replyAuthOk(c) ==
    /\ connPc[c] = "auth_reply"
    /\ sendResponse(fd[c], "auth_ok", c)
    /\ connPc' = [connPc EXCEPT ![c] = "recv"]
    /\ UNCHANGED <<fd, isAuthenticated, budget, queue, tmvars>>

\* A message that changes nothing: no key (dropped silently), a wrong key, or
\* a body that TruckMessage cannot be built from.
rejectMessage(c, why) ==
    /\ Receive(c) /\ why \in budget.rejections
    /\ why # "message_format_error" => ~isAuthenticated[c]
    /\ IF why = "no_key" THEN UNCHANGED wire ELSE sendResponse(fd[c], why, c)
    /\ UNCHANGED <<connPc, fd, isAuthenticated, queue, tmvars>>

\* The queue a command goes to.
QueueOf(cmd) == IF cmd \in {"emergency", "obstacle"} THEN "emergency" ELSE "regular"

\* Authenticated, or a test message: enqueue it.  A truck names the id it got.
enqueueMessage(c, r) ==
    /\ Receive(c) /\ r \in budget.requests
    /\ isAuthenticated[c] \/ r.test
    /\ LET m == [id   |-> IF isAuthenticated[c] THEN c ELSE NoTruck,
                 cmd  |-> r.cmd,
                 near |-> r.near]
       IN  queue' = [queue EXCEPT ![QueueOf(r.cmd)] = Append(@, m)]
    /\ UNCHANGED <<connPc, fd, isAuthenticated, wire, tmvars>>

\* recv() returned 0 or -1: the descriptor is closed, and may be reused, before
\* the registry hears of it.
closeSocket(c) ==
    /\ connPc[c] = "recv"
    /\ fd' = [fd EXCEPT ![c] = NoSocket]
    /\ connPc' = [connPc EXCEPT ![c] = "remove"]
    /\ UNCHANGED <<isAuthenticated, budget, queue, wire, tmvars>>

\* Mutant: the thread ends without removeTruck.
removeClosed_Forgets(c) ==
    /\ connPc[c] = "remove"
    /\ connPc' = [connPc EXCEPT ![c] = "done"]
    /\ UNCHANGED <<tmvars, fd, isAuthenticated, budget, queue, wire>>

\* The last statement of the thread; a connection that never authenticated
\* calls removeTruck(""), which finds nothing.
removeClosed(c) ==
    /\ connPc[c] = "remove"
    /\ IF isAuthenticated[c] THEN removeTruck(c) ELSE UNCHANGED tmvars
    /\ connPc' = [connPc EXCEPT ![c] = "done"]
    /\ UNCHANGED <<fd, isAuthenticated, budget, queue, wire>>

\* Steps the connection threads take by themselves; the others wait for a peer.
PSThread(c) == replyAuthOk(c) \/ removeClosed(c)

PSNext ==
    \E c \in TruckIds :
        \/ accept(c)
        \/ authenticateTruck(c)
        \/ \E why \in Rejections : rejectMessage(c, why)
        \/ \E r \in Requests : enqueueMessage(c, r)
        \/ closeSocket(c)
        \/ PSThread(c)

PSTypeOK ==
    /\ connPc \in [TruckIds -> {"new", "recv", "auth_reply", "remove", "done"}]
    /\ fd \in [TruckIds -> Sockets \cup {NoSocket}]
    /\ isAuthenticated \in [TruckIds -> BOOLEAN]
    /\ budget \in Budgets
    /\ queue \in [Workers -> Seq(Message)]
    /\ wire.reached \in TruckIds \cup {NoTruck}
=============================================================================
