---------------------------- MODULE PlatoonClient ----------------------------
(***************************************************************************)
(* The sockets of a following truck (communication/platoon_client.cpp) and *)
(* what the leading truck puts on them.  Every call of startClient opens a *)
(* new pair of sockets, numbered by conn; the numbers of earlier pairs     *)
(* stay in the kernel until they are closed and nobody blocks on them.     *)
(*                                                                         *)
(* The leader is the server side seen from one truck: what it is asked it  *)
(* answers in order, with an error where it cannot parse it, or leaves     *)
(* unanswered; it synchronises a registered truck, may answer an alert as  *)
(* if it were a request, and drops a truck whose connection it has lost.   *)
(* LeadingTruck.tla models it in full, the reuse of descriptors included:  *)
(* here a message reaches the connection it was meant for or none.         *)
(***************************************************************************)
EXTENDS Naturals, Sequences

CONSTANT
    MaxConns    \* bound on the calls of startClient

ASSUME ClientAssumption == MaxConns \in Nat

Conns == 1 .. MaxConns

\* Bounds of a behaviour: calls of startClient; messages of the leader nobody
\* asked for; requests it refuses or does not answer; emergency broadcasts; refused
\* connects, failed sends and broken connections; ends of the leader's process.
Bounds == [attempts : 0 .. MaxConns, chatter : Nat, refusals : Nat, broadcasts : Nat,
           faults : Nat, ends : Nat]

VARIABLES
    conn,        \* number of the sockets in tcpSocket and udpSocket, 0: none yet
    tcpOpen,     \* tcpSocket is connected
    bound,       \* numbers whose UDP socket was bound to the port
    closed,      \* numbers closed by closeClientSocket
    outbox,      \* per connection: requests the leader has still to read
    inbox,       \* per connection: messages of the leader not yet received
    datagrams,   \* broadcasts waiting in the bound UDP socket
    registered,  \* connections in the leader's registry
    enrolled,    \* history: connections that ever were
    accepted,    \* history: connections that were granted a join
    peer,        \* per connection: the leader's end of it
    leaderUp,    \* the leader's process runs
    left         \* what is left of the bounds

sockets == <<conn, tcpOpen, bound, closed>>
members == <<registered, enrolled, accepted>>
leader  == <<members, peer, leaderUp>>
clvars  == <<sockets, outbox, inbox, datagrams, leader, left>>

\* The messages whose order counts: "join_done" is mapped to the handler of "join".
Answered == {"auth", "join", "join_done", "leave", "leave_done"}

\* "error" stands for a reply that names no command.
FromLeader == {"auth_ok", "join_accepted", "leave_start", "sync", "slow_down", "error"}

CLInit(bounds) ==
    /\ conn = 0 /\ tcpOpen = FALSE /\ bound = {} /\ closed = {}
    /\ outbox = [c \in Conns |-> <<>>] /\ inbox = [c \in Conns |-> <<>>]
    /\ datagrams = 0 /\ registered = {} /\ enrolled = {} /\ accepted = {}
    /\ peer = [c \in Conns |-> "up"] /\ leaderUp = TRUE
    /\ left = bounds

\* The bound k allows one more.
Spend(k) == left[k] > 0 /\ left' = [left EXCEPT ![k] = @ - 1]

-----------------------------------------------------------------------------
(* The client *)

udpOpen == conn > 0 /\ conn \notin closed

\* bind() fails while a socket bound earlier is not closed, or is closed but
\* a thread still blocks in recvfrom on it (users: those sockets).
PortTaken(users) == (bound \ closed) \cup (bound \cap users) # {}

\* connect(): refused at most faults times, or where nobody listens.
Connects(connected) == IF leaderUp THEN connected \/ left.faults > 0 ELSE ~connected

\* Mutant: the result of the UDP bind is ignored.
startClient_TcpOnly(users, connected, ok) ==
    /\ conn' = conn + 1
    /\ tcpOpen' = connected
    /\ bound' = IF PortTaken(users) THEN bound ELSE bound \cup {conn + 1}
    /\ datagrams' = IF PortTaken(users) THEN datagrams ELSE 0
    /\ ok = connected
    /\ left.attempts > 0 /\ Connects(connected)
    /\ left' = [left EXCEPT !.attempts = @ - 1,
                             !.faults = IF connected \/ ~leaderUp THEN @ ELSE @ - 1]
    /\ UNCHANGED <<closed, outbox, inbox, leader>>

\* startClient: both sockets are always opened, whatever becomes of the other.
\* connected: connect() succeeded; ok: the result.
startClient(users, connected, ok) ==
    /\ conn' = conn + 1
    /\ tcpOpen' = connected
    /\ bound' = IF PortTaken(users) THEN bound ELSE bound \cup {conn + 1}
    /\ datagrams' = IF PortTaken(users) THEN datagrams ELSE 0
    /\ ok = (connected /\ ~PortTaken(users))
    /\ left.attempts > 0 /\ Connects(connected)
    /\ left' = [left EXCEPT !.attempts = @ - 1,
                             !.faults = IF connected \/ ~leaderUp THEN @ ELSE @ - 1]
    /\ UNCHANGED <<closed, outbox, inbox, leader>>

closeClientSocket ==
    /\ tcpOpen' = FALSE
    /\ closed' = closed \cup {conn}
    /\ UNCHANGED <<conn, bound, outbox, inbox, datagrams, leader, left>>

\* The leader's end is "up" until its process ends or its thread closes it: with
\* "fin", or with "rst" where something was still unread.  After the truck's next
\* message, or the error the "rst" is reported with, nobody is left: "gone".
Breaks(c) == peer' = [peer EXCEPT ![c] = "gone"]

\* send() on a connection nobody is left on raises SIGPIPE, which ends the process.
BrokenPipe == tcpOpen /\ peer[conn] = "gone"

\* Mutant: neither SIGPIPE nor the result of send() is noticed.
sendMessage_Unchecked(cmd, ok) ==
    /\ ok
    /\ outbox' = IF tcpOpen /\ peer[conn] = "up" /\ cmd \in Answered
                 THEN [outbox EXCEPT ![conn] = Append(@, cmd)] ELSE outbox
    /\ UNCHANGED <<sockets, inbox, datagrams, leader, left>>

\* sendMessage: on a closed socket send() fails, on an open one it may.
sendMessage(cmd, ok) ==
    /\ ~BrokenPipe
    /\ \/ /\ ok /\ tcpOpen /\ peer[conn] = "up"
          /\ outbox' = IF cmd \in Answered THEN [outbox EXCEPT ![conn] = Append(@, cmd)]
                                           ELSE outbox
          /\ UNCHANGED <<peer, left>>
       \/ /\ ok /\ tcpOpen /\ peer[conn] = "fin" /\ Breaks(conn)
          /\ UNCHANGED <<outbox, left>>
       \/ /\ ~ok /\ tcpOpen /\ peer[conn] = "rst" /\ Breaks(conn)
          /\ UNCHANGED <<outbox, left>>
       \/ /\ ~ok /\ tcpOpen /\ peer[conn] # "rst" /\ Spend("faults")
          /\ UNCHANGED <<outbox, peer>>
       \/ /\ ~ok /\ ~tcpOpen
          /\ UNCHANGED <<outbox, peer, left>>
    /\ UNCHANGED <<sockets, inbox, datagrams, members, leaderUp>>

\* receiveTCPMessage on connection c: one message, or several in one buffer, which
\* no parser takes; from a leader that ended an empty message, or -1, which throws
\* as the length of a string.
receiveTCPMessage(c, mess) ==
    /\ \/ /\ \E n \in 1 .. Len(inbox[c]) :
               /\ mess = IF n = 1 THEN Head(inbox[c]) ELSE "garbled"
               /\ inbox' = [inbox EXCEPT ![c] = SubSeq(@, n + 1, Len(@))]
          /\ UNCHANGED peer
       \/ /\ inbox[c] = <<>> /\ peer[c] \in {"fin", "gone"} /\ mess = "empty"
          /\ UNCHANGED <<inbox, peer>>
       \/ /\ inbox[c] = <<>> /\ peer[c] = "rst" /\ mess = "throws" /\ Breaks(c)
          /\ UNCHANGED inbox
    /\ UNCHANGED <<sockets, outbox, datagrams, members, leaderUp, left>>

receiveUDPMessage(c) ==
    /\ c \in bound /\ datagrams > 0
    /\ datagrams' = datagrams - 1
    /\ UNCHANGED <<sockets, outbox, inbox, leader, left>>

-----------------------------------------------------------------------------
(* The leader *)

\* What is sent on a connection the leader no longer has is lost.
Tells(c, mess) ==
    inbox' = IF peer[c] = "up" THEN [inbox EXCEPT ![c] = Append(@, mess)] ELSE inbox

\* The workers look the socket up in the registry, which has none for a truck
\* that was removed.
Responds(c, mess) == IF c \in registered THEN Tells(c, mess) ELSE UNCHANGED inbox

Asked(c, cmd) == outbox[c] # <<>> /\ Head(outbox[c]) = cmd

Answer(c) == outbox' = [outbox EXCEPT ![c] = Tail(@)]

\* The truck is registered first and told afterwards.
registerTruck(c) ==
    /\ Asked(c, "auth") /\ c \notin enrolled /\ peer[c] = "up"
    /\ registered' = registered \cup {c} /\ enrolled' = enrolled \cup {c}
    /\ UNCHANGED <<sockets, outbox, inbox, datagrams, accepted, peer, leaderUp, left>>

\* The connection's thread is between addTruck and its answer.
Registering(c) == Asked(c, "auth") /\ c \in enrolled

\* It reads from the connection.
Reads(c) ==
    /\ peer[c] = "up" /\ ~Registering(c)
    /\ c \in enrolled \cup (IF tcpOpen THEN {conn} ELSE {})

answerAuth(c) ==
    /\ Registering(c)
    /\ Tells(c, "auth_ok") /\ Answer(c)
    /\ UNCHANGED <<sockets, datagrams, leader, left>>

\* The key is not the leader's.
refuseAuth(c) ==
    /\ Asked(c, "auth") /\ c \notin enrolled /\ peer[c] = "up" /\ Spend("refusals")
    /\ Tells(c, "error") /\ Answer(c)
    /\ UNCHANGED <<sockets, datagrams, leader>>

\* handleJoin, which runs for "join_done" once more.
acceptJoin(c) ==
    /\ Asked(c, "join") \/ Asked(c, "join_done")
    /\ Responds(c, "join_accepted") /\ Answer(c)
    /\ accepted' = accepted \cup {c}
    /\ UNCHANGED <<sockets, datagrams, registered, enrolled, peer, leaderUp, left>>

startLeave(c) ==
    /\ Asked(c, "leave")
    /\ Responds(c, "leave_start") /\ Answer(c)
    /\ UNCHANGED <<sockets, datagrams, leader, left>>

\* Once a join was granted the truck's threads may have sent a status or an alert
\* on any of its connections.  These are not kept.
Reported == accepted # {}

\* An alert is handled in the state a request of any truck has put the shared
\* state machine in.
answerAlert(c) ==
    /\ Reported /\ c \in enrolled /\ ~Registering(c) /\ Spend("chatter")
    /\ \/ Responds(c, "leave_start") /\ UNCHANGED accepted
       \/ Responds(c, "join_accepted") /\ accepted' = accepted \cup {c}
    /\ UNCHANGED <<sockets, outbox, datagrams, registered, enrolled, peer, leaderUp>>

endLeave(c) ==
    /\ Asked(c, "leave_done")
    /\ registered' = registered \ {c} /\ Answer(c)
    /\ UNCHANGED <<sockets, inbox, datagrams, enrolled, accepted, peer, leaderUp, left>>

\* No slot for a join, an emergency during a leave, or a request an alert of some
\* truck takes to another handler: nothing is said.
staySilent(c) ==
    /\ outbox[c] # <<>> /\ ~Asked(c, "auth") /\ Spend("refusals")
    /\ Answer(c)
    /\ UNCHANGED <<sockets, inbox, datagrams, leader>>

\* Requests i + 1 to j are read in one buffer, with each other or with a report: it
\* does not parse and is answered with an error.
refuseMerged(c) ==
    /\ Reads(c) /\ Spend("refusals")
    /\ \E i \in 0 .. Len(outbox[c]) : \E j \in i .. Len(outbox[c]) :
         /\ j >= i + 2 \/ Reported
         /\ outbox' = [outbox EXCEPT ![c] = SubSeq(@, 1, i) \o SubSeq(@, j + 1, Len(@))]
    /\ Tells(c, "error")
    /\ UNCHANGED <<sockets, datagrams, leader>>

\* normalOperation, or another truck that leaves.  The sockets are looked up
\* first: the message may be sent after the truck was removed.
syncTruck(c) ==
    /\ c \in enrolled /\ Spend("chatter")
    /\ \E mess \in {"sync", "slow_down"} : Tells(c, mess)
    /\ UNCHANGED <<sockets, outbox, datagrams, leader>>

\* recv() ends a connection's thread, which closes the socket and removes the truck:
\* the truck has closed its own, and nobody blocks on it (users), or the connection
\* broke.  Nothing the truck can tell happens between the two.
dropTruck(c, users) ==
    /\ Reads(c)
    /\ \/ c \in closed \ users /\ UNCHANGED left
       \/ Spend("faults")
    /\ peer' = [peer EXCEPT ![c] = "rst"]
    /\ registered' = registered \ {c}
    /\ UNCHANGED <<sockets, outbox, inbox, datagrams, enrolled, accepted, leaderUp>>

broadcastEmergency ==
    /\ Spend("broadcasts")
    /\ datagrams' = datagrams + 1
    /\ UNCHANGED <<sockets, outbox, inbox, leader>>

\* The leader's process ends, by an exception or a signal, and the kernel ends its
\* connections.
endLeader ==
    /\ Spend("ends")
    /\ leaderUp' = FALSE
    /\ \E how \in {"fin", "rst"} :
         peer' = [c \in Conns |-> IF peer[c] = "up" THEN how ELSE peer[c]]
    /\ UNCHANGED <<sockets, outbox, inbox, datagrams, members>>

Leader(users) ==
    /\ leaderUp
    /\ \/ broadcastEmergency \/ endLeader
       \/ \E c \in Conns :
         \/ registerTruck(c) \/ answerAuth(c) \/ refuseAuth(c) \/ acceptJoin(c)
         \/ startLeave(c) \/ answerAlert(c) \/ endLeave(c) \/ staySilent(c)
         \/ refuseMerged(c) \/ syncTruck(c) \/ dropTruck(c, users)

Platoon == INSTANCE Membership
               WITH Members  <- Conns,
                    phase    <- [c \in Conns |-> IF c \in registered THEN "registered"
                                                ELSE IF c \in enrolled THEN "gone" ELSE "outside"],
                    admitted <- accepted

\* Retries, refusals, leaves and lost connections never take the leader through
\* another protocol: each connection is registered at most once, is granted a join
\* only after that, and once it has left or is lost never becomes a member again.
ImplementsMembership == Platoon!Spec

CLTypeOK ==
    /\ conn \in 0 .. MaxConns
    /\ tcpOpen \in BOOLEAN
    /\ bound \subseteq Conns /\ closed \subseteq Conns
    /\ outbox \in [Conns -> Seq(Answered)]
    /\ inbox \in [Conns -> Seq(FromLeader)]
    /\ datagrams \in Nat
    /\ registered \subseteq Conns /\ enrolled \subseteq Conns /\ accepted \subseteq Conns
    /\ peer \in [Conns -> {"up", "fin", "rst", "gone"}]
    /\ leaderUp \in BOOLEAN
    /\ left \in Bounds
=============================================================================
