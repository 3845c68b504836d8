------------------------ MODULE FollowingTruck_proofs ------------------------
(***************************************************************************)
(* Proofs about the following truck: the types, that a truck operates only *)
(* as a connected member of the platoon, and that the threads of a session *)
(* end only after it.                                                      *)
(*                                                                         *)
(* The three invariants are parts of one inductive invariant, FTInv.  The  *)
(* FSM thread has no record of having joined but its state and the place   *)
(* it is at, while other threads overwrite next_state at any time, so the  *)
(* invariant says of each state and place what the truck is to the leader  *)
(* there (Standing), of each connection what may be under way on it        *)
(* (Conversation), and of each thread where it may be (Serves).            *)
(***************************************************************************)
EXTENDS FollowingTruck, SequenceTheorems, TLAPS

\* Where the FSM thread is.
at == pc[FSM]

FSMLabels ==
    {"idle", "connect", "auth", "auth_answer", "auth_done", "join", "join_answer",
     "join_update", "join_done", "create", "join_failed", "normal", "braking", "slowing",
     "slow_down", "brake", "brake_look", "brake_end", "brake_result", "lost", "lost_send",
     "lost_reset", "recovered", "leaving", "blocked", "leave", "leave_answer",
     "leave_done", "leave_failed", "close", "init_truck", "to_idle", "step", "save_step"}

\* A session thread before its first round, in its rounds, and after them.
Before  == {"none", "detach", "wait"}
Running == {"loop", "update", "send", "check", "lose", "alert", "enter", "recv", "note"}
SessionLabels == Before \cup Running \cup {"exited"}

-----------------------------------------------------------------------------
(* The inductive invariant *)

\* Connections are numbered in the order they are opened.
Numbered ==
    /\ conn + left.attempts <= MaxConns
    /\ bound \subseteq 1 .. conn /\ closed \subseteq 1 .. conn
    /\ tcpOpen => conn > 0

Typed ==
    /\ FTTypeOK
    /\ pc \in [Threads -> FSMLabels \cup SessionLabels]
    /\ scheduled \subseteq Kinds
    /\ Numbered

\* The case of the switch that the FSM thread is in is that of its state.
Place ==
    /\ current_state = "IDLE" =>
         at \in {"idle", "connect", "auth", "auth_answer", "auth_done", "save_step"}
    /\ current_state = "JOINING" =>
         at \in {"join", "join_answer", "join_update", "join_done", "create",
                 "join_failed", "step"}
    /\ current_state = "NORMAL_OPERATION" =>
         at \in {"normal", "braking", "slowing", "save_step"}
    /\ current_state = "SLOW_DOWN" => at \in {"slow_down", "save_step"}
    /\ current_state = "EMERGENCY_BRAKE" =>
         at \in {"brake", "brake_look", "brake_end", "brake_result", "save_step"}
    /\ current_state = "CONNECTION_LOST" =>
         at \in {"lost", "lost_send", "lost_reset", "recovered", "step"}
    /\ current_state = "LEAVING" =>
         at \in {"leaving", "blocked", "leave", "leave_answer", "leave_done",
                 "leave_failed", "close", "init_truck", "to_idle", "save_step"}

\* Which state may come next, and which one a lost connection goes back to.
Course ==
    /\ prev_state \in Operating \cup {"IDLE", "LEAVING"}
    /\ next_state = "JOINING" =>
         \/ current_state = "JOINING"
         \/ current_state = "IDLE" /\ at = "save_step"
    /\ next_state = "IDLE" =>
         \/ current_state \in {"IDLE", "JOINING"}
         \/ current_state = "LEAVING" /\ at = "save_step"
         \/ current_state = "CONNECTION_LOST" /\ prev_state = "IDLE"
    /\ current_state = "IDLE" => next_state \in {"IDLE", "JOINING", "CONNECTION_LOST"}
    /\ current_state = "JOINING" =>
         /\ prev_state = "IDLE"
         /\ \/ next_state \in {"JOINING", "IDLE", "CONNECTION_LOST"}
            \/ next_state = "NORMAL_OPERATION" /\ at = "step"
    /\ current_state = "CONNECTION_LOST" => next_state \in {"CONNECTION_LOST", prev_state}

\* The message is in the queue.
Has(queue, mess) == \E i \in 1 .. Len(queue) : queue[i] = mess

\* Both sockets of the present connection work, and no other is open.
Attached ==
    /\ conn \in Conns /\ tcpOpen /\ conn \in bound \ closed
    /\ bound \ closed \subseteq {conn}

Authenticated == Attached /\ conn \in enrolled /\ ~Has(outbox[conn], "auth")

Member == Attached /\ conn \in accepted

Detached == ~tcpOpen /\ conn \in closed

\* Nothing was ever asked on the connection; two reports of an earlier session's
\* threads that were read in one buffer may have been refused on it.
Untouched(c) ==
    /\ outbox[c] = <<>> /\ c \notin enrolled \cup accepted
    /\ \A mess \in FromLeader \ {"error"} : ~Has(inbox[c], mess)

\* What the truck is to the leader, by its states and by where the FSM thread is.
\* Leaving ends in "close"; a lost connection that was closed is lost for good.
Standing ==
    /\ at \in {"auth", "auth_answer"} => Attached
    /\ at = "auth" => Untouched(conn)
    /\ (at = "auth_done" \/ current_state = "JOINING" \/ next_state = "JOINING")
         => Authenticated
    /\ at \in {"join_update", "join_done", "create"} => conn \in accepted
    /\ current_state \in Operating => Member
    /\ next_state \in Operating \cup {"LEAVING"} =>
         Member \/ at \in {"init_truck", "to_idle"}
    /\ current_state = "LEAVING" =>
         \/ Member /\ next_state # "IDLE" /\ at \notin {"init_truck", "to_idle"}
         \/ Detached /\ at \in {"init_truck", "to_idle"}
         \/ Detached /\ at = "save_step" /\ next_state \in {"IDLE", "CONNECTION_LOST"}
    /\ current_state = "CONNECTION_LOST" /\ prev_state # "IDLE" => Member \/ ~tcpOpen
    /\ at \in {"lost_reset", "recovered"} => tcpOpen

\* The leave on the connection is complete, or about to be.
Parted(c) == c \in closed \/ (c = conn /\ at = "close")

\* What is under way on a connection: the request to authenticate is the first
\* and is not repeated, an answer is only to what was asked, nothing follows the end
\* of a leave, and nothing but that or a lost connection ends the membership.
Conversation(c) ==
    /\ Has(outbox[c], "auth") => outbox[c] = <<"auth">> /\ c \notin accepted
    /\ \A cmd \in {"join", "join_done", "leave"} : Has(outbox[c], cmd) => c \in enrolled
    /\ Has(outbox[c], "leave_done") => c \in accepted /\ Parted(c)
    /\ Has(inbox[c], "auth_ok") => c \in enrolled /\ ~Has(outbox[c], "auth")
    /\ Has(inbox[c], "join_accepted") => c \in accepted
    /\ c \in registered \cup accepted => c \in enrolled
    /\ c \in enrolled => c \in registered \/ Parted(c) \/ peer[c] # "up"
    /\ c > conn => Untouched(c)

\* The truck is in the platoon, or will go back to it.
InSession ==
    \/ current_state \in Operating \cup {"LEAVING"}
    \/ current_state = "CONNECTION_LOST" /\ prev_state # "IDLE"

\* A thread that runs serves the present session, or one that is over.
Serves(t) ==
    /\ pc[t] \in SessionLabels
    /\ pc[t] # "none" => t[2] \in bound
    /\ pc[t] \in Running => t[2] \in closed \/ (t[2] = conn /\ InSession)
    /\ pc[t] = "exited" => t[2] \in closed

FTInv ==
    /\ Typed /\ Place /\ Course /\ Standing
    /\ \A c \in Conns : Conversation(c)
    /\ \A t \in SessionThreads : Serves(t)

-----------------------------------------------------------------------------
(* Queues *)

LEMMA HasAppend ==
    ASSUME NEW S, NEW q \in Seq(S), NEW m \in S, NEW x
    PROVE  Has(Append(q, m), x) <=> Has(q, x) \/ x = m
<1>1. /\ Len(q) \in Nat /\ Len(Append(q, m)) = Len(q) + 1
      /\ \A i \in 1 .. Len(q) : Append(q, m)[i] = q[i]
      /\ Append(q, m)[Len(q) + 1] = m
  OBVIOUS
<1>2. ASSUME Has(Append(q, m), x) PROVE Has(q, x) \/ x = m
  <2>1. PICK i \in 1 .. Len(q) + 1 : Append(q, m)[i] = x
    BY <1>1, <1>2 DEF Has
  <2>2. CASE i = Len(q) + 1
    BY <1>1, <2>1, <2>2
  <2>3. CASE i \in 1 .. Len(q)
    BY <1>1, <2>1, <2>3 DEF Has
  <2> QED
    BY <1>1, <2>2, <2>3
<1>3. ASSUME Has(q, x) PROVE Has(Append(q, m), x)
  <2>1. PICK i \in 1 .. Len(q) : q[i] = x
    BY <1>3 DEF Has
  <2> QED
    BY <1>1, <2>1 DEF Has
<1>4. ASSUME x = m PROVE Has(Append(q, m), x)
  BY <1>1, <1>4 DEF Has
<1> QED
  BY <1>2, <1>3, <1>4

LEMMA HasHead ==
    ASSUME NEW S, NEW q \in Seq(S), q # <<>>
    PROVE  Has(q, Head(q)) /\ Head(q) \in S
<1>1. Len(q) \in Nat /\ Len(q) > 0 /\ Head(q) = q[1]
  OBVIOUS
<1> QED
  BY <1>1 DEF Has

LEMMA HasTail ==
    ASSUME NEW S, NEW q \in Seq(S), q # <<>>
    PROVE  Tail(q) \in Seq(S) /\ \A x : Has(Tail(q), x) => Has(q, x)
<1>1. /\ Len(q) \in Nat /\ Len(q) > 0 /\ Tail(q) \in Seq(S)
      /\ Len(Tail(q)) = Len(q) - 1
      /\ \A i \in 1 .. Len(q) - 1 : Tail(q)[i] = q[i + 1]
  OBVIOUS
<1>2. ASSUME NEW x, Has(Tail(q), x) PROVE Has(q, x)
  <2>1. PICK i \in 1 .. Len(q) - 1 : Tail(q)[i] = x
    BY <1>1, <1>2 DEF Has
  <2>2. i + 1 \in 1 .. Len(q) /\ q[i + 1] = x
    BY <1>1, <2>1
  <2> QED
    BY <2>2 DEF Has
<1> QED
  BY <1>1, <1>2

\* What is left of a queue without its messages i + 1 to j.
Splice(q, i, j) == SubSeq(q, 1, i) \o SubSeq(q, j + 1, Len(q))

LEMMA HasSplice ==
    ASSUME NEW S, NEW q \in Seq(S), NEW i \in 0 .. Len(q), NEW j \in i .. Len(q)
    PROVE  /\ Splice(q, i, j) \in Seq(S)
           /\ \A x : Has(Splice(q, i, j), x) => Has(q, x)
           /\ q = <<>> => Splice(q, i, j) = <<>>
           /\ \A m : q = <<m>> => Splice(q, i, j) \in {<<m>>, <<>>}
<1>1. Len(q) \in Nat /\ i \in Nat /\ j \in Nat /\ i <= j /\ j <= Len(q)
  OBVIOUS
<1> DEFINE rest  == Splice(q, i, j)
           front == SubSeq(q, 1, i)
           back  == SubSeq(q, j + 1, Len(q))
<1>2. /\ front \in Seq(S) /\ Len(front) = i
      /\ \A k \in 1 .. i : front[k] = q[k]
  BY <1>1
<1>3. /\ back \in Seq(S) /\ Len(back) = Len(q) - j
      /\ \A k \in 1 .. Len(q) - j : back[k] = q[k + j]
  BY <1>1
<1> HIDE DEF front, back
<1>4. /\ front \o back \in Seq(S) /\ Len(front \o back) = i + (Len(q) - j)
      /\ \A k \in 1 .. i + (Len(q) - j) :
           (front \o back)[k] = IF k <= i THEN front[k] ELSE back[k - i]
  <2>1. /\ Len(front \o back) = Len(front) + Len(back) /\ front \o back \in Seq(S)
        /\ \A k \in 1 .. Len(front) + Len(back) :
             (front \o back)[k] = IF k <= Len(front) THEN front[k] ELSE back[k - Len(front)]
    BY <1>2, <1>3, ConcatProperties
  <2> QED
    BY <1>2, <1>3, <2>1
<1>5. rest = front \o back
  BY DEF Splice, front, back
<1> HIDE DEF rest
<1>6. ASSUME NEW x, Has(rest, x) PROVE Has(q, x)
  <2>1. PICK k \in 1 .. i + (Len(q) - j) : rest[k] = x
    BY <1>4, <1>5, <1>6 DEF Has
  <2>2. CASE k <= i
    <3>1. k \in 1 .. i /\ k \in 1 .. Len(q)
      BY <1>1, <2>2
    <3> QED
      BY <1>2, <1>4, <1>5, <2>1, <2>2, <3>1 DEF Has
  <2>3. CASE ~(k <= i)
    <3>1. k - i \in 1 .. Len(q) - j /\ (k - i) + j \in 1 .. Len(q)
      BY <1>1, <2>3
    <3>2. q[(k - i) + j] = x
      BY <1>3, <1>4, <1>5, <2>1, <2>3, <3>1
    <3> QED
      BY <3>1, <3>2 DEF Has
  <2> QED
    BY <2>2, <2>3
<1>7. ASSUME q = <<>> PROVE rest = <<>>
  <2>1. Len(rest) = 0
    BY <1>1, <1>4, <1>5, <1>7
  <2> QED
    BY <1>4, <1>5, <2>1
<1>8. ASSUME NEW m, q = <<m>> PROVE rest \in {<<m>>, <<>>}
  <2>1. Len(q) = 1 /\ q[1] = m
    BY <1>8
  <2>2. CASE i = j
    <3>1. Len(rest) = 1 /\ rest[1] = m
      <4>1. CASE i = 0
        BY <1>1, <1>3, <1>4, <1>5, <2>1, <2>2, <4>1
      <4>2. CASE i = 1
        BY <1>1, <1>2, <1>4, <1>5, <2>1, <2>2, <4>2
      <4> QED
        BY <1>1, <2>1, <4>1, <4>2
    <3>2. rest \in Seq(S) /\ q \in Seq(S)
      BY <1>4, <1>5
    <3>3. \A k \in 1 .. Len(rest) : rest[k] = q[k]
      BY <2>1, <3>1
    <3>4. rest = q
      BY <2>1, <3>1, <3>2, <3>3, SeqEqual
    <3> QED
      BY <1>8, <3>4
  <2>3. CASE i # j
    <3>1. Len(rest) = 0
      BY <1>1, <1>4, <1>5, <2>1, <2>3
    <3>2. rest \in Seq(S) /\ <<>> \in Seq(S) /\ Len(<<>>) = 0
      BY <1>4, <1>5
    <3>3. rest = <<>>
      BY <3>1, <3>2, SeqEqual
    <3> QED
      BY <3>3
  <2> QED
    BY <2>2, <2>3
<1> QED
  BY <1>4, <1>5, <1>6, <1>7, <1>8 DEF rest

\* What is left of a queue once its first n messages are received.
LEMMA HasRest ==
    ASSUME NEW S, NEW q \in Seq(S), NEW n \in 1 .. Len(q)
    PROVE  /\ SubSeq(q, n + 1, Len(q)) \in Seq(S)
           /\ \A x : Has(SubSeq(q, n + 1, Len(q)), x) => Has(q, x)
<1>1. Len(q) \in Nat
  OBVIOUS
<1> DEFINE rest == SubSeq(q, n + 1, Len(q))
<1>2. /\ rest \in Seq(S) /\ Len(rest) = Len(q) - n
      /\ \A i \in 1 .. Len(q) - n : rest[i] = q[i + n]
  BY <1>1
<1>3. ASSUME NEW x, Has(rest, x) PROVE Has(q, x)
  <2>1. PICK i \in 1 .. Len(q) - n : rest[i] = x
    BY <1>2, <1>3 DEF Has
  <2>2. i + n \in 1 .. Len(q) /\ q[i + n] = x
    BY <1>1, <1>2, <2>1
  <2> QED
    BY <2>2 DEF Has
<1> QED
  BY <1>2, <1>3

-----------------------------------------------------------------------------
(* The calls of the client *)

\* A connection that broke stays broken.
PeersOnlyBreak == \A d \in Conns : peer[d] # "up" => peer'[d] # "up"

LEMMA SendKeeps ==
    ASSUME Typed, NEW cmd, NEW ok \in BOOLEAN, sendMessage(cmd, ok)
    PROVE  /\ CLTypeOK' /\ Numbered' /\ (ok => tcpOpen) /\ PeersOnlyBreak
           /\ UNCHANGED <<conn, tcpOpen, bound, closed, inbox, registered, enrolled, accepted>>
           /\ \/ outbox' = outbox
              \/ /\ ok /\ cmd \in Answered /\ conn \in Conns
                 /\ outbox' = [outbox EXCEPT ![conn] = Append(@, cmd)]
<1>1. UNCHANGED <<conn, tcpOpen, bound, closed, inbox, datagrams, registered, enrolled,
                  accepted, leaderUp>>
  BY DEF sendMessage, sockets, members
<1>2. tcpOpen => conn \in Conns
  BY DEF Typed, Numbered, FTTypeOK, CLTypeOK, Conns
<1>3. ok => tcpOpen
  BY DEF sendMessage
<1>4. \/ outbox' = outbox
      \/ /\ ok /\ cmd \in Answered /\ conn \in Conns
         /\ outbox' = [outbox EXCEPT ![conn] = Append(@, cmd)]
  BY <1>2 DEF sendMessage
<1>5. outbox' \in [Conns -> Seq(Answered)]
  <2>1. outbox \in [Conns -> Seq(Answered)]
    BY DEF Typed, FTTypeOK, CLTypeOK
  <2>2. cmd \in Answered /\ conn \in Conns => Append(outbox[conn], cmd) \in Seq(Answered)
    BY <2>1
  <2> QED
    BY <1>4, <2>1, <2>2
<1>6. peer' \in [Conns -> {"up", "fin", "rst", "gone"}] /\ PeersOnlyBreak
  BY DEF sendMessage, Breaks, PeersOnlyBreak, Typed, FTTypeOK, CLTypeOK
<1>7. left' \in Bounds /\ left'.attempts = left.attempts
  <2>1. left \in Bounds
    BY DEF Typed, FTTypeOK, CLTypeOK
  <2>2. left' = left \/ (left.faults > 0 /\ left' = [left EXCEPT !.faults = @ - 1])
    BY DEF sendMessage, Spend
  <2> QED
    BY <2>1, <2>2 DEF Bounds
<1>8. CLTypeOK'
  BY <1>1, <1>5, <1>6, <1>7 DEF Typed, FTTypeOK, CLTypeOK
<1> QED
  BY <1>1, <1>3, <1>4, <1>6, <1>7, <1>8 DEF Typed, Numbered

LEMMA ReceiveTakes ==
    ASSUME Typed, NEW c, NEW mess, receiveTCPMessage(c, mess)
    PROVE  /\ CLTypeOK' /\ Numbered' /\ PeersOnlyBreak
           /\ UNCHANGED <<conn, tcpOpen, bound, closed, outbox, registered, enrolled, accepted>>
           /\ \A d \in Conns : \A x : Has(inbox'[d], x) => Has(inbox[d], x)
           /\ c \in Conns /\ mess \notin Unparsable => Has(inbox[c], mess)
<1>1. UNCHANGED <<conn, tcpOpen, bound, closed, outbox, datagrams, registered, enrolled,
                  accepted, leaderUp, left>>
  BY DEF receiveTCPMessage, sockets, members
<1>2. inbox \in [Conns -> Seq(FromLeader)]
  BY DEF Typed, FTTypeOK, CLTypeOK
<1>3. peer' \in [Conns -> {"up", "fin", "rst", "gone"}] /\ PeersOnlyBreak
  BY DEF receiveTCPMessage, Breaks, PeersOnlyBreak, Typed, FTTypeOK, CLTypeOK
<1>4. /\ inbox' \in [Conns -> Seq(FromLeader)]
      /\ \A d \in Conns : \A x : Has(inbox'[d], x) => Has(inbox[d], x)
      /\ c \in Conns /\ mess \notin Unparsable => Has(inbox[c], mess)
  <2>1. CASE inbox' = inbox /\ mess \in Unparsable
    BY <1>2, <2>1
  <2>2. ASSUME NEW n \in 1 .. Len(inbox[c]),
               mess = IF n = 1 THEN Head(inbox[c]) ELSE "garbled",
               inbox' = [inbox EXCEPT ![c] = SubSeq(@, n + 1, Len(@))]
        PROVE  <1>4!:
    <3>1. CASE c \notin Conns
      BY <1>2, <2>2, <3>1
    <3>2. CASE c \in Conns
      <4>1. inbox[c] \in Seq(FromLeader) /\ inbox[c] # <<>>
        BY <1>2, <2>2, <3>2
      <4>2. Has(inbox[c], Head(inbox[c]))
        BY <4>1, HasHead
      <4>3. /\ SubSeq(inbox[c], n + 1, Len(inbox[c])) \in Seq(FromLeader)
            /\ \A x : Has(SubSeq(inbox[c], n + 1, Len(inbox[c])), x) => Has(inbox[c], x)
        BY <2>2, <4>1, HasRest
      <4>4. \A d \in Conns : inbox'[d] = IF d = c THEN SubSeq(inbox[c], n + 1, Len(inbox[c]))
                                                 ELSE inbox[d]
        BY <1>2, <2>2
      <4>5. inbox' \in [Conns -> Seq(FromLeader)]
        BY <1>2, <2>2, <4>3
      <4> QED
        BY <2>2, <4>1, <4>2, <4>3, <4>4, <4>5 DEF Unparsable
    <3> QED
      BY <3>1, <3>2
  <2> QED
    BY <2>1, <2>2 DEF receiveTCPMessage, Unparsable
<1>5. CLTypeOK'
  BY <1>1, <1>3, <1>4 DEF Typed, FTTypeOK, CLTypeOK
<1> QED
  BY <1>1, <1>3, <1>4, <1>5 DEF Typed, Numbered

LEMMA ReceiveUDPKeeps ==
    ASSUME Typed, NEW c, receiveUDPMessage(c)
    PROVE  /\ CLTypeOK' /\ Numbered' /\ PeersOnlyBreak
           /\ UNCHANGED <<conn, tcpOpen, bound, closed, outbox, inbox, registered, enrolled,
                          accepted>>
  BY DEF receiveUDPMessage, PeersOnlyBreak, Typed, FTTypeOK, CLTypeOK, Numbered, sockets,
         leader, members

\* An attempt that succeeds leaves no other UDP socket open.
LEMMA StartClientAttaches ==
    ASSUME Typed, NEW users, NEW connected \in BOOLEAN, NEW ok \in BOOLEAN,
           startClient(users, connected, ok)
    PROVE  /\ CLTypeOK' /\ Numbered' /\ conn' = conn + 1 /\ conn' \in Conns
           /\ bound \subseteq bound'
           /\ UNCHANGED <<closed, outbox, inbox, registered, enrolled, accepted, peer>>
           /\ ok => Attached'
<1>1. /\ UNCHANGED <<closed, outbox, inbox, registered, enrolled, accepted, peer, leaderUp>>
      /\ conn' = conn + 1 /\ tcpOpen' = connected
  BY DEF startClient, leader, members
<1>2. left \in Bounds /\ left.attempts \in Nat /\ left.attempts > 0
  BY DEF startClient, Typed, FTTypeOK, CLTypeOK, Bounds
<1>3. left' \in Bounds /\ left'.attempts = left.attempts - 1
  <2>0. left.attempts - 1 \in 0 .. MaxConns
    BY <1>2, ClientAssumption DEF Bounds
  <2>1. leaderUp /\ ~connected => left.faults > 0
    BY DEF startClient, Connects
  <2>2. CASE connected \/ ~leaderUp
    <3>1. left' = [left EXCEPT !.attempts = @ - 1, !.faults = @]
      BY <2>2 DEF startClient
    <3> QED
      BY <1>2, <2>0, <3>1 DEF Bounds
  <2>3. CASE ~connected /\ leaderUp
    <3>1. left' = [left EXCEPT !.attempts = @ - 1, !.faults = @ - 1]
      BY <2>3 DEF startClient
    <3>2. left.faults - 1 \in Nat
      BY <1>2, <2>1, <2>3 DEF Bounds
    <3> QED
      BY <1>2, <2>0, <3>1, <3>2 DEF Bounds
  <2> QED
    BY <2>2, <2>3
<1>4. conn \in Nat /\ conn' \in Conns
  BY <1>1, <1>2, ClientAssumption DEF Typed, Numbered, FTTypeOK, CLTypeOK, Conns
<1>5. bound \subseteq bound' /\ bound' \subseteq bound \cup {conn'}
  BY <1>1 DEF startClient
<1>6. datagrams' \in Nat
  BY DEF startClient, Typed, FTTypeOK, CLTypeOK
<1>7. CLTypeOK'
  <2>1. conn' \in 0 .. MaxConns
    BY <1>4, ClientAssumption DEF Conns
  <2>2. bound' \subseteq Conns
    BY <1>4, <1>5 DEF Typed, FTTypeOK, CLTypeOK
  <2> QED
    BY <1>1, <1>3, <1>6, <2>1, <2>2 DEF Typed, FTTypeOK, CLTypeOK
<1>8. Numbered'
  <2>1. conn' + left'.attempts <= MaxConns
    BY <1>1, <1>2, <1>3, <1>4, ClientAssumption DEF Typed, Numbered
  <2>2. 1 .. conn \subseteq 1 .. conn' /\ conn' \in 1 .. conn'
    BY <1>1, <1>4
  <2> QED
    BY <1>1, <1>4, <1>5, <2>1, <2>2 DEF Typed, Numbered
<1>9. ASSUME ok PROVE Attached'
  <2>1. connected /\ ~PortTaken(users)
    BY <1>9 DEF startClient
  <2>2. bound \ closed = {} /\ bound' = bound \cup {conn + 1}
    BY <2>1 DEF startClient, PortTaken
  <2>3. conn + 1 \notin closed
    BY <1>4 DEF Typed, Numbered
  <2> QED
    BY <1>1, <1>4, <2>1, <2>2, <2>3 DEF Attached
<1> QED
  BY <1>1, <1>4, <1>5, <1>7, <1>8, <1>9

-----------------------------------------------------------------------------
(* Conversations *)

\* Whatever is received, and wherever the FSM thread goes but away from "close"
\* without closing, the conversations go on as they were.
LEMMA QuietConversations ==
    ASSUME FTInv, UNCHANGED <<conn, outbox, registered, enrolled, accepted>>,
           \A d \in Conns : \A x : Has(inbox'[d], x) => Has(inbox[d], x),
           \A d \in Conns : Parted(d) => Parted(d)', PeersOnlyBreak
    PROVE  \A d \in Conns : Conversation(d)'
<1> TAKE d \in Conns
<1>1. Conversation(d)
  BY DEF FTInv
<1> QED
  BY <1>1 DEF Conversation, Untouched, PeersOnlyBreak

\* A request the FSM thread may make.
LEMMA RequestedConversations ==
    ASSUME FTInv, NEW cmd \in Answered, conn \in Conns,
           outbox' = [outbox EXCEPT ![conn] = Append(@, cmd)],
           UNCHANGED <<conn, inbox, registered, enrolled, accepted>>,
           \A d \in Conns : Parted(d) => Parted(d)', PeersOnlyBreak,
           cmd = "auth" => Untouched(conn),
           cmd # "auth" => conn \in enrolled /\ ~Has(outbox[conn], "auth"),
           cmd = "leave_done" => conn \in accepted /\ Parted(conn)'
    PROVE  \A d \in Conns : Conversation(d)'
<1> TAKE d \in Conns
<1>1. Conversation(d)
  BY DEF FTInv
<1>2. outbox \in [Conns -> Seq(Answered)] /\ conn \in Nat
  BY DEF FTInv, Typed, FTTypeOK, CLTypeOK, Conns
<1>3. CASE d # conn
  <2>1. outbox'[d] = outbox[d]
    BY <1>2, <1>3
  <2> QED
    BY <1>1, <2>1 DEF Conversation, Untouched, PeersOnlyBreak
<1>4. CASE d = conn
  <2>1. outbox'[d] = Append(outbox[d], cmd) /\ outbox[d] \in Seq(Answered)
    BY <1>2, <1>4
  <2>2. \A x : Has(outbox'[d], x) <=> Has(outbox[d], x) \/ x = cmd
    BY <2>1, HasAppend
  <2>3. ~(d > conn')
    BY <1>2, <1>4
  <2>4. CASE cmd # "auth"
    BY <1>1, <1>4, <2>2, <2>3, <2>4 DEF Conversation, PeersOnlyBreak
  <2>5. CASE cmd = "auth"
    <3>1. /\ outbox[d] = <<>> /\ d \notin enrolled \cup accepted
          /\ ~Has(inbox[d], "auth_ok") /\ ~Has(inbox[d], "join_accepted")
      BY <1>4, <2>5 DEF Untouched, FromLeader
    <3>2. outbox'[d] = <<"auth">>
      BY <2>1, <2>5, <3>1
    <3>3. \A x : ~Has(outbox[d], x)
      BY <3>1 DEF Has
    <3> QED
      BY <1>1, <1>4, <2>2, <2>3, <2>5, <3>1, <3>2, <3>3
         DEF Conversation, PeersOnlyBreak
  <2> QED
    BY <2>4, <2>5
<1> QED
  BY <1>3, <1>4

\* What an answer takes from a queue, and what a message adds to one.
LEMMA AnswerTakes ==
    ASSUME Typed, NEW c \in Conns, Answer(c), outbox[c] # <<>>
    PROVE  /\ outbox' \in [Conns -> Seq(Answered)]
           /\ \A d \in Conns : d # c => outbox'[d] = outbox[d]
           /\ \A x : Has(outbox'[c], x) => Has(outbox[c], x)
           /\ \A m : outbox[c] = <<m>> => outbox'[c] = <<>>
           /\ Has(outbox[c], Head(outbox[c]))
<1>1. outbox \in [Conns -> Seq(Answered)] /\ outbox[c] \in Seq(Answered)
  BY DEF Typed, FTTypeOK, CLTypeOK
<1>2. /\ outbox'[c] = Tail(outbox[c])
      /\ \A d \in Conns : d # c => outbox'[d] = outbox[d]
  BY <1>1 DEF Answer
<1>3. /\ Tail(outbox[c]) \in Seq(Answered)
      /\ \A x : Has(Tail(outbox[c]), x) => Has(outbox[c], x)
      /\ Has(outbox[c], Head(outbox[c]))
  BY <1>1, HasTail, HasHead
<1>4. outbox' \in [Conns -> Seq(Answered)]
  BY <1>1, <1>3 DEF Answer
<1>5. \A m : Tail(<<m>>) = <<>>
  OBVIOUS
<1> QED
  BY <1>2, <1>3, <1>4, <1>5

LEMMA TellsAdds ==
    ASSUME Typed, NEW c \in Conns, NEW mess \in FromLeader,
           Tells(c, mess) \/ Responds(c, mess)
    PROVE  /\ inbox' \in [Conns -> Seq(FromLeader)]
           /\ \A d \in Conns : d # c => inbox'[d] = inbox[d]
           /\ \A x : Has(inbox'[c], x) => Has(inbox[c], x) \/ x = mess
<1>1. inbox \in [Conns -> Seq(FromLeader)] /\ inbox[c] \in Seq(FromLeader)
  BY DEF Typed, FTTypeOK, CLTypeOK
<1>2. CASE inbox' = inbox
  BY <1>1, <1>2
<1>3. CASE inbox' = [inbox EXCEPT ![c] = Append(@, mess)]
  <2>1. /\ inbox'[c] = Append(inbox[c], mess)
        /\ \A d \in Conns : d # c => inbox'[d] = inbox[d]
    BY <1>1, <1>3
  <2>2. /\ Append(inbox[c], mess) \in Seq(FromLeader)
        /\ \A x : Has(Append(inbox[c], mess), x) <=> Has(inbox[c], x) \/ x = mess
    BY <1>1, HasAppend
  <2>3. inbox' \in [Conns -> Seq(FromLeader)]
    BY <1>1, <1>3, <2>2
  <2> QED
    BY <2>1, <2>2, <2>3
<1> QED
  BY <1>2, <1>3 DEF Tells, Responds

\* What a step of the leader keeps.
LeaderKeeps ==
    /\ CLTypeOK' /\ Numbered'
    /\ UNCHANGED <<conn, tcpOpen, bound, closed>>
    /\ accepted \subseteq accepted' /\ enrolled \subseteq enrolled'
    /\ \A d \in Conns : Conversation(d)'
    /\ \A d \in Conns : Untouched(d) => Untouched(d)'
    /\ \A d \in Conns : Has(outbox'[d], "auth") => Has(outbox[d], "auth")

LEMMA Spending ==
    ASSUME Typed, NEW k \in {"chatter", "refusals", "broadcasts", "faults", "ends"}, Spend(k)
    PROVE  left' \in Bounds /\ left'.attempts = left.attempts
<1>1. left \in Bounds
  BY DEF Typed, FTTypeOK, CLTypeOK
<1> QED
  BY <1>1 DEF Spend, Bounds

\* The step is about connection c: it takes requests from its queue, adds messages to
\* it, and changes what the leader has of it.
StepAt(c) ==
    /\ UNCHANGED <<conn, tcpOpen, bound, closed, datagrams, leaderUp, pc>>
    /\ outbox' \in [Conns -> Seq(Answered)] /\ inbox' \in [Conns -> Seq(FromLeader)]
    /\ registered' \subseteq Conns /\ enrolled' \subseteq Conns /\ accepted' \subseteq Conns
    /\ peer' \in [Conns -> {"up", "fin", "rst", "gone"}]
    /\ left' \in Bounds /\ left'.attempts = left.attempts
    /\ \A d \in Conns \ {c} :
         /\ outbox'[d] = outbox[d] /\ inbox'[d] = inbox[d] /\ peer'[d] = peer[d]
         /\ d \in registered' <=> d \in registered
         /\ d \in enrolled' <=> d \in enrolled
         /\ d \in accepted' <=> d \in accepted
    /\ \A x : Has(outbox'[c], x) => Has(outbox[c], x)
    /\ outbox[c] = <<"auth">> => outbox'[c] \in {<<"auth">>, <<>>}
    /\ c \in accepted => c \in accepted'
    /\ c \in enrolled => c \in enrolled'
    /\ peer[c] # "up" => peer'[c] # "up"

\* It is enough to look at that connection, and there at what is new.
LEMMA LeaderAt ==
    ASSUME FTInv, NEW c \in Conns, StepAt(c),
           Untouched(c) => Untouched(c)',
           c \in enrolled' => c \in registered' \/ Parted(c) \/ peer'[c] # "up",
           c \in registered' \cup accepted' => c \in enrolled',
           c \in accepted' => c \in accepted \/ ~Has(outbox'[c], "auth"),
           Has(inbox'[c], "join_accepted") => Has(inbox[c], "join_accepted") \/ c \in accepted',
           Has(inbox'[c], "auth_ok") =>
               Has(inbox[c], "auth_ok") \/ (c \in enrolled' /\ ~Has(outbox'[c], "auth"))
    PROVE  LeaderKeeps
<1> USE DEF StepAt
<1>1. CLTypeOK' /\ Numbered'
  BY DEF FTInv, Typed, FTTypeOK, CLTypeOK, Numbered
<1>2. accepted \subseteq accepted' /\ enrolled \subseteq enrolled'
  BY DEF FTInv, Typed, FTTypeOK, CLTypeOK
<1>3. \A d \in Conns : Conversation(d) /\ (Parted(d)' <=> Parted(d))
  BY DEF FTInv, Parted, at
<1>4. ASSUME NEW d \in Conns \ {c}
      PROVE  Conversation(d)' /\ (Untouched(d) => Untouched(d)')
  <2>1. Untouched(d) => Untouched(d)'
    BY <1>4 DEF Untouched
  <2> QED
    BY <1>3, <1>4, <2>1 DEF Conversation
<1>5. Conversation(c)'
  <2>1. Has(outbox'[c], "auth") => outbox'[c] = <<"auth">> /\ c \notin accepted'
    <3>1. \A x : ~Has(<<>>, x)
      BY DEF Has
    <3> QED
      BY <1>3, <3>1 DEF Conversation
  <2>2. \A cmd \in {"join", "join_done", "leave"} : Has(outbox'[c], cmd) => c \in enrolled'
    BY <1>3 DEF Conversation
  <2>3. Has(outbox'[c], "leave_done") => c \in accepted' /\ Parted(c)'
    BY <1>3 DEF Conversation
  <2>4. Has(inbox'[c], "auth_ok") => c \in enrolled' /\ ~Has(outbox'[c], "auth")
    BY <1>3 DEF Conversation
  <2>5. Has(inbox'[c], "join_accepted") => c \in accepted'
    BY <1>3 DEF Conversation
  <2>6. c > conn' => Untouched(c)'
    BY <1>3 DEF Conversation
  <2> QED
    BY <1>3, <2>1, <2>2, <2>3, <2>4, <2>5, <2>6 DEF Conversation
<1> QED
  BY <1>1, <1>2, <1>4, <1>5 DEF LeaderKeeps

-----------------------------------------------------------------------------
(* The leader *)

\* What every request that is answered, or only registers its sender, shares.
LEMMA Requested ==
    ASSUME FTInv, NEW c \in Conns, outbox[c] # <<>>
    PROVE  /\ Typed /\ CLTypeOK /\ Conversation(c) /\ ~Untouched(c)
           /\ \A cmd : Asked(c, cmd) => Has(outbox[c], cmd)
           /\ \A cmd : Asked(c, cmd) /\ cmd # "auth" => ~Has(outbox[c], "auth")
<1>1. Typed /\ CLTypeOK /\ Conversation(c) /\ ~Untouched(c)
  BY DEF FTInv, Typed, FTTypeOK, Untouched
<1>2. Has(outbox[c], Head(outbox[c]))
  BY <1>1, HasHead DEF CLTypeOK
<1>3. ASSUME NEW cmd, Asked(c, cmd), Has(outbox[c], "auth") PROVE cmd = "auth"
  <2>1. outbox[c] = <<"auth">> /\ Head(<<"auth">>) = "auth"
    BY <1>1, <1>3 DEF Conversation
  <2> QED
    BY <1>3, <2>1 DEF Asked
<1> QED
  BY <1>1, <1>2, <1>3 DEF Asked

\* The effect of an answer on the queues: the first request goes, one message comes.
LEMMA Answering ==
    ASSUME FTInv, UNCHANGED pc, NEW c \in Conns, outbox[c] # <<>>, Answer(c),
           UNCHANGED <<sockets, datagrams, leaderUp, peer, registered, enrolled>>,
           accepted' = accepted \/ accepted' = accepted \cup {c},
           left' = left \/ Spend("refusals") \/ Spend("chatter"),
           NEW mess \in FromLeader,
           UNCHANGED inbox \/ Tells(c, mess) \/ Responds(c, mess)
    PROVE  /\ StepAt(c)
           /\ \A x : Has(inbox'[c], x) => Has(inbox[c], x) \/ x = mess
<1>1. Typed /\ CLTypeOK
  BY Requested
<1>2. /\ outbox' \in [Conns -> Seq(Answered)]
      /\ \A d \in Conns : d # c => outbox'[d] = outbox[d]
      /\ \A x : Has(outbox'[c], x) => Has(outbox[c], x)
      /\ \A m : outbox[c] = <<m>> => outbox'[c] = <<>>
  BY <1>1, AnswerTakes
<1>3. /\ inbox' \in [Conns -> Seq(FromLeader)]
      /\ \A d \in Conns : d # c => inbox'[d] = inbox[d]
      /\ \A x : Has(inbox'[c], x) => Has(inbox[c], x) \/ x = mess
  BY <1>1, TellsAdds DEF CLTypeOK
<1>4. left' \in Bounds /\ left'.attempts = left.attempts
  BY <1>1, Spending DEF CLTypeOK
<1>5. accepted' \subseteq Conns
  BY <1>1 DEF CLTypeOK
<1> QED
  BY <1>1, <1>2, <1>3, <1>4, <1>5 DEF StepAt, CLTypeOK, sockets

\* Steps that take a request from the queue, or only register its sender.
LEMMA RequestSteps ==
    ASSUME FTInv, UNCHANGED pc, NEW c \in Conns,
           \/ registerTruck(c) \/ answerAuth(c) \/ refuseAuth(c) \/ acceptJoin(c)
           \/ startLeave(c) \/ endLeave(c) \/ staySilent(c)
    PROVE  LeaderKeeps
<1>1. outbox[c] # <<>>
  BY DEF registerTruck, answerAuth, refuseAuth, acceptJoin, startLeave, endLeave, staySilent,
         Registering, Asked
<1>2. /\ Typed /\ CLTypeOK /\ Conversation(c) /\ ~Untouched(c)
      /\ \A cmd : Asked(c, cmd) => Has(outbox[c], cmd)
      /\ \A cmd : Asked(c, cmd) /\ cmd # "auth" => ~Has(outbox[c], "auth")
  BY <1>1, Requested
<1>3. \A m : outbox[c] = <<m>> /\ Answer(c) => ~Has(outbox'[c], "auth")
  <2>1. \A m : outbox[c] = <<m>> /\ Answer(c) => outbox'[c] = <<>>
    BY <1>1, <1>2, AnswerTakes
  <2> QED
    BY <2>1 DEF Has
<1>4. CASE registerTruck(c)
  <2>1. StepAt(c) /\ inbox' = inbox /\ accepted' = accepted /\ c \in registered' /\ c \in enrolled'
    BY <1>2, <1>4 DEF registerTruck, StepAt, CLTypeOK, sockets
  <2> QED
    BY <1>2, <2>1, LeaderAt
<1>5. CASE answerAuth(c)
  <2>1. c \in enrolled /\ Has(outbox[c], "auth")
    BY <1>2, <1>5 DEF answerAuth, Registering
  <2>2. ~Has(outbox'[c], "auth")
    BY <1>2, <1>3, <1>5, <2>1 DEF answerAuth, Conversation
  <2>3. /\ StepAt(c) /\ UNCHANGED <<registered, enrolled, accepted, peer>>
        /\ \A x : Has(inbox'[c], x) => Has(inbox[c], x) \/ x = "auth_ok"
    BY <1>1, <1>5, Answering DEF answerAuth, leader, members, FromLeader
  <2> QED
    BY <1>2, <2>1, <2>2, <2>3, LeaderAt DEF Conversation
<1>6. CASE refuseAuth(c)
  <2>1. /\ StepAt(c) /\ UNCHANGED <<registered, enrolled, accepted, peer>>
        /\ \A x : Has(inbox'[c], x) => Has(inbox[c], x) \/ x = "error"
    BY <1>1, <1>6, Answering DEF refuseAuth, leader, members, FromLeader
  <2> QED
    BY <1>2, <2>1, LeaderAt DEF Conversation
<1>7. CASE acceptJoin(c)
  <2>1. /\ StepAt(c) /\ UNCHANGED <<registered, enrolled, peer>>
        /\ accepted' = accepted \cup {c}
        /\ \A x : Has(inbox'[c], x) => Has(inbox[c], x) \/ x = "join_accepted"
    BY <1>1, <1>7, Answering DEF acceptJoin, FromLeader
  <2>2. c \in enrolled /\ ~Has(outbox[c], "auth")
    BY <1>2, <1>7 DEF acceptJoin, Conversation
  <2>3. ~Has(outbox'[c], "auth")
    BY <2>1, <2>2 DEF StepAt
  <2> QED
    BY <1>2, <2>1, <2>2, <2>3, LeaderAt DEF Conversation
<1>8. CASE startLeave(c)
  <2>1. /\ StepAt(c) /\ UNCHANGED <<registered, enrolled, accepted, peer>>
        /\ \A x : Has(inbox'[c], x) => Has(inbox[c], x) \/ x = "leave_start"
    BY <1>1, <1>8, Answering DEF startLeave, leader, members, FromLeader
  <2> QED
    BY <1>2, <2>1, LeaderAt DEF Conversation
<1>9. CASE endLeave(c)
  <2>1. Answer(c) /\ registered' = registered \ {c} /\ c \in accepted /\ Parted(c)
    BY <1>2, <1>9 DEF endLeave, Conversation
  <2>2. /\ outbox' \in [Conns -> Seq(Answered)]
        /\ \A d \in Conns : d # c => outbox'[d] = outbox[d]
        /\ \A x : Has(outbox'[c], x) => Has(outbox[c], x)
        /\ \A m : outbox[c] = <<m>> => outbox'[c] = <<>>
    BY <1>1, <1>2, <2>1, AnswerTakes
  <2>3. StepAt(c) /\ UNCHANGED <<inbox, enrolled, accepted, peer>>
    BY <1>2, <1>9, <2>1, <2>2 DEF endLeave, StepAt, CLTypeOK, sockets
  <2> QED
    BY <1>2, <2>1, <2>3, LeaderAt DEF Conversation
<1>10. CASE staySilent(c)
  <2>1. /\ StepAt(c) /\ UNCHANGED <<inbox, registered, enrolled, accepted, peer>>
    BY <1>1, <1>10, Answering DEF staySilent, leader, members, FromLeader
  <2> QED
    BY <1>2, <2>1, LeaderAt DEF Conversation
<1> QED
  BY <1>4, <1>5, <1>6, <1>7, <1>8, <1>9, <1>10

\* What the leader tells a truck unasked.
LEMMA UnaskedSteps ==
    ASSUME FTInv, UNCHANGED pc, NEW c \in Conns, answerAlert(c) \/ syncTruck(c)
    PROVE  LeaderKeeps
<1>1. Typed /\ CLTypeOK /\ Conversation(c)
  BY DEF FTInv, Typed, FTTypeOK
<1>2. /\ c \in enrolled /\ ~Untouched(c)
      /\ UNCHANGED <<conn, tcpOpen, bound, closed, datagrams, outbox, registered, enrolled,
                     peer, leaderUp>>
  BY DEF answerAlert, syncTruck, Untouched, sockets, leader, members
<1>3. left' \in Bounds /\ left'.attempts = left.attempts
  BY <1>1, Spending DEF answerAlert, syncTruck
<1>4. PICK mess \in FromLeader \ {"auth_ok"} :
         /\ Tells(c, mess) \/ Responds(c, mess)
         /\ \/ accepted' = accepted /\ mess # "join_accepted"
            \/ accepted' = accepted \cup {c} /\ ~Registering(c)
  BY DEF answerAlert, syncTruck, FromLeader, leader, members
<1>5. /\ inbox' \in [Conns -> Seq(FromLeader)]
      /\ \A d \in Conns : d # c => inbox'[d] = inbox[d]
      /\ \A x : Has(inbox'[c], x) => Has(inbox[c], x) \/ x = mess
  BY <1>1, <1>4, TellsAdds
<1>6. c \in accepted' => c \in accepted \/ ~Has(outbox[c], "auth")
  <2>1. Has(outbox[c], "auth") => Asked(c, "auth")
    BY <1>1 DEF Conversation, Asked
  <2> QED
    BY <1>2, <1>4, <2>1 DEF Registering
<1>7. StepAt(c)
  BY <1>1, <1>2, <1>3, <1>4, <1>5 DEF StepAt, CLTypeOK
<1> QED
  BY <1>1, <1>2, <1>4, <1>5, <1>6, <1>7, LeaderAt DEF Conversation

\* An error answers what does not parse, whoever sent it.
LEMMA RefuseMergedKeeps ==
    ASSUME FTInv, UNCHANGED pc, NEW c \in Conns, refuseMerged(c)
    PROVE  LeaderKeeps
<1>1. /\ Typed /\ CLTypeOK /\ Conversation(c) /\ outbox[c] \in Seq(Answered)
  BY DEF FTInv, Typed, FTTypeOK, CLTypeOK
<1>2. PICK i \in 0 .. Len(outbox[c]) : \E j \in i .. Len(outbox[c]) :
         outbox' = [outbox EXCEPT ![c] = Splice(@, i, j)]
  BY DEF refuseMerged, Splice
<1>3. PICK j \in i .. Len(outbox[c]) : outbox' = [outbox EXCEPT ![c] = Splice(@, i, j)]
  BY <1>2
<1> DEFINE rest == Splice(outbox[c], i, j)
<1>4. outbox' = [outbox EXCEPT ![c] = rest]
  BY <1>3
<1>5. /\ rest \in Seq(Answered)
      /\ \A x : Has(rest, x) => Has(outbox[c], x)
      /\ outbox[c] = <<>> => rest = <<>>
      /\ outbox[c] = <<"auth">> => rest \in {<<"auth">>, <<>>}
  BY <1>1, HasSplice
<1> HIDE DEF rest
<1>6. /\ outbox' \in [Conns -> Seq(Answered)] /\ outbox'[c] = rest
      /\ \A d \in Conns : d # c => outbox'[d] = outbox[d]
  BY <1>1, <1>4, <1>5 DEF CLTypeOK
<1>7. /\ inbox' \in [Conns -> Seq(FromLeader)]
      /\ \A d \in Conns : d # c => inbox'[d] = inbox[d]
      /\ \A x : Has(inbox'[c], x) => Has(inbox[c], x) \/ x = "error"
  BY <1>1, TellsAdds DEF refuseMerged, FromLeader
<1>8. left' \in Bounds /\ left'.attempts = left.attempts
  BY <1>1, Spending DEF refuseMerged
<1>9. UNCHANGED <<conn, tcpOpen, bound, closed, datagrams, registered, enrolled, accepted,
                  peer, leaderUp>>
  BY DEF refuseMerged, sockets, leader, members
<1>10. StepAt(c)
  BY <1>1, <1>5, <1>6, <1>7, <1>8, <1>9 DEF StepAt, CLTypeOK
<1>11. Untouched(c) => Untouched(c)'
  BY <1>5, <1>6, <1>7, <1>9 DEF Untouched
<1> QED
  BY <1>1, <1>5, <1>6, <1>7, <1>9, <1>10, <1>11, LeaderAt DEF Conversation

\* A truck is dropped with its connection.
LEMMA DropKeeps ==
    ASSUME FTInv, UNCHANGED pc, NEW c \in Conns, NEW users, dropTruck(c, users)
    PROVE  LeaderKeeps
<1>1. Typed /\ CLTypeOK /\ Conversation(c)
  BY DEF FTInv, Typed, FTTypeOK
<1>2. /\ UNCHANGED <<conn, tcpOpen, bound, closed, datagrams, outbox, inbox, enrolled, accepted,
                     leaderUp>>
      /\ registered' = registered \ {c} /\ peer' = [peer EXCEPT ![c] = "rst"]
  BY DEF dropTruck, sockets
<1>3. left' \in Bounds /\ left'.attempts = left.attempts
  BY <1>1, Spending DEF dropTruck, CLTypeOK
<1>4. StepAt(c) /\ peer'[c] # "up"
  BY <1>1, <1>2, <1>3 DEF StepAt, CLTypeOK
<1>5. Untouched(c) => Untouched(c)'
  BY <1>2 DEF Untouched
<1> QED
  BY <1>1, <1>2, <1>4, <1>5, LeaderAt DEF Conversation

\* A broadcast or the end of the leader's process is not part of a conversation.
LEMMA QuietLeader ==
    ASSUME FTInv, UNCHANGED pc, broadcastEmergency \/ endLeader
    PROVE  LeaderKeeps
<1>1. /\ UNCHANGED <<conn, tcpOpen, bound, closed, outbox, inbox, registered, enrolled,
                     accepted>>
      /\ left' \in Bounds /\ left'.attempts = left.attempts
  BY Spending DEF broadcastEmergency, endLeader, sockets, leader, members, FTInv
<1>2. /\ datagrams' \in Nat /\ peer' \in [Conns -> {"up", "fin", "rst", "gone"}]
      /\ PeersOnlyBreak
  BY DEF broadcastEmergency, endLeader, leader, PeersOnlyBreak, FTInv, Typed, FTTypeOK,
         CLTypeOK
<1>3. leaderUp' \in BOOLEAN
  BY Zenon DEF broadcastEmergency, endLeader, leader, FTInv, Typed, FTTypeOK, CLTypeOK
<1>4. CLTypeOK' /\ Numbered'
  BY <1>1, <1>2, <1>3 DEF FTInv, Typed, FTTypeOK, CLTypeOK, Numbered
<1>5. \A d \in Conns : Conversation(d)'
  <2>1. \A d \in Conns : Parted(d)' = Parted(d)
    BY <1>1 DEF Parted, at
  <2> QED
    BY <1>1, <1>2, <2>1, QuietConversations
<1> QED
  BY <1>1, <1>4, <1>5 DEF LeaderKeeps, Untouched

LEMMA LeaderStep ==
    ASSUME FTInv, UNCHANGED pc, NEW users, Leader(users)
    PROVE  LeaderKeeps
  BY RequestSteps, UnaskedSteps, RefuseMergedKeeps, DropKeeps, QuietLeader DEF Leader

-----------------------------------------------------------------------------
(* The threads of a session *)

\* The steps of a thread from one place to the next.
Follows(t, l) ==
    \/ pc[t] = "detach" /\ l = "wait"
    \/ pc[t] = "wait" /\ l = "loop" /\ current_state = "NORMAL_OPERATION"
    \/ pc[t] = "loop" /\ l = "exited" /\ current_state = "IDLE"
    \/ pc[t] \in Running /\ l \in Running

\* What a session thread leaves alone, the sockets and what it asks of the leader
\* above all; of the FSM thread's variables it writes next_state only.
SessionKeeps(t) ==
    /\ Typed'
    /\ UNCHANGED <<current_state, prev_state, conn, tcpOpen, bound, closed, outbox,
                   registered, enrolled, accepted>>
    /\ PeersOnlyBreak
    /\ next_state' \in {next_state, "CONNECTION_LOST"}
    /\ \A d \in Conns : \A x : Has(inbox'[d], x) => Has(inbox[d], x)
    /\ \/ pc' = pc
       \/ \E l \in SessionLabels : Follows(t, l) /\ pc' = [pc EXCEPT ![t] = l]

\* The types of what is not the client's.
TruckTyped ==
    /\ {current_state, next_state, prev_state} \subseteq States
    /\ leadingNoti \in {"NORMAL", "BRAKING", "SLOWING"}
    /\ retry_times \in 0 .. MAX_RESEND_MESS
    /\ truck_status \in {"running", "sync"}
    /\ in_Emergercy \in BOOLEAN /\ aborted \in BOOLEAN
    /\ on \in [Threads -> 0 .. MaxConns]
    /\ joinee \in 0 .. 4
    /\ scheduled \subseteq Kinds
    /\ pc \in [Threads -> FSMLabels \cup SessionLabels]

LEMMA TypedParts == ASSUME Typed PROVE TruckTyped /\ CLTypeOK /\ Numbered
  BY DEF Typed, FTTypeOK, TruckTyped

LEMMA TypedNext == ASSUME TruckTyped', CLTypeOK', Numbered' PROVE Typed'
  BY DEF Typed, FTTypeOK, TruckTyped

LEMMA UnchangedClient ==
    ASSUME Typed, UNCHANGED clvars
    PROVE  /\ CLTypeOK' /\ Numbered' /\ PeersOnlyBreak
           /\ UNCHANGED <<conn, tcpOpen, bound, closed, outbox, inbox, registered, enrolled,
                          accepted>>
  BY DEF Typed, FTTypeOK, CLTypeOK, Numbered, PeersOnlyBreak, clvars, sockets, leader,
         members

LEMMA RetryTyped == ASSUME Typed, Retry PROVE retry_times' \in 0 .. MAX_RESEND_MESS
  BY FollowingAssumption DEF Retry, Typed, FTTypeOK

LEMMA GotoTyped ==
    ASSUME Typed, NEW t, NEW l \in FSMLabels \cup SessionLabels, Goto(t, l)
    PROVE  pc' \in [Threads -> FSMLabels \cup SessionLabels]
  BY DEF Goto, Typed

LEMMA StepOverKeeps ==
    ASSUME FTInv, NEW t \in SessionThreads, NEW from, NEW to \in SessionLabels,
           StepOver(t, from, to), At(t, from) => Follows(t, to)
    PROVE  SessionKeeps(t)
<1>1. Typed /\ UNCHANGED clvars /\ Goto(t, to) /\ Follows(t, to)
  BY DEF StepOver, FTInv, Move
<1>2. TruckTyped'
  BY <1>1, GotoTyped, TypedParts DEF StepOver, TruckTyped, states, truck, locals
<1> QED
  BY <1>1, <1>2, UnchangedClient, TypedNext DEF SessionKeeps, StepOver, states, Goto

LEMMA StartKeeps ==
    ASSUME FTInv, NEW t \in SessionThreads, startThread(t)
    PROVE  SessionKeeps(t)
  BY StepOverKeeps DEF startThread, Follows, At, SessionLabels, Before, Running

LEMMA LoopKeeps ==
    ASSUME FTInv, NEW t \in SessionThreads, NEW ignored, NEW body \in Running,
           loop(t, ignored, body)
    PROVE  SessionKeeps(t)
<1>1. CASE current_state = "IDLE"
  BY <1>1, StepOverKeeps DEF loop, Follows, At, SessionLabels, Before, Running
<1>2. CASE current_state # "IDLE"
  <2>1. PICK to \in Running : StepOver(t, "loop", to)
    BY <1>2 DEF loop, Running
  <2> QED
    BY <2>1, StepOverKeeps DEF Follows, At, SessionLabels, Running
<1> QED
  BY <1>1, <1>2

LEMMA LoseKeeps ==
    ASSUME FTInv, NEW t \in SessionThreads, loseConnection(t)
    PROVE  SessionKeeps(t)
<1>1. /\ Typed /\ UNCHANGED clvars /\ Goto(t, "loop") /\ Follows(t, "loop")
      /\ "loop" \in SessionLabels
  BY DEF loseConnection, FTInv, Move, At, Follows, Running, SessionLabels
<1>2. TruckTyped'
  BY <1>1, GotoTyped, TypedParts DEF loseConnection, TruckTyped, truck, locals, States
<1> QED
  BY <1>1, <1>2, UnchangedClient, TypedNext DEF SessionKeeps, loseConnection, Goto

LEMMA UpdateTyped ==
    ASSUME Typed, NEW t, NEW from, NEW to \in FSMLabels \cup SessionLabels,
           updateCurrentStatus(t, from, to)
    PROVE  Typed'
<1>1. UNCHANGED clvars /\ Goto(t, to)
  BY DEF updateCurrentStatus, Move
<1>2. TruckTyped'
  BY <1>1, GotoTyped, TypedParts DEF updateCurrentStatus, TruckTyped, states, locals
<1> QED
  BY <1>1, <1>2, UnchangedClient, TypedNext

LEMMA UpdateKeeps ==
    ASSUME FTInv, NEW t \in SessionThreads, NEW from \in Running, NEW to \in Running,
           updateCurrentStatus(t, from, to)
    PROVE  SessionKeeps(t)
<1>1. Typed /\ UNCHANGED clvars /\ Goto(t, to) /\ Follows(t, to) /\ to \in SessionLabels
  BY DEF updateCurrentStatus, FTInv, Move, At, Follows, SessionLabels
<1>2. Typed'
  BY <1>1, UpdateTyped
<1> QED
  BY <1>1, <1>2, UnchangedClient DEF SessionKeeps, updateCurrentStatus, states, Goto

\* A call of sendMessage by any thread.
LEMMA SendTyped ==
    ASSUME Typed, NEW t, NEW from, NEW cmd,
           NEW sent \in FSMLabels \cup SessionLabels,
           NEW failed \in FSMLabels \cup SessionLabels,
           Send(t, from, cmd, sent, failed) \/ SendLast(t, from, cmd, sent, failed)
    PROVE  Typed'
<1>1. UNCHANGED <<states, leadingNoti, truck_status, in_Emergercy, on, joinee, scheduled>>
  BY DEF Send, SendLast, locals
<1>2. /\ CLTypeOK' /\ Numbered'
      /\ pc' \in [Threads -> FSMLabels \cup SessionLabels]
      /\ aborted' \in BOOLEAN /\ retry_times' \in 0 .. MAX_RESEND_MESS
  <2>1. CASE sendMessage(cmd, TRUE) /\ Goto(t, sent) /\ UNCHANGED aborted
               /\ (resetRetryCounter \/ UNCHANGED retry_times)
    <3>1. retry_times' \in 0 .. MAX_RESEND_MESS
      BY <2>1, FollowingAssumption DEF resetRetryCounter, Typed, FTTypeOK
    <3> QED
      BY <2>1, <3>1, SendKeeps, GotoTyped DEF Typed, FTTypeOK
  <2>2. CASE sendMessage(cmd, FALSE) /\ Goto(t, failed) /\ Retry /\ UNCHANGED aborted
    BY <2>2, SendKeeps, GotoTyped, RetryTyped DEF Typed, FTTypeOK
  <2>3. CASE Killed
    BY <2>3, UnchangedClient DEF Killed, Typed, FTTypeOK
  <2> QED
    BY <2>1, <2>2, <2>3 DEF Send, SendLast
<1>3. TruckTyped'
  BY <1>1, <1>2, TypedParts DEF TruckTyped, states
<1> QED
  BY <1>2, <1>3, TypedNext

\* Reports and alerts are answered by nobody.
LEMMA ReportKeeps ==
    ASSUME FTInv, NEW t \in SessionThreads, NEW from \in Running, NEW cmd, cmd \notin Answered,
           NEW sent \in Running, NEW failed \in Running,
           SendLast(t, from, cmd, sent, failed)
    PROVE  SessionKeeps(t)
<1>1. Typed /\ Typed' /\ states' = states
  BY SendTyped DEF FTInv, SessionLabels, SendLast
<1>2. /\ UNCHANGED <<conn, tcpOpen, bound, closed, outbox, inbox, registered, enrolled,
                     accepted>>
      /\ PeersOnlyBreak
      /\ pc' = pc \/ \E l \in Running : pc' = [pc EXCEPT ![t] = l]
  <2>1. CASE sendMessage(cmd, TRUE) /\ Goto(t, sent)
    BY <1>1, <2>1, SendKeeps DEF Goto
  <2>2. CASE sendMessage(cmd, FALSE) /\ Goto(t, failed)
    BY <1>1, <2>2, SendKeeps DEF Goto
  <2>3. CASE Killed
    BY <1>1, <2>3, UnchangedClient DEF Killed
  <2> QED
    BY <2>1, <2>2, <2>3 DEF SendLast
<1>3. \A l \in Running : Follows(t, l) /\ l \in SessionLabels
  BY DEF SendLast, At, Follows, SessionLabels
<1> QED
  BY <1>1, <1>2, <1>3 DEF SessionKeeps, states

LEMMA EnterKeeps ==
    ASSUME FTInv, NEW t \in SessionThreads, enterRecv(t)
    PROVE  SessionKeeps(t)
<1>1. Typed /\ UNCHANGED clvars
  BY DEF enterRecv, FTInv
<1>2. pc' = pc \/ \E l \in {"recv", "note"} : pc' = [pc EXCEPT ![t] = l]
  BY DEF enterRecv, Goto
<1>3. \A l \in {"recv", "note"} : Follows(t, l) /\ l \in SessionLabels
  BY DEF enterRecv, At, Follows, Running, SessionLabels
<1>4. on' \in [Threads -> 0 .. MaxConns]
  BY <1>1 DEF enterRecv, Typed, FTTypeOK, CLTypeOK
<1>5. in_Emergercy' \in BOOLEAN /\ aborted' \in BOOLEAN
  BY <1>1 DEF enterRecv, Typed, FTTypeOK
<1>6. TruckTyped'
  BY <1>1, <1>2, <1>3, <1>4, <1>5, TypedParts DEF enterRecv, TruckTyped, states
<1> QED
  BY <1>1, <1>2, <1>3, <1>6, UnchangedClient, TypedNext DEF SessionKeeps, enterRecv, states

LEMMA RecvKeeps ==
    ASSUME FTInv, NEW t \in SessionThreads, recvMessage(t) \/ recvThrows(t)
    PROVE  SessionKeeps(t)
<1>1. Typed
  BY DEF FTInv
<1>2. \/ \E cmd : receiveTCPMessage(on[t], cmd)
      \/ receiveUDPMessage(on[t])
  BY DEF recvMessage, recvThrows
<1>3. /\ CLTypeOK' /\ Numbered' /\ PeersOnlyBreak
      /\ UNCHANGED <<conn, tcpOpen, bound, closed, outbox, registered, enrolled, accepted>>
      /\ \A d \in Conns : \A x : Has(inbox'[d], x) => Has(inbox[d], x)
  BY <1>1, <1>2, ReceiveTakes, ReceiveUDPKeeps
<1>4. pc' = pc \/ pc' = [pc EXCEPT ![t] = "note"]
  BY DEF recvMessage, recvThrows, Goto
<1>5. Follows(t, "note") /\ "note" \in SessionLabels
  BY DEF recvMessage, recvThrows, At, Follows, Running, SessionLabels
<1>6. on' \in [Threads -> 0 .. MaxConns]
  BY <1>1, ClientAssumption DEF recvMessage, recvThrows, locals, Typed, FTTypeOK
<1>7. aborted' \in BOOLEAN /\ truck_status' \in {"running", "sync"}
  BY <1>1 DEF recvMessage, recvThrows, processCommands, truck, Typed, FTTypeOK
<1>8. in_Emergercy' \in BOOLEAN
  BY <1>1, Zenon DEF recvMessage, recvThrows, processCommands, truck, Typed, FTTypeOK
<1>9. UNCHANGED <<states, leadingNoti, retry_times, joinee, scheduled>>
  BY DEF recvMessage, recvThrows, truck, locals
<1>10. TruckTyped'
  BY <1>1, <1>4, <1>5, <1>6, <1>7, <1>8, <1>9, TypedParts DEF TruckTyped, states
<1> QED
  BY <1>3, <1>4, <1>5, <1>9, <1>10, TypedNext DEF SessionKeeps, states

LEMMA NoteKeeps ==
    ASSUME FTInv, NEW t \in SessionThreads, noteLeading(t)
    PROVE  SessionKeeps(t)
<1>1. /\ Typed /\ UNCHANGED clvars /\ Goto(t, "loop") /\ Follows(t, "loop")
      /\ "loop" \in SessionLabels
  BY DEF noteLeading, FTInv, Move, At, Follows, Running, SessionLabels
<1>2. TruckTyped'
  BY <1>1, GotoTyped, TypedParts DEF noteLeading, TruckTyped, truck, states
<1> QED
  BY <1>1, <1>2, UnchangedClient, TypedNext DEF SessionKeeps, noteLeading, Goto, states

LEMMA SessionStep ==
    ASSUME FTInv, NEW t \in SessionThreads, SessionThread(t)
    PROVE  SessionKeeps(t)
<1> USE DEF Running
<1>1. CASE send_current_status(t)
  <2>1. CASE StepOver(t, "check", IF TooOften THEN "lose" ELSE "loop")
    <3>1. PICK to \in {"lose", "loop"} : StepOver(t, "check", to)
      BY <2>1
    <3> QED
      BY <3>1, StepOverKeeps DEF Follows, At, SessionLabels
  <2> QED
    BY <1>1, <2>1, StartKeeps, LoopKeeps, UpdateKeeps, ReportKeeps, LoseKeeps
       DEF send_current_status, Answered
<1>2. CASE check_obstacle(t)
  <2>1. CASE StepOver(t, "check", IF TooOften THEN "lose" ELSE "alert")
    <3>1. PICK to \in {"lose", "alert"} : StepOver(t, "check", to)
      BY <2>1
    <3> QED
      BY <3>1, StepOverKeeps DEF Follows, At, SessionLabels
  <2> QED
    BY <1>2, <2>1, StartKeeps, LoopKeeps, ReportKeeps, LoseKeeps DEF check_obstacle, Answered
<1>3. CASE Listener(t)
  BY <1>3, StartKeeps, LoopKeeps, EnterKeeps, RecvKeeps, NoteKeeps DEF Listener
<1> QED
  BY <1>1, <1>2, <1>3 DEF SessionThread

-----------------------------------------------------------------------------
(* Steps of the others preserve the invariant *)

LEMMA FSMApart ==
    FSM \in Threads /\ \A t \in SessionThreads : t \in Threads /\ t # FSM
  BY DEF Threads, SessionThreads, FSM, Conns

\* What says that the sockets and the membership are what they were.
SameStanding ==
    /\ Attached' = Attached /\ Member' = Member /\ Detached' = Detached
    /\ tcpOpen' = tcpOpen /\ (conn \in accepted)' = (conn \in accepted)

LEMMA SameSockets ==
    ASSUME UNCHANGED <<conn, tcpOpen, bound, closed, accepted>>
    PROVE  SameStanding
  BY DEF SameStanding, Attached, Member, Detached

\* A thread can only be put back, or in its rounds, by what does not end a session.
LEMMA SessionInv ==
    ASSUME FTInv, NEW t \in SessionThreads, SessionKeeps(t)
    PROVE  FTInv'
<1> USE DEF SessionKeeps
<1>1. Typed /\ Typed'
  BY DEF FTInv
<1>2. /\ at' = at
      /\ \A u \in SessionThreads \ {t} : pc'[u] = pc[u]
      /\ pc'[t] = pc[t] \/ (pc'[t] \in SessionLabels /\ Follows(t, pc'[t]))
  BY <1>1, FSMApart DEF Typed, at
<1>3. SameStanding
  BY SameSockets
<1>4. at = "auth" => Untouched(conn)'
  BY DEF FTInv, Standing, Attached, Untouched
<1>5. Authenticated' = Authenticated
  BY <1>3 DEF Authenticated, SameStanding
<1>6. Place' /\ Course'
  BY <1>2 DEF FTInv, Place, Course, Operating
<1>7. Standing'
  BY <1>2, <1>3, <1>4, <1>5 DEF FTInv, Standing, SameStanding, Operating
<1>8. \A d \in Conns : Conversation(d)'
  <2>1. \A d \in Conns : Parted(d)' = Parted(d)
    BY <1>2 DEF Parted
  <2> QED
    BY <2>1, QuietConversations
<1>9. ASSUME NEW u \in SessionThreads PROVE Serves(u)'
  <2>1. Serves(u) /\ InSession' = InSession
    BY DEF FTInv, InSession
  <2>2. CASE pc'[u] = pc[u]
    BY <2>1, <2>2 DEF Serves
  <2>3. CASE u = t /\ pc'[t] \in SessionLabels /\ Follows(t, pc'[t])
    <3>1. CASE pc[t] = "detach" /\ pc'[t] = "wait"
      BY <2>1, <2>3, <3>1 DEF Serves, Running
    <3>2. CASE pc[t] = "wait" /\ pc'[t] = "loop" /\ current_state = "NORMAL_OPERATION"
      <4>1. t[2] \in bound /\ Attached /\ InSession
        BY <2>1, <2>3, <3>2 DEF Serves, FTInv, Standing, Member, InSession, Operating
      <4> QED
        BY <2>1, <2>3, <3>2, <4>1 DEF Serves, Attached
    <3>3. CASE pc[t] = "loop" /\ pc'[t] = "exited" /\ current_state = "IDLE"
      <4>1. ~InSession
        BY <3>3 DEF InSession, Operating
      <4> QED
        BY <2>1, <2>3, <3>3, <4>1 DEF Serves, Running
    <3>4. CASE pc[t] \in Running /\ pc'[t] \in Running
      BY <2>1, <2>3, <3>4 DEF Serves, Running
    <3> QED
      BY <2>3, <3>1, <3>2, <3>3, <3>4 DEF Follows
  <2> QED
    BY <1>2, <2>2, <2>3
<1> QED
  BY <1>1, <1>6, <1>7, <1>8, <1>9 DEF FTInv

LEMMA EnvironmentInv ==
    ASSUME FTInv, Environment
    PROVE  FTInv'
<1>1. /\ UNCHANGED <<states, leadingNoti, truck, locals, aborted, pc>> /\ LeaderKeeps
      /\ at' = at /\ Typed
  BY LeaderStep DEF Environment, at, FTInv
<1> USE DEF LeaderKeeps
<1>2. Typed'
  <2>1. TruckTyped'
    BY <1>1, TypedParts DEF TruckTyped, states, truck, locals
  <2> QED
    BY <1>1, <2>1, TypedNext
<1>3. /\ Attached' = Attached /\ Detached' = Detached
      /\ Member => Member'
      /\ conn \in accepted => (conn \in accepted)'
  BY <1>1 DEF Attached, Detached, Member
<1>4. Attached => conn \in Conns
  BY DEF Attached
<1>5. Authenticated => Authenticated'
  BY <1>1, <1>3, <1>4 DEF Authenticated
<1>6. Place' /\ Course'
  BY <1>1 DEF FTInv, Place, Course, states
<1>7. at = "auth" => Untouched(conn)'
  BY <1>1, <1>4 DEF FTInv, Standing
<1>8. Standing'
  BY <1>1, <1>3, <1>5, <1>7 DEF FTInv, Standing, states
<1>9. \A t \in SessionThreads : Serves(t)'
  BY <1>1 DEF FTInv, Serves, InSession, states
<1> QED
  BY <1>1, <1>2, <1>6, <1>8, <1>9 DEF FTInv

-----------------------------------------------------------------------------
(* Steps of the FSM thread preserve the invariant *)

LEMMA FSMMoves ==
    ASSUME Typed, NEW to, Goto(FSM, to)
    PROVE  at' = to /\ \A t \in SessionThreads : pc'[t] = pc[t]
  BY FSMApart DEF Typed, Goto, at

\* What remains to be shown of a step within a case of the switch.
LEMMA WithinCase ==
    ASSUME FTInv, UNCHANGED <<conn, bound, closed, current_state, prev_state>>,
           \A t \in SessionThreads : pc'[t] = pc[t],
           Typed', Place', Course', Standing', \A c \in Conns : Conversation(c)'
    PROVE  FTInv'
<1>1. \A t \in SessionThreads : Serves(t)'
  BY DEF FTInv, Serves, InSession
<1> QED
  BY <1>1 DEF FTInv

\* A step of the FSM thread without a call of the client, from anywhere but "close".
LEMMA LocalStep ==
    ASSUME FTInv, UNCHANGED clvars, NEW to, Goto(FSM, to), at # "close"
    PROVE  /\ at' = to /\ \A t \in SessionThreads : pc'[t] = pc[t]
           /\ UNCHANGED <<conn, bound, closed>> /\ SameStanding
           /\ Authenticated' = Authenticated /\ Untouched(conn)' = Untouched(conn)
           /\ \A c \in Conns : Conversation(c)'
<1>1. /\ Typed /\ at' = to /\ \A t \in SessionThreads : pc'[t] = pc[t]
      /\ UNCHANGED <<conn, tcpOpen, bound, closed, outbox, inbox, registered, enrolled,
                     accepted>>
      /\ PeersOnlyBreak
  BY FSMMoves, UnchangedClient DEF FTInv
<1>2. SameStanding
  BY <1>1, SameSockets
<1>3. Authenticated' = Authenticated /\ Untouched(conn)' = Untouched(conn)
  BY <1>1, <1>2 DEF SameStanding, Authenticated, Untouched
<1>4. \A c \in Conns : Parted(c) => Parted(c)'
  BY <1>1 DEF Parted
<1>5. \A c \in Conns : Conversation(c)'
  BY <1>1, <1>4, QuietConversations
<1> QED
  BY <1>1, <1>2, <1>3, <1>5

\* ... that stays in its case of the switch.
LEMMA LocalInv ==
    ASSUME FTInv, UNCHANGED <<clvars, current_state, prev_state>>, NEW to \in FSMLabels,
           Goto(FSM, to), at # "close", TruckTyped',
           SameStanding /\ Authenticated' = Authenticated
             /\ Untouched(conn)' = Untouched(conn) /\ at' = to
             => Place' /\ Course' /\ Standing'
    PROVE  FTInv'
<1>1. /\ at' = to /\ \A t \in SessionThreads : pc'[t] = pc[t]
      /\ UNCHANGED <<conn, bound, closed>> /\ SameStanding
      /\ Authenticated' = Authenticated /\ Untouched(conn)' = Untouched(conn)
      /\ \A c \in Conns : Conversation(c)'
  BY LocalStep
<1>2. Typed'
  BY UnchangedClient, TypedNext DEF FTInv
<1> QED
  BY <1>1, <1>2, WithinCase

\* The statements of the FSM thread that assign to next_state, or to no state, and
\* do not call the client.
Statement(from, to) ==
    \/ next_state' = next_state
       /\ \/ from = "idle" /\ to \in {"connect", "save_step"}
          \/ from = "join_update" /\ to = "join_done"
          \/ from = "join_failed" /\ to = "step"
          \/ from = "normal" /\ to = "braking"
          \/ from = "braking" /\ to = "slowing"
          \/ from \in {"slowing", "brake_result", "leave_failed"} /\ to = "save_step"
          \/ from = "brake" /\ to = "brake_look"
          \/ from = "brake_look" /\ to \in {"brake_end", "brake_result"}
          \/ from = "brake_end" /\ to = "brake_result"
          \/ from = "lost" /\ to = "lost_send"
          \/ from = "lost_reset" /\ to = "recovered"
          \/ from = "leaving" /\ to \in {"blocked", "leave"}
          \/ from = "init_truck" /\ to = "to_idle"
    \/ from = "auth_done" /\ to = "save_step" /\ next_state' = "JOINING"
    \/ from = "join_failed" /\ to = "step" /\ next_state' = "IDLE"
    \/ from = "normal" /\ to = "braking" /\ next_state' = "LEAVING"
    \/ from = "braking" /\ to = "slowing" /\ next_state' = "EMERGENCY_BRAKE"
    \/ from = "slowing" /\ to = "save_step" /\ next_state' = "SLOW_DOWN"
    \/ from \in {"slow_down", "brake_result", "leave_failed"}
       /\ to = "save_step" /\ next_state' = "NORMAL_OPERATION"
    \/ from = "recovered" /\ to = "step" /\ next_state' = prev_state
    \/ from = "to_idle" /\ to = "save_step" /\ next_state' = "IDLE"

\* Steps that assign to next_state, or to no state.
LEMMA AssignInv ==
    ASSUME FTInv, NEW from, NEW to \in FSMLabels, Move(FSM, from, to),
           UNCHANGED <<current_state, prev_state, leadingNoti, locals, aborted, clvars>>,
           TruckTyped',
           Statement(from, to)
    PROVE  FTInv'
<1>1. at = from /\ Goto(FSM, to) /\ at # "close"
  BY DEF Move, At, at, Statement
<1>2. ASSUME SameStanding, Authenticated' = Authenticated,
             Untouched(conn)' = Untouched(conn), at' = to
      PROVE  Place' /\ Course' /\ Standing'
  <2>1. current_state \in States /\ Place /\ Course /\ Standing
    BY DEF FTInv, Typed, FTTypeOK
  <2>2. Place'
    BY <1>1, <1>2, <2>1 DEF Statement, Place, States
  <2>3. Course'
    BY <1>1, <1>2, <2>1 DEF Statement, Place, Course, States, Operating
  <2>4. Standing'
    BY <1>1, <1>2, <2>1 DEF Statement, Place, Course, Standing, SameStanding, States, Operating
  <2> QED
    BY <2>2, <2>3, <2>4
<1> QED
  BY <1>1, <1>2, LocalInv

LEMMA AssignmentInv ==
    ASSUME FTInv,
           \/ idle \/ authDone \/ joinUpdate \/ joinFailed \/ normalOperation \/ slowDown
           \/ emergencyBrake \/ lost \/ lostReset \/ recovered \/ initTruck \/ toIdle
           \/ leaveFailed
    PROVE  FTInv'
<1>1. Typed /\ TruckTyped
  BY TypedParts DEF FTInv
<1>2. prev_state \in States
  BY <1>1 DEF TruckTyped
<1>3. ASSUME NEW from, NEW to \in FSMLabels, Move(FSM, from, to), Statement(from, to),
             UNCHANGED <<current_state, prev_state, leadingNoti, locals, aborted, clvars>>,
             truck_status' \in {truck_status, "running"},
             in_Emergercy' \in {in_Emergercy, TRUE, FALSE},
             retry_times' \in {retry_times, 0}
      PROVE  FTInv'
  <2>1. pc' \in [Threads -> FSMLabels \cup SessionLabels]
    BY <1>1, <1>3, GotoTyped DEF Move
  <2>2. next_state' \in States
    BY <1>1, <1>2, <1>3 DEF Statement, TruckTyped, States
  <2>3. retry_times' \in 0 .. MAX_RESEND_MESS
    BY <1>1, <1>3, FollowingAssumption DEF TruckTyped
  <2>4. TruckTyped'
    BY <1>1, <1>3, <2>1, <2>2, <2>3 DEF TruckTyped, locals
  <2> QED
    BY <1>3, <2>4, AssignInv
<1> USE DEF Statement, FSMLabels
<1>4. CASE idle
  BY <1>3, <1>4 DEF idle, states, truck
<1>5. CASE authDone
  BY <1>3, <1>5 DEF authDone, resetRetryCounter
<1>6. CASE joinUpdate
  BY <1>3, <1>6 DEF joinUpdate, updateCurrentStatus, states
<1>7. CASE joinFailed
  BY <1>3, <1>7 DEF joinFailed, Move, truck
<1>8. CASE normalOperation
  BY <1>3, <1>8 DEF normalOperation, Look, truck
<1>9. CASE slowDown
  BY <1>3, <1>9 DEF slowDown, SetNext, truck
<1>10. CASE emergencyBrake
  BY <1>3, <1>10 DEF emergencyBrake, brake, brakeLook, brakeEnd, brakeResult, states, truck
<1>11. CASE lost \/ lostReset \/ recovered
  BY <1>3, <1>11 DEF lost, updateCurrentStatus, lostReset, resetRetryCounter, recovered,
                     SetNext, states, truck
<1>12. CASE initTruck \/ toIdle
  BY <1>3, <1>12 DEF initTruck, toIdle, SetNext, states, truck
<1>13. CASE leaveFailed
  BY <1>3, <1>13 DEF leaveFailed
<1> QED
  BY <1>4, <1>5, <1>6, <1>7, <1>8, <1>9, <1>10, <1>11, <1>12, <1>13

\* LEAVING waits for its threads one by one.
LEMMA JoinThreadInv ==
    ASSUME FTInv, joinThread
    PROVE  FTInv'
<1>1. /\ Typed /\ TruckTyped /\ at = "leaving"
      /\ UNCHANGED <<states, leadingNoti, truck, on, heard, scheduled, aborted, clvars>>
  BY TypedParts DEF FTInv, joinThread, At, at
<1>2. joinee' \in 0 .. 4
  BY <1>1 DEF joinThread, TruckTyped
<1>3. CASE pc' = pc
  <2>1. Typed'
    <3>1. TruckTyped'
      BY <1>1, <1>2, <1>3 DEF TruckTyped, states, truck
    <3> QED
      BY <1>1, <3>1, UnchangedClient, TypedNext
  <2>2. /\ UNCHANGED <<conn, tcpOpen, bound, closed, outbox, inbox, registered, enrolled,
                       accepted>>
        /\ PeersOnlyBreak /\ at' = at /\ SameStanding
    BY <1>1, <1>3, UnchangedClient, SameSockets DEF at
  <2>3. Authenticated' = Authenticated /\ Untouched(conn)' = Untouched(conn)
    BY <2>2 DEF SameStanding, Authenticated, Untouched
  <2>4. Place' /\ Course' /\ Standing'
    BY <1>1, <2>2, <2>3 DEF FTInv, Place, Course, Standing, SameStanding, states
  <2>5. \A c \in Conns : Conversation(c)'
    <3>1. \A c \in Conns : Parted(c)' = Parted(c)
      BY <2>2 DEF Parted
    <3> QED
      BY <2>2, <3>1, QuietConversations
  <2> QED
    BY <1>1, <1>3, <2>1, <2>2, <2>4, <2>5, WithinCase DEF states
<1>4. ASSUME NEW to \in {"leave", "blocked"}, Goto(FSM, to)
      PROVE  FTInv'
  <2>1. to \in FSMLabels /\ at # "close"
    BY <1>1 DEF FSMLabels
  <2>2. TruckTyped'
    BY <1>1, <1>2, <1>4, <2>1, GotoTyped DEF TruckTyped, states, truck
  <2>3. ASSUME SameStanding, Authenticated' = Authenticated,
               Untouched(conn)' = Untouched(conn), at' = to
        PROVE  Place' /\ Course' /\ Standing'
    BY <1>1, <1>4, <2>3
       DEF FTInv, Place, Course, Standing, SameStanding, states, TruckTyped, States, Operating
  <2> QED
    BY <1>1, <1>4, <2>1, <2>2, <2>3, LocalInv DEF states
<1> QED
  BY <1>3, <1>4 DEF joinThread

\* The switch: what may come next holds of the truck already.
LEMMA SwitchInv ==
    ASSUME FTInv, stepOn \/ saveStep
    PROVE  FTInv'
<1> DEFINE to == Case(next_state)
<1>1. /\ Typed /\ TruckTyped /\ Place /\ Course /\ Standing
      /\ current_state' = next_state /\ next_state' = next_state
      /\ \/ at = "step" /\ prev_state' = prev_state
         \/ at = "save_step" /\ prev_state' = current_state
      /\ Goto(FSM, to) /\ UNCHANGED <<leadingNoti, truck, locals, aborted, clvars>>
  BY TypedParts DEF FTInv, stepOn, saveStep, fsmStep, Move, At, at
<1>2. /\ next_state \in States /\ to \in FSMLabels
      /\ next_state = "IDLE" => to = "idle"
      /\ next_state = "JOINING" => to = "join"
      /\ next_state = "NORMAL_OPERATION" => to = "normal"
      /\ next_state = "SLOW_DOWN" => to = "slow_down"
      /\ next_state = "EMERGENCY_BRAKE" => to = "brake"
      /\ next_state = "CONNECTION_LOST" => to = "lost"
      /\ next_state = "LEAVING" => to = "leaving"
  BY <1>1 DEF TruckTyped, States, Case, FSMLabels
<1> HIDE DEF to
<1>3. /\ at' = to /\ \A t \in SessionThreads : pc'[t] = pc[t]
      /\ UNCHANGED <<conn, bound, closed>> /\ SameStanding
      /\ Authenticated' = Authenticated
      /\ \A c \in Conns : Conversation(c)'
  BY <1>1, LocalStep
<1>4. Typed'
  <2>1. prev_state' \in States
    BY <1>1 DEF TruckTyped
  <2>2. TruckTyped'
    BY <1>1, <1>2, <2>1, GotoTyped DEF TruckTyped, truck, locals
  <2> QED
    BY <1>1, <2>2, UnchangedClient, TypedNext
<1>5. Place'
  BY <1>1, <1>2, <1>3 DEF Place, States
<1>6. Course'
  BY <1>1, <1>2, <1>3 DEF Place, Course, States, TruckTyped, Operating
<1>7. Standing'
  BY <1>1, <1>2, <1>3 DEF Place, Course, Standing, SameStanding, States, TruckTyped,
                          Operating, Member, Detached
<1>8. ASSUME NEW t \in SessionThreads PROVE Serves(t)'
  <2>1. Serves(t)
    BY DEF FTInv
  <2>2. InSession => InSession' \/ conn \in closed
    BY <1>1, <1>3 DEF InSession, Place, Course, Standing, Operating, States, TruckTyped, Detached
  <2> QED
    BY <1>3, <2>1, <2>2 DEF Serves
<1> QED
  BY <1>3, <1>4, <1>5, <1>6, <1>7, <1>8 DEF FTInv

\* The threads of the present session are created, and none of them runs yet.
LEMMA CreateInv ==
    ASSUME FTInv, createThreads
    PROVE  FTInv'
<1>1. /\ Typed /\ TruckTyped /\ Place /\ Course /\ Standing /\ at = "create"
      /\ next_state' = "NORMAL_OPERATION"
      /\ UNCHANGED <<current_state, prev_state, leadingNoti, truck, locals, aborted, clvars>>
  BY TypedParts DEF FTInv, createThreads, At, at
<1>2. /\ pc' \in [Threads -> FSMLabels \cup SessionLabels] /\ at' = "step"
      /\ \A t \in SessionThreads :
           IF t[2] # conn THEN pc'[t] = pc[t] ELSE pc'[t] \in {"detach", "wait"}
  BY <1>1, FSMApart DEF createThreads, TruckTyped, FSMLabels, SessionLabels, Before, at
<1>3. /\ CLTypeOK' /\ Numbered' /\ PeersOnlyBreak
      /\ UNCHANGED <<conn, tcpOpen, bound, closed, outbox, inbox, registered, enrolled,
                     accepted>>
      /\ SameStanding
  BY <1>1, UnchangedClient, SameSockets
<1>4. Typed'
  <2>1. TruckTyped'
    BY <1>1, <1>2 DEF TruckTyped, truck, locals, States
  <2> QED
    BY <1>3, <2>1, TypedNext
<1>5. current_state = "JOINING" /\ Member
  BY <1>1 DEF Place, Standing, TruckTyped, States, Authenticated, Member
<1>6. Authenticated' = Authenticated
  BY <1>3 DEF SameStanding, Authenticated
<1>7. Place' /\ Course'
  BY <1>1, <1>2, <1>5 DEF Place, Course
<1>8. Standing'
  BY <1>1, <1>2, <1>3, <1>5, <1>6 DEF Standing, SameStanding, Operating
<1>9. \A c \in Conns : Conversation(c)'
  <2>1. \A c \in Conns : Parted(c)' = Parted(c)
    BY <1>1, <1>2, <1>3 DEF Parted
  <2> QED
    BY <1>3, <2>1, QuietConversations
<1>10. ASSUME NEW t \in SessionThreads PROVE Serves(t)'
  <2>1. Serves(t) /\ InSession' = InSession /\ conn \in bound
    BY <1>1, <1>5 DEF FTInv, InSession, Member, Attached
  <2>2. CASE t[2] # conn
    BY <1>2, <1>3, <2>1, <2>2 DEF Serves
  <2>3. CASE t[2] = conn
    BY <1>2, <1>3, <2>1, <2>3 DEF Serves, Running, SessionLabels, Before
  <2> QED
    BY <2>2, <2>3
<1> QED
  BY <1>4, <1>7, <1>8, <1>9, <1>10 DEF FTInv

-----------------------------------------------------------------------------
(* The FSM thread calls the client *)

\* What becomes of a request.  A thread that is killed stays where it was.
LEMMA SendOutcome ==
    ASSUME FTInv, NEW from, from # "close", NEW cmd,
           NEW sent \in FSMLabels, NEW failed \in FSMLabels,
           Send(FSM, from, cmd, sent, failed) \/ SendLast(FSM, from, cmd, sent, failed),
           cmd = "auth" => Untouched(conn),
           cmd \in {"join", "join_done", "leave", "leave_done"} => Authenticated,
           cmd = "leave_done" => conn \in accepted /\ sent = "close"
    PROVE  /\ Typed' /\ at = from /\ SameStanding
           /\ UNCHANGED <<conn, bound, closed, current_state, next_state, prev_state>>
           /\ \A t \in SessionThreads : pc'[t] = pc[t]
           /\ cmd # "auth" => (Authenticated => Authenticated')
           /\ \A c \in Conns : Conversation(c)'
           /\ \/ at' = from /\ Untouched(conn)' = Untouched(conn)
              \/ at' = sent /\ tcpOpen
              \/ at' = failed
<1>1. Typed /\ Typed' /\ at = from /\ UNCHANGED <<current_state, next_state, prev_state>>
  BY SendTyped DEF FTInv, Send, SendLast, At, at, states
<1>2. /\ UNCHANGED <<conn, tcpOpen, bound, closed, inbox, registered, enrolled, accepted>>
      /\ PeersOnlyBreak
      /\ \A t \in SessionThreads : pc'[t] = pc[t]
      /\ \/ at' = from /\ outbox' = outbox
         \/ at' = sent /\ tcpOpen /\ outbox' = outbox
         \/ /\ at' = sent /\ tcpOpen /\ cmd \in Answered /\ conn \in Conns
            /\ outbox' = [outbox EXCEPT ![conn] = Append(@, cmd)]
         \/ at' = failed /\ outbox' = outbox
  <2>1. CASE sendMessage(cmd, TRUE) /\ Goto(FSM, sent)
    BY <1>1, <2>1, SendKeeps, FSMMoves
  <2>2. CASE sendMessage(cmd, FALSE) /\ Goto(FSM, failed)
    BY <1>1, <2>2, SendKeeps, FSMMoves
  <2>3. CASE Killed
    BY <1>1, <2>3, UnchangedClient DEF Killed, at
  <2> QED
    BY <2>1, <2>2, <2>3 DEF Send, SendLast
<1>3. SameStanding
  BY <1>2, SameSockets
<1>4. \A c \in Conns : Parted(c) => Parted(c)'
  BY <1>1, <1>2 DEF Parted
<1>5. CASE outbox' = outbox
  <2>1. \A c \in Conns : Conversation(c)'
    BY <1>2, <1>4, <1>5, QuietConversations
  <2>2. Authenticated' = Authenticated /\ Untouched(conn)' = Untouched(conn)
    BY <1>2, <1>3, <1>5 DEF SameStanding, Authenticated, Untouched
  <2> QED
    BY <1>1, <1>2, <1>3, <2>1, <2>2
<1>6. CASE /\ at' = sent /\ tcpOpen /\ cmd \in Answered /\ conn \in Conns
           /\ outbox' = [outbox EXCEPT ![conn] = Append(@, cmd)]
  <2>1. cmd # "auth" => conn \in enrolled /\ ~Has(outbox[conn], "auth")
    BY <1>6 DEF Answered, Authenticated
  <2>2. cmd = "leave_done" => Parted(conn)'
    BY <1>6 DEF Parted
  <2>3. \A c \in Conns : Conversation(c)'
    BY <1>2, <1>4, <1>6, <2>1, <2>2, RequestedConversations
  <2>4. ASSUME cmd # "auth", Authenticated PROVE Authenticated'
    <3>1. outbox'[conn] = Append(outbox[conn], cmd) /\ outbox[conn] \in Seq(Answered)
      BY <1>1, <1>6 DEF Typed, FTTypeOK, CLTypeOK
    <3>2. ~Has(outbox'[conn], "auth")
      BY <1>6, <2>1, <2>4, <3>1, HasAppend
    <3> QED
      BY <1>2, <1>3, <2>4, <3>2 DEF SameStanding, Authenticated
  <2> QED
    BY <1>1, <1>2, <1>3, <1>6, <2>3, <2>4
<1> QED
  BY <1>2, <1>5, <1>6

LEMMA RequestInv ==
    ASSUME FTInv, askAuth \/ join \/ joinDone \/ lostSend \/ leave \/ leaveDone
    PROVE  FTInv'
<1>1. current_state \in States /\ Place /\ Course /\ Standing
  BY DEF FTInv, Typed, FTTypeOK
<1>2. Member => Authenticated
  BY DEF Member, Authenticated, Attached, FTInv, Conversation
<1> SUFFICES ASSUME NEW from, NEW cmd, NEW sent \in FSMLabels, NEW failed \in FSMLabels,
                    Send(FSM, from, cmd, sent, failed) \/ SendLast(FSM, from, cmd, sent, failed),
                    <<from, cmd, sent, failed>> \in
                       {<<"auth", "auth", "auth_answer", "save_step">>,
                        <<"join", "join", "join_answer", "join_failed">>,
                        <<"join_done", "join_done", "create", "join_failed">>,
                        <<"lost_send", "status", "lost_reset", "step">>,
                        <<"leave", "leave", "leave_answer", "leave_failed">>,
                        <<"leave_done", "leave_done", "close", "leave_failed">>}
             PROVE  FTInv'
  BY DEF askAuth, join, joinDone, lostSend, leave, leaveDone, FSMLabels
<1>3. from # "close" /\ at = from
  BY DEF Send, SendLast, At, at
<1>4. /\ cmd = "auth" => Untouched(conn)
      /\ cmd \in {"join", "join_done", "leave", "leave_done"} => Authenticated
      /\ cmd = "leave_done" => conn \in accepted /\ sent = "close"
  BY <1>1, <1>2, <1>3 DEF Place, Standing, States, Operating, Member
<1>5. /\ Typed' /\ SameStanding
      /\ UNCHANGED <<conn, bound, closed, current_state, next_state, prev_state>>
      /\ \A t \in SessionThreads : pc'[t] = pc[t]
      /\ cmd # "auth" => (Authenticated => Authenticated')
      /\ \A c \in Conns : Conversation(c)'
      /\ \/ at' = from /\ Untouched(conn)' = Untouched(conn)
         \/ at' = sent /\ tcpOpen
         \/ at' = failed
  BY <1>3, <1>4, SendOutcome
<1>6. Place'
  BY <1>1, <1>3, <1>5 DEF Place, States
<1>7. Course'
  BY <1>1, <1>3, <1>5 DEF Place, Course, States, Operating
<1>8. Standing'
  BY <1>1, <1>3, <1>5 DEF Place, Course, Standing, SameStanding, States, Operating
<1> QED
  BY <1>5, <1>6, <1>7, <1>8, WithinCase

\* The first message that comes is taken for the answer.
LEMMA AnswerInv ==
    ASSUME FTInv, authAnswer \/ joinAnswer \/ leaveAnswer
    PROVE  FTInv'
<1>1. /\ Typed /\ TruckTyped /\ current_state \in States /\ Place /\ Course /\ Standing
  BY TypedParts DEF FTInv, TruckTyped
<1> SUFFICES ASSUME NEW from, NEW expected, NEW good \in FSMLabels, NEW bad \in FSMLabels,
                    Answer_(from, expected, good, bad),
                    <<from, expected, good, bad>> \in
                       {<<"auth_answer", "auth_ok", "auth_done", "save_step">>,
                        <<"join_answer", "join_accepted", "join_update", "join_failed">>,
                        <<"leave_answer", "leave_start", "leave_done", "leave_failed">>}
             PROVE  FTInv'
  BY DEF authAnswer, joinAnswer, leaveAnswer, FSMLabels
<1>2. /\ at = from
      /\ UNCHANGED <<current_state, next_state, prev_state, leadingNoti, truck_status,
                     in_Emergercy, on, joinee, scheduled>>
  BY DEF Answer_, At, at, states, locals
<1>3. PICK mess : /\ receiveTCPMessage(conn, mess)
                  /\ \/ mess \in Unparsable /\ aborted' = TRUE /\ UNCHANGED <<pc, retry_times>>
                     \/ mess = expected /\ Goto(FSM, good) /\ UNCHANGED <<aborted, retry_times>>
                     \/ mess \notin Unparsable \cup {expected} /\ Goto(FSM, bad) /\ Retry
                        /\ UNCHANGED aborted
  BY DEF Answer_
<1>4. /\ CLTypeOK' /\ Numbered' /\ PeersOnlyBreak
      /\ UNCHANGED <<conn, tcpOpen, bound, closed, outbox, registered, enrolled, accepted>>
      /\ \A d \in Conns : \A x : Has(inbox'[d], x) => Has(inbox[d], x)
      /\ conn \in Conns /\ mess \notin Unparsable => Has(inbox[conn], mess)
  BY <1>1, <1>3, ReceiveTakes
<1>5. /\ \A t \in SessionThreads : pc'[t] = pc[t]
      /\ pc' \in [Threads -> FSMLabels \cup SessionLabels]
      /\ \/ at' = from
         \/ at' = good /\ mess = expected
         \/ at' = bad
  <2>1. CASE pc' = pc
    BY <1>1, <1>2, <2>1 DEF TruckTyped, at
  <2>2. CASE mess = expected /\ Goto(FSM, good)
    BY <1>1, <2>2, FSMMoves, GotoTyped
  <2>3. CASE Goto(FSM, bad)
    BY <1>1, <2>3, FSMMoves, GotoTyped
  <2> QED
    BY <1>3, <2>1, <2>2, <2>3
<1>6. Typed'
  <2>1. aborted' \in BOOLEAN /\ retry_times' \in 0 .. MAX_RESEND_MESS
    BY <1>1, <1>3, RetryTyped DEF TruckTyped
  <2>2. TruckTyped'
    BY <1>1, <1>2, <1>5, <2>1 DEF TruckTyped
  <2> QED
    BY <1>4, <2>2, TypedNext
<1>7. SameStanding /\ Authenticated' = Authenticated
  <2>1. SameStanding
    BY <1>4, SameSockets
  <2> QED
    BY <1>4, <2>1 DEF SameStanding, Authenticated
<1>8. \A c \in Conns : Conversation(c)'
  <2>1. \A c \in Conns : Parted(c) => Parted(c)'
    BY <1>2, <1>4 DEF Parted
  <2> QED
    BY <1>4, <2>1, QuietConversations
<1>9. /\ at' = "auth_done" => Authenticated
      /\ at' = "join_update" => conn \in accepted
  <2>1. from \in {"auth_answer", "join_answer"} => conn \in Conns /\ Attached
    BY <1>1, <1>2 DEF Place, Standing, States, Authenticated, Attached
  <2>2. conn \in Conns => Conversation(conn)
    BY DEF FTInv
  <2>3. at' = "auth_done" => Has(inbox[conn], "auth_ok") /\ Attached /\ conn \in Conns
    BY <1>4, <1>5, <2>1 DEF Unparsable
  <2>4. at' = "join_update" => Has(inbox[conn], "join_accepted") /\ conn \in Conns
    BY <1>4, <1>5, <2>1 DEF Unparsable
  <2> QED
    BY <2>2, <2>3, <2>4 DEF Conversation, Authenticated
<1>10. Place'
  BY <1>1, <1>2, <1>5 DEF Place, States
<1>11. Course'
  BY <1>1, <1>2, <1>5 DEF Place, Course, States, Operating
<1>12. Standing'
  BY <1>1, <1>2, <1>5, <1>7, <1>9
     DEF Place, Course, Standing, SameStanding, States, Operating
<1> QED
  BY <1>2, <1>4, <1>5, <1>6, <1>8, <1>10, <1>11, <1>12, WithinCase

\* An attempt to connect: nothing holds of the truck in IDLE that it could lose.
LEMMA ConnectInv ==
    ASSUME FTInv, askToConnect
    PROVE  FTInv'
<1>1. /\ Typed /\ TruckTyped /\ Place /\ Course /\ Standing /\ at = "connect"
      /\ UNCHANGED <<current_state, next_state, prev_state, leadingNoti, truck_status,
                     in_Emergercy, locals, aborted>>
  BY TypedParts DEF FTInv, askToConnect, At, at, states
<1>2. current_state = "IDLE" /\ next_state \in {"IDLE", "CONNECTION_LOST"}
  BY <1>1 DEF Place, Course, TruckTyped, States
<1>3. PICK connected \in BOOLEAN, ok \in BOOLEAN :
         /\ startClient(UdpUsers, connected, ok)
         /\ IF ok THEN Goto(FSM, "auth") /\ UNCHANGED retry_times
                  ELSE Goto(FSM, "save_step") /\ Retry
  BY DEF askToConnect
<1>4. /\ CLTypeOK' /\ Numbered' /\ conn' = conn + 1 /\ conn' \in Conns
      /\ bound \subseteq bound'
      /\ UNCHANGED <<closed, outbox, inbox, registered, enrolled, accepted, peer>>
      /\ ok => Attached'
  BY <1>1, <1>3, StartClientAttaches
<1>5. /\ at' = IF ok THEN "auth" ELSE "save_step"
      /\ \A t \in SessionThreads : pc'[t] = pc[t]
      /\ pc' \in [Threads -> FSMLabels \cup SessionLabels]
      /\ retry_times' \in 0 .. MAX_RESEND_MESS
  BY <1>1, <1>3, FSMMoves, GotoTyped, RetryTyped DEF FSMLabels, TruckTyped
<1>6. Typed'
  <2>1. TruckTyped'
    BY <1>1, <1>5 DEF TruckTyped, locals
  <2> QED
    BY <1>4, <2>1, TypedNext
<1>7. conn \in Nat
  BY <1>1 DEF Typed, FTTypeOK, CLTypeOK
<1>8. Untouched(conn)'
  <2>1. Conversation(conn')
    BY <1>4 DEF FTInv
  <2> QED
    BY <1>4, <1>7, <2>1 DEF Conversation, Untouched
<1>9. Place' /\ Course'
  BY <1>1, <1>2, <1>5 DEF Place, Course
<1>10. Standing'
  BY <1>1, <1>2, <1>4, <1>5, <1>8 DEF Standing, Operating, Untouched
<1>11. ASSUME NEW c \in Conns PROVE Conversation(c)'
  <2>1. Conversation(c) /\ (Parted(c) => c \in closed) /\ c \in Nat
    BY <1>1 DEF FTInv, Parted, Conns
  <2>2. (Parted(c) => Parted(c)') /\ (c > conn' => c > conn)
    BY <1>4, <1>7, <2>1 DEF Parted
  <2> QED
    BY <1>4, <2>1, <2>2 DEF Conversation, Untouched
<1>12. ASSUME NEW t \in SessionThreads PROVE Serves(t)'
  <2>1. Serves(t) /\ ~InSession
    BY <1>2 DEF FTInv, InSession, Operating
  <2> QED
    BY <1>4, <1>5, <2>1 DEF Serves
<1> QED
  BY <1>6, <1>9, <1>10, <1>11, <1>12 DEF FTInv

\* The end of a leave, the only place where sockets are closed.
LEMMA CloseInv ==
    ASSUME FTInv, closeSockets
    PROVE  FTInv'
<1>1. /\ Typed /\ TruckTyped /\ Place /\ Course /\ Standing /\ at = "close"
      /\ Goto(FSM, "init_truck") /\ closeClientSocket
      /\ UNCHANGED <<current_state, next_state, prev_state, leadingNoti, truck, locals, aborted>>
  BY TypedParts DEF FTInv, closeSockets, Move, At, at, states
<1>2. current_state = "LEAVING" /\ Member
  BY <1>1 DEF Place, Standing, TruckTyped, States
<1>3. /\ at' = "init_truck" /\ \A t \in SessionThreads : pc'[t] = pc[t]
      /\ tcpOpen' = FALSE /\ closed' = closed \cup {conn}
      /\ UNCHANGED <<conn, bound, outbox, inbox, datagrams, registered, enrolled, accepted,
                     peer, leaderUp, left>>
  BY <1>1, FSMMoves DEF closeClientSocket, leader, members
<1>4. conn \in Conns /\ conn \in 1 .. conn
  BY <1>2 DEF Member, Attached, Conns
<1>5. Typed'
  <2>1. TruckTyped'
    BY <1>1, GotoTyped DEF TruckTyped, truck, locals, FSMLabels
  <2>2. CLTypeOK' /\ Numbered'
    BY <1>1, <1>3, <1>4 DEF Typed, FTTypeOK, CLTypeOK, Numbered
  <2> QED
    BY <2>1, <2>2, TypedNext
<1>6. Place' /\ Course'
  BY <1>1, <1>2, <1>3 DEF Place, Course
<1>7. Standing'
  BY <1>1, <1>2, <1>3 DEF Standing, Course, Detached, Operating
<1>8. ASSUME NEW c \in Conns PROVE Conversation(c)'
  <2>1. Conversation(c) /\ (Parted(c) => Parted(c)')
    BY <1>3 DEF FTInv, Parted
  <2> QED
    BY <1>3, <2>1 DEF Conversation, Untouched
<1>9. \A t \in SessionThreads : Serves(t)'
  BY <1>1, <1>3 DEF FTInv, Serves, InSession
<1> QED
  BY <1>5, <1>6, <1>7, <1>8, <1>9 DEF FTInv

LEMMA FSMInv == ASSUME FTInv, following_fsm PROVE FTInv'
  BY AssignmentInv, JoinThreadInv, SwitchInv, CreateInv, RequestInv, AnswerInv, ConnectInv,
     CloseInv DEF following_fsm, connectionLost, leavingPlatoon

-----------------------------------------------------------------------------
(* The theorems *)

LEMMA FollowingInit == FTInit => FTInv
<1> SUFFICES ASSUME FTInit PROVE FTInv
  OBVIOUS
<1>1. PICK s \in Setups : CLInit(s.bounds) /\ scheduled = s.threads
  BY DEF FTInit
<1>2. s.bounds \in Bounds /\ s.threads \subseteq Kinds
  BY FollowingAssumption
<1>3. /\ current_state = "IDLE" /\ next_state = "IDLE" /\ prev_state = "IDLE"
      /\ at = "idle" /\ \A t \in SessionThreads : pc[t] = "none"
  BY FSMApart DEF FTInit, at
<1>4. CLTypeOK
  <2>1. /\ outbox \in [Conns -> Seq(Answered)] /\ inbox \in [Conns -> Seq(FromLeader)]
        /\ peer \in [Conns -> {"up", "fin", "rst", "gone"}]
    BY <1>1 DEF CLInit
  <2>2. tcpOpen \in BOOLEAN /\ leaderUp \in BOOLEAN
    BY <1>1, Zenon DEF CLInit
  <2>3. conn \in 0 .. MaxConns /\ datagrams \in Nat /\ left \in Bounds
    BY <1>1, <1>2, ClientAssumption DEF CLInit
  <2>4. bound = {} /\ closed = {} /\ registered = {} /\ enrolled = {} /\ accepted = {}
    BY <1>1 DEF CLInit
  <2> QED
    BY <2>1, <2>2, <2>3, <2>4 DEF CLTypeOK
<1>5. Numbered
  BY <1>1, <1>2, ClientAssumption DEF CLInit, Numbered, Bounds
<1>6. Typed
  <2>1. pc \in [Threads -> FSMLabels \cup SessionLabels]
    BY DEF FTInit, FSMLabels, SessionLabels, Before
  <2>2. on \in [Threads -> 0 .. MaxConns] /\ retry_times \in 0 .. MAX_RESEND_MESS
    BY ClientAssumption, FollowingAssumption DEF FTInit
  <2>3. in_Emergercy \in BOOLEAN /\ aborted \in BOOLEAN
    BY Zenon DEF FTInit
  <2>4. TruckTyped
    BY <1>1, <1>2, <1>3, <2>1, <2>2, <2>3 DEF FTInit, TruckTyped, States
  <2> QED
    BY <1>4, <1>5, <2>4 DEF Typed, FTTypeOK, TruckTyped
<1>7. Place /\ Course
  BY <1>3 DEF Place, Course
<1>8. Standing
  BY <1>3 DEF Standing, Operating
<1>9. \A c \in Conns : Conversation(c)
  BY <1>1 DEF CLInit, Conversation, Untouched, Has
<1>10. \A t \in SessionThreads : Serves(t)
  BY <1>3 DEF Serves, SessionLabels, Before, Running
<1> QED
  BY <1>6, <1>7, <1>8, <1>9, <1>10 DEF FTInv

LEMMA FollowingStep == FTInv /\ [FTNext]_vars => FTInv'
<1> SUFFICES ASSUME FTInv, [FTNext]_vars PROVE FTInv'
  OBVIOUS
<1>1. CASE following_fsm
  BY <1>1, FSMInv
<1>2. ASSUME NEW t \in scheduled \X Conns, SessionThread(t) PROVE FTInv'
  <2>1. t \in SessionThreads
    BY DEF FTInv, Typed, SessionThreads
  <2> QED
    BY <1>2, <2>1, SessionStep, SessionInv
<1>3. CASE Environment
  BY <1>3, EnvironmentInv
<1>4. CASE UNCHANGED vars
  <2>1. UNCHANGED <<pc, states, leadingNoti, truck, locals, aborted, clvars>>
    BY <1>4 DEF vars
  <2>2. /\ UNCHANGED <<pc, current_state, next_state, prev_state, leadingNoti, retry_times,
                       truck_status, in_Emergercy, aborted, on, heard, joinee, scheduled>>
        /\ UNCHANGED <<conn, tcpOpen, bound, closed, outbox, inbox, datagrams, peer,
                       registered, enrolled, accepted, leaderUp, left>>
    BY <2>1 DEF states, truck, locals, clvars, sockets, leader, members
  <2>3. Typed'
    BY <2>2 DEF FTInv, Typed, FTTypeOK, CLTypeOK, Numbered
  <2>4. Place' /\ Course'
    BY <2>2 DEF FTInv, Place, Course, at
  <2>5. Standing'
    BY <2>2 DEF FTInv, Standing, at, Attached, Authenticated, Member, Detached, Untouched
  <2>6. \A c \in Conns : Conversation(c)'
    BY <2>2 DEF FTInv, Conversation, Untouched, Parted, at
  <2>7. \A t \in SessionThreads : Serves(t)'
    BY <2>2 DEF FTInv, Serves, InSession
  <2> QED
    BY <2>3, <2>4, <2>5, <2>6, <2>7 DEF FTInv
<1> QED
  BY <1>1, <1>2, <1>3, <1>4 DEF FTNext

LEMMA FollowingInvariant == FTSpec => []FTInv
  BY FollowingInit, FollowingStep, PTL DEF FTSpec

\* The variables of the following truck and of its client hold values of their
\* types, whatever is sent, lost, retried or interrupted.
THEOREM FollowingTypes == FTSpec => []FTTypeOK
<1>1. FTInv => FTTypeOK
  BY DEF FTInv, Typed
<1> QED
  BY <1>1, FollowingInvariant, PTL

\* For any number of attempts to connect, and any bounds on what the leader refuses,
\* answers unasked or drops and on what the network breaks: a truck that operates
\* was granted its join on its present connection, and is still registered there
\* unless the leader has lost the connection.
THEOREM OperatesOnlyAsMember == FTSpec => []OperatesAsMember
<1>1. ASSUME FTInv PROVE OperatesAsMember
  <2>1. SUFFICES ASSUME current_state \in Operating
                 PROVE  conn \in accepted /\ (peer[conn] = "up" => conn \in registered)
    BY DEF OperatesAsMember
  <2>2. Member /\ at # "close"
    BY <1>1, <2>1 DEF FTInv, Place, Standing, Operating
  <2>3. Conversation(conn) /\ ~Parted(conn)
    BY <1>1, <2>2 DEF FTInv, Member, Attached, Parted
  <2> QED
    BY <2>2, <2>3 DEF Conversation, Member
<1> QED
  BY <1>1, FollowingInvariant, PTL

\* Whatever attempts to connect fail, and whatever threads of earlier sessions
\* still hold the port: a truck that operates has both of its sockets.
THEOREM OperatesOnlyConnected == FTSpec => []OperatesConnected
<1>1. FTInv => OperatesConnected
  BY DEF FTInv, Standing, Member, Attached, OperatesConnected, udpOpen, Conns
<1> QED
  BY <1>1, FollowingInvariant, PTL

\* No thread of a session ends before the connection it serves is closed.
THEOREM ThreadsOutliveNoSession == FTSpec => []ThreadsServeTheSession
<1>1. FTInv => ThreadsServeTheSession
  BY DEF FTInv, Serves, ThreadsServeTheSession
<1> QED
  BY <1>1, FollowingInvariant, PTL
=============================================================================
