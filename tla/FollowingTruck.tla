--------------------------- MODULE FollowingTruck ---------------------------
(***************************************************************************)
(* The process of a following truck: following.cpp (the FSM thread, the    *)
(* thread that reads the driver's requests, and the four threads a joined  *)
(* truck runs) with the methods of control/following_truck.cpp they call.  *)
(* Everything is shared and nothing is locked, so a step is one access to  *)
(* a shared variable, one call of the client, or a call and the counter    *)
(* update that follows from its result.                                    *)
(***************************************************************************)
EXTENDS PlatoonClient

CONSTANTS
    MAX_RESEND_MESS,
    Setups       \* [threads, bounds]: the kinds of session threads that run in a
                 \* behaviour, and its bounds

\* The threads of a session, in the order LEAVING joins them.
KindSeq == <<"send_current_status", "check_obstacle", "check_lead_message",
             "check_broadcast_message">>
Kinds   == {KindSeq[i] : i \in 1 .. 4}

ASSUME FollowingAssumption ==
    /\ MAX_RESEND_MESS \in Nat \ {0}
    /\ \A s \in Setups : s.threads \subseteq Kinds /\ s.bounds \in Bounds

\* One set of threads per connection that was joined.
SessionThreads == Kinds \X Conns
Threads == SessionThreads \cup {<<"fsm", 0>>}
FSM == <<"fsm", 0>>

VARIABLES
    current_state, next_state, prev_state,
    leadingNoti,    \* LeadNoti, set by both listeners
    retry_times,    \* up to MAX_RESEND_MESS: nothing tells larger values apart
    truck_status,   \* "running" stands for every value the FSM does not look for
    in_Emergercy,
    aborted,        \* an exception no thread catches, or SIGPIPE, ended the process
    pc,             \* per thread: where it is
    on,             \* per thread: the connection it blocks on
    heard,          \* per thread: what it received, between its handling and
                    \* the assignment to leadingNoti
    scheduled,      \* the kinds of session threads that run in this behaviour
    joinee          \* how many threads LEAVING has joined

states == <<current_state, next_state, prev_state>>
truck  == <<retry_times, truck_status, in_Emergercy>>
locals == <<on, heard, joinee, scheduled>>
vars   == <<states, leadingNoti, truck, locals, aborted, pc, clvars>>

FTInit ==
    /\ \E s \in Setups : CLInit(s.bounds) /\ scheduled = s.threads
    /\ current_state = "IDLE" /\ next_state = "IDLE" /\ prev_state = "IDLE"
    /\ leadingNoti = "NORMAL"
    /\ retry_times = 0 /\ truck_status = "running" /\ in_Emergercy = FALSE
    /\ aborted = FALSE
    /\ pc = [t \in Threads |-> IF t = FSM THEN "idle" ELSE "none"]
    /\ on = [t \in Threads |-> 0]
    /\ heard = [t \in Threads |-> "nothing"]
    /\ joinee = 0

-----------------------------------------------------------------------------

At(t, l) == ~aborted /\ pc[t] = l

Goto(t, l) == pc' = [pc EXCEPT ![t] = l]

Move(t, from, to) == At(t, from) /\ Goto(t, to)

resetRetryCounter == retry_times' = 0

\* Mutant: the counter is decremented.
Retry_CountsDown == retry_times' = retry_times - 1

Retry == retry_times' = IF retry_times < MAX_RESEND_MESS THEN retry_times + 1 ELSE retry_times

TooOften == retry_times >= MAX_RESEND_MESS

\* Sockets some listener blocks on.
TcpUsers == {on[<<"check_lead_message", c>>] : c \in Conns}
UdpUsers == {on[<<"check_broadcast_message", c>>] : c \in Conns}

\* Nothing ignores SIGPIPE.
Killed == BrokenPipe /\ aborted' = TRUE /\ UNCHANGED <<pc, retry_times, clvars>>

\* A message goes out, or its failure is counted.
Send(t, at, cmd, sent, failed) ==
    /\ At(t, at)
    /\ \/ sendMessage(cmd, TRUE)  /\ Goto(t, sent)   /\ UNCHANGED <<retry_times, aborted>>
       \/ sendMessage(cmd, FALSE) /\ Goto(t, failed) /\ Retry /\ UNCHANGED aborted
       \/ Killed
    /\ UNCHANGED <<states, leadingNoti, truck_status, in_Emergercy, locals>>

\* As Send, for a message whose success ends the method.
SendLast(t, at, cmd, sent, failed) ==
    /\ At(t, at)
    /\ \/ sendMessage(cmd, TRUE)  /\ Goto(t, sent)   /\ resetRetryCounter /\ UNCHANGED aborted
       \/ sendMessage(cmd, FALSE) /\ Goto(t, failed) /\ Retry /\ UNCHANGED aborted
       \/ Killed
    /\ UNCHANGED <<states, leadingNoti, truck_status, in_Emergercy, locals>>

\* updateCurrentStatus: speedControl sets the status to "running", or leaves it
\* while the truck brakes towards its reference speed.
updateCurrentStatus(t, at, next) ==
    /\ Move(t, at, next)
    /\ truck_status' \in {truck_status, "running"}
    /\ UNCHANGED <<states, leadingNoti, retry_times, in_Emergercy, locals, aborted, clvars>>

-----------------------------------------------------------------------------
(* The FSM thread *)

\* Where the case of a state begins.
Case(state) ==
    CASE state = "IDLE"             -> "idle"
      [] state = "JOINING"          -> "join"
      [] state = "NORMAL_OPERATION" -> "normal"
      [] state = "SLOW_DOWN"        -> "slow_down"
      [] state = "EMERGENCY_BRAKE"  -> "brake"
      [] state = "CONNECTION_LOST"  -> "lost"
      [] state = "LEAVING"          -> "leaving"

\* The end of a round; most cases record their state in prev_state first.
\* Nobody else writes these two variables, so the next switch is part of it.
fsmStep(at, prev) ==
    /\ Move(FSM, at, Case(next_state))
    /\ current_state' = next_state
    /\ prev_state' = prev
    /\ UNCHANGED <<next_state, leadingNoti, truck, locals, aborted, clvars>>

\* Mutant: the state to come back to is never recorded.
saveStep_Forgets == fsmStep("save_step", prev_state)

stepOn   == fsmStep("step", prev_state)
saveStep == fsmStep("save_step", current_state)

\* An assignment to next_state; what other threads assign before the round
\* ends overrides it.
SetNext(at, state, next) ==
    /\ Move(FSM, at, next)
    /\ next_state' = state
    /\ UNCHANGED <<current_state, prev_state, leadingNoti, truck, locals, aborted, clvars>>

(* IDLE: askToJoinPlatoon *)

\* simulate_request: the driver sets request at any time and it is withdrawn
\* after a while, so that a look at it may or may not find a given value.
simulate_request == BOOLEAN

idle ==
    /\ \E asked \in simulate_request : Move(FSM, "idle", IF asked THEN "connect" ELSE "save_step")
    /\ UNCHANGED <<states, leadingNoti, truck, locals, aborted, clvars>>

askToConnect ==
    /\ At(FSM, "connect")
    /\ \E connected, ok \in BOOLEAN :
         /\ startClient(UdpUsers, connected, ok)
         /\ IF ok THEN Goto(FSM, "auth") /\ UNCHANGED retry_times
                  ELSE Goto(FSM, "save_step") /\ Retry
    /\ UNCHANGED <<states, leadingNoti, truck_status, in_Emergercy, locals, aborted>>

\* Mutant: a failed send of the key is not noticed.
askAuth_Unchecked == Send(FSM, "auth", "auth", "auth_answer", "auth_done")

askAuth == Send(FSM, "auth", "auth", "auth_answer", "save_step")

\* What the FSM thread's receiving throws for.
Unparsable == {"garbled", "empty", "throws"}

\* The first message is taken for the answer.  One that does not parse throws,
\* here and wherever the FSM thread receives, and nothing catches it.
Answer_(at, expected, good, bad) ==
    /\ At(FSM, at)
    /\ \E mess \in FromLeader \cup Unparsable :
         /\ receiveTCPMessage(conn, mess)
         /\ \/ mess \in Unparsable /\ aborted' = TRUE /\ UNCHANGED <<pc, retry_times>>
            \/ mess = expected  /\ Goto(FSM, good) /\ UNCHANGED <<aborted, retry_times>>
            \/ mess \notin Unparsable \cup {expected} /\ Goto(FSM, bad) /\ Retry
               /\ UNCHANGED aborted
    /\ UNCHANGED <<states, leadingNoti, truck_status, in_Emergercy, locals>>

authAnswer == Answer_("auth_answer", "auth_ok", "auth_done", "save_step")

authDone ==
    /\ Move(FSM, "auth_done", "save_step")
    /\ resetRetryCounter /\ next_state' = "JOINING"
    /\ UNCHANGED <<current_state, prev_state, leadingNoti, truck_status, in_Emergercy,
                   locals, aborted, clvars>>

(* JOINING: joiningPlatoon *)

\* Mutant: any answer is good.
joinAnswer_AnyReply ==
    /\ At(FSM, "join_answer")
    /\ \E mess \in FromLeader : receiveTCPMessage(conn, mess)
    /\ Goto(FSM, "join_update")
    /\ UNCHANGED <<states, leadingNoti, truck, locals, aborted>>

join       == Send(FSM, "join", "join", "join_answer", "join_failed")
joinAnswer == Answer_("join_answer", "join_accepted", "join_update", "join_failed")

joinUpdate == updateCurrentStatus(FSM, "join_update", "join_done")
joinDone   == SendLast(FSM, "join_done", "join_done", "create", "join_failed")

createThreads ==
    /\ At(FSM, "create")
    /\ pc' = [t \in Threads |-> IF t = FSM THEN "step"
                                ELSE IF t[2] # conn THEN pc[t]
                                ELSE IF t[1] \in scheduled THEN "detach" ELSE "wait"]
    /\ next_state' = "NORMAL_OPERATION"
    /\ UNCHANGED <<current_state, prev_state, leadingNoti, truck, locals, aborted, clvars>>

\* After MAX_RESEND_MESS refusals the truck gives up; its sockets stay open.
joinFailed ==
    /\ At(FSM, "join_failed")
    /\ IF TooOften THEN next_state' = "IDLE" ELSE UNCHANGED next_state
    /\ Goto(FSM, "step")
    /\ UNCHANGED <<current_state, prev_state, leadingNoti, truck, locals, aborted, clvars>>

(* NORMAL_OPERATION: the request, then three looks at leadingNoti; a later *)
(* one overrides an earlier one                                            *)

Look(at, seen, state, next) ==
    /\ Move(FSM, at, next)
    /\ IF seen THEN next_state' = state ELSE UNCHANGED next_state
    /\ UNCHANGED <<current_state, prev_state, leadingNoti, truck, locals, aborted, clvars>>

normalOperation ==
    \/ \E asked \in simulate_request : Look("normal", asked, "LEAVING", "braking")
    \/ Look("braking", leadingNoti = "BRAKING", "EMERGENCY_BRAKE", "slowing")
    \/ Look("slowing", leadingNoti = "SLOWING", "SLOW_DOWN", "save_step")

\* SLOW_DOWN: no method ever sets the status to "slow_down".
slowDown == SetNext("slow_down", "NORMAL_OPERATION", "save_step")

(* EMERGENCY_BRAKE: emergencyBrake *)

brake ==
    /\ Move(FSM, "brake", "brake_look")
    /\ in_Emergercy' = TRUE
    /\ UNCHANGED <<states, leadingNoti, retry_times, truck_status, locals, aborted, clvars>>

brakeLook ==
    /\ Move(FSM, "brake_look", IF truck_status = "sync" THEN "brake_end" ELSE "brake_result")
    /\ UNCHANGED <<states, leadingNoti, truck, locals, aborted, clvars>>

brakeEnd ==
    /\ Move(FSM, "brake_end", "brake_result")
    /\ truck_status' = "running" /\ in_Emergercy' = FALSE
    /\ UNCHANGED <<states, leadingNoti, retry_times, locals, aborted, clvars>>

\* The result is read back from the shared in_Emergercy.
brakeResult ==
    /\ Move(FSM, "brake_result", "save_step")
    /\ IF in_Emergercy THEN UNCHANGED next_state ELSE next_state' = "NORMAL_OPERATION"
    /\ UNCHANGED <<current_state, prev_state, leadingNoti, truck, locals, aborted, clvars>>

emergencyBrake == brake \/ brakeLook \/ brakeEnd \/ brakeResult

(* CONNECTION_LOST *)

\* Mutant: CONNECTION_LOST records itself as the state to come back to.
recovered_SavesPrev ==
    /\ Move(FSM, "recovered", "step")
    /\ next_state' = prev_state /\ prev_state' = current_state
    /\ UNCHANGED <<current_state, leadingNoti, truck, locals, aborted, clvars>>

lost       == updateCurrentStatus(FSM, "lost", "lost_send")
lostSend   == SendLast(FSM, "lost_send", "status", "lost_reset", "step")
lostReset  == /\ Move(FSM, "lost_reset", "recovered") /\ resetRetryCounter
              /\ UNCHANGED <<states, leadingNoti, truck_status, in_Emergercy, locals,
                             aborted, clvars>>
recovered  == SetNext("recovered", prev_state, "step")

connectionLost == lost \/ lostSend \/ lostReset \/ recovered

(* LEAVING: the threads of the session are joined, then leavingPlatoon *)

\* pthread_join fails at once for a thread that detached itself.  One that has
\* not yet is waited for, in vain: threads end in IDLE only.
joinThread ==
    /\ At(FSM, "leaving")
    /\ LET t == <<KindSeq[joinee + 1], conn>>
       IN  IF joinee = 4
           THEN Goto(FSM, "leave") /\ joinee' = 0
           ELSE IF pc[t] = "detach"
           THEN Goto(FSM, "blocked") /\ UNCHANGED joinee
           ELSE joinee' = joinee + 1 /\ UNCHANGED pc
    /\ UNCHANGED <<states, leadingNoti, truck, on, heard, scheduled, aborted, clvars>>

leave       == Send(FSM, "leave", "leave", "leave_answer", "leave_failed")
leaveAnswer == Answer_("leave_answer", "leave_start", "leave_done", "leave_failed")
leaveDone   == Send(FSM, "leave_done", "leave_done", "close", "leave_failed")

closeSockets ==
    /\ Move(FSM, "close", "init_truck")
    /\ closeClientSocket
    /\ UNCHANGED <<states, leadingNoti, truck, locals, aborted>>

initTruck ==
    /\ Move(FSM, "init_truck", "to_idle")
    /\ retry_times' = 0 /\ in_Emergercy' = FALSE /\ truck_status' = "running"
    /\ UNCHANGED <<states, leadingNoti, locals, aborted, clvars>>

toIdle == SetNext("to_idle", "IDLE", "save_step")

leaveFailed ==
    /\ Move(FSM, "leave_failed", "save_step")
    /\ IF TooOften THEN retry_times' = 0 /\ next_state' = "NORMAL_OPERATION"
                   ELSE UNCHANGED <<retry_times, next_state>>
    /\ UNCHANGED <<current_state, prev_state, leadingNoti, truck_status, in_Emergercy,
                   locals, aborted, clvars>>

leavingPlatoon ==
    \/ joinThread \/ leave \/ leaveAnswer \/ leaveDone
    \/ closeSockets \/ initTruck \/ toIdle \/ leaveFailed

following_fsm ==
    \/ stepOn \/ saveStep
    \/ idle \/ askToConnect \/ askAuth \/ authAnswer \/ authDone
    \/ join \/ joinAnswer \/ joinUpdate \/ joinDone \/ createThreads \/ joinFailed
    \/ normalOperation \/ slowDown \/ emergencyBrake \/ connectionLost
    \/ leavingPlatoon

-----------------------------------------------------------------------------
(* The threads of a session *)

StepOver(t, from, to) ==
    /\ Move(t, from, to)
    /\ UNCHANGED <<states, leadingNoti, truck, locals, aborted, clvars>>

\* pthread_detach, then the busy wait for NORMAL_OPERATION.
startThread(t) ==
    \/ StepOver(t, "detach", "wait")
    \/ current_state = "NORMAL_OPERATION" /\ StepOver(t, "wait", "loop")

\* The looks at the state a round begins with: the thread ends when it is
\* IDLE, and unless busy is ignored does nothing while leaving or disconnected.
loop(t, ignored, body) ==
    StepOver(t, "loop", IF current_state = "IDLE" THEN "exited"
                        ELSE IF current_state \in ignored THEN "loop" ELSE body)

Busy == {"LEAVING", "CONNECTION_LOST"}

loseConnection(t) ==
    /\ Move(t, "lose", "loop")
    /\ next_state' = "CONNECTION_LOST"
    /\ UNCHANGED <<current_state, prev_state, leadingNoti, truck, locals, aborted, clvars>>

send_current_status(t) ==
    \/ startThread(t) \/ loop(t, Busy, "update")
    \/ updateCurrentStatus(t, "update", "send")
    \/ SendLast(t, "send", "status", "check", "check")
    \/ StepOver(t, "check", IF TooOften THEN "lose" ELSE "loop")
    \/ loseConnection(t)

\* The inner loop looks at no state: it ends with a sent alert or a lost
\* connection.
check_obstacle(t) ==
    \/ startThread(t) \/ loop(t, Busy, "alert") \/ loop(t, Busy, "loop")
    \/ SendLast(t, "alert", "obstacle", "loop", "check")
    \/ StepOver(t, "check", IF TooOften THEN "lose" ELSE "alert")
    \/ loseConnection(t)

\* recv on a closed descriptor returns -1, which throws as the length of a
\* string; recvfrom then returns an empty message.
enterRecv(t) ==
    /\ At(t, "enter")
    /\ \/ /\ t[1] = "check_lead_message" /\ tcpOpen
          /\ on' = [on EXCEPT ![t] = conn] /\ Goto(t, "recv")
          /\ UNCHANGED <<heard, in_Emergercy, aborted>>
       \/ /\ t[1] = "check_lead_message" /\ ~tcpOpen
          /\ aborted' = TRUE
          /\ UNCHANGED <<on, pc, heard, in_Emergercy>>
       \/ /\ t[1] = "check_broadcast_message" /\ udpOpen
          /\ on' = [on EXCEPT ![t] = conn] /\ Goto(t, "recv")
          /\ UNCHANGED <<heard, in_Emergercy, aborted>>
       \/ /\ t[1] = "check_broadcast_message" /\ ~udpOpen
          /\ in_Emergercy' = FALSE
          /\ heard' = [heard EXCEPT ![t] = "nothing"] /\ Goto(t, "note")
          /\ UNCHANGED <<on, aborted>>
    /\ UNCHANGED <<states, leadingNoti, retry_times, truck_status, joinee, scheduled, clvars>>

\* processCommands.
processCommands(t, cmd) ==
    /\ heard' = [heard EXCEPT ![t] = cmd]
    /\ truck_status' = CASE cmd = "sync"      -> "sync"
                          [] cmd = "emergency" -> "running"
                          [] OTHER             -> truck_status
    /\ in_Emergercy' = (cmd = "emergency")

recvMessage(t) ==
    /\ At(t, "recv")
    /\ \E cmd \in FromLeader \cup {"garbled", "empty", "emergency"} :
         /\ IF t[1] = "check_lead_message"
            THEN receiveTCPMessage(on[t], cmd)
            ELSE cmd = "emergency" /\ receiveUDPMessage(on[t])
         /\ IF cmd \in Unparsable \cup {"error"}
            THEN /\ heard' = [heard EXCEPT ![t] = "nothing"]
                 /\ in_Emergercy' = (in_Emergercy /\ cmd # "empty")
                 /\ UNCHANGED truck_status
            ELSE processCommands(t, cmd)
    /\ on' = [on EXCEPT ![t] = 0]
    /\ Goto(t, "note")
    /\ UNCHANGED <<states, leadingNoti, retry_times, joinee, scheduled, aborted>>

recvThrows(t) ==
    /\ At(t, "recv") /\ t[1] = "check_lead_message"
    /\ receiveTCPMessage(on[t], "throws")
    /\ aborted' = TRUE
    /\ UNCHANGED <<states, leadingNoti, truck, locals, pc>>

noteLeading(t) ==
    /\ Move(t, "note", "loop")
    /\ leadingNoti' = CASE heard[t] = "emergency" -> "BRAKING"
                        [] heard[t] = "slow_down" -> "SLOWING"
                        [] OTHER                  -> "NORMAL"
    /\ heard' = [heard EXCEPT ![t] = "nothing"]
    /\ UNCHANGED <<states, truck, on, joinee, scheduled, aborted, clvars>>

Listener(t) ==
    startThread(t) \/ loop(t, {}, "enter") \/ enterRecv(t) \/ recvMessage(t)
    \/ recvThrows(t) \/ noteLeading(t)

SessionThread(t) ==
    CASE t[1] = "send_current_status" -> send_current_status(t)
      [] t[1] = "check_obstacle"      -> check_obstacle(t)
      [] OTHER                        -> Listener(t)

-----------------------------------------------------------------------------

Environment ==
    /\ ~aborted /\ Leader(TcpUsers)
    /\ UNCHANGED <<states, leadingNoti, truck, locals, aborted, pc>>

FTNext ==
    \/ following_fsm
    \/ \E t \in scheduled \X Conns : SessionThread(t)
    \/ Environment

FTSpec == FTInit /\ [][FTNext]_vars

\* The threads that report the truck's status.
Reports == \E t \in ({"send_current_status"} \cap scheduled) \X Conns : send_current_status(t)

\* The FSM thread and the reports are never denied the processor for ever.
FairFTSpec == FTSpec /\ WF_vars(following_fsm) /\ WF_vars(Reports)

-----------------------------------------------------------------------------

States == {"IDLE", "JOINING", "LEAVING", "NORMAL_OPERATION", "SLOW_DOWN",
           "EMERGENCY_BRAKE", "CONNECTION_LOST"}

FTTypeOK ==
    /\ CLTypeOK
    /\ {current_state, next_state, prev_state} \subseteq States
    /\ leadingNoti \in {"NORMAL", "BRAKING", "SLOWING"}
    /\ retry_times \in 0 .. MAX_RESEND_MESS
    /\ truck_status \in {"running", "sync"}
    /\ in_Emergercy \in BOOLEAN /\ aborted \in BOOLEAN
    /\ on \in [Threads -> 0 .. MaxConns]
    /\ joinee \in 0 .. 4

Operating == {"NORMAL_OPERATION", "SLOW_DOWN", "EMERGENCY_BRAKE"}

\* A truck that operates in the platoon was granted its join by the leader on its
\* present connection, and no leave, retried, postponed or answered unasked, has
\* ended its membership: it is registered there until the connection is lost.
OperatesAsMember ==
    current_state \in Operating =>
        conn \in accepted /\ (peer[conn] = "up" => conn \in registered)

\* ... and it holds the sockets the leader reaches it on: no failed attempt to
\* join or leave makes a truck operate that cannot hear a broadcast.
OperatesConnected ==
    current_state \in Operating => tcpOpen /\ udpOpen /\ conn \in bound

\* The threads of a session end only after the truck has left, so that no
\* recovery or failed leave makes a truck go on without them.
ThreadsServeTheSession ==
    \A t \in SessionThreads : pc[t] = "exited" => t[2] \in closed

\* A lost connection whose socket still works is recovered: the truck is not in
\* CONNECTION_LOST with an open socket from some time on.
LossIsRecovered ==
    []<>(current_state # "CONNECTION_LOST" \/ ~tcpOpen \/ aborted)

\* The reports of the present connection have begun.
Reporting == \E c \in Conns :
    /\ c = conn
    /\ pc[<<"send_current_status", c>>] \in {"loop", "update", "send", "check", "lose"}

\* When the leader's process ends, or the leader drops a truck whose connection
\* broke, a truck whose reports have begun does not go on operating for ever: a
\* report fails, or ends the process.
LeaderEndIsNoticed ==
    []<>(current_state \notin Operating \/ aborted
             \/ (Reporting => peer[conn] = "up"))

\* following.cpp:205, "Threads EXIT", is logged when all four joins are done:
\* by then the threads of the session have exited.
ThreadsExitBeforeLeaving ==
    pc[FSM] = "leave" => \A k \in Kinds : pc[<<k, conn>>] = "exited"
=============================================================================
