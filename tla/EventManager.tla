---------------------------- MODULE EventManager ----------------------------
(***************************************************************************)
(* The two worker threads of the leading truck (processCommands in         *)
(* control/event_manager.cpp) driving the one TruckEventFSM they share, on *)
(* top of the registry and the server.  Nothing is locked around the FSM,  *)
(* the registry or the platoon data, so a step here is one access to them: *)
(* a call of the registry, a read or a write of a field, a send.           *)
(*                                                                         *)
(* dequeueCommand is the atomic step CommandQueue.tla shows it to be.      *)
(***************************************************************************)
EXTENDS PlatoonServer

CONSTANTS
    InitSpeed,      \* LEADING_SPEED of the environment
    InitBrake       \* LEADING_BRAKE_FORCE in tenths

ASSUME DataAssumption == InitSpeed \in Int /\ InitBrake \in Int

VARIABLES
    pc,                \* per thread: where it is
    msg,               \* per thread: the message it handles
    list,              \* per thread: trucks it has still to send to
    sock,              \* per thread: a socket it looked up
    temp,              \* per thread: a field of the platoon data it read
    currentState,      \* TruckEventFSM::currentState
    emergencyEnabled,  \* TruckEventFSM::emergencyEnabled
    appState,          \* AppStateMachine::currentState
    speed,             \* PlatoonData::speed
    brakeForce,        \* PlatoonData::brakeForce in tenths
    accepted,          \* history: trucks that passed the slot check of handleJoin
    postponed          \* history: trucks whose leave request was postponed and
                       \* that have had no leave_start since

locals  == <<msg, list, sock, temp>>
fsmvars == <<currentState, emergencyEnabled, appState>>
data    == <<speed, brakeForce>>
history == <<accepted, postponed>>
psvars  == <<connvars, queue>>

Threads == Workers \cup {"app"}

NoMsg == [id |-> NoTruck, cmd |-> "unknown", near |-> FALSE]

\* getStateMap
StateOf ==
    [c \in Commands \ {"unknown"} |->
        CASE c = "Idle"                      -> "Idle"
          [] c = "authen"                    -> "Authen"
          [] c \in {"join", "join_done"}     -> "Join"
          [] c \in {"leave", "leave_done"}   -> "Leave"
          [] c = "status"                    -> "Communicate"
          [] c = "emergency"                 -> "Emergency"
          [] c = "obstacle"                  -> "Obstacle"
          [] OTHER                           -> "External"]

EMInit ==
    /\ pc = [t \in Threads |-> IF t \in Workers THEN "dequeue" ELSE "switch"]
    /\ msg = [t \in Threads |-> NoMsg]
    /\ list = [t \in Threads |-> <<>>]
    /\ sock = [t \in Threads |-> NoSocket]
    /\ temp = [t \in Threads |-> 0]
    /\ currentState = "Idle" /\ emergencyEnabled = FALSE /\ appState = "INIT"
    /\ speed = 0 /\ brakeForce = 0
    /\ accepted = {} /\ postponed = {}

-----------------------------------------------------------------------------
(* Moving a thread *)

At(t, l) == pc[t] = l

Goto(t, l) == pc' = [pc EXCEPT ![t] = l]

\* Where a thread starts its next round.
Top(t) == IF t = "app" THEN "switch" ELSE "dequeue"

\* The handler returned, or threw and the loop of processCommands caught it.
Finish(t) ==
    /\ Goto(t, Top(t))
    /\ msg'  = [msg  EXCEPT ![t] = NoMsg]
    /\ list' = [list EXCEPT ![t] = <<>>]
    /\ sock' = [sock EXCEPT ![t] = NoSocket]
    /\ temp' = [temp EXCEPT ![t] = 0]

-----------------------------------------------------------------------------
(* processCommands *)

Dequeue(w) ==
    /\ At(w, "dequeue") /\ queue[w] # <<>>
    /\ msg' = [msg EXCEPT ![w] = Head(queue[w])]
    /\ queue' = [queue EXCEPT ![w] = Tail(@)]
    /\ Goto(w, "set_state")
    /\ UNCHANGED <<list, sock, temp, connvars, tmvars, wire, fsmvars, data, history>>

\* Mutant: the throw of an unknown command ends the worker.
setState_ThrowEndsWorker(w) ==
    /\ At(w, "set_state")
    /\ IF msg[w].cmd \in DOMAIN StateOf
       THEN currentState' = StateOf[msg[w].cmd] /\ Goto(w, "handle")
       ELSE UNCHANGED currentState /\ Goto(w, "ended")
    /\ UNCHANGED <<locals, psvars, tmvars, wire, emergencyEnabled, appState, data, history>>

\* setState: an unknown command throws and is dropped.
setState(w) ==
    /\ At(w, "set_state")
    /\ IF msg[w].cmd \in DOMAIN StateOf
       THEN /\ currentState' = StateOf[msg[w].cmd]
            /\ Goto(w, "handle")
            /\ UNCHANGED locals
       ELSE UNCHANGED currentState /\ Finish(w)
    /\ UNCHANGED <<psvars, tmvars, wire, emergencyEnabled, appState, data, history>>

\* The first label of the handler of a state; the other handlers are empty.
HandlerOf(state) ==
    CASE state = "Join"        -> "join"
      [] state = "Leave"       -> "leave"
      [] state = "Communicate" -> "communicate"
      [] state = "External"    -> "external"
      [] OTHER                 -> "nothing"

\* handleEvent picks the handler by the shared currentState, which need not be
\* the state this worker set.
handleEvent(w) ==
    /\ At(w, "handle")
    /\ IF HandlerOf(currentState) = "nothing"
       THEN Finish(w)
       ELSE Goto(w, HandlerOf(currentState)) /\ UNCHANGED locals
    /\ UNCHANGED <<psvars, tmvars, wire, fsmvars, data, history>>

-----------------------------------------------------------------------------
(* handleJoin *)

joinLookup(w) ==
    /\ At(w, "join")
    /\ sock' = [sock EXCEPT ![w] = getSocketId(msg[w].id)]
    /\ Goto(w, "join_check")
    /\ UNCHANGED <<msg, list, temp, psvars, tmvars, wire, fsmvars, data, history>>

\* Without a free slot the reply would be a json object handed to a parameter
\* of type std::string; that conversion throws, and nothing is sent.
joinCheck(w) ==
    /\ At(w, "join_check")
    /\ IF isSlotAvailable
       THEN /\ Goto(w, "join_accept")
            /\ accepted' = accepted \cup {msg[w].id}
            /\ UNCHANGED locals
       ELSE Finish(w) /\ UNCHANGED accepted
    /\ UNCHANGED <<psvars, tmvars, wire, fsmvars, data, postponed>>

joinAccept(w) ==
    /\ At(w, "join_accept")
    /\ sendResponse(sock[w], "join_accepted", msg[w].id)
    /\ Finish(w)
    /\ UNCHANGED <<psvars, tmvars, fsmvars, data, history>>

-----------------------------------------------------------------------------
(* handleLeave *)

\* leave_done removes the truck.  Any other message is a leave request, also
\* an emergency or an obstacle that lands here by the shared currentState:
\* while an emergency is on, it is postponed, and the reply about that is lost
\* in the same conversion as in joinCheck; else the trucks are listed.
leaveEntry(w) ==
    /\ At(w, "leave")
    /\ \/ /\ msg[w].cmd = "leave_done"
          /\ removeTruck(msg[w].id)
          /\ Goto(w, "speed_read")
          /\ UNCHANGED <<locals, postponed>>
       \/ /\ msg[w].cmd # "leave_done" /\ emergencyEnabled
          /\ postponed' = postponed \cup ({msg[w].id} \cap TruckIds)
          /\ Finish(w)
          /\ UNCHANGED tmvars
       \/ /\ msg[w].cmd # "leave_done" /\ ~emergencyEnabled
          /\ list' = [list EXCEPT ![w] = getTrucks]
          /\ Goto(w, "speed_read")
          /\ UNCHANGED <<msg, sock, temp, tmvars, postponed>>
    /\ UNCHANGED <<psvars, wire, fsmvars, data, accepted>>

\* 15 km/h and 0.2 of brake force, back and forth.
Direction(m) == IF m.cmd = "leave_done" THEN 1 ELSE -1

\* updateTruckField(f, getPlatoonData().f + d): the read is outside the mutex
\* that the write takes.
ReadField(w, at, value, next) ==
    /\ At(w, at)
    /\ temp' = [temp EXCEPT ![w] = value]
    /\ Goto(w, next)
    /\ UNCHANGED <<msg, list, sock, psvars, tmvars, wire, fsmvars, data, history>>

readSpeed(w)  == ReadField(w, "speed_read", speed, "speed_write")
readBrake(w)  == ReadField(w, "brake_read", brakeForce, "brake_write")

writeSpeed(w) ==
    /\ At(w, "speed_write")
    /\ speed' = temp[w] + 15 * Direction(msg[w])
    /\ Goto(w, "brake_read")
    /\ UNCHANGED <<locals, psvars, tmvars, wire, fsmvars, brakeForce, history>>

writeBrake(w) ==
    /\ At(w, "brake_write")
    /\ brakeForce' = temp[w] - 2 * Direction(msg[w])
    /\ Goto(w, IF msg[w].cmd = "leave_done" THEN "sync" ELSE "slow_down")
    /\ temp' = [temp EXCEPT ![w] = 0]
    /\ UNCHANGED <<msg, list, sock, psvars, tmvars, wire, fsmvars, speed, history>>

\* The loop over the listed trucks, with the sockets they had when listed; the
\* leaving truck is skipped.
slowDown(w) ==
    /\ At(w, "slow_down")
    /\ IF list[w] = <<>>
       THEN Goto(w, "leave_lookup") /\ UNCHANGED <<list, wire>>
       ELSE LET t == Head(list[w])
            IN  /\ IF t.id = msg[w].id
                   THEN UNCHANGED wire
                   ELSE sendResponse(t.socket, "slow_down", t.id)
                /\ list' = [list EXCEPT ![w] = Tail(@)]
                /\ UNCHANGED pc
    /\ UNCHANGED <<msg, sock, temp, psvars, tmvars, fsmvars, data, history>>

\* Mutant: the socket left over from the loop over the trucks.
leaveLookup_LoopSocket(w) ==
    /\ At(w, "leave_lookup")
    /\ sock' = [sock EXCEPT ![w] =
                   IF getTrucks = <<>> THEN NoSocket ELSE getTrucks[Len(getTrucks)].socket]
    /\ Goto(w, "leave_start")
    /\ UNCHANGED <<msg, list, temp, psvars, tmvars, wire, fsmvars, data, history>>

leaveLookup(w) ==
    /\ At(w, "leave_lookup")
    /\ sock' = [sock EXCEPT ![w] = getSocketId(msg[w].id)]
    /\ Goto(w, "leave_start")
    /\ UNCHANGED <<msg, list, temp, psvars, tmvars, wire, fsmvars, data, history>>

leaveStart(w) ==
    /\ At(w, "leave_start")
    /\ sendResponse(sock[w], "leave_start", msg[w].id)
    /\ postponed' = postponed \ {msg[w].id}
    /\ Finish(w)
    /\ UNCHANGED <<psvars, tmvars, fsmvars, data, accepted>>

-----------------------------------------------------------------------------
(* "sync" to all trucks: the end of a leave and normalOperation of the app *)

syncList(t) ==
    /\ At(t, "sync")
    /\ list' = [list EXCEPT ![t] = getTrucks]
    /\ Goto(t, "sync_next")
    /\ UNCHANGED <<msg, sock, temp, psvars, tmvars, wire, fsmvars, data, history>>

\* The socket is looked up anew for each truck of the list.
syncNext(t) ==
    /\ At(t, "sync_next")
    /\ IF list[t] = <<>>
       THEN Finish(t)
       ELSE /\ sock' = [sock EXCEPT ![t] = getSocketId(Head(list[t]).id)]
            /\ Goto(t, "sync_send")
            /\ UNCHANGED <<msg, list, temp>>
    /\ UNCHANGED <<psvars, tmvars, wire, fsmvars, data, history>>

syncSend(t) ==
    /\ At(t, "sync_send")
    /\ sendResponse(sock[t], "sync", Head(list[t]).id)
    /\ list' = [list EXCEPT ![t] = Tail(@)]
    /\ sock' = [sock EXCEPT ![t] = NoSocket]
    /\ Goto(t, "sync_next")
    /\ UNCHANGED <<msg, temp, psvars, tmvars, fsmvars, data, history>>

-----------------------------------------------------------------------------
(* handleCommunicate and handleExternal *)

\* A status below the safe distance raises the alarm unless it is on.
communicate(w) ==
    /\ At(w, "communicate")
    /\ IF msg[w].cmd = "status" /\ msg[w].near /\ ~emergencyEnabled
       THEN Goto(w, "to_emergency") /\ UNCHANGED locals
       ELSE Finish(w)
    /\ UNCHANGED <<psvars, tmvars, wire, fsmvars, data, history>>

\* Which test command it is; any other command is logged and dropped.
external(w) ==
    /\ At(w, "external")
    /\ \/ msg[w].cmd = "test_emergency_on"  /\ Goto(w, "to_emergency") /\ UNCHANGED locals
       \/ msg[w].cmd = "test_emergency_off" /\ Goto(w, "disable")      /\ UNCHANGED locals
       \/ msg[w].cmd = "test_normal"        /\ Goto(w, "to_normal")    /\ UNCHANGED locals
       \/ msg[w].cmd \notin {"test_emergency_on", "test_emergency_off", "test_normal"}
            /\ Finish(w)
    /\ UNCHANGED <<psvars, tmvars, wire, fsmvars, data, history>>

switchApp(w, at, state, next) ==
    /\ At(w, at)
    /\ appState' = state
    /\ Goto(w, next)
    /\ UNCHANGED <<locals, psvars, tmvars, wire, currentState, emergencyEnabled, data, history>>

switchToEmergency(w) == switchApp(w, "to_emergency", "EMERGENCY", "enable")
switchToNormal(w)    == switchApp(w, "to_normal", "NORMAL_OPERATION", "disable")

\* Mutant: turning the signal off also resumes normal operation.
setEmergencyEnabled_ResumesNormal(w) ==
    /\ \/ At(w, "enable")  /\ emergencyEnabled' = TRUE  /\ UNCHANGED appState
       \/ At(w, "disable") /\ emergencyEnabled' = FALSE /\ appState' = "NORMAL_OPERATION"
    /\ Finish(w)
    /\ UNCHANGED <<psvars, tmvars, wire, currentState, data, history>>

setEmergencyEnabled(w) ==
    /\ \/ At(w, "enable")  /\ emergencyEnabled' = TRUE
       \/ At(w, "disable") /\ emergencyEnabled' = FALSE
    /\ Finish(w)
    /\ UNCHANGED <<psvars, tmvars, wire, currentState, appState, data, history>>

-----------------------------------------------------------------------------

handleJoin(w) == joinLookup(w) \/ joinCheck(w) \/ joinAccept(w)

handleLeave(w) ==
    \/ leaveEntry(w)
    \/ readSpeed(w) \/ writeSpeed(w) \/ readBrake(w) \/ writeBrake(w)
    \/ slowDown(w) \/ leaveLookup(w) \/ leaveStart(w)
    \/ syncList(w)

Sync(t) == syncNext(t) \/ syncSend(t)

handleCommunicate(w) == communicate(w) \/ switchToEmergency(w) \/ setEmergencyEnabled(w)
handleExternal(w)    == external(w) \/ switchToNormal(w)

processCommands(w) ==
    \/ Dequeue(w) \/ setState(w) \/ handleEvent(w)
    \/ handleJoin(w) \/ handleLeave(w) \/ Sync(w)
    \/ handleCommunicate(w) \/ handleExternal(w)

Labels ==
    {"dequeue", "set_state", "handle", "join", "join_check", "join_accept",
     "leave", "speed_read", "speed_write", "brake_read", "brake_write",
     "slow_down", "leave_lookup", "leave_start", "sync", "sync_next", "sync_send",
     "communicate", "external", "to_emergency", "to_normal", "enable", "disable",
     "switch", "init", "init_brake", "init_done", "idle", "broadcast"}

EMTypeOK ==
    /\ pc \in [Threads -> Labels]
    /\ msg \in [Threads -> Message]
    /\ list \in [Threads -> Seq(Truck)]
    /\ sock \in [Threads -> Sockets \cup {NoSocket}]
    /\ temp \in [Threads -> Int]
    /\ currentState \in {"Idle", "Authen", "Join", "Leave", "Communicate",
                         "Emergency", "Obstacle", "External"}
    /\ emergencyEnabled \in BOOLEAN
    /\ appState \in {"INIT", "IDLE", "NORMAL_OPERATION", "EMERGENCY"}
    /\ speed \in Int /\ brakeForce \in Int
    /\ accepted \subseteq TruckIds \cup {NoTruck}
    /\ postponed \subseteq TruckIds
=============================================================================
