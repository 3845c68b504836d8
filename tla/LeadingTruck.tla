---------------------------- MODULE LeadingTruck ----------------------------
(***************************************************************************)
(* The leading truck's process (main.cpp): the connection threads of the   *)
(* TCP server, the regular and the emergency worker, and the application   *)
(* thread of app.h / app.cc, over the registry, the event FSM and the      *)
(* platoon data they all share.                                            *)
(***************************************************************************)
EXTENDS EventManager

emvars == <<pc, locals, fsmvars, data, history>>
vars   == <<tmvars, connvars, queue, wire, emvars>>

-----------------------------------------------------------------------------
(* The application thread: AppStateMachine *)

\* Mutant: no case for EMERGENCY.
appSwitch_NoEmergency ==
    /\ At("app", "switch")
    /\ Goto("app", CASE appState = "INIT" -> "init"
                     [] appState = "IDLE" -> "idle"
                     [] OTHER             -> "sync")
    /\ UNCHANGED <<locals, psvars, tmvars, wire, fsmvars, data, history>>

\* handleEvent reads currentState once per round.
appSwitch ==
    /\ At("app", "switch")
    /\ Goto("app", CASE appState = "INIT"             -> "init"
                     [] appState = "IDLE"             -> "idle"
                     [] appState = "NORMAL_OPERATION" -> "sync"
                     [] appState = "EMERGENCY"        -> "broadcast")
    /\ UNCHANGED <<locals, psvars, tmvars, wire, fsmvars, data, history>>

\* PlatoonDataManager::init stores the configured values without the mutex.
initSpeed ==
    /\ At("app", "init") /\ Goto("app", "init_brake")
    /\ speed' = InitSpeed
    /\ UNCHANGED <<locals, psvars, tmvars, wire, fsmvars, brakeForce, history>>

initBrake ==
    /\ At("app", "init_brake") /\ Goto("app", "init_done")
    /\ brakeForce' = InitBrake
    /\ UNCHANGED <<locals, psvars, tmvars, wire, fsmvars, speed, history>>

\* The unconditional assignments that end init() and idle().
appAssign(at, state) ==
    /\ At("app", at) /\ Goto("app", "switch")
    /\ appState' = state
    /\ UNCHANGED <<locals, psvars, tmvars, wire, currentState, emergencyEnabled, data, history>>

toIdle   == appAssign("init_done", "IDLE")
toNormal == appAssign("idle", "NORMAL_OPERATION")

\* emergencyBrake: one UDP broadcast per round.
emergencyBrake ==
    /\ At("app", "broadcast") /\ Goto("app", "switch")
    /\ wire' = [cmd |-> "emergency", for |-> NoTruck, reached |-> NoTruck]
    /\ UNCHANGED <<locals, psvars, tmvars, fsmvars, data, history>>

normalOperation == syncList("app") \/ Sync("app")

appThread ==
    \/ appSwitch \/ initSpeed \/ initBrake \/ toIdle \/ toNormal
    \/ normalOperation \/ emergencyBrake

-----------------------------------------------------------------------------
(* The process *)

Init == TMInit /\ PSInit /\ EMInit

Server == PSNext /\ UNCHANGED emvars

Next == Server \/ appThread \/ \E w \in Workers : processCommands(w)

Spec == Init /\ [][Next]_vars

\* Every thread of the process runs whenever it can.  Nothing makes a peer
\* connect, send or disconnect.
Fairness ==
    /\ WF_vars(appThread)
    /\ \A w \in Workers : WF_vars(processCommands(w))
    /\ \A c \in TruckIds : WF_vars(PSThread(c) /\ UNCHANGED emvars)

FairSpec == Spec /\ Fairness

-----------------------------------------------------------------------------
(* Safety *)

\* Type invariant of the process.
TypeOK == TMTypeOK /\ PSTypeOK /\ EMTypeOK

\* Every entry of the registry belongs to a connection that authenticated and
\* whose thread has not ended; it holds that connection's own descriptor until
\* the descriptor is closed, and no truck is listed twice.  So no interleaving
\* of authentication, leave_done and disconnect leaves a ghost truck behind.
NoGhostTruck ==
    \A o \in DOMAIN trucks :
        LET c == trucks[o].id
        IN  /\ isAuthenticated[c]
            /\ connPc[c] \in {"auth_reply", "recv", "remove"}
            /\ connPc[c] # "remove" => trucks[o].socket = fd[c]
            /\ \A p \in DOMAIN trucks : trucks[p].id = c => p = o

\* While a truck is connected, nothing addressed to it reaches somebody else,
\* however long ago the sender looked its socket up.
NoCrosstalkWhileConnected ==
    IsOpen(wire.for) => wire.reached \in {wire.for, NoTruck}

\* handleJoin never admits more trucks than there are slots: of the trucks it
\* accepted, fewer than NUM_TRUCKS are in the registry at a time.  (Fewer, not
\* as many: the truck that asks is in the registry already and counts.)
PlatoonCapacity == Cardinality(accepted \cap Registered) < NumTrucks \/ accepted = {}

\* A truck leaves the registry only when its own connection has closed or a
\* worker handles its own leave_done, never because another truck left.
RemovalIsItsOwn ==
    [][\A c \in Registered :
         c \notin Registered' =>
            \/ connPc[c] = "remove"
            \/ \E w \in Workers : /\ At(w, "leave")
                                  /\ msg[w].id = c /\ msg[w].cmd = "leave_done"]_vars

\* Once the process has booted, the application leaves EMERGENCY only when a
\* worker handles test_normal; neither synchronisation nor another command ends
\* an emergency.
EmergencyLatched ==
    [][appState = "EMERGENCY" /\ appState' # "EMERGENCY" =>
         \/ \E w \in Workers : At(w, "to_normal")
         \/ pc["app"] \in {"init_done", "idle"}]_vars

\* A connection's place in the platoon, as its thread and the registry have it.
Phase(c) == IF ~isAuthenticated[c] THEN "outside"
            ELSE IF c \in Registered THEN "registered" ELSE "gone"

Platoon == INSTANCE Membership
               WITH Members  <- TruckIds,
                    phase    <- [c \in TruckIds |-> Phase(c)],
                    admitted <- accepted \cap TruckIds

\* Whatever the interleaving of authentication, join, leave_done and disconnect,
\* a connection is registered once, its join is granted only after it was, and
\* it never comes back, also when a second key or a late join is handled after it left.
ImplementsMembership == Platoon!Spec

-----------------------------------------------------------------------------
(* Liveness *)

\* Whatever the handlers do, throw included, both workers come back to an empty
\* queue: every command is eventually handled.
QueuesDrain ==
    \A w \in Workers : []<>(queue[w] = <<>> /\ At(w, "dequeue"))

\* A closed connection disappears from the registry.
ClosedTruckIsRemoved ==
    \A c \in TruckIds : connPc[c] = "remove" ~> c \notin Registered

\* While the application is in EMERGENCY, the broadcast goes out.
EmergencyIsBroadcast ==
    appState = "EMERGENCY" ~> At("app", "broadcast") \/ appState # "EMERGENCY"

-----------------------------------------------------------------------------
(* What comments of the code say and the code does not keep *)

\* app.cc:49 sends the synchronisation "to trucks", and trucks_manager.h:19
\* maps an order to "truck ID, socket": whatever is sent reaches the truck it
\* is meant for or nobody.
SendReachesAddressee == wire.reached \in {wire.for, NoTruck}

\* event_manager.cpp:191, "Enable Emergency signal and change the state": a
\* dangerous distance in a status message turns the emergency signal on.
DangerRaisesAlarm ==
    \A w \in Workers :
        At(w, "set_state") /\ msg[w].cmd = "status" /\ msg[w].near ~> emergencyEnabled

\* event_manager.cpp:194, "Switch to emergency state": once the signal is on the
\* application broadcasts it, unless the signal is turned off.
SignalIsBroadcast ==
    emergencyEnabled ~> At("app", "broadcast") \/ ~emergencyEnabled

\* workflow.txt:53 gives brake_force of a message the range "0.0 -> 1.0"; sync,
\* slow_down and leave_start carry the platoon's, here in tenths.
BrakeForceInRange == brakeForce \in 0 .. 10

\* event_manager.cpp:124, "Leave request is postponed": when the emergency is
\* over for good, a postponed truck is told to start leaving.
PostponedLeaveResumes ==
    \A c \in TruckIds :
        <>[](~emergencyEnabled)
            => (c \in postponed ~> c \notin postponed \/ ~IsOpen(c))
=============================================================================
