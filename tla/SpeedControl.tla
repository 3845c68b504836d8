---------------------------- MODULE SpeedControl -----------------------------
(***************************************************************************)
(* The speed of a following truck that has joined: the status thread runs  *)
(* speedControl (control/following_truck.cpp) once per report, while the   *)
(* listeners for the leader's messages and for broadcasts store what they  *)
(* are told (processCommands) and the FSM thread limits the brake force    *)
(* (emergencyBrake).  Nothing is locked: a step is one assignment, or the  *)
(* test before it.  Speeds are in km/h, rounded towards zero, and forces   *)
(* in tenths of 1.0: full force takes TRUCK_BRAKE_SPEED off per report.    *)
(* The leader bounds neither: each leave takes 15 off its speed and each   *)
(* removal 0.2 off its force, so that both may be negative.                *)
(* truck_status and in_Emergercy, which no speed depends on, are in        *)
(* FollowingTruck.tla; no code sets the status "speed_up" or sends that    *)
(* command.                                                                *)
(***************************************************************************)
EXTENDS Integers

CONSTANTS
    LeaderMessages,  \* [cmd, speed, brake]: "sync" and "slow_down" of the leader
    Jitter,          \* percentages speedControl draws: 98 .. 101
    JoinSpeed,       \* the speed in join_accepted
    MaxMessages      \* bound on the leader's messages; broadcasts are unbounded

ASSUME SpeedAssumption ==
    /\ LeaderMessages \subseteq [cmd : {"sync", "slow_down"}, speed : Int, brake : Int]
    /\ Jitter \subseteq 98 .. 101 /\ Jitter # {}
    /\ JoinSpeed \in Int /\ MaxMessages \in Nat

TRUCK_BRAKE_SPEED == 10   \* km/h per report at full force
MAX_BRAKE_FORCE   == 10

\* AppStateMachine::emergencyBrake
Emergency == [cmd |-> "emergency", speed |-> 5, brake |-> 8]

Listeners == {"lead", "broadcast"}

VARIABLES
    truck_speed, brake_force, ref_speed,
    doing,    \* per thread: the statement it is at
    told,     \* per listener: the message it handles
    result,   \* the value speedControl is about to store in truck_speed
    messages, \* leader's messages so far
    reverse   \* history: the leader has named a speed below zero

leads  == <<messages, reverse>>
scvars == <<truck_speed, brake_force, ref_speed, doing, told, result, leads>>

SCInit ==
    /\ truck_speed = JoinSpeed /\ brake_force = 0 /\ ref_speed = 0
    /\ doing = [t \in Listeners \cup {"status", "fsm"} |-> "idle"]
    /\ told = [l \in Listeners |-> Emergency]
    /\ result = 0 /\ messages = 0 /\ reverse = (JoinSpeed < 0)

Step(t, from, to) == doing[t] = from /\ doing' = [doing EXCEPT ![t] = to]

\* j per cent of a speed.
Percent(speed, j) ==
    IF speed >= 0 THEN (speed * j) \div 100 ELSE -((-speed * j) \div 100)

-----------------------------------------------------------------------------
(* The status thread: speedControl *)

\* A test: which branch is taken.
Test(from, cond, then, else) ==
    /\ Step("status", from, IF cond THEN then ELSE else)
    /\ UNCHANGED <<truck_speed, brake_force, ref_speed, told, result, leads>>

\* A value computed from the shared variables, to be stored in truck_speed.
Compute(from, value, to) ==
    /\ Step("status", from, to)
    /\ result' = value
    /\ UNCHANGED <<truck_speed, brake_force, ref_speed, told, leads>>

Store(from, to) ==
    /\ Step("status", from, to)
    /\ truck_speed' = result /\ result' = 0
    /\ UNCHANGED <<brake_force, ref_speed, told, leads>>

\* Mutant: only a truck that still rolls takes up its reference speed.
passed_Rolling == truck_speed > 0 /\ 100 * truck_speed < 98 * ref_speed

passed == 100 * truck_speed < 98 * ref_speed

\* The reference speed was passed: take it up and release the brake.
settle ==
    \/ Test("below", passed, "settle", "idle")
    \/ \E j \in Jitter : Compute("settle", Percent(ref_speed, j), "store_settled")
    \/ Store("store_settled", "release")
    \/ /\ Step("status", "release", "forget")
       /\ brake_force' = 0
       /\ UNCHANGED <<truck_speed, ref_speed, told, result, leads>>
    \/ /\ Step("status", "forget", "idle")
       /\ ref_speed' = 0
       /\ UNCHANGED <<truck_speed, brake_force, told, result, leads>>

brake ==
    \/ Test("compare", 100 * truck_speed > 98 * ref_speed, "subtract", "below")
    \/ Compute("subtract", truck_speed - (TRUCK_BRAKE_SPEED * brake_force) \div 10, "store_braked")
    \/ Store("store_braked", "below")

cruise ==
    \/ \E j \in Jitter : Compute("cruise", Percent(truck_speed, j), "store_cruise")
    \/ Store("store_cruise", "idle")

speedControl ==
    \/ Test("idle", brake_force > 0 /\ truck_speed > 0, "compare", "cruise")
    \/ brake \/ settle \/ cruise

-----------------------------------------------------------------------------
(* The listeners: processCommands *)

hear(l) ==
    /\ Step(l, "idle", "force")
    /\ \/ l = "broadcast" /\ told' = [told EXCEPT ![l] = Emergency] /\ UNCHANGED leads
       \/ /\ l = "lead" /\ messages < MaxMessages /\ messages' = messages + 1
          /\ \E m \in LeaderMessages :
               told' = [told EXCEPT ![l] = m] /\ reverse' = (reverse \/ m.speed < 0)
    /\ UNCHANGED <<truck_speed, brake_force, ref_speed, result>>

\* Mutant: the force is looked up under a key the message does not have.
takeForce_Missing(l) ==
    /\ Step(l, "force", "speed")
    /\ UNCHANGED <<brake_force, truck_speed, ref_speed, told, result, leads>>

takeForce(l) ==
    /\ Step(l, "force", "speed")
    /\ brake_force' = told[l].brake
    /\ UNCHANGED <<truck_speed, ref_speed, told, result, leads>>

\* The listener is done with its message.
Forget(l) == told' = [told EXCEPT ![l] = Emergency]

\* Mutant: without a speed in the message, the truck's own is the reference.
takeSpeed_OwnSpeed(l) ==
    /\ Step(l, "speed", "idle")
    /\ IF told[l].cmd = "sync"
       THEN truck_speed' = told[l].speed /\ UNCHANGED ref_speed
       ELSE ref_speed' = truck_speed /\ UNCHANGED truck_speed
    /\ Forget(l) /\ UNCHANGED <<brake_force, result, leads>>

\* sync sets the speed itself, the others the speed to brake to.
takeSpeed(l) ==
    /\ Step(l, "speed", "idle")
    /\ IF told[l].cmd = "sync"
       THEN truck_speed' = told[l].speed /\ UNCHANGED ref_speed
       ELSE ref_speed' = told[l].speed /\ UNCHANGED truck_speed
    /\ Forget(l) /\ UNCHANGED <<brake_force, result, leads>>

processCommands(l) == takeForce(l) \/ takeSpeed(l)

-----------------------------------------------------------------------------
(* The FSM thread: emergencyBrake, while the truck is in EMERGENCY_BRAKE *)

limitForce ==
    \/ /\ Step("fsm", "idle", "limit")
       /\ brake_force >= MAX_BRAKE_FORCE
       /\ UNCHANGED <<truck_speed, brake_force, ref_speed, told, result, leads>>
    \/ /\ Step("fsm", "limit", "idle")
       /\ brake_force' = MAX_BRAKE_FORCE
       /\ UNCHANGED <<truck_speed, ref_speed, told, result, leads>>

SCNext ==
    \/ speedControl
    \/ \E l \in Listeners : hear(l) \/ processCommands(l)
    \/ limitForce

\* The threads run, and the leader repeats its broadcast: what it does in every
\* round of EMERGENCY.
SCFairness ==
    /\ WF_scvars(speedControl)
    /\ \A l \in Listeners : WF_scvars(processCommands(l))
    /\ WF_scvars(hear("broadcast"))

SCSpec == SCInit /\ [][SCNext]_scvars /\ SCFairness

-----------------------------------------------------------------------------

Messages == LeaderMessages \cup {Emergency}
Speeds   == {0} \cup {m.speed : m \in Messages}
Forces   == {0, MAX_BRAKE_FORCE} \cup {m.brake : m \in Messages}

\* Type invariant of the speed control: the force and the speed to brake to are
\* ones the truck was told, the limit or none.
SCTypeOK ==
    /\ truck_speed \in Int /\ brake_force \in Forces /\ ref_speed \in Speeds
    /\ doing \in [Listeners \cup {"status", "fsm"} ->
                    {"idle", "compare", "subtract", "store_braked", "below", "settle",
                     "store_settled", "release", "forget", "cruise", "store_cruise",
                     "force", "speed", "limit"}]
    /\ told \in [Listeners -> Messages]
    /\ result \in Int /\ messages \in 0 .. MaxMessages /\ reverse \in BOOLEAN

\* Braking may subtract more than is left of the speed.  The report that does so
\* repairs it, whatever the listeners store in between: a report starts from and ends
\* with a speed below zero only after the leader has named one.
BackwardsOnlyIfTold == doing["status"] = "idle" /\ truck_speed < 0 => reverse

\* The most speedControl makes of a reference.
AtMost(speed) == Percent(speed, 101)

\* However an emergency is torn by, or lost to, the end of an earlier braking or
\* a message of the leader: as long as the broadcast is repeated and the leader
\* says nothing else, the truck comes down to the emergency's speed, or 1 % more.
EmergencySlowsDown == []<>(truck_speed <= AtMost(Emergency.speed))
=============================================================================
