---------------------------- MODULE MCComponents -----------------------------
(* Three components that share no state, for model checking in one go: a    *)
(* behaviour exercises one of them and leaves the others as they begin.     *)
EXTENDS TruckManager, CommandQueue, SpeedControl

VARIABLE part   \* the component that moves

(* The registry: three ids on two sockets and up to four entries: an id can *)
(* be registered twice, at the head, in the middle and at the tail.         *)
MCSockets == {4, 5}

(* The speed control: a sync at the platoon's speed and light force, and    *)
(* the slow_down and the sync of a leader that many leaves have taken to    *)
(* more than full force, and to a speed below zero.                         *)
MCLeaderMessages ==
    {[cmd |-> "sync", speed |-> 20, brake |-> 1],
     [cmd |-> "slow_down", speed |-> 12, brake |-> 11],
     [cmd |-> "sync", speed |-> -13, brake |-> 12],
     [cmd |-> "slow_down", speed |-> -13, brake |-> 12]}
MCJitter == 98 .. 101

mcvars == <<part, tmvars, cqvars, scvars>>

MCInit == part \in {"registry", "queue", "speed"} /\ TMInit /\ CQInit /\ SCInit

Registry == part = "registry" /\ TMNext /\ UNCHANGED <<part, cqvars, scvars>>
Queue    == part = "queue" /\ CQNext /\ UNCHANGED <<part, tmvars, scvars>>
Speed    == part = "speed" /\ SCNext /\ UNCHANGED <<part, tmvars, cqvars>>

MCNext == Registry \/ Queue \/ Speed

\* The fairness of CQSpec and SCSpec, for the part that moves.
MCFairness == /\ WF_mcvars(Queue /\ Worker)
              /\ WF_mcvars(Speed /\ speedControl)
              /\ \A l \in Listeners : WF_mcvars(Speed /\ processCommands(l))
              /\ WF_mcvars(Speed /\ hear("broadcast"))

MCSpec == MCInit /\ [][MCNext]_mcvars /\ MCFairness

\* The two liveness properties, each for the behaviours in which its part moves.

\* EveryCommandHandled where the queue is the part that moves.
QueuedCommandsHandled == part = "queue" => EveryCommandHandled

\* EmergencySlowsDown where the speed control is the part that moves.
RepeatedEmergencySlowsDown == part = "speed" => EmergencySlowsDown
=============================================================================
