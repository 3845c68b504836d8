-------------------------- MODULE MCFollowingTruck --------------------------
(* Instances of the following truck for model checking.  A behaviour runs    *)
(* the session threads of one setup, under the bounds of that setup.         *)
EXTENDS FollowingTruck

Setup(threads, attempts, chatter, refusals, broadcasts, faults) ==
    [threads |-> threads,
     bounds  |-> [attempts |-> attempts, chatter |-> chatter, refusals |-> refusals,
                  broadcasts |-> broadcasts, faults |-> faults, ends |-> 0]]

\* The leader's process may end.
Ending(setup) == [setup EXCEPT !.bounds.ends = 1]

Status    == "send_current_status"
Obstacle  == "check_obstacle"
Lead      == "check_lead_message"
Broadcast == "check_broadcast_message"

\* Two sessions against one kind of thread that may outlive the first, against a
\* leader that refuses, or a connection that breaks; one session against both of these,
\* against one kind and what the leader sends of its own accord, against two kinds, and
\* against a leader that ends.
MCSetups ==
    {Setup({Status}, 2, 0, 0, 0, 0),
     Setup({Lead}, 2, 0, 0, 0, 0),
     Setup({Broadcast}, 2, 0, 0, 0, 0),
     Setup({}, 2, 0, 1, 0, 0),
     Setup({}, 2, 0, 0, 0, 1),
     Setup({}, 1, 0, 1, 0, 1),
     Setup({Lead}, 1, 0, 0, 0, 1),
     Setup({Obstacle}, 1, 1, 0, 0, 0),
     Setup({Obstacle}, 1, 0, 1, 0, 0),
     Setup({Status, Obstacle}, 1, 0, 0, 0, 2),
     Setup({Status, Broadcast}, 1, 0, 0, 1, 0),
     Setup({Lead, Broadcast}, 1, 1, 0, 1, 0),
     Ending(Setup({Status}, 1, 0, 0, 0, 1)),
     Ending(Setup({Lead}, 1, 0, 0, 0, 0))}

ExitSetups == {Setup({Status, Lead}, 1, 0, 0, 0, 0)}
=============================================================================
