----------------------------- MODULE Membership ------------------------------
(***************************************************************************)
(* What the platoon promises a truck, whoever runs the protocol: it enters *)
(* the registry once, is accepted only after that, leaves once, and its    *)
(* connection is never registered a second time.  The leading truck and    *)
(* the client side of the following truck are both shown to behave so.     *)
(***************************************************************************)
CONSTANT Members

VARIABLES
    phase,     \* per member: "outside", "registered" or "gone"
    admitted   \* members whose request to join was granted

vars == <<phase, admitted>>

Init == phase = [m \in Members |-> "outside"] /\ admitted = {}

Register(m) ==
    /\ phase[m] = "outside"
    /\ phase' = [phase EXCEPT ![m] = "registered"]
    /\ UNCHANGED admitted

Admit(m) ==
    /\ phase[m] # "outside"
    /\ admitted' = admitted \cup {m}
    /\ UNCHANGED phase

Leave(m) ==
    /\ phase[m] = "registered"
    /\ phase' = [phase EXCEPT ![m] = "gone"]
    /\ UNCHANGED admitted

Next == \E m \in Members : Register(m) \/ Admit(m) \/ Leave(m)

Spec == Init /\ [][Next]_vars
=============================================================================
