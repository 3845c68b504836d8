---------------------------- MODULE PlatoonOrder ----------------------------
(***************************************************************************)
(* What the registry of trucks promises, without orders or re-indexing: a  *)
(* platoon is a line of trucks.  A truck is added at the tail; removing an *)
(* id takes the first truck of that id out of the line and everybody else  *)
(* keeps their relative position.                                          *)
(***************************************************************************)
EXTENDS Integers, Sequences

CONSTANTS TruckIds, Sockets

VARIABLE platoon

Init == platoon = <<>>

\* A truck drives up behind the last one.
AddAtTail(id, s) == platoon' = Append(platoon, [id |-> id, socket |-> s])

\* The line without its i-th truck: the trucks behind it close up.
CloseUp(line, i) ==
    [k \in 1 .. Len(line) - 1 |-> IF k < i THEN line[k] ELSE line[k + 1]]

\* The first truck called id drops out.
RemoveFirst(id) ==
    \E i \in 1 .. Len(platoon) :
        /\ platoon[i].id = id
        /\ \A j \in 1 .. i - 1 : platoon[j].id # id
        /\ platoon' = CloseUp(platoon, i)

Next == \E id \in TruckIds :
            \/ RemoveFirst(id)
            \/ \E s \in Sockets : AddAtTail(id, s)

Spec == Init /\ [][Next]_platoon
=============================================================================
