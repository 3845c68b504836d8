---------------------------- MODULE RegistryRace -----------------------------
(***************************************************************************)
(* addTruck and removeTruck as the connection threads of the TCP server    *)
(* call them: nothing is locked, so the threads interleave between the     *)
(* statements.  TruckManager.tla has the two methods as single steps, what *)
(* they do when calls do not overlap.  An operation of std::map is still a *)
(* step here, though overlapping ones have undefined behaviour in C++.     *)
(***************************************************************************)
EXTENDS TruckManager

VARIABLES
    at,     \* per connection thread: where it is; "member": addTruck returned
    order,  \* per thread: ++currentOrder, or removeOrder
    copy    \* per thread: updatedTrucks

rrvars == <<tmvars, at, order, copy>>

RRInit ==
    /\ TMInit
    /\ at = [c \in TruckIds |-> "add"]
    /\ order = [c \in TruckIds |-> NoOrder]
    /\ copy = [c \in TruckIds |-> <<>>]

Move(c, from, to) == at[c] = from /\ at' = [at EXCEPT ![c] = to]

(* addTruck *)

readOrder(c) ==
    /\ Move(c, "add", "increment")
    /\ order' = [order EXCEPT ![c] = currentOrder + 1]
    /\ UNCHANGED <<tmvars, copy>>

writeOrder(c) ==
    /\ Move(c, "increment", "insert")
    /\ currentOrder' = order[c]
    /\ UNCHANGED <<trucks, order, copy>>

insert(c) ==
    /\ Move(c, "insert", "member")
    /\ \E s \in Sockets :
         trucks' = [o \in DOMAIN trucks \cup {order[c]} |->
                      IF o = order[c] THEN [id |-> c, socket |-> s] ELSE trucks[o]]
    /\ UNCHANGED <<currentOrder, order, copy>>

(* removeTruck *)

search(c) ==
    /\ Move(c, "member", IF c \in Registered THEN "erase" ELSE "gone")
    /\ order' = [order EXCEPT ![c] = find(c)]
    /\ UNCHANGED <<tmvars, copy>>

erase(c) ==
    /\ Move(c, "erase", "reindex")
    /\ trucks' = [o \in DOMAIN trucks \ {order[c]} |-> trucks[o]]
    /\ UNCHANGED <<currentOrder, order, copy>>

reindex(c) ==
    /\ Move(c, "reindex", "replace")
    /\ copy' = [copy EXCEPT ![c] = InOrder(trucks)]
    /\ UNCHANGED <<tmvars, order>>

replace(c) ==
    /\ Move(c, "replace", "resize")
    /\ trucks' = copy[c]
    /\ UNCHANGED <<currentOrder, order, copy>>

resize(c) ==
    /\ Move(c, "resize", "gone")
    /\ currentOrder' = Cardinality(DOMAIN trucks)
    /\ UNCHANGED <<trucks, order, copy>>

RRNext == \E c \in TruckIds :
    \/ readOrder(c) \/ writeOrder(c) \/ insert(c)
    \/ search(c) \/ erase(c) \/ reindex(c) \/ replace(c) \/ resize(c)

RRSpec == RRInit /\ [][RRNext]_rrvars

-----------------------------------------------------------------------------
\* trucks_manager.cpp:15, "Add a truck to the platoon": a truck whose addTruck
\* has returned and that nobody has asked to remove is in the registry.
AddedIsRegistered == \A c \in TruckIds : at[c] = "member" => c \in Registered
=============================================================================
