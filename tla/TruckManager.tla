---------------------------- MODULE TruckManager ----------------------------
(***************************************************************************)
(* The registry of the leading truck, control/trucks_manager.{h,cpp}: a    *)
(* std::map from the order in the platoon to a truck's id and socket, and  *)
(* the counter that numbers new entries.  One action per mutating method,  *)
(* one operator per const method.  A C++ std::map is walked in key order;  *)
(* here that walk is InOrder.                                              *)
(***************************************************************************)
EXTENDS Integers, FiniteSets, Sequences

CONSTANTS
    TruckIds,   \* the ids PlatoonServer::generateTruckID can draw
    Sockets,    \* file descriptors accept() can return
    NumTrucks,  \* NUM_TRUCKS of the environment
    MaxTrucks   \* bound of the stand-alone specification: entries at a time

NoSocket == -1
NoOrder  == -1

ASSUME SocketAssumption == Sockets \subseteq Nat
ASSUME NumAssumption    == NumTrucks \in Nat /\ MaxTrucks \in Nat

VARIABLES
    trucks,       \* order -> [id, socket]
    currentOrder  \* the order given to the truck added last

tmvars == <<trucks, currentOrder>>

Truck == [id : TruckIds, socket : Sockets]

-----------------------------------------------------------------------------
(* Walking the map *)

\* Place of order o among the orders D, 1 for the smallest.
Rank(D, o) == Cardinality({p \in D : p <= o})

\* The i-th order of D.
AtRank(D, i) == CHOOSE o \in D : Rank(D, o) = i

\* The values of the map f listed in the order of their keys.
InOrder(f) ==
    [i \in 1 .. Cardinality(DOMAIN f) |-> f[AtRank(DOMAIN f, i)]]

OrdersOf(id) == {o \in DOMAIN trucks : trucks[o].id = id}

Registered == {trucks[o].id : o \in DOMAIN trucks}

\* Mutant: a search that does not stop at the first match.
find_LastMatch(id) ==
    IF id \in Registered
    THEN CHOOSE o \in OrdersOf(id) : \A p \in OrdersOf(id) : o >= p
    ELSE NoOrder

\* The first order of a truck, or -1.
find(id) ==
    IF id \in Registered
    THEN CHOOSE o \in OrdersOf(id) : \A p \in OrdersOf(id) : o <= p
    ELSE NoOrder

\* The socket of the first entry of a truck, or -1: it never throws.
getSocketId(id) ==
    IF id \in Registered THEN trucks[find(id)].socket ELSE NoSocket

\* Mutant: one truck too many.
isSlotAvailable_Inclusive == Cardinality(DOMAIN trucks) <= NumTrucks

isSlotAvailable == Cardinality(DOMAIN trucks) < NumTrucks

getTrucks == InOrder(trucks)

\* Mutant: the truck itself counts as behind itself.
getTrucksBehind_Inclusive(id) ==
    InOrder([o \in {p \in DOMAIN trucks : p >= find(id)} |-> trucks[o]])

getTrucksBehind(id) ==
    InOrder([o \in {p \in DOMAIN trucks : p > find(id)} |-> trucks[o]])

-----------------------------------------------------------------------------
(* The mutating methods *)

TMInit == trucks = <<>> /\ currentOrder = 0

\* Mutant: trucks[currentOrder++].
addTruck_PostIncrement(id, s) ==
    /\ currentOrder' = currentOrder + 1
    /\ trucks' = [o \in DOMAIN trucks \cup {currentOrder} |->
                    IF o = currentOrder THEN [id |-> id, socket |-> s] ELSE trucks[o]]

\* trucks[++currentOrder] = {truck_id, socket}
addTruck(id, s) ==
    LET next == currentOrder + 1
    IN  /\ currentOrder' = next
        /\ trucks' = [o \in DOMAIN trucks \cup {next} |->
                        IF o = next THEN [id |-> id, socket |-> s] ELSE trucks[o]]

\* The map without the first entry of id, its orders still with a gap.
Erased(id) == [o \in DOMAIN trucks \ {find(id)} |-> trucks[o]]

\* Mutants: the orders keep their gap; every entry of the id goes; the last
\* truck goes instead of the one found.
removeTruck_NoReindex(id) ==
    IF id \in Registered
    THEN trucks' = Erased(id) /\ currentOrder' = Cardinality(DOMAIN Erased(id))
    ELSE UNCHANGED tmvars

removeTruck_EveryEntry(id) ==
    LET rest == [o \in DOMAIN trucks \ OrdersOf(id) |-> trucks[o]]
    IN  trucks' = InOrder(rest) /\ currentOrder' = Cardinality(DOMAIN rest)

removeTruck_TheTail(id) ==
    IF id \in Registered
    THEN /\ trucks' = [o \in 1 .. currentOrder - 1 |-> trucks[o]]
         /\ currentOrder' = currentOrder - 1
    ELSE UNCHANGED tmvars

\* Erase the first entry of id, then number what is left from 1.
removeTruck(id) ==
    IF id \in Registered
    THEN /\ trucks' = InOrder(Erased(id))
         /\ currentOrder' = Cardinality(DOMAIN Erased(id))
    ELSE UNCHANGED tmvars

TMAdd == \E id \in TruckIds, s \in Sockets :
            Cardinality(DOMAIN trucks) < MaxTrucks /\ addTruck(id, s)

TMRemove == \E id \in TruckIds : removeTruck(id)

TMNext == TMAdd \/ TMRemove

TMSpec == TMInit /\ [][TMNext]_tmvars

-----------------------------------------------------------------------------
(* Properties *)

\* Type invariant of the registry.
TMTypeOK ==
    /\ currentOrder \in Nat
    /\ \A o \in DOMAIN trucks : o \in Nat \ {0} /\ trucks[o] \in Truck

\* The counter is the number of entries and the orders have no gap, so that
\* the ++currentOrder of addTruck never lands on an occupied order, whatever
\* was removed from the middle before (the re-indexing of removeTruck).
OrdersContiguous == DOMAIN trucks = 1 .. currentOrder

\* A truck that keeps its entries keeps its socket: neither the re-indexing
\* after another truck left nor a second registration of the same id moves
\* the socket getSocketId answers with.
SocketIsStable ==
    [][\A id \in Registered :
         Cardinality(OrdersOf(id)') >= Cardinality(OrdersOf(id))
            => getSocketId(id)' = getSocketId(id)]_tmvars

\* getTrucksBehind is the rest of the line behind the first entry of the id,
\* in platoon order; for an id that is not registered it is the whole line.
BehindIsTheRestOfTheLine ==
    \A id \in TruckIds :
        getTrucksBehind(id) =
            IF id \in Registered
            THEN SubSeq(getTrucks, find(id) + 1, Len(getTrucks))
            ELSE getTrucks

Line == INSTANCE PlatoonOrder WITH platoon <- getTrucks

\* The map with its counter and re-indexing behaves as a line of trucks.
ImplementsPlatoonOrder == Line!Spec
=============================================================================
