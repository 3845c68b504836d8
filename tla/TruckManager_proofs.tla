------------------------- MODULE TruckManager_proofs -------------------------
(***************************************************************************)
(* Proofs about the registry, for every set of ids and sockets.            *)
(***************************************************************************)
EXTENDS TruckManager, FiniteSetTheorems, WellFoundedInduction, TLAPS

\* The inductive invariant: the map is a function on 1 .. currentOrder.  The
\* type invariant alone is not inductive, since it lets the counter point at
\* an order that is taken.
TMInv == /\ currentOrder \in Nat
         /\ trucks \in [1 .. currentOrder -> Truck]

-----------------------------------------------------------------------------
(* Walking a map in key order *)

\* The orders up to k that 1 .. n with r taken out has.
LEMMA RankWithGap ==
    ASSUME NEW n \in Nat, NEW r \in 1 .. n, NEW o \in (1 .. n) \ {r}
    PROVE  Rank((1 .. n) \ {r}, o) = IF o < r THEN o ELSE o - 1
<1> DEFINE Below == {p \in (1 .. n) \ {r} : p <= o}
<1>1. CASE o < r
  <2>1. Below = 1 .. o
    BY <1>1
  <2>2. Cardinality(1 .. o) = o
    BY FS_Interval
  <2> QED
    BY <1>1, <2>1, <2>2 DEF Rank
<1>2. CASE ~(o < r)
  <2>1. Below = (1 .. o) \ {r}
    BY <1>2
  <2>2. IsFiniteSet(1 .. o) /\ Cardinality(1 .. o) = o /\ r \in 1 .. o
    BY <1>2, FS_Interval
  <2>3. Cardinality((1 .. o) \ {r}) = o - 1
    BY <2>2, FS_RemoveElement
  <2> QED
    BY <1>2, <2>1, <2>3 DEF Rank
<1> QED
  BY <1>1, <1>2

\* The orders of a map without a gap rank as themselves.
LEMMA RankWithoutGap ==
    ASSUME NEW n \in Nat, NEW o \in 1 .. n
    PROVE  Rank(1 .. n, o) = o
<1>1. {p \in 1 .. n : p <= o} = 1 .. o
  OBVIOUS
<1>2. Cardinality(1 .. o) = o
  BY FS_Interval
<1> QED
  BY <1>1, <1>2 DEF Rank

\* Walking a map whose orders are 1 .. n gives the map back.
LEMMA InOrderWithoutGap ==
    ASSUME NEW n \in Nat, NEW S, NEW f \in [1 .. n -> S]
    PROVE  InOrder(f) = f
<1>1. DOMAIN f = 1 .. n /\ Cardinality(1 .. n) = n
  BY FS_Interval
<1>2. \A i \in 1 .. n : AtRank(1 .. n, i) = i
  <2> TAKE i \in 1 .. n
  <2>1. \A o \in 1 .. n : Rank(1 .. n, o) = o
    BY RankWithoutGap
  <2> QED
    BY <2>1 DEF AtRank
<1> QED
  BY <1>1, <1>2 DEF InOrder

\* Walking a map whose orders are 1 .. n except r closes the gap at r.
LEMMA InOrderWithGap ==
    ASSUME NEW n \in Nat, NEW r \in 1 .. n, NEW f, DOMAIN f = (1 .. n) \ {r}
    PROVE  /\ Cardinality(DOMAIN f) = n - 1
           /\ InOrder(f) = [i \in 1 .. n - 1 |-> IF i < r THEN f[i] ELSE f[i + 1]]
<1> DEFINE D == (1 .. n) \ {r}
<1>1. DOMAIN f = D
  OBVIOUS
<1>2. Cardinality(D) = n - 1
  <2>1. IsFiniteSet(1 .. n) /\ Cardinality(1 .. n) = n
    BY FS_Interval
  <2> QED
    BY <2>1, FS_RemoveElement
<1>3. \A o \in D : Rank(D, o) = IF o < r THEN o ELSE o - 1
  BY RankWithGap
<1> HIDE DEF D
<1>4. \A i \in 1 .. n - 1 : AtRank(D, i) = IF i < r THEN i ELSE i + 1
  <2> TAKE i \in 1 .. n - 1
  <2> DEFINE w == IF i < r THEN i ELSE i + 1
  <2>1. w \in D
    BY DEF D
  <2>2. Rank(D, w) = i
    BY <1>3, <2>1
  <2>3. \A o \in D : Rank(D, o) = i => o = w
    BY <1>3 DEF D
  <2> QED
    BY <2>1, <2>2, <2>3 DEF AtRank
<1> QED
  BY <1>1, <1>2, <1>4 DEF InOrder

-----------------------------------------------------------------------------
(* The methods *)

\* A non-empty set of orders has a first one.
LEMMA FirstOrder ==
    ASSUME NEW T, T \subseteq Nat, T # {}
    PROVE  \E o \in T : \A p \in T : o <= p
<1>1. PICK o \in T : \A p \in T : ~(<<p, o>> \in OpToRel(<, Nat))
  BY WFMin, NatLessThanWellFounded, Zenon
<1>2. \A p \in T : ~(p < o)
  BY <1>1 DEF OpToRel
<1> QED
  BY <1>2

\* find answers with the first entry of a registered truck.
LEMMA FindFirst ==
    ASSUME TMInv, NEW id, id \in Registered
    PROVE  /\ find(id) \in 1 .. currentOrder
           /\ trucks[find(id)].id = id
           /\ \A p \in 1 .. find(id) - 1 : trucks[p].id # id
<1>1. OrdersOf(id) \subseteq 1 .. currentOrder /\ OrdersOf(id) # {}
  BY DEF TMInv, OrdersOf, Registered
<1>2. \E o \in OrdersOf(id) : \A p \in OrdersOf(id) : o <= p
  BY <1>1, FirstOrder DEF TMInv
<1>3. /\ find(id) \in OrdersOf(id)
      /\ \A p \in OrdersOf(id) : find(id) <= p
  BY <1>2 DEF find
<1> QED
  BY <1>1, <1>3 DEF OrdersOf, TMInv

\* addTruck appends: the new truck gets the next order, all others keep theirs.
LEMMA AddAppends ==
    ASSUME TMInv, NEW id \in TruckIds, NEW s \in Sockets, addTruck(id, s)
    PROVE  /\ currentOrder' = currentOrder + 1
           /\ trucks' = [o \in 1 .. currentOrder + 1 |->
                           IF o = currentOrder + 1
                           THEN [id |-> id, socket |-> s] ELSE trucks[o]]
<1>1. DOMAIN trucks \cup {currentOrder + 1} = 1 .. currentOrder + 1
  BY DEF TMInv
<1> QED
  BY <1>1 DEF addTruck

\* removeTruck closes the gap left by the first entry of the truck.
LEMMA RemoveClosesGap ==
    ASSUME TMInv, NEW id, id \in Registered, removeTruck(id)
    PROVE  /\ currentOrder' = currentOrder - 1
           /\ trucks' = [i \in 1 .. currentOrder - 1 |->
                           IF i < find(id) THEN trucks[i] ELSE trucks[i + 1]]
<1> DEFINE n == currentOrder
           r == find(id)
           f == Erased(id)
<1>1. n \in Nat /\ r \in 1 .. n /\ trucks \in [1 .. n -> Truck]
  BY FindFirst DEF TMInv
<1>2. f = [o \in (1 .. n) \ {r} |-> trucks[o]]
  BY <1>1 DEF Erased
<1>3. DOMAIN f = (1 .. n) \ {r}
  BY <1>2
<1>4. \A i \in 1 .. n - 1 : IF i < r THEN f[i] = trucks[i] ELSE f[i + 1] = trucks[i + 1]
  BY <1>1, <1>2
<1>5. trucks' = InOrder(f) /\ currentOrder' = Cardinality(DOMAIN f)
  BY DEF removeTruck
<1> HIDE DEF n, r, f
<1>6. /\ Cardinality(DOMAIN f) = n - 1
      /\ InOrder(f) = [i \in 1 .. n - 1 |-> IF i < r THEN f[i] ELSE f[i + 1]]
  BY <1>1, <1>3, InOrderWithGap
<1>7. InOrder(f) = [i \in 1 .. n - 1 |-> IF i < r THEN trucks[i] ELSE trucks[i + 1]]
  <2>1. \A i \in 1 .. n - 1 : (IF i < r THEN f[i] ELSE f[i + 1])
                                = IF i < r THEN trucks[i] ELSE trucks[i + 1]
    BY <1>4
  <2> QED
    BY <1>6, <2>1
<1> QED
  BY <1>5, <1>6, <1>7 DEF n, r

LEMMA AddKeepsInv ==
    ASSUME TMInv, NEW id \in TruckIds, NEW s \in Sockets, addTruck(id, s)
    PROVE  TMInv'
<1>1. [id |-> id, socket |-> s] \in Truck
  BY DEF Truck
<1> QED
  BY <1>1, AddAppends DEF TMInv

LEMMA RemoveKeepsInv ==
    ASSUME TMInv, NEW id, removeTruck(id)
    PROVE  TMInv'
<1>1. CASE id \in Registered
  <2>1. find(id) \in 1 .. currentOrder
    BY <1>1, FindFirst
  <2>2. currentOrder - 1 \in Nat
    BY <2>1 DEF TMInv
  <2> QED
    BY <1>1, <2>1, <2>2, RemoveClosesGap DEF TMInv
<1>2. CASE id \notin Registered
  BY <1>2 DEF removeTruck, tmvars, TMInv
<1> QED
  BY <1>1, <1>2

-----------------------------------------------------------------------------
(* The invariants *)

LEMMA TMInitInv == TMInit => TMInv
  BY DEF TMInit, TMInv

LEMMA TMStepInv == TMInv /\ [TMNext]_tmvars => TMInv'
<1> SUFFICES ASSUME TMInv, [TMNext]_tmvars PROVE TMInv'
  OBVIOUS
<1>1. CASE TMAdd
  BY <1>1, AddKeepsInv DEF TMAdd
<1>2. CASE TMRemove
  BY <1>2, RemoveKeepsInv DEF TMRemove
<1>3. CASE UNCHANGED tmvars
  BY <1>3 DEF tmvars, TMInv
<1> QED
  BY <1>1, <1>2, <1>3 DEF TMNext

LEMMA TMInvariance == TMSpec => []TMInv
  BY TMInitInv, TMStepInv, PTL DEF TMSpec

\* The registry is always a map from positive orders to an id and a socket.
THEOREM TypeCorrect == TMSpec => []TMTypeOK
<1>1. TMInv => TMTypeOK
  BY DEF TMInv, TMTypeOK
<1> QED
  BY <1>1, TMInvariance, PTL

\* The orders never have a gap: ++currentOrder never overwrites a truck.
THEOREM Contiguous == TMSpec => []OrdersContiguous
<1>1. TMInv => OrdersContiguous
  BY DEF TMInv, OrdersContiguous
<1> QED
  BY <1>1, TMInvariance, PTL

-----------------------------------------------------------------------------
(* The registry is a line of trucks *)

\* Without gaps the walk of the map is the map.
LEMMA LineIsTheMap == TMInv => getTrucks = trucks /\ Len(getTrucks) = currentOrder
<1> SUFFICES ASSUME TMInv PROVE getTrucks = trucks /\ Len(getTrucks) = currentOrder
  OBVIOUS
<1>1. getTrucks = trucks
  BY InOrderWithoutGap DEF TMInv, getTrucks
<1>2. trucks \in Seq(Truck) /\ Len(trucks) = currentOrder
  BY DEF TMInv
<1> QED
  BY <1>1, <1>2

\* The same after a step.
LEMMA LineIsTheMapNext == TMInv' => (getTrucks)' = trucks'
  BY InOrderWithoutGap DEF TMInv, getTrucks

LEMMA AddIsAddAtTail ==
    ASSUME TMInv, TMInv', NEW id \in TruckIds, NEW s \in Sockets, addTruck(id, s)
    PROVE  Line!AddAtTail(id, s)
<1>1. getTrucks = trucks /\ (getTrucks)' = trucks'
  BY LineIsTheMap, LineIsTheMapNext
<1>2. trucks \in Seq(Truck) /\ Len(trucks) = currentOrder
  BY DEF TMInv
<1>3. trucks' = Append(trucks, [id |-> id, socket |-> s])
  BY <1>2, AddAppends
<1> QED
  BY <1>1, <1>3 DEF Line!AddAtTail

LEMMA RemoveIsRemoveFirst ==
    ASSUME TMInv, TMInv', NEW id, id \in Registered, removeTruck(id)
    PROVE  Line!RemoveFirst(id)
<1>1. getTrucks = trucks /\ (getTrucks)' = trucks'
  BY LineIsTheMap, LineIsTheMapNext
<1>2. Len(trucks) = currentOrder
  BY LineIsTheMap
<1>3. /\ find(id) \in 1 .. Len(trucks)
      /\ trucks[find(id)].id = id
      /\ \A p \in 1 .. find(id) - 1 : trucks[p].id # id
  BY <1>2, FindFirst
<1>4. trucks' = Line!CloseUp(trucks, find(id))
  BY <1>2, RemoveClosesGap DEF Line!CloseUp
<1> QED
  BY <1>1, <1>3, <1>4 DEF Line!RemoveFirst

\* For every set of ids and sockets the ordered map with its counter and its
\* re-indexing implements the abstract line of trucks.
THEOREM RegistryImplementsLine == TMSpec => ImplementsPlatoonOrder
<1>1. TMInit => Line!Init
  <2> SUFFICES ASSUME TMInit PROVE getTrucks = <<>>
    BY DEF Line!Init
  <2>1. getTrucks = trucks
    BY TMInitInv, LineIsTheMap
  <2> QED
    BY <2>1 DEF TMInit
<1>2. TMInv /\ TMInv' /\ [TMNext]_tmvars => [Line!Next]_getTrucks
  <2> SUFFICES ASSUME TMInv, TMInv', [TMNext]_tmvars
               PROVE  [Line!Next]_getTrucks
    OBVIOUS
  <2>1. CASE TMAdd
    <3>1. PICK id \in TruckIds, s \in Sockets : addTruck(id, s)
      BY <2>1 DEF TMAdd
    <3>2. Line!AddAtTail(id, s)
      BY <3>1, AddIsAddAtTail
    <3> QED
      BY <3>2 DEF Line!Next
  <2>2. CASE TMRemove
    <3>1. PICK id \in TruckIds : removeTruck(id)
      BY <2>2 DEF TMRemove
    <3>2. CASE id \in Registered
      BY <3>1, <3>2, RemoveIsRemoveFirst DEF Line!Next
    <3>3. CASE id \notin Registered
      BY <3>1, <3>3, LineIsTheMap, LineIsTheMapNext DEF removeTruck, tmvars
    <3> QED
      BY <3>2, <3>3
  <2>3. CASE UNCHANGED tmvars
    BY <2>3, LineIsTheMap, LineIsTheMapNext DEF tmvars
  <2> QED
    BY <2>1, <2>2, <2>3 DEF TMNext
<1> QED
  BY <1>1, <1>2, TMInvariance, PTL DEF TMSpec, ImplementsPlatoonOrder, Line!Spec

-----------------------------------------------------------------------------
(* Sockets do not move *)

\* Where find points after a removal of another truck.
LEMMA FindAfterRemove ==
    ASSUME TMInv, NEW id, id \in Registered, removeTruck(id), NEW c \in Registered, c # id
    PROVE  getSocketId(c)' = getSocketId(c)
<1> DEFINE n == currentOrder
           r == find(id)
           f == find(c)
           g == IF f < r THEN f ELSE f - 1
<1>1. /\ n \in Nat /\ DOMAIN trucks = 1 .. n
      /\ r \in 1 .. n /\ trucks[r].id = id
      /\ f \in 1 .. n /\ trucks[f].id = c /\ \A p \in 1 .. f - 1 : trucks[p].id # c
  BY FindFirst DEF TMInv
<1>2. trucks' = [i \in 1 .. n - 1 |-> IF i < r THEN trucks[i] ELSE trucks[i + 1]]
  BY RemoveClosesGap
<1> HIDE DEF n, r, f
<1>3. g \in 1 .. n - 1 /\ trucks'[g] = trucks[f]
  <2>1. CASE f < r
    BY <1>1, <1>2, <2>1
  <2>2. CASE f > r
    <3>1. f - 1 \in 1 .. n - 1 /\ ~(f - 1 < r) /\ (f - 1) + 1 = f
      BY <1>1, <2>2
    <3>2. g = f - 1
      BY <1>1, <2>2
    <3>3. trucks'[f - 1] = trucks[f]
      BY <1>2, <3>1
    <3> QED
      BY <3>1, <3>2, <3>3
  <2> QED
    BY <1>1, <2>1, <2>2
<1>4. \A p \in 1 .. n - 1 : trucks'[p].id = c => g <= p
  <2> SUFFICES ASSUME NEW p \in 1 .. n - 1, p < g, trucks'[p].id = c PROVE FALSE
    BY <1>1, <1>3
  <2>1. CASE p < r
    BY <1>1, <1>2, <1>3, <2>1
  <2>2. CASE ~(p < r)
    <3>1. p + 1 \in 1 .. f - 1 /\ trucks'[p] = trucks[p + 1]
      BY <1>1, <1>2, <1>3, <2>2
    <3> QED
      BY <1>1, <3>1
  <2> QED
    BY <2>1, <2>2
<1>5. DOMAIN trucks' = 1 .. n - 1
  BY <1>2
<1> HIDE DEF g
<1>6. c \in Registered'
  BY <1>1, <1>3, <1>5 DEF Registered
<1>7. find(c)' = g
  <2>1. g \in OrdersOf(c)' /\ \A p \in OrdersOf(c)' : g <= p
    BY <1>1, <1>3, <1>4, <1>5 DEF OrdersOf
  <2>2. \A o \in OrdersOf(c)' : (\A p \in OrdersOf(c)' : o <= p) => o = g
    BY <1>1, <1>5, <2>1 DEF OrdersOf
  <2> QED
    BY <1>6, <2>1, <2>2 DEF find
<1> QED
  BY <1>3, <1>6, <1>7 DEF getSocketId, f

\* An addition leaves the first entry of every truck where it is.
LEMMA FindAfterAdd ==
    ASSUME TMInv, NEW id \in TruckIds, NEW s \in Sockets, addTruck(id, s),
           NEW c \in Registered
    PROVE  getSocketId(c)' = getSocketId(c)
<1> DEFINE n == currentOrder
           f == find(c)
<1>1. /\ n \in Nat /\ DOMAIN trucks = 1 .. n
      /\ f \in 1 .. n /\ trucks[f].id = c /\ \A p \in 1 .. f - 1 : trucks[p].id # c
  BY FindFirst DEF TMInv
<1>2. trucks' = [o \in 1 .. n + 1 |->
                   IF o = n + 1 THEN [id |-> id, socket |-> s] ELSE trucks[o]]
  BY AddAppends
<1> HIDE DEF n, f
<1>3. DOMAIN trucks' = 1 .. n + 1 /\ \A o \in 1 .. n : trucks'[o] = trucks[o]
  BY <1>1, <1>2
<1>4. f \in 1 .. n + 1 /\ trucks'[f] = trucks[f]
  BY <1>1, <1>3
<1>5. \A p \in 1 .. n + 1 : trucks'[p].id = c => f <= p
  <2> SUFFICES ASSUME NEW p \in 1 .. n + 1, trucks'[p].id = c, p < f PROVE FALSE
    BY <1>1
  <2>1. p \in 1 .. n /\ p \in 1 .. f - 1
    BY <1>1
  <2> QED
    BY <1>1, <1>3, <2>1
<1>6. c \in Registered'
  BY <1>1, <1>3, <1>4 DEF Registered
<1>7. find(c)' = f
  <2>1. f \in OrdersOf(c)' /\ \A p \in OrdersOf(c)' : f <= p
    BY <1>1, <1>3, <1>4, <1>5 DEF OrdersOf
  <2>2. \A o \in OrdersOf(c)' : (\A p \in OrdersOf(c)' : o <= p) => o = f
    BY <1>1, <1>3, <2>1 DEF OrdersOf
  <2> QED
    BY <1>6, <2>1, <2>2 DEF find
<1> QED
  BY <1>4, <1>6, <1>7 DEF getSocketId, f

\* A truck that is removed has one entry less.
LEMMA RemoveTakesAnEntry ==
    ASSUME TMInv, NEW c, c \in Registered, removeTruck(c)
    PROVE  Cardinality(OrdersOf(c)') < Cardinality(OrdersOf(c))
<1> DEFINE n == currentOrder
           r == find(c)
           S == OrdersOf(c)
           T == OrdersOf(c)'
           h == [i \in T |-> IF i < r THEN i ELSE i + 1]
<1>1. n \in Nat /\ DOMAIN trucks = 1 .. n /\ r \in 1 .. n /\ r \in S
  BY FindFirst DEF TMInv, OrdersOf
<1>2. trucks' = [i \in 1 .. n - 1 |-> IF i < r THEN trucks[i] ELSE trucks[i + 1]]
  BY RemoveClosesGap
<1>3. S \subseteq 1 .. n /\ \A o \in 1 .. n : o \in S <=> trucks[o].id = c
  BY <1>1 DEF OrdersOf
<1>4. T \subseteq 1 .. n - 1 /\ \A i \in T : trucks'[i].id = c
  BY <1>2 DEF OrdersOf
<1> HIDE DEF n, r, S, T
<1>5. h \in Injection(T, S \ {r})
  <2>1. \A i \in T : h[i] \in S \ {r}
    <3> SUFFICES ASSUME NEW i \in T PROVE h[i] \in S \ {r}
      OBVIOUS
    <3>1. CASE i < r
      <4>1. i \in 1 .. n /\ i # r /\ trucks'[i] = trucks[i]
        BY <1>1, <1>2, <1>4, <3>1
      <4> QED
        BY <1>3, <1>4, <3>1, <4>1
    <3>2. CASE ~(i < r)
      <4>1. i + 1 \in 1 .. n /\ i + 1 # r /\ trucks'[i] = trucks[i + 1]
        BY <1>1, <1>2, <1>4, <3>2
      <4> QED
        BY <1>3, <1>4, <3>2, <4>1
    <3> QED
      BY <3>1, <3>2
  <2>2. \A i, j \in T : h[i] = h[j] => i = j
    BY <1>1, <1>4
  <2> QED
    BY <2>1, <2>2 DEF Injection, IsInjective
<1>6. IsFiniteSet(S)
  <2>1. IsFiniteSet(1 .. n)
    BY <1>1, FS_Interval
  <2> QED
    BY <1>3, <2>1, FS_Subset
<1>7. IsFiniteSet(S \ {r}) /\ Cardinality(S \ {r}) = Cardinality(S) - 1
  BY <1>1, <1>6, FS_RemoveElement
<1>8. IsFiniteSet(T) /\ Cardinality(T) <= Cardinality(S \ {r})
  BY <1>5, <1>7, FS_Injection
<1>9. Cardinality(S) \in Nat /\ Cardinality(T) \in Nat
  BY <1>6, <1>8, FS_CardinalityType
<1>10. Cardinality(T) < Cardinality(S)
  BY <1>7, <1>8, <1>9
<1> QED
  BY <1>10 DEF S, T

LEMMA SocketAfterRemove ==
    ASSUME TMInv, NEW id \in TruckIds, removeTruck(id), NEW c \in Registered,
           Cardinality(OrdersOf(c)') >= Cardinality(OrdersOf(c))
    PROVE  getSocketId(c)' = getSocketId(c)
<1>1. CASE id \notin Registered
  BY <1>1 DEF removeTruck, tmvars, getSocketId, Registered, find, OrdersOf
<1>2. CASE id \in Registered /\ id # c
  BY <1>2, FindAfterRemove
<1>3. CASE id = c
  <2>1. Cardinality(OrdersOf(c)') < Cardinality(OrdersOf(c))
    BY <1>3, RemoveTakesAnEntry
  <2>2. TMInv'
    BY RemoveKeepsInv
  <2>3. Cardinality(OrdersOf(c)) \in Nat /\ Cardinality(OrdersOf(c)') \in Nat
    <3>1. OrdersOf(c) \subseteq 1 .. currentOrder /\ OrdersOf(c)' \subseteq 1 .. currentOrder'
      BY <2>2 DEF TMInv, OrdersOf
    <3>2. IsFiniteSet(1 .. currentOrder) /\ IsFiniteSet(1 .. currentOrder')
      BY <2>2, FS_Interval DEF TMInv
    <3> QED
      BY <3>1, <3>2, FS_Subset, FS_CardinalityType
  <2> QED
    BY <2>1, <2>3
<1> QED
  BY <1>1, <1>2, <1>3

LEMMA SocketStep ==
    ASSUME TMInv, TMNext, NEW c \in Registered,
           Cardinality(OrdersOf(c)') >= Cardinality(OrdersOf(c))
    PROVE  getSocketId(c)' = getSocketId(c)
  BY FindAfterAdd, SocketAfterRemove DEF TMNext, TMAdd, TMRemove

\* A truck keeps the socket it is answered on for as long as it keeps its
\* entries, whoever joins or leaves meanwhile.
THEOREM SocketsDoNotMove == TMSpec => SocketIsStable
<1>1. TMInv /\ [TMNext]_tmvars =>
        [\A id \in Registered :
           Cardinality(OrdersOf(id)') >= Cardinality(OrdersOf(id))
              => getSocketId(id)' = getSocketId(id)]_tmvars
  BY SocketStep
<1> QED
  BY <1>1, TMInvariance, PTL DEF TMSpec, SocketIsStable

-----------------------------------------------------------------------------
(* The trucks behind *)

\* Walking a map whose orders are k + 1 .. n.
LEMMA InOrderOfTail ==
    ASSUME NEW n \in Nat, NEW k \in 0 .. n, NEW f, DOMAIN f = k + 1 .. n
    PROVE  InOrder(f) = [i \in 1 .. n - k |-> f[k + i]]
<1> DEFINE D == k + 1 .. n
<1>1. DOMAIN f = D
  OBVIOUS
<1>2. Cardinality(D) = n - k
  <2>1. k + 1 \in Int /\ n \in Int
    OBVIOUS
  <2>2. Cardinality(k + 1 .. n) = IF k + 1 > n THEN 0 ELSE n - (k + 1) + 1
    BY <2>1, FS_Interval
  <2> QED
    BY <2>2
<1>3. ASSUME NEW o \in D PROVE Rank(D, o) = o - k
  <2>1. {p \in D : p <= o} = k + 1 .. o
    OBVIOUS
  <2>2. Cardinality(k + 1 .. o) = o - k
    BY FS_Interval
  <2> QED
    BY <2>1, <2>2 DEF Rank
<1>4. \A i \in 1 .. n - k : AtRank(D, i) = k + i
  <2> TAKE i \in 1 .. n - k
  <2>1. k + i \in D /\ Rank(D, k + i) = i
    BY <1>3
  <2>2. \A o \in D : Rank(D, o) = i => o = k + i
    BY <1>3
  <2> HIDE DEF D
  <2> QED
    BY <2>1, <2>2 DEF AtRank
<1> HIDE DEF D
<1> QED
  BY <1>1, <1>2, <1>4 DEF InOrder

\* getTrucksBehind answers with the rest of the line, or with all of it for a
\* truck that is not registered.
THEOREM BehindIsTheRest == TMSpec => []BehindIsTheRestOfTheLine
<1>1. TMInv => BehindIsTheRestOfTheLine
  <2> SUFFICES ASSUME TMInv, NEW id \in TruckIds
               PROVE  getTrucksBehind(id) =
                        IF id \in Registered
                        THEN SubSeq(getTrucks, find(id) + 1, Len(getTrucks))
                        ELSE getTrucks
    BY DEF BehindIsTheRestOfTheLine
  <2> DEFINE n == currentOrder
  <2>1. /\ n \in Nat /\ trucks \in [1 .. n -> Truck] /\ DOMAIN trucks = 1 .. n
        /\ getTrucks = trucks /\ Len(getTrucks) = n
    BY LineIsTheMap DEF TMInv
  <2>2. CASE id \in Registered
    <3> DEFINE k == find(id)
               f == [o \in {p \in DOMAIN trucks : p > k} |-> trucks[o]]
    <3>1. k \in 1 .. n
      BY <2>2, FindFirst
    <3> HIDE DEF n, k
    <3>2. f \in [k + 1 .. n -> Truck] /\ \A i \in 1 .. n - k : f[k + i] = trucks[k + i]
      BY <2>1, <3>1
    <3> HIDE DEF f
    <3>3. InOrder(f) = [i \in 1 .. n - k |-> f[k + i]]
      <4>1. n \in Nat /\ k \in 0 .. n
        BY <2>1, <3>1
      <4>2. DOMAIN f = k + 1 .. n
        BY <3>2
      <4> QED
        BY ONLY <4>1, <4>2, InOrderOfTail
    <3>4. InOrder(f) = SubSeq(trucks, k + 1, n)
      <4>1. SubSeq(trucks, k + 1, n) = [i \in 1 .. n - k |-> trucks[k + i]]
        <5>1. trucks \in Seq(Truck) /\ Len(trucks) = n
          BY <2>1
        <5> QED
          BY <2>1, <3>1, <5>1
      <4> QED
        BY <3>2, <3>3, <4>1
    <3> QED
      BY <2>1, <2>2, <3>4 DEF getTrucksBehind, f, k
  <2>3. CASE id \notin Registered
    <3>1. find(id) = -1
      BY <2>3 DEF find, NoOrder
    <3>2. {p \in DOMAIN trucks : p > -1} = DOMAIN trucks
      BY <2>1
    <3>3. [o \in DOMAIN trucks |-> trucks[o]] = trucks
      BY <2>1
    <3> QED
      BY <2>3, <3>1, <3>2, <3>3 DEF getTrucksBehind, getTrucks
  <2> QED
    BY <2>2, <2>3
<1> QED
  BY <1>1, TMInvariance, PTL
=============================================================================
