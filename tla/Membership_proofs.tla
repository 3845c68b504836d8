-------------------------- MODULE Membership_proofs --------------------------
(***************************************************************************)
(* The proof that the leading truck implements Membership: each step of a  *)
(* connection thread, a worker or the application is one step of the       *)
(* abstract specification or none.                                         *)
(***************************************************************************)
EXTENDS LeadingTruck_proofs

phase    == [c \in TruckIds |-> Phase(c)]
admitted == accepted \cap TruckIds

LEMMA SamePhases ==
    ASSUME Registered' = Registered, UNCHANGED isAuthenticated
    PROVE  phase' = phase
  BY DEF phase, Phase

\* A removal ends the membership of a registered truck, or does nothing.
LEMMA RemovalIsALeave ==
    ASSUME OwnInv, NEW id, removeTruck(id), UNCHANGED <<isAuthenticated, accepted>>
    PROVE  Platoon!Next \/ UNCHANGED <<phase, admitted>>
<1>1. admitted' = admitted
  BY DEF admitted
<1>2. /\ Registered' \subseteq Registered
      /\ \A c \in Registered : c \in Registered' \/ c = id
  BY RemoveAddsNone, RemoveTakesOne DEF OwnInv
<1>3. CASE Registered' = Registered
  BY <1>1, <1>3, SamePhases
<1>4. CASE Registered' # Registered
  <2>1. Registered' = Registered \ {id} /\ id \in Registered
    BY <1>2, <1>4
  <2>2. id \in TruckIds /\ isAuthenticated[id]
    BY <2>1 DEF Registered, OwnInv, TMInv, Truck, NoGhostTruck
  <2>3. phase[id] = "registered"
    BY <2>1, <2>2 DEF phase, Phase
  <2>4. phase' = [phase EXCEPT ![id] = "gone"]
    BY <2>1, <2>2 DEF phase, Phase
  <2>5. Platoon!Leave(id)
    BY <1>1, <2>3, <2>4 DEF Platoon!Leave, phase, admitted
  <2> QED
    BY <2>2, <2>5 DEF Platoon!Next
<1> QED
  BY <1>3, <1>4

LEMMA AuthenticationRegisters ==
    ASSUME OwnInv, NEW c \in TruckIds, authenticateTruck(c), UNCHANGED accepted
    PROVE  Platoon!Next
<1>1. admitted' = admitted
  BY DEF admitted
<1>2. /\ fd[c] \in Sockets /\ addTruck(c, fd[c]) /\ ~isAuthenticated[c]
      /\ isAuthenticated' = [isAuthenticated EXCEPT ![c] = TRUE]
      /\ isAuthenticated \in [TruckIds -> BOOLEAN]
  BY DEF OwnInv, authenticateTruck, Receive
<1>3. Registered' = Registered \cup {c}
  BY <1>2, AddTakesNone DEF OwnInv
<1>4. phase[c] = "outside" /\ phase' = [phase EXCEPT ![c] = "registered"]
  BY <1>2, <1>3 DEF phase, Phase
<1>5. Platoon!Register(c)
  BY <1>1, <1>4 DEF Platoon!Register, phase, admitted
<1> QED
  BY <1>5 DEF Platoon!Next

LEMMA ServerIsMembership ==
    ASSUME OwnInv, Server
    PROVE  Platoon!Next \/ UNCHANGED <<phase, admitted>>
<1>1. UNCHANGED accepted
  BY DEF Server, emvars, history
<1>2. PICK c \in TruckIds :
         \/ accept(c) \/ authenticateTruck(c)
         \/ \E why \in Rejections : rejectMessage(c, why)
         \/ \E r \in Requests : enqueueMessage(c, r)
         \/ closeSocket(c) \/ replyAuthOk(c) \/ removeClosed(c)
  BY DEF Server, PSNext, PSThread
<1>3. ASSUME UNCHANGED <<tmvars, isAuthenticated>>
      PROVE  UNCHANGED <<phase, admitted>>
  BY <1>1, <1>3, SamePhases DEF tmvars, Registered, admitted
<1>4. CASE removeClosed(c)
  BY <1>1, <1>3, <1>4, RemovalIsALeave DEF removeClosed
<1> QED
  BY <1>1, <1>2, <1>3, <1>4, AuthenticationRegisters
     DEF accept, rejectMessage, enqueueMessage, closeSocket, replyAuthOk

\* A granted join is that of a connection that authenticated, so of one that is
\* or was registered; a test message joins nobody.
LEMMA JoinIsAnAdmission ==
    ASSUME MsgInv, NEW w \in Workers, joinCheck(w)
    PROVE  Platoon!Next \/ UNCHANGED <<phase, admitted>>
<1>1. phase' = phase
  BY SamePhases DEF joinCheck, tmvars, Registered, psvars, connvars
<1>2. CASE accepted' = accepted
  BY <1>1, <1>2 DEF admitted
<1>3. CASE accepted' = accepted \cup {msg[w].id} /\ msg[w].id \notin TruckIds
  BY <1>1, <1>3 DEF admitted
<1>4. CASE accepted' = accepted \cup {msg[w].id} /\ msg[w].id \in TruckIds
  <2>1. isAuthenticated[msg[w].id]
    BY <1>4, RequestAssumption DEF MsgInv, KnownMessage, Known, Threads
  <2>2. phase[msg[w].id] # "outside"
    BY <1>4, <2>1 DEF phase, Phase
  <2>3. Platoon!Admit(msg[w].id)
    BY <1>1, <1>4, <2>2 DEF Platoon!Admit, phase, admitted
  <2> QED
    BY <1>4, <2>3 DEF Platoon!Next
<1> QED
  BY <1>2, <1>3, <1>4 DEF joinCheck

LEMMA WorkerIsMembership ==
    ASSUME OwnInv, MsgInv, NEW w \in Workers, processCommands(w)
    PROVE  Platoon!Next \/ UNCHANGED <<phase, admitted>>
<1>1. CASE joinCheck(w)
  BY <1>1, JoinIsAnAdmission
<1>2. CASE leaveEntry(w)
  <2>1. UNCHANGED <<isAuthenticated, accepted>>
    BY <1>2 DEF leaveEntry, psvars, connvars
  <2>2. CASE removeTruck(msg[w].id)
    BY <2>1, <2>2, RemovalIsALeave
  <2>3. CASE UNCHANGED tmvars
    BY <2>1, <2>3, SamePhases DEF tmvars, Registered, admitted
  <2> QED
    BY <1>2, <2>2, <2>3 DEF leaveEntry
<1>3. CASE ~joinCheck(w) /\ ~leaveEntry(w)
  <2>1. UNCHANGED <<trucks, isAuthenticated>>
    BY <1>3, OtherStepsLeaveRegistry DEF regvars
  <2>2. UNCHANGED accepted
    <3>1. CASE Dequeue(w)
      BY <3>1 DEF Dequeue, history
    <3> QED
      BY <1>3, <3>1, OtherStepsLeaveMessages
  <2> QED
    BY <2>1, <2>2, SamePhases DEF Registered, admitted
<1> QED
  BY <1>1, <1>2, <1>3

LEMMA MembershipInit == Init => Platoon!Init
  BY DEF Init, TMInit, PSInit, EMInit, Platoon!Init, Phase, Registered

LEMMA MembershipStep ==
    OwnInv /\ MsgInv /\ [Next]_vars => [Platoon!Next]_<<phase, admitted>>
<1> SUFFICES ASSUME OwnInv, MsgInv, [Next]_vars
             PROVE  Platoon!Next \/ UNCHANGED <<phase, admitted>>
  OBVIOUS
<1>1. CASE Server
  BY <1>1, ServerIsMembership
<1>2. CASE appThread
  BY <1>2, AppLeavesMessages, AppLeavesRegistry, SamePhases
     DEF regvars, Registered, admitted
<1>3. CASE \E w \in Workers : processCommands(w)
  BY <1>3, WorkerIsMembership
<1>4. CASE UNCHANGED vars
  BY <1>4, SamePhases DEF vars, connvars, emvars, history, tmvars, Registered, admitted
<1> QED
  BY <1>1, <1>2, <1>3, <1>4 DEF Next

\* For any number of trucks, workers' backlogs and reused descriptors, the
\* leading truck registers a connection once, grants a join only after that,
\* and never takes a truck back that it removed.
THEOREM LeaderImplementsMembership == Spec => ImplementsMembership
<1>1. [Platoon!Next]_<<phase, admitted>> <=> [Platoon!Next]_(Platoon!vars)
  BY DEF Platoon!vars, phase, admitted
<1> QED
  BY <1>1, OwnInit, OwnStep, MsgInit, MsgStep, MembershipInit, MembershipStep, PTL
     DEF Spec, ImplementsMembership, Platoon!Spec
=============================================================================
