----------------------- MODULE ClientMembership_proofs -----------------------
(***************************************************************************)
(* The proof that a following truck, however often it asks, retries,       *)
(* leaves, is dropped or comes back, takes the leader through the protocol *)
(* of Membership and no other: each step of the leader is one step of it,  *)
(* or none, and the truck's own steps are none.                            *)
(***************************************************************************)
EXTENDS FollowingTruck_proofs

phase == [c \in Conns |-> IF c \in registered THEN "registered"
                          ELSE IF c \in enrolled THEN "gone" ELSE "outside"]

Kept == UNCHANGED <<registered, enrolled, accepted>>

\* Only the leader writes its registry.
LEMMA CallsKeep ==
    ASSUME NEW c, NEW mess, NEW ok, NEW users, NEW connected,
           \/ sendMessage(mess, ok) \/ receiveTCPMessage(c, mess) \/ receiveUDPMessage(c)
           \/ startClient(users, connected, ok) \/ closeClientSocket \/ UNCHANGED clvars
    PROVE  Kept
  BY DEF Kept, sendMessage, receiveTCPMessage, receiveUDPMessage, startClient,
         closeClientSocket, leader, members, clvars

LEMMA SendStepKeeps ==
    ASSUME NEW t, NEW from, NEW cmd, NEW sent, NEW failed,
           Send(t, from, cmd, sent, failed) \/ SendLast(t, from, cmd, sent, failed)
    PROVE  Kept
  BY CallsKeep DEF Send, SendLast, Killed

LEMMA AnswerStepKeeps ==
    ASSUME NEW from, NEW expected, NEW good, NEW bad, Answer_(from, expected, good, bad)
    PROVE  Kept
  BY CallsKeep DEF Answer_

LEMMA FSMStepKeeps == ASSUME following_fsm PROVE Kept
<1>1. CASE askToConnect
  BY <1>1, CallsKeep DEF askToConnect
<1>2. CASE askAuth \/ join \/ joinDone \/ lostSend \/ leave \/ leaveDone
  BY <1>2, SendStepKeeps DEF askAuth, join, joinDone, lostSend, leave, leaveDone
<1>3. CASE authAnswer \/ joinAnswer \/ leaveAnswer
  BY <1>3, AnswerStepKeeps DEF authAnswer, joinAnswer, leaveAnswer
<1>4. CASE closeSockets
  BY <1>4, CallsKeep DEF closeSockets
<1>5. CASE \/ stepOn \/ saveStep \/ idle \/ authDone \/ joinUpdate \/ createThreads
           \/ joinFailed \/ normalOperation \/ slowDown \/ emergencyBrake \/ lost
           \/ lostReset \/ recovered \/ joinThread \/ initTruck \/ toIdle \/ leaveFailed
  <2>1. UNCHANGED clvars
    BY <1>5 DEF stepOn, saveStep, fsmStep, idle, authDone, joinUpdate, updateCurrentStatus,
       createThreads, joinFailed, normalOperation, Look, slowDown, SetNext, emergencyBrake,
       brake, brakeLook, brakeEnd, brakeResult, lost, lostReset, recovered, joinThread,
       initTruck, toIdle, leaveFailed
  <2> QED
    BY <2>1, CallsKeep
<1> QED
  BY <1>1, <1>2, <1>3, <1>4, <1>5 DEF following_fsm, connectionLost, leavingPlatoon

LEMMA SessionStepKeeps ==
    ASSUME FTInv, NEW t \in scheduled \X Conns, SessionThread(t)
    PROVE  Kept
<1>1. t \in SessionThreads
  BY DEF FTInv, Typed, SessionThreads
<1> QED
  BY <1>1, SessionStep DEF SessionKeeps, Kept

LEMMA KeptIsNoStep == ASSUME Kept PROVE UNCHANGED <<phase, accepted>>
  BY DEF Kept, phase

\* Of the sender of a request the invariant says what is under way.
LEMMA Asking ==
    ASSUME FTInv, NEW c \in Conns, NEW cmd, Asked(c, cmd)
    PROVE  Has(outbox[c], cmd) /\ Conversation(c)
<1>1. outbox[c] # <<>>
  BY DEF Asked
<1> QED
  BY <1>1, Requested

LEMMA AdmitIsStep ==
    ASSUME NEW c \in Conns, c \in enrolled, accepted' = accepted \cup {c},
           UNCHANGED <<registered, enrolled>>
    PROVE  Platoon!Next
<1>1. phase[c] # "outside" /\ phase' = phase
  BY DEF phase
<1>2. Platoon!Admit(c)
  BY <1>1 DEF Platoon!Admit, phase
<1> QED
  BY <1>2 DEF Platoon!Next

LEMMA RemovalIsStep ==
    ASSUME FTInv, NEW c \in Conns, registered' = registered \ {c},
           UNCHANGED <<enrolled, accepted>>
    PROVE  Platoon!Next \/ UNCHANGED <<phase, accepted>>
<1>1. c \in registered => c \in enrolled
  BY DEF FTInv, Conversation
<1>2. CASE c \in registered
  <2>1. phase[c] = "registered" /\ phase' = [phase EXCEPT ![c] = "gone"]
    BY <1>1, <1>2 DEF phase
  <2>2. Platoon!Leave(c)
    BY <2>1 DEF Platoon!Leave, phase
  <2> QED
    BY <2>2 DEF Platoon!Next
<1>3. CASE c \notin registered
  BY <1>3 DEF phase
<1> QED
  BY <1>2, <1>3

\* What the leader does about one connection.
LEMMA LeaderIsMembership ==
    ASSUME FTInv, NEW users, Leader(users)
    PROVE  Platoon!Next \/ UNCHANGED <<phase, accepted>>
<1>1. ASSUME NEW c \in Conns, registerTruck(c)
      PROVE  Platoon!Next
  <2>1. /\ c \notin enrolled /\ accepted' = accepted
        /\ registered' = registered \cup {c} /\ enrolled' = enrolled \cup {c}
    BY <1>1 DEF registerTruck
  <2>2. c \notin registered
    BY <2>1 DEF FTInv, Conversation
  <2>3. phase[c] = "outside" /\ phase' = [phase EXCEPT ![c] = "registered"]
    BY <2>1, <2>2 DEF phase
  <2>4. Platoon!Register(c)
    BY <2>1, <2>3 DEF Platoon!Register, phase
  <2> QED
    BY <2>4 DEF Platoon!Next
<1>2. ASSUME NEW c \in Conns, acceptJoin(c)
      PROVE  Platoon!Next
  <2>1. /\ Asked(c, "join") \/ Asked(c, "join_done")
        /\ accepted' = accepted \cup {c} /\ UNCHANGED <<registered, enrolled>>
    BY <1>2 DEF acceptJoin
  <2>2. c \in enrolled
    BY <2>1, Asking DEF Conversation
  <2> QED
    BY <2>1, <2>2, AdmitIsStep
<1>3. ASSUME NEW c \in Conns, answerAlert(c)
      PROVE  Platoon!Next \/ UNCHANGED <<phase, accepted>>
  <2>1. c \in enrolled /\ UNCHANGED <<registered, enrolled>>
    BY <1>3 DEF answerAlert
  <2>2. accepted' = accepted \/ accepted' = accepted \cup {c}
    BY <1>3 DEF answerAlert
  <2> QED
    BY <2>1, <2>2, AdmitIsStep, KeptIsNoStep DEF Kept
<1>4. ASSUME NEW c \in Conns, endLeave(c) \/ dropTruck(c, users)
      PROVE  Platoon!Next \/ UNCHANGED <<phase, accepted>>
  BY <1>4, RemovalIsStep DEF endLeave, dropTruck
<1>5. ASSUME NEW c \in Conns,
             \/ answerAuth(c) \/ refuseAuth(c) \/ startLeave(c) \/ staySilent(c)
             \/ refuseMerged(c) \/ syncTruck(c)
      PROVE  Kept
  BY <1>5 DEF Kept, answerAuth, refuseAuth, startLeave, staySilent, refuseMerged, syncTruck,
              leader, members
<1>6. CASE broadcastEmergency \/ endLeader
  BY <1>6, KeptIsNoStep DEF broadcastEmergency, endLeader, leader, members, Kept
<1> QED
  BY <1>1, <1>2, <1>3, <1>4, <1>5, <1>6, KeptIsNoStep DEF Leader

LEMMA MembershipInit == FTInit => Platoon!Init
  BY DEF FTInit, CLInit, Platoon!Init

LEMMA MembershipStep ==
    FTInv /\ [FTNext]_vars => [Platoon!Next]_<<phase, accepted>>
<1> SUFFICES ASSUME FTInv, [FTNext]_vars
             PROVE  Platoon!Next \/ UNCHANGED <<phase, accepted>>
  OBVIOUS
<1>1. CASE following_fsm
  BY <1>1, FSMStepKeeps, KeptIsNoStep
<1>2. CASE \E t \in scheduled \X Conns : SessionThread(t)
  BY <1>2, SessionStepKeeps, KeptIsNoStep
<1>3. CASE Environment
  BY <1>3, LeaderIsMembership DEF Environment
<1>4. CASE UNCHANGED vars
  BY <1>4, KeptIsNoStep DEF vars, clvars, leader, members, Kept
<1> QED
  BY <1>1, <1>2, <1>3, <1>4 DEF FTNext

\* For any number of connections a truck opens, the leader registers each once, grants
\* a join only after that, and never takes back a truck that left or was dropped,
\* whatever it refuses or answers unasked and whichever connections break.
THEOREM FollowerImplementsMembership == FTSpec => ImplementsMembership
<1>1. [Platoon!Next]_<<phase, accepted>> <=> [Platoon!Next]_(Platoon!vars)
  BY DEF Platoon!vars, phase
<1> QED
  BY <1>1, FollowingInvariant, MembershipInit, MembershipStep, PTL
     DEF FTSpec, ImplementsMembership, Platoon!Spec
=============================================================================
