------------------------- MODULE SpeedControl_proofs -------------------------
(* Proofs about the speed control: its types, and that until the leader    *)
(* names a speed below zero no report leaves one behind, however the       *)
(* listeners interleave with it.                                           *)
EXTENDS SpeedControl, TLAPS

\* Where speedControl may stand while the truck's speed is negative.
Undershot == {"below", "settle", "store_settled"}

\* Where a test of speedControl may lead.
Tested == {"compare", "cruise", "subtract", "below", "settle", "idle"}

\* Until the leader names a speed below zero, a negative speed is on its way to being
\* replaced, and neither what replaces it nor what the listeners know is negative.
SpeedInv ==
    /\ SCTypeOK
    /\ ~reverse =>
          /\ truck_speed < 0 => doing["status"] \in Undershot
          /\ doing["status"] \in {"store_settled", "store_cruise"} => result >= 0
          /\ ref_speed >= 0
          /\ \A l \in Listeners : told[l].speed >= 0

\* A percentage of a speed is a speed of the same direction.
LEMMA Percentage ==
    ASSUME NEW speed \in Int, NEW j \in 98 .. 101
    PROVE  Percent(speed, j) \in Int /\ (speed >= 0 => Percent(speed, j) >= 0)
<1>1. j = 98 \/ j = 99 \/ j = 100 \/ j = 101
  OBVIOUS
<1>2. QED
  BY <1>1 DEF Percent

\* What a message says is a speed and a force, and the speeds and forces are numbers.
LEMMA MessageValues ==
    /\ \A m \in Messages : m.speed \in Speeds /\ m.brake \in Forces
    /\ Speeds \subseteq Int /\ Forces \subseteq Int
    /\ 0 \in Speeds /\ 0 \in Forces /\ MAX_BRAKE_FORCE \in Forces
<1>1. \A m \in Messages : m.speed \in Int /\ m.brake \in Int
  BY SpeedAssumption DEF Messages, Emergency
<1>2. QED
  BY <1>1 DEF Speeds, Forces, MAX_BRAKE_FORCE

\* Initially the truck rolls at the speed it was told to join at.
LEMMA SpeedInit == SCInit => SpeedInv
<1>1. ASSUME SCInit PROVE SpeedInv
  <2>1. SCTypeOK
    BY <1>1, SpeedAssumption, MessageValues DEF SCInit, SCTypeOK, Listeners, Messages
  <2>2. ~reverse => ~(truck_speed < 0)
    BY <1>1, SpeedAssumption DEF SCInit
  <2>3. doing["status"] = "idle" /\ ref_speed >= 0
    BY <1>1 DEF SCInit, Listeners
  <2>4. \A l \in Listeners : told[l].speed >= 0
    BY <1>1 DEF SCInit, Listeners, Emergency
  <2>5. QED
    BY <2>1, <2>2, <2>3, <2>4 DEF SpeedInv
<1>2. QED
  BY <1>1

\* A step of a thread changes where that thread stands and no other.
LEMMA StepMoves ==
    ASSUME NEW t \in Listeners \cup {"status", "fsm"}, NEW from, NEW to,
           SCTypeOK, Step(t, from, to),
           to \in {"idle", "compare", "subtract", "store_braked", "below", "settle",
                   "store_settled", "release", "forget", "cruise", "store_cruise",
                   "force", "speed", "limit"}
    PROVE  /\ doing' \in [Listeners \cup {"status", "fsm"} ->
                    {"idle", "compare", "subtract", "store_braked", "below", "settle",
                     "store_settled", "release", "forget", "cruise", "store_cruise",
                     "force", "speed", "limit"}]
           /\ doing[t] = from /\ doing'[t] = to
           /\ t # "status" => doing'["status"] = doing["status"]
BY DEF SCTypeOK, Step, Listeners

\* The statements of speedControl.
LEMMA StatusStep ==
    ASSUME SpeedInv, speedControl
    PROVE  SpeedInv'
<1> USE DEF SpeedInv
<1>1. ASSUME NEW from, NEW to \in Tested, Step("status", from, to),
             UNCHANGED <<truck_speed, brake_force, ref_speed, told, result, leads>>,
             from \in Undershot => (~reverse /\ truck_speed < 0 => to \in Undershot)
      PROVE  SpeedInv'
  <2>1. SCTypeOK' /\ doing["status"] = from /\ doing'["status"] = to
    BY <1>1, StepMoves DEF SCTypeOK, Tested, leads
  <2>2. ~reverse /\ truck_speed < 0 => to \in Undershot
    BY <1>1, <2>1
  <2>3. QED
    BY <1>1, <2>1, <2>2 DEF Tested, leads
<1>2. ASSUME NEW from, NEW value \in Int, NEW to,
             Compute(from, value, to), to \in {"store_settled", "store_braked", "store_cruise"},
             from \notin Undershot \/ to = "store_settled",
             to # "store_braked" => (~reverse => value >= 0)
      PROVE  SpeedInv'
  <2>1. SCTypeOK' /\ doing["status"] = from /\ doing'["status"] = to
    BY <1>2, StepMoves DEF Compute, SCTypeOK, leads
  <2>2. ~reverse /\ truck_speed < 0 => to \in Undershot
    BY <1>2, <2>1 DEF Undershot
  <2>3. QED
    BY <1>2, <2>1, <2>2 DEF Compute, leads
<1>3. ASSUME NEW from, NEW to, Store(from, to), to \in {"below", "release", "idle"},
             to = "below" \/ from \in {"store_settled", "store_cruise"}
      PROVE  SpeedInv'
  <2>1. SCTypeOK' /\ doing["status"] = from /\ doing'["status"] = to
    BY <1>3, StepMoves DEF Store, SCTypeOK, leads
  <2>2. ~reverse /\ truck_speed' < 0 => to = "below"
    BY <1>3, <2>1 DEF Store, SCTypeOK
  <2>3. QED
    BY <1>3, <2>1, <2>2 DEF Store, Undershot, leads
<1>4. CASE brake
  <2>1. CASE Test("compare", 100 * truck_speed > 98 * ref_speed, "subtract", "below")
    BY <2>1, <1>1 DEF Test, Tested, Undershot
  <2>2. CASE Compute("subtract", truck_speed - (TRUCK_BRAKE_SPEED * brake_force) \div 10, "store_braked")
    <3>1. truck_speed - (TRUCK_BRAKE_SPEED * brake_force) \div 10 \in Int
      BY MessageValues DEF SCTypeOK, TRUCK_BRAKE_SPEED
    <3>2. QED
      BY <2>2, <3>1, <1>2 DEF Undershot
  <2>3. CASE Store("store_braked", "below")
    BY <2>3, <1>3
  <2>4. QED
    BY <1>4, <2>1, <2>2, <2>3 DEF brake
<1>5. CASE settle
  <2>1. CASE Test("below", passed, "settle", "idle")
    <3>1. ~reverse /\ truck_speed < 0 => passed
      BY MessageValues DEF SCTypeOK, passed
    <3>2. QED
      BY <2>1, <3>1, <1>1 DEF Test, Tested, Undershot
  <2>2. ASSUME NEW j \in Jitter, Compute("settle", Percent(ref_speed, j), "store_settled")
        PROVE  SpeedInv'
    <3>1. Percent(ref_speed, j) \in Int /\ (~reverse => Percent(ref_speed, j) >= 0)
      BY Percentage, MessageValues, SpeedAssumption DEF SCTypeOK
    <3>2. QED
      BY <2>2, <3>1, <1>2
  <2>3. CASE Store("store_settled", "release")
    BY <2>3, <1>3
  <2>4. ASSUME Step("status", "release", "forget"), brake_force' = 0,
               UNCHANGED <<truck_speed, ref_speed, told, result, leads>>
        PROVE  SpeedInv'
    BY <2>4, StepMoves, MessageValues DEF SCTypeOK, Undershot, leads
  <2>5. ASSUME Step("status", "forget", "idle"), ref_speed' = 0,
               UNCHANGED <<truck_speed, brake_force, told, result, leads>>
        PROVE  SpeedInv'
    BY <2>5, StepMoves, MessageValues DEF SCTypeOK, Undershot, leads
  <2>6. QED
    BY <1>5, <2>1, <2>2, <2>3, <2>4, <2>5 DEF settle
<1>6. CASE cruise
  <2>1. ASSUME NEW j \in Jitter, Compute("cruise", Percent(truck_speed, j), "store_cruise")
        PROVE  SpeedInv'
    <3>1. doing["status"] = "cruise"
      BY <2>1 DEF Compute, Step
    <3>2. truck_speed \in Int /\ (~reverse => truck_speed >= 0)
      BY <3>1 DEF SCTypeOK, Undershot
    <3>3. Percent(truck_speed, j) \in Int /\ (~reverse => Percent(truck_speed, j) >= 0)
      BY <3>2, Percentage, SpeedAssumption
    <3>4. QED
      BY <2>1, <3>3, <1>2 DEF Undershot
  <2>2. CASE Store("store_cruise", "idle")
    BY <2>2, <1>3
  <2>3. QED
    BY <1>6, <2>1, <2>2 DEF cruise
<1>7. CASE Test("idle", brake_force > 0 /\ truck_speed > 0, "compare", "cruise")
  BY <1>7, <1>1 DEF Test, Tested, Undershot
<1>8. QED
  BY <1>4, <1>5, <1>6, <1>7 DEF speedControl

\* A listener's and the FSM thread's statements store nothing negative of their own.
LEMMA OtherStep ==
    ASSUME SpeedInv,
           limitForce \/ \E l \in Listeners : hear(l) \/ processCommands(l)
    PROVE  SpeedInv'
<1> USE DEF SpeedInv
<1>1. Listeners \subseteq (Listeners \cup {"status", "fsm"}) \ {"status"}
  BY DEF Listeners
<1>2. ASSUME NEW l \in Listeners
      PROVE  told[l].speed \in Speeds /\ told[l].brake \in Forces /\ told[l].speed \in Int
  BY <1>2, MessageValues DEF SCTypeOK
<1>3. CASE limitForce
  BY <1>3, StepMoves, MessageValues DEF limitForce, SCTypeOK, leads
<1>4. ASSUME NEW l \in Listeners, hear(l) PROVE SpeedInv'
  <2>1. told' \in [Listeners -> Messages] /\ messages' \in 0 .. MaxMessages
    BY <1>4, SpeedAssumption DEF hear, SCTypeOK, Messages, leads
  <2>5. reverse' \in BOOLEAN /\ (reverse => reverse')
    <3>1. CASE UNCHANGED leads
      BY <3>1 DEF SCTypeOK, leads
    <3>2. ASSUME NEW m \in LeaderMessages, reverse' = (reverse \/ m.speed < 0)
          PROVE  reverse' \in BOOLEAN /\ (reverse => reverse')
      BY <3>2, Zenon
    <3>3. QED
      BY <1>4, <3>1, <3>2, Zenon DEF hear
  <2>2. SCTypeOK' /\ doing'["status"] = doing["status"]
    BY <1>1, <1>4, <2>5, <2>1, StepMoves DEF hear, SCTypeOK
  <2>3. ~reverse' => told'[l].speed >= 0
    <3>1. CASE told' = [told EXCEPT ![l] = Emergency]
      BY <3>1 DEF SCTypeOK, Emergency
    <3>2. ASSUME NEW m \in LeaderMessages, told' = [told EXCEPT ![l] = m],
                 reverse' = (reverse \/ m.speed < 0)
          PROVE  ~reverse' => told'[l].speed >= 0
      <4>1. m.speed \in Int
        BY <3>2, SpeedAssumption
      <4>2. told'[l] = m
        BY <3>2 DEF SCTypeOK
      <4>3. ~reverse' => ~(m.speed < 0)
        BY <3>2, Zenon
      <4>4. QED
        BY <4>1, <4>2, <4>3
    <3>3. QED
      BY <1>4, <3>1, <3>2 DEF hear
  <2>4. \A k \in Listeners : k # l => told'[k] = told[k]
    BY <1>4 DEF hear, SCTypeOK
  <2>6. QED
    BY <1>4, <2>5, <2>2, <2>3, <2>4 DEF hear
<1>5. ASSUME NEW l \in Listeners, takeForce(l) PROVE SpeedInv'
  BY <1>1, <1>2, <1>5, StepMoves DEF takeForce, SCTypeOK, leads
<1>6. ASSUME NEW l \in Listeners, takeSpeed(l) PROVE SpeedInv'
  <2>1. /\ told' \in [Listeners -> Messages]
        /\ \A k \in Listeners : told'[k] = told[k] \/ told'[k] = Emergency
    BY <1>6 DEF takeSpeed, Forget, SCTypeOK, Messages
  <2>2. /\ ref_speed' \in Speeds /\ truck_speed' \in Int
        /\ ref_speed' = ref_speed \/ ref_speed' = told[l].speed
        /\ truck_speed' = truck_speed \/ truck_speed' = told[l].speed
    BY <1>2, <1>6 DEF takeSpeed, SCTypeOK
  <2>3. SCTypeOK' /\ doing'["status"] = doing["status"]
    BY <1>1, <1>6, <2>1, <2>2, StepMoves DEF takeSpeed, SCTypeOK, leads
  <2>4. \A k \in Listeners : told[k].speed >= 0 => told'[k].speed >= 0
    BY <2>1 DEF Emergency
  <2>5. QED
    BY <1>2, <1>6, <2>2, <2>3, <2>4 DEF takeSpeed, leads
<1>7. QED
  BY <1>3, <1>4, <1>5, <1>6 DEF processCommands

\* SpeedInv is inductive.
LEMMA SpeedStep == SpeedInv /\ [SCNext]_scvars => SpeedInv'
<1>1. ASSUME SpeedInv, SCNext PROVE SpeedInv'
  BY <1>1, StatusStep, OtherStep DEF SCNext
<1>2. ASSUME SpeedInv, UNCHANGED scvars PROVE SpeedInv'
  BY <1>2 DEF SpeedInv, SCTypeOK, scvars, leads
<1>3. QED
  BY <1>1, <1>2

\* It holds in every reachable state.
LEMMA SpeedInvariant == SCSpec => []SpeedInv
BY SpeedInit, SpeedStep, PTL DEF SCSpec

\* The variables of the speed control keep their types.
THEOREM SpeedTypeCorrect == SCSpec => []SCTypeOK
<1>1. SpeedInv => SCTypeOK
  BY DEF SpeedInv
<1>2. QED
  BY <1>1, SpeedInvariant, PTL

\* Whatever the leader sends, and however the listeners interleave with a report, a
\* report starts from or ends with a speed below zero only after the leader has
\* named one: braking alone never leaves one behind.
THEOREM RollsBackOnlyIfTold == SCSpec => []BackwardsOnlyIfTold
<1>1. SpeedInv => BackwardsOnlyIfTold
  BY DEF SpeedInv, SCTypeOK, BackwardsOnlyIfTold, Undershot
<1>2. QED
  BY <1>1, SpeedInvariant, PTL
=============================================================================
