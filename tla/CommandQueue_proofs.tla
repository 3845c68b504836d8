------------------------- MODULE CommandQueue_proofs -------------------------
(***************************************************************************)
(* Proofs about the command queue, for every set of commands and every     *)
(* number of calls.                                                        *)
(***************************************************************************)
EXTENDS CommandQueue, SequenceTheorems, TLAPS

\* The inductive invariant.  The last conjunct says when the worker holds a
\* command: without it NothingLostOrReordered is not preserved by Dequeue, and
\* StopDrains not established by Stopped.
CQInv ==
    /\ CQTypeOK
    /\ NoLostWakeup
    /\ NothingLostOrReordered
    /\ StopDrains
    /\ IF worker = "busy" THEN \E c \in Commands : inHand = <<c>> ELSE inHand = <<>>

LEMMA CQInitInv == CQInit => CQInv
<1> SUFFICES ASSUME CQInit PROVE CQInv
  OBVIOUS
<1>1. <<>> \in Seq(Commands) /\ Len(<<>>) = 0 /\ <<>> \o <<>> \o <<>> = <<>>
  OBVIOUS
<1>2. CQTypeOK
  <2>1. Len(enqueued) = 0
    BY <1>1 DEF CQInit
  <2>2. beforeStop \in 0 .. Len(enqueued)
    BY <2>1 DEF CQInit
  <2> QED
    BY <1>1, <2>2 DEF CQInit, CQTypeOK
<1> QED
  BY <1>1, <1>2 DEF CQInit, CQInv, NoLostWakeup, NothingLostOrReordered, StopDrains

-----------------------------------------------------------------------------
(* Sequences *)

LEMMA TakeTheHead ==
    ASSUME NEW S, NEW p \in Seq(S), NEW q \in Seq(S), q # <<>>
    PROVE  /\ Head(q) \in S /\ Tail(q) \in Seq(S)
           /\ p \o <<>> \o q = p \o <<Head(q)>> \o Tail(q)
<1>1. Head(q) \in S /\ Tail(q) \in Seq(S)
  OBVIOUS
<1>2. q = <<Head(q)>> \o Tail(q)
  BY HeadTailProperties
<1> QED
  BY <1>1, <1>2

LEMMA HandOver ==
    ASSUME NEW S, NEW p \in Seq(S), NEW h \in Seq(S), NEW q \in Seq(S)
    PROVE  /\ p \o h \in Seq(S) /\ Len(p \o h) >= Len(p)
           /\ p \o h \o q = (p \o h) \o <<>> \o q
           /\ p \o <<>> \o <<>> = p
  OBVIOUS

-----------------------------------------------------------------------------
(* One lemma per action *)

LEMMA EnqueueKeepsInv ==
    ASSUME CQInv, NEW c \in Commands, enqueueCommand(c)
    PROVE  CQInv'
<1>1. processed \in Seq(Commands)
  BY DEF CQInv, CQTypeOK
<1>2. inHand \in Seq(Commands)
  BY DEF CQInv, CQTypeOK
<1>3. queue \in Seq(Commands)
  BY DEF CQInv, CQTypeOK
<1>4. Append(enqueued, c) = processed \o inHand \o Append(queue, c)
  <2> DEFINE taken == processed \o inHand
  <2>1. taken \in Seq(Commands) /\ enqueued = taken \o queue
    BY <1>1, <1>2, ConcatProperties DEF CQInv, NothingLostOrReordered
  <2> HIDE DEF taken
  <2>2. /\ Append(queue, c) = queue \o <<c>>
        /\ taken \o queue \in Seq(Commands) /\ <<c>> \in Seq(Commands)
    BY <1>3, <2>1, AppendIsConcat, ConcatProperties
  <2>3. Append(enqueued, c) = enqueued \o <<c>>
    BY <2>1, <2>2, AppendIsConcat
  <2>4. (taken \o queue) \o <<c>> = taken \o (queue \o <<c>>)
    BY <1>3, <2>1, <2>2, ConcatAssociative
  <2> QED
    BY <2>1, <2>2, <2>3, <2>4 DEF taken
<1> USE DEF CQInv, CQTypeOK, enqueueCommand
<1>5. NothingLostOrReordered'
  BY <1>4 DEF NothingLostOrReordered
<1>6. queue' \in Seq(Commands) /\ queue' # <<>>
  BY <1>3, AppendProperties
<1>7. enqueued' \in Seq(Commands) /\ Len(enqueued') = Len(enqueued) + 1
  BY AppendProperties
<1>8. CQTypeOK'
  BY <1>6, <1>7 DEF notify
<1>9. NoLostWakeup'
  BY DEF NoLostWakeup, notify
<1>10. StopDrains' /\ (worker' = "busy" <=> worker = "busy")
  BY DEF StopDrains, notify
<1> QED
  BY <1>5, <1>8, <1>9, <1>10

LEMMA StopKeepsInv ==
    ASSUME CQInv, stop
    PROVE  CQInv'
<1> USE DEF CQInv, CQTypeOK, stop
<1>1. CQTypeOK'
  <2>1. Len(enqueued) \in Nat
    OBVIOUS
  <2> QED
    BY <2>1 DEF notify
<1>2. NoLostWakeup'
  BY DEF NoLostWakeup, notify
<1>3. StopDrains' /\ (worker' = "busy" <=> worker = "busy")
  BY DEF StopDrains, notify
<1> QED
  BY <1>1, <1>2, <1>3 DEF NothingLostOrReordered

LEMMA DequeueKeepsInv ==
    ASSUME CQInv, Dequeue
    PROVE  CQInv'
<1> USE DEF CQInv, CQTypeOK, Dequeue
<1>1. /\ inHand = <<>>
      /\ Head(queue) \in Commands /\ Tail(queue) \in Seq(Commands)
      /\ processed \o <<>> \o queue = processed \o <<Head(queue)>> \o Tail(queue)
  BY TakeTheHead
<1>2. NothingLostOrReordered'
  BY <1>1 DEF NothingLostOrReordered
<1>3. CQTypeOK'
  BY <1>1
<1> QED
  BY <1>1, <1>2, <1>3 DEF NoLostWakeup, StopDrains

LEMMA StoppedKeepsInv ==
    ASSUME CQInv, Stopped
    PROVE  CQInv'
<1> USE DEF CQInv, CQTypeOK, Stopped
<1>1. enqueued = processed
  BY HandOver DEF NothingLostOrReordered
<1>2. StopDrains'
  BY <1>1 DEF StopDrains
<1>3. CQTypeOK' /\ NoLostWakeup' /\ NothingLostOrReordered'
  BY DEF NoLostWakeup, NothingLostOrReordered
<1> QED
  BY <1>2, <1>3

LEMMA HandledKeepsInv ==
    ASSUME CQInv, Handled
    PROVE  CQInv'
<1> USE DEF CQInv, CQTypeOK, Handled
<1>1. /\ processed' \in Seq(Commands) /\ Len(processed') >= Len(processed)
      /\ processed \o inHand \o queue = processed' \o <<>> \o queue
  BY HandOver
<1>2. NothingLostOrReordered'
  BY <1>1 DEF NothingLostOrReordered
<1>3. CQTypeOK'
  BY <1>1
<1> QED
  BY <1>2, <1>3 DEF NoLostWakeup, StopDrains

LEMMA CQStepInv == CQInv /\ [CQNext]_cqvars => CQInv'
<1> SUFFICES ASSUME CQInv, [CQNext]_cqvars PROVE CQInv'
  OBVIOUS
<1>1. CASE \E c \in Commands : enqueueCommand(c)
  BY <1>1, EnqueueKeepsInv
<1>2. CASE stop
  BY <1>2, StopKeepsInv
<1>3. CASE SpuriousWakeup
  BY <1>3 DEF SpuriousWakeup, CQInv, CQTypeOK, NoLostWakeup,
     NothingLostOrReordered, StopDrains
<1>4. CASE Wait
  BY <1>4 DEF Wait, CQInv, CQTypeOK, NoLostWakeup, NothingLostOrReordered, StopDrains
<1>5. CASE Dequeue
  BY <1>5, DequeueKeepsInv
<1>6. CASE Stopped
  BY <1>6, StoppedKeepsInv
<1>7. CASE Handled
  BY <1>7, HandledKeepsInv
<1>8. CASE UNCHANGED cqvars
  BY <1>8 DEF cqvars, CQInv, CQTypeOK, NoLostWakeup, NothingLostOrReordered, StopDrains
<1> QED
  BY <1>1, <1>2, <1>3, <1>4, <1>5, <1>6, <1>7, <1>8 DEF CQNext, Worker

LEMMA CQInvariance == CQSpec => []CQInv
  BY CQInitInv, CQStepInv, PTL DEF CQSpec

-----------------------------------------------------------------------------
(* Theorems *)

\* The queue, its worker and its history always have their types.
THEOREM QueueTypeCorrect == CQSpec => []CQTypeOK
<1>1. CQInv => CQTypeOK
  BY DEF CQInv
<1> QED
  BY <1>1, CQInvariance, PTL

\* No wake-up is lost, for any number of commands, stops and spurious wake-ups.
THEOREM NoWakeupIsLost == CQSpec => []NoLostWakeup
<1>1. CQInv => NoLostWakeup
  BY DEF CQInv
<1> QED
  BY <1>1, CQInvariance, PTL

\* Every command is handled at most once, in the order of the enqueue calls,
\* and none disappears.
THEOREM FirstInFirstOut == CQSpec => []NothingLostOrReordered
<1>1. CQInv => NothingLostOrReordered
  BY DEF CQInv
<1> QED
  BY <1>1, CQInvariance, PTL

\* A worker that has left has handled everything enqueued before the stop.
THEOREM StopDrainsTheQueue == CQSpec => []StopDrains
<1>1. CQInv => StopDrains
  BY DEF CQInv
<1> QED
  BY <1>1, CQInvariance, PTL

\* Step by step the locked queue is the abstract first-in first-out line.
THEOREM QueueStepsAsFifo == CQSpec => StepsAsCommandFifo
<1>1. CQInit => Fifo!Init
  BY DEF CQInit, Fifo!Init
<1>2. CQInv /\ [CQNext]_cqvars => [Fifo!Next]_Fifo!vars
  <2> SUFFICES ASSUME CQInv, [CQNext]_cqvars PROVE [Fifo!Next]_Fifo!vars
    OBVIOUS
  <2> USE DEF Fifo!Next, Fifo!vars
  <2>1. ASSUME NEW c \in Commands, enqueueCommand(c) PROVE Fifo!Put
    <3>1. (worker' = "stopped") = (worker = "stopped")
      BY <2>1 DEF enqueueCommand, notify
    <3> QED
      BY <2>1, <3>1 DEF enqueueCommand, Fifo!Put, CQInv, NothingLostOrReordered
  <2>2. CASE stop
    <3>1. (worker' = "stopped") = (worker = "stopped")
      BY <2>2 DEF stop, notify
    <3> QED
      BY <2>2, <3>1 DEF stop
  <2>3. CASE SpuriousWakeup
    BY <2>3 DEF SpuriousWakeup
  <2>4. CASE Wait
    BY <2>4 DEF Wait
  <2>5. CASE Dequeue
    BY <2>5 DEF Dequeue, Fifo!Take, CQInv
  <2>6. CASE Stopped
    BY <2>6 DEF Stopped, Fifo!GoHome, CQInv
  <2>7. CASE Handled
    <3>1. inHand # <<>>
      <4>1. PICK c \in Commands : inHand = <<c>>
        BY <2>7 DEF Handled, CQInv
      <4> QED
        BY <4>1
    <3>2. (worker' = "stopped") = (worker = "stopped")
      BY <2>7 DEF Handled
    <3> QED
      BY <2>7, <3>1, <3>2 DEF Handled, Fifo!Handle
  <2>8. CASE UNCHANGED cqvars
    BY <2>8 DEF cqvars
  <2> QED
    BY <2>1, <2>2, <2>3, <2>4, <2>5, <2>6, <2>7, <2>8 DEF CQNext, Worker
<1> QED
  BY <1>1, <1>2, CQInvariance, PTL DEF CQSpec, StepsAsCommandFifo, Fifo!Safety
=============================================================================
