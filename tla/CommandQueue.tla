---------------------------- MODULE CommandQueue ----------------------------
(***************************************************************************)
(* One MsgQueue of control/event_manager.h and the thread that serves it   *)
(* with processCommands (control/event_manager.cpp).  RegularCommandQueue  *)
(* and EmergencyCommandQueue have the same code.                           *)
(*                                                                         *)
(* A critical section under `mutex' is one step.  cv.wait(lock, pred) is a *)
(* loop: the worker tests the predicate under the mutex and, when it is    *)
(* false, atomically releases the mutex and joins the wait set; a notify   *)
(* or a spurious wake-up sends it back to test the predicate again.        *)
(***************************************************************************)
EXTENDS Integers, Sequences

CONSTANTS
    Commands,    \* command strings
    MaxCommands  \* bound on the commands ever enqueued

ASSUME QueueAssumption == MaxCommands \in Nat

VARIABLES
    queue,      \* std::queue of commands
    stopFlag,
    worker,     \* "test": about to test the predicate; "waiting": in the wait
                \* set; "busy": handling inHand; "stopped": left the loop
    inHand,     \* the command dequeueCommand returned, as a sequence of at most one
    enqueued,   \* history: every command enqueued, in order
    processed,  \* history: every command handled, in order
    beforeStop  \* history: how many were enqueued when stop was first called

cqvars == <<queue, stopFlag, worker, inHand, enqueued, processed, beforeStop>>

CQInit ==
    /\ queue = <<>> /\ stopFlag = FALSE
    /\ worker = "test" /\ inHand = <<>>
    /\ enqueued = <<>> /\ processed = <<>> /\ beforeStop = 0

\* notify_one and notify_all: one thread waits on each queue.
notify(w) == IF w = "waiting" THEN "test" ELSE w

\* Mutant: push without notify_one.
enqueueCommand_NoNotify(c) ==
    /\ Len(enqueued) < MaxCommands
    /\ queue' = Append(queue, c)
    /\ enqueued' = Append(enqueued, c)
    /\ UNCHANGED <<worker, stopFlag, inHand, processed, beforeStop>>

\* enqueueCommand: lock, push, notify_one.  Producers are not told of a stop.
enqueueCommand(c) ==
    /\ Len(enqueued) < MaxCommands
    /\ queue' = Append(queue, c)
    /\ enqueued' = Append(enqueued, c)
    /\ worker' = notify(worker)
    /\ UNCHANGED <<stopFlag, inHand, processed, beforeStop>>

\* Mutant: stop throws the waiting commands away.
stop_Clears ==
    /\ stopFlag' = TRUE /\ queue' = <<>>
    /\ worker' = notify(worker)
    /\ beforeStop' = IF stopFlag THEN beforeStop ELSE Len(enqueued)
    /\ UNCHANGED <<inHand, enqueued, processed>>

\* stop: lock, raise the flag, notify_all.
stop ==
    /\ stopFlag' = TRUE
    /\ worker' = notify(worker)
    /\ beforeStop' = IF stopFlag THEN beforeStop ELSE Len(enqueued)
    /\ UNCHANGED <<queue, inHand, enqueued, processed>>

\* The predicate of cv.wait is false: wait.
Wait ==
    /\ worker = "test" /\ queue = <<>> /\ ~stopFlag
    /\ worker' = "waiting"
    /\ UNCHANGED <<queue, stopFlag, inHand, enqueued, processed, beforeStop>>

SpuriousWakeup ==
    /\ worker = "waiting"
    /\ worker' = "test"
    /\ UNCHANGED <<queue, stopFlag, inHand, enqueued, processed, beforeStop>>

\* Mutant: front() without pop().
Dequeue_NoPop ==
    /\ worker = "test" /\ queue # <<>>
    /\ inHand' = <<Head(queue)>>
    /\ worker' = "busy"
    /\ UNCHANGED <<queue, stopFlag, enqueued, processed, beforeStop>>

\* dequeueCommand returns the front of the queue.
Dequeue ==
    /\ worker = "test" /\ queue # <<>>
    /\ inHand' = <<Head(queue)>>
    /\ queue' = Tail(queue)
    /\ worker' = "busy"
    /\ UNCHANGED <<stopFlag, enqueued, processed, beforeStop>>

\* Mutants: the empty string is handled like a command; the worker leaves
\* without looking at the queue.
Stopped_EmptyIsCommand ==
    /\ worker = "test" /\ queue = <<>> /\ stopFlag
    /\ worker' = "busy" /\ inHand' = <<"">>
    /\ UNCHANGED <<queue, stopFlag, enqueued, processed, beforeStop>>

Stopped_AtOnce ==
    /\ worker = "test" /\ stopFlag
    /\ worker' = "stopped"
    /\ UNCHANGED <<queue, stopFlag, inHand, enqueued, processed, beforeStop>>

\* dequeueCommand returns "" and processCommands leaves its loop.
Stopped ==
    /\ worker = "test" /\ queue = <<>> /\ stopFlag
    /\ worker' = "stopped"
    /\ UNCHANGED <<queue, stopFlag, inHand, enqueued, processed, beforeStop>>

\* Mutant: a handler that throws ends the loop.
Handled_ThrowEndsLoop ==
    /\ worker = "busy"
    /\ processed' = processed \o inHand
    /\ inHand' = <<>>
    /\ worker' \in {"test", "stopped"}
    /\ UNCHANGED <<queue, stopFlag, enqueued, beforeStop>>

\* The handler returned, or threw and processCommands caught it: next round.
Handled ==
    /\ worker = "busy"
    /\ processed' = processed \o inHand
    /\ inHand' = <<>>
    /\ worker' = "test"
    /\ UNCHANGED <<queue, stopFlag, enqueued, beforeStop>>

Worker == Wait \/ Dequeue \/ Stopped \/ Handled

CQNext == \/ \E c \in Commands : enqueueCommand(c)
          \/ stop
          \/ SpuriousWakeup
          \/ Worker

\* The worker runs whenever it can; nothing makes a producer, a stop or a
\* spurious wake-up happen.
CQSpec == CQInit /\ [][CQNext]_cqvars /\ WF_cqvars(Worker)

-----------------------------------------------------------------------------
(* Properties *)

\* Type invariant of the queue and its worker.
CQTypeOK ==
    /\ queue \in Seq(Commands) /\ enqueued \in Seq(Commands)
    /\ processed \in Seq(Commands) /\ inHand \in Seq(Commands)
    /\ stopFlag \in BOOLEAN
    /\ worker \in {"test", "waiting", "busy", "stopped"}
    /\ beforeStop \in 0 .. Len(enqueued)

\* No wake-up is lost: the worker is never left in the wait set while there is
\* a command to take or a stop to obey.
NoLostWakeup == queue # <<>> \/ stopFlag => worker # "waiting"

\* Handled, in hand and queued commands are together exactly what was
\* enqueued, once each and in the order of the enqueueCommand calls.
NothingLostOrReordered == enqueued = processed \o inHand \o queue

\* stop drains: when the worker leaves, whatever was enqueued before stop was
\* called has been handled.
StopDrains == worker = "stopped" => stopFlag /\ Len(processed) >= beforeStop

\* A command enqueued while the worker has not left is handled eventually,
\* also when stop is called right after it.
EveryCommandHandled ==
    \A n \in 1 .. MaxCommands :
        Len(enqueued) >= n /\ worker # "stopped" ~> Len(processed) >= n

Fifo == INSTANCE CommandFifo
            WITH pending <- queue, handled <- processed, gone <- worker = "stopped"

\* The locked queue with its condition variable is a first-in first-out line
\* whose consumer keeps taking.
ImplementsCommandFifo == Fifo!Spec

\* Its safety part.
StepsAsCommandFifo == Fifo!Safety
=============================================================================
