----------------------------- MODULE CommandFifo -----------------------------
(***************************************************************************)
(* What a command queue promises its producers: a first-in first-out line  *)
(* of commands with one consumer that takes one command at a time, keeps   *)
(* taking as long as there is one, and goes home only when the line is     *)
(* empty.  No locks, no waiting, no wake-ups.                              *)
(***************************************************************************)
EXTENDS Integers, Sequences

CONSTANTS Commands, MaxCommands

VARIABLES
    pending,  \* commands nobody has taken
    inHand,   \* <<c>> while the consumer works on c, else <<>>
    handled,  \* commands the consumer is done with, in that order
    gone      \* the consumer has gone home

vars == <<pending, inHand, handled, gone>>

Init == pending = <<>> /\ inHand = <<>> /\ handled = <<>> /\ gone = FALSE

Put == /\ Len(handled \o inHand \o pending) < MaxCommands
       /\ \E c \in Commands : pending' = Append(pending, c)
       /\ UNCHANGED <<inHand, handled, gone>>

Take == /\ ~gone /\ inHand = <<>> /\ pending # <<>>
        /\ inHand' = <<Head(pending)>>
        /\ pending' = Tail(pending)
        /\ UNCHANGED <<handled, gone>>

Handle == /\ inHand # <<>>
          /\ handled' = handled \o inHand
          /\ inHand' = <<>>
          /\ UNCHANGED <<pending, gone>>

GoHome == /\ inHand = <<>> /\ pending = <<>>
          /\ gone' = TRUE
          /\ UNCHANGED <<pending, inHand, handled>>

Next == Put \/ Take \/ Handle \/ GoHome

Safety == Init /\ [][Next]_vars

Spec == Safety /\ WF_vars(Take) /\ WF_vars(Handle)
=============================================================================
