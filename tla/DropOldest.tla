------------------------------ MODULE DropOldest ------------------------------
(***************************************************************************)
(* What the queue of block events promises: a bounded FIFO queue that      *)
(* sacrifices its oldest event, and only when it is full, to make room for *)
(* a newer one.  Events are numbered in the order of their creation.       *)
(***************************************************************************)
EXTENDS Naturals, Sequences

CONSTANTS Capacity,    \* the events the queue can hold
          MaxEvents    \* bound on the number of events

VARIABLES
  backlog,   \* the events waiting, oldest first
  taken,     \* the event taken last, 0 before the first
  latest     \* the newest event dealt with: put, or given up

vars == <<backlog, taken, latest>>

Init == backlog = <<>> /\ taken = 0 /\ latest = 0

NewEvent == latest < MaxEvents /\ latest' = latest + 1

Put ==
  /\ Len(backlog) < Capacity
  /\ NewEvent
  /\ backlog' = Append(backlog, latest')
  /\ UNCHANGED taken

\* There was no memory for the event.
GiveUp == NewEvent /\ UNCHANGED <<backlog, taken>>

\* The newest event may be given up with the oldest, never without it.
DropHead ==
  /\ Len(backlog) = Capacity
  /\ backlog' = Tail(backlog)
  /\ (NewEvent \/ UNCHANGED latest)
  /\ UNCHANGED taken

Take ==
  /\ backlog # <<>>
  /\ taken' = Head(backlog)
  /\ backlog' = Tail(backlog)
  /\ UNCHANGED latest

Next == Put \/ GiveUp \/ DropHead \/ Take

Spec == Init /\ [][Next]_vars
=============================================================================
