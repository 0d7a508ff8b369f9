------------------------------ MODULE EventPipe ------------------------------
(***************************************************************************)
(* What the mempool watcher promises its caller: a lossy stream.  Every    *)
(* announced transaction is handed to the callback at most once or lost,   *)
(* the callback runs at most Width times in parallel, and once the caller  *)
(* has been told that the pipe is quiet nothing happens any more.          *)
(***************************************************************************)
EXTENDS Integers

CONSTANT Width   \* callbacks that may run in parallel

VARIABLES
  received,   \* announcements taken in
  delivered,  \* callbacks that have returned
  lost,       \* announcements given up
  active,     \* callbacks running
  quiet       \* the caller knows that the pipe is shut down

pipeVars == <<received, delivered, lost, active, quiet>>

Pending == received - delivered - lost - active

Init == received = 0 /\ delivered = 0 /\ lost = 0 /\ active = 0 /\ quiet = FALSE

\* An announcement arrives and is kept, or lost on the spot.
Announce ==
  /\ ~quiet /\ received' = received + 1
  /\ lost' \in {lost, lost + 1}
  /\ UNCHANGED <<delivered, active, quiet>>

Lose ==
  /\ ~quiet /\ Pending > 0 /\ lost' = lost + 1
  /\ UNCHANGED <<received, delivered, active, quiet>>

CallBegins ==
  /\ ~quiet /\ Pending > 0 /\ active < Width /\ active' = active + 1
  /\ UNCHANGED <<received, delivered, lost, quiet>>

CallEnds ==
  /\ ~quiet /\ active > 0 /\ active' = active - 1 /\ delivered' = delivered + 1
  /\ UNCHANGED <<received, lost, quiet>>

BecomeQuiet ==
  /\ ~quiet /\ active = 0 /\ quiet' = TRUE
  /\ UNCHANGED <<received, delivered, lost, active>>

Next == Announce \/ Lose \/ CallBegins \/ CallEnds \/ BecomeQuiet

Spec == Init /\ [][Next]_pipeVars
=============================================================================
