------------------------------- MODULE Session -------------------------------
(***************************************************************************)
(* What the controller promises of its sessions: one after the other, each *)
(* on the equipment it was opened with, and shown as running until its     *)
(* watcher has made its last call.                                         *)
(***************************************************************************)
CONSTANTS
  Ids,       \* names of sessions
  Equipment  \* what commands and callback may act on during a session

VARIABLES
  shown,    \* the user is told that a session is running
  asked,    \* it has been asked to end
  calling,  \* the sessions whose watcher may call back
  over,     \* the sessions that have ended
  used      \* what commands and callback act on

sessionVars == <<shown, asked, calling, over, used>>

Init == shown = FALSE /\ asked = FALSE /\ calling = {} /\ over = {}

\* A session that has not been before; it may find itself asked to end.
Open(s) ==
  /\ ~shown /\ calling = {} /\ s \notin over
  /\ shown' = TRUE /\ asked' \in BOOLEAN /\ calling' = {s} /\ used' \in Equipment
  /\ UNCHANGED over

Ask ==
  /\ shown /\ ~asked /\ asked' = TRUE
  /\ UNCHANGED <<shown, calling, over, used>>

Finish ==
  /\ shown /\ asked /\ calling # {}
  /\ calling' = {} /\ over' = over \cup calling
  /\ UNCHANGED <<shown, asked, used>>

Close ==
  /\ shown /\ asked /\ calling = {}
  /\ shown' = FALSE /\ asked' = FALSE
  /\ UNCHANGED <<calling, over, used>>

\* Between sessions the equipment is made ready for the next one.
Prepare ==
  /\ ~shown
  /\ UNCHANGED <<shown, asked, calling, over>>

Next == (\E s \in Ids : Open(s)) \/ Ask \/ Finish \/ Close \/ Prepare

Spec == Init /\ [][Next]_sessionVars
=============================================================================
