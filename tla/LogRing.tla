------------------------------- MODULE LogRing -------------------------------
(***************************************************************************)
(* internal/telemetry/logger.go: a bounded channel of log entries, the     *)
(* goroutine that moves them to a ring of the last RbSize entries and      *)
(* prints them, the readers of the ring (/tail), and Start and Stop.       *)
(*                                                                         *)
(* Entries are numbered in the order in which logCh accepts them; 0 is the *)
(* zero value of a slot that was never written.  logCh is FIFO, so what it *)
(* holds are the entries stored+1 .. accepted.                             *)
(***************************************************************************)
EXTENDS Integers, Sequences, SequencesExt

CONSTANTS
  RbSize,      \* slots of the ring (2000)
  ChanSize,    \* capacity of logCh (8192)
  MaxEntries,  \* bound: entries accepted
  MaxTail      \* bound: lines a reader asks for

ASSUME LogRingAssumption ==
  RbSize \in Nat \ {0} /\ ChanSize \in Nat \ {0} /\ MaxEntries \in Nat /\ MaxTail \in Nat

VARIABLES
  logCh,      \* "nil" before Start, then "open", "closed" after Stop
  accepted,   \* entries sent to logCh
  stored,     \* entries the consumer has taken from it
  rbData, rbNext, rbWrapped,
  process     \* "running", "exited", or the operation that panicked

vars == <<logCh, accepted, stored, rbData, rbNext, rbWrapped, process>>
ring == <<rbData, rbNext, rbWrapped>>

Slots == 0..(RbSize - 1)

TypeOK ==
  /\ logCh \in {"nil", "open", "closed"}
  /\ accepted \in 0..MaxEntries /\ stored \in 0..accepted
  /\ accepted - stored <= ChanSize
  /\ rbData \in [Slots -> 0..MaxEntries] /\ rbNext \in Slots /\ rbWrapped \in BOOLEAN
  /\ process \in {"running", "exited", "enqueue", "Stop", "Tail"}

Init ==
  /\ logCh = "nil" /\ accepted = 0 /\ stored = 0
  /\ rbData = [i \in Slots |-> 0] /\ rbNext = 0 /\ rbWrapped = FALSE
  /\ process = "running"

-----------------------------------------------------------------------------
\* once.Do: only the first Start makes the channel.
Start ==
  /\ process = "running" /\ logCh = "nil" /\ logCh' = "open"
  /\ UNCHANGED <<accepted, stored, ring, process>>

\* close panics on a closed channel.
Stop ==
  /\ process = "running" /\ logCh # "nil"
  /\ IF logCh = "open" THEN logCh' = "closed" /\ UNCHANGED process
                       ELSE process' = "Stop" /\ UNCHANGED logCh
  /\ UNCHANGED <<accepted, stored, ring>>

SaturatedLate == accepted - stored > ChanSize       \* mutant
Saturated == accepted - stored >= ChanSize

\* The select of enqueue: send, or drop when logCh is full or still nil (no
\* state changes then). A closed channel is chosen as ready, and panics.
Enqueue ==
  /\ process = "running"
  /\ \/ /\ logCh = "open" /\ ~Saturated /\ accepted < MaxEntries
        /\ accepted' = accepted + 1 /\ UNCHANGED process
     \/ logCh = "closed" /\ process' = "enqueue" /\ UNCHANGED accepted
  /\ UNCHANGED <<logCh, stored, ring>>

EntryWhileOpen == logCh = "open" /\ stored < accepted  \* mutant: leaves on close
EntryReady == stored < accepted

ConsumeAdvanceFirst ==                              \* mutant: the slot after rbNext
  /\ process = "running" /\ EntryReady
  /\ stored' = stored + 1
  /\ rbNext' = (rbNext + 1) % RbSize
  /\ rbData' = [rbData EXCEPT ![rbNext'] = stored + 1]
  /\ rbWrapped' = (rbWrapped \/ rbNext' = 0)
  /\ UNCHANGED <<logCh, accepted, process>>

\* The consumer stores and prints one entry; it drains a closed channel too.
Consume ==
  /\ process = "running" /\ EntryReady
  /\ stored' = stored + 1
  /\ rbData' = [rbData EXCEPT ![rbNext] = stored + 1]
  /\ rbNext' = (rbNext + 1) % RbSize
  /\ rbWrapped' = (rbWrapped \/ rbNext' = 0)
  /\ UNCHANGED <<logCh, accepted, process>>

\* main returns once Stop has run.
Exit ==
  /\ process = "running" /\ logCh = "closed" /\ process' = "exited"
  /\ UNCHANGED <<logCh, accepted, stored, ring>>

-----------------------------------------------------------------------------
\* Tail(n), for n > 0

Available == IF rbWrapped THEN RbSize ELSE rbNext
Lines(n) == IF n < Available THEN n ELSE Available

\* Go's remainder has the sign of the dividend.
Rem(a, m) == IF a >= 0 THEN a % m ELSE -((-a) % m)

\* The slot of the i-th line back.
Index(i) ==
  LET start == IF rbNext = 0 THEN RbSize - 1 ELSE rbNext - 1
  IN Rem(start - i + rbNext, RbSize)

InBounds(n) == \A i \in 0..(Lines(n) - 1) : Index(i) \in Slots

\* The lines sent: the loop goes back from the newest and skips empty slots,
\* then all is reversed.
Tail_(n) ==
  LET out[i \in 0..Lines(n)] ==
        IF i = 0 THEN << >>
        ELSE IF rbData[Index(i - 1)] = 0 THEN out[i - 1]
             ELSE Append(out[i - 1], rbData[Index(i - 1)])
  IN Reverse(out[Lines(n)])

\* An index out of range panics, in the update loop: the process dies.
ReadTail(n) ==
  /\ process = "running" /\ ~InBounds(n)
  /\ process' = "Tail"
  /\ UNCHANGED <<logCh, accepted, stored, ring>>

Next ==
  \/ Start \/ Stop \/ Enqueue \/ Consume \/ Exit
  \/ \E n \in 1..MaxTail : ReadTail(n)

Spec == Init /\ [][Next]_vars
FairSpec == Spec /\ WF_vars(Consume)

-----------------------------------------------------------------------------
\* Going back from rbNext one meets stored, stored-1, ..., whatever the
\* wrap-around.
RingIsWindow ==
  /\ Available = IF stored < RbSize THEN stored ELSE RbSize
  /\ \A i \in 0..(Available - 1) : rbData[(rbNext + RbSize - 1 - i) % RbSize] = stored - i

\* The ring holds the most recent entries, and a Tail that does not panic shows
\* some of them only, whichever slots it picked.
RingHoldsRecent ==
  /\ RingIsWindow
  /\ \A n \in 1..MaxTail : InBounds(n) =>
       \A k \in DOMAIN Tail_(n) : Tail_(n)[k] \in (stored - Available + 1)..stored

\* An accepted entry is printed, unless the process ends first.
AcceptedIsPrinted ==
  \A k \in 1..MaxEntries : (accepted >= k) ~> (stored >= k \/ process # "running")
=============================================================================
