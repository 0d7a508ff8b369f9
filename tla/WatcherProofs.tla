---------------------------- MODULE WatcherProofs ----------------------------
(***************************************************************************)
(* Theorems about the mempool pipeline, for pools, queues and bounds of    *)
(* any size: its invariants, the two conservation laws, and that it        *)
(* implements the lossy stream of EventPipe (when counters are kept).      *)
(***************************************************************************)
EXTENDS WatcherPipe, FiniteSetTheorems, TLAPS

-----------------------------------------------------------------------------
\* Counted returns counters, each one higher exactly when it is named.
LEMMA CountedType ==
  ASSUME metrics \in [Counters -> Nat], NEW cs
  PROVE  /\ Counted(cs) \in [Counters -> Nat]
         /\ \A c \in Counters :
              Counted(cs)[c] = metrics[c] + (IF CountMetrics /\ c \in cs THEN 1 ELSE 0)
BY DEF Counted

\* TypeOK is inductive as it stands: a send needs room, a receive an item.
LEMMA TypeStep == TypeOK /\ [Next]_vars => TypeOK'
<1> SUFFICES ASSUME TypeOK, [Next]_vars PROVE TypeOK'
  OBVIOUS
<1> USE WatcherAssumption, CountedType
    DEF TypeOK, SubStates, FetchStates, ProcStates, ctlVars, fetchVars, procVars,
        Sent, Received, Closed, Full
<1>1. CASE Cancel \/ CallWait \/ WaitReturns
  BY <1>1 DEF Cancel, CallWait, WaitReturns
<1>2. CASE Subscription
  <2> USE DEF SubscriptionFrame, LeaveSubscription
  <2>1. CASE TopOfLoop
    BY <2>1 DEF TopOfLoop
  <2>2. CASE SubscribeFails \/ SubscriptionDrops
    BY <2>2 DEF SubscribeFails, SubscriptionDrops, AfterError
  <2>3. CASE SubscribeSucceeds \/ BackoffOver
    BY <2>3 DEF SubscribeSucceeds, BackoffOver
  <2>4. CASE ReceiveHash
    BY <2>4 DEF ReceiveHash
  <2>5. CASE SubscriptionEnds \/ BackoffCancelled
    BY <2>5 DEF SubscriptionEnds, BackoffCancelled
  <2> QED BY <1>2, <2>1, <2>2, <2>3, <2>4, <2>5 DEF Subscription
<1>3. ASSUME NEW f \in FetchWorkers, Fetcher(f) PROVE TypeOK'
  <2> USE DEF FetchFrame
  <2>1. CASE DialClient(f)
    BY <2>1 DEF DialClient
  <2>2. CASE TakeHash(f)
    BY <2>2 DEF TakeHash
  <2>3. CASE FetchFails(f) \/ FetchSucceeds(f)
    BY <2>3 DEF FetchFails, FetchSucceeds
  <2>4. CASE SendTx(f)
    BY <2>4 DEF SendTx
  <2>5. CASE StopFetcher(f)
    BY <2>5 DEF StopFetcher
  <2> QED BY <1>3, <2>1, <2>2, <2>3, <2>4, <2>5 DEF Fetcher
<1>4. CASE SpawnFetchers
  BY <1>4 DEF SpawnFetchers, FetchFrame
<1>5. CASE CloseTxCh
  BY <1>5 DEF CloseTxCh, FetchFrame
<1>6. ASSUME NEW p \in Workers, Worker(p) PROVE TypeOK'
  BY <1>6 DEF Worker, TakeTx, FinishTx, StopWorker, ProcFrame
<1>7. CASE CrewLeaves \/ ReporterLeaves
  BY <1>7 DEF CrewLeaves, ReporterLeaves, ProcFrame
<1>8. CASE UNCHANGED vars
  BY <1>8 DEF vars
<1> QED BY <1>1, <1>2, <1>3, <1>4, <1>5, <1>6, <1>7, <1>8 DEF Next

-----------------------------------------------------------------------------
(***************************************************************************)
(* Shutdown.  The three properties about it are not inductive: what is     *)
(* missing is who closes a channel, and what a goroutine that is done      *)
(* leaves behind.                                                          *)
(***************************************************************************)

\* A channel is closed by the goroutine that owns it, as it leaves.
OwnersClose ==
  /\ hashCh.closed => sub = "done"
  /\ txCh.closed <=> pool = "done"
  /\ pool = "done" => FetchersGone

\* A WaitGroup is waited for before the goroutine that waits is done.
WaitersWait ==
  /\ crew = "done" => \A p \in Workers : proc[p] = "done"
  /\ wait = "returned" => AllDone

\* A processing worker leaves when cancelled, or for a closed, empty txCh.
WorkersDrain ==
  \A p \in Workers : proc[p] = "done" => ctxDone \/ (txCh.closed /\ txCh.len = 0)

ShutdownInv == TypeOK /\ OwnersClose /\ WaitersWait /\ WorkersDrain

LEMMA ShutdownStep == ShutdownInv /\ [Next]_vars => ShutdownInv'
<1> SUFFICES ASSUME ShutdownInv, [Next]_vars
             PROVE  OwnersClose' /\ WaitersWait' /\ WorkersDrain'
  BY TypeStep DEF ShutdownInv
<1> USE DEF ShutdownInv, OwnersClose, WaitersWait, WorkersDrain, AllDone, FetchersGone,
            TypeOK, ctlVars, fetchVars, procVars, Sent, Received, Closed, Full, Drained
<1>1. CASE Cancel \/ CallWait \/ WaitReturns
  BY <1>1 DEF Cancel, CallWait, WaitReturns
<1>2. CASE Subscription
  <2> USE DEF SubscriptionFrame, LeaveSubscription
  <2>1. CASE TopOfLoop
    BY <2>1 DEF TopOfLoop
  <2>2. CASE SubscribeFails \/ SubscriptionDrops
    BY <2>2 DEF SubscribeFails, SubscriptionDrops, AfterError
  <2>3. CASE SubscribeSucceeds \/ BackoffOver
    BY <2>3 DEF SubscribeSucceeds, BackoffOver
  <2>4. CASE ReceiveHash
    BY <2>4 DEF ReceiveHash
  <2>5. CASE SubscriptionEnds \/ BackoffCancelled
    BY <2>5 DEF SubscriptionEnds, BackoffCancelled
  <2> QED BY <1>2, <2>1, <2>2, <2>3, <2>4, <2>5 DEF Subscription
<1>3. ASSUME NEW f \in FetchWorkers, Fetcher(f)
      PROVE  OwnersClose' /\ WaitersWait' /\ WorkersDrain'
  <2> USE DEF FetchFrame
  <2>1. CASE DialClient(f)
    BY <2>1 DEF DialClient
  <2>2. CASE TakeHash(f)
    BY <2>2 DEF TakeHash
  <2>3. CASE FetchFails(f) \/ FetchSucceeds(f)
    BY <2>3 DEF FetchFails, FetchSucceeds
  <2>4. CASE SendTx(f)
    BY <2>4 DEF SendTx
  <2>5. CASE StopFetcher(f)
    BY <2>5 DEF StopFetcher
  <2> QED BY <1>3, <2>1, <2>2, <2>3, <2>4, <2>5 DEF Fetcher
<1>4. CASE SpawnFetchers
  BY <1>4 DEF SpawnFetchers, FetchFrame
<1>5. CASE CloseTxCh
  BY <1>5 DEF CloseTxCh, FetchFrame
<1>6. ASSUME NEW p \in Workers, Worker(p)
      PROVE  OwnersClose' /\ WaitersWait' /\ WorkersDrain'
  <2> USE DEF ProcFrame
  <2>1. CASE TakeTx(p)
    BY <2>1 DEF TakeTx
  <2>2. CASE FinishTx(p)
    BY <2>2 DEF FinishTx
  <2>3. CASE StopWorker(p)
    BY <2>3 DEF StopWorker
  <2> QED BY <1>6, <2>1, <2>2, <2>3 DEF Worker
<1>7. CASE CrewLeaves \/ ReporterLeaves
  BY <1>7 DEF CrewLeaves, ReporterLeaves, ProcFrame
<1>8. CASE UNCHANGED vars
  BY <1>8 DEF vars
<1> QED BY <1>1, <1>2, <1>3, <1>4, <1>5, <1>6, <1>7, <1>8 DEF Next

LEMMA TypeInit == Init => TypeOK
<1> SUFFICES ASSUME Init PROVE TypeOK
  OBVIOUS
<1>1. fetch \in [FetchWorkers -> FetchStates] /\ proc \in [Workers -> ProcStates]
  BY DEF Init, FetchStates, ProcStates
<1>2. /\ hashCh \in [len : 0..HashQueueSize, closed : BOOLEAN]
      /\ txCh \in [len : 0..TxQueueSize, closed : BOOLEAN]
  BY WatcherAssumption DEF Init
<1>3. metrics \in [Counters -> Nat]
  BY DEF Init
<1> QED BY <1>1, <1>2, <1>3 DEF Init, TypeOK, SubStates

LEMMA ShutdownInvariant == Spec => []ShutdownInv
<1>1. Init => OwnersClose /\ WaitersWait /\ WorkersDrain
  BY DEF Init, OwnersClose, WaitersWait, WorkersDrain
<1>2. Init => ShutdownInv
  BY <1>1, TypeInit DEF ShutdownInv
<1> QED BY <1>2, ShutdownStep, PTL DEF Spec

\* Every reachable state is well typed: no channel is ever overfull, no
\* counter negative.
THEOREM TypeCorrect == Spec => []TypeOK
<1>1. ShutdownInv => TypeOK
  BY DEF ShutdownInv
<1> QED BY <1>1, ShutdownInvariant, PTL

\* No goroutine is left that could send on a channel that has been closed.
THEOREM SendsAreSafe == Spec => []NoSendOnClosedChannel
<1>1. ShutdownInv => NoSendOnClosedChannel
  BY DEF ShutdownInv, OwnersClose, FetchersGone, NoSendOnClosedChannel
<1> QED BY <1>1, ShutdownInvariant, PTL

\* After Wait has returned no worker runs, and none calls back.
THEOREM WaitWaits == Spec => []QuietAfterWait
<1>1. ShutdownInv => QuietAfterWait
  BY DEF ShutdownInv, OwnersClose, WaitersWait, FetchersGone, AllDone, QuietAfterWait
<1> QED BY <1>1, ShutdownInvariant, PTL

\* Without a cancellation the processing workers empty txCh before they leave.
THEOREM WorkersLeaveNothing == Spec => []NoTxLeftBehind
<1>1. ShutdownInv => NoTxLeftBehind
  BY DEF ShutdownInv, WaitersWait, WorkersDrain, NoTxLeftBehind
<1> QED BY <1>1, ShutdownInvariant, PTL

-----------------------------------------------------------------------------
(***************************************************************************)
(* Accounting.  A goroutine that changes state moves at most one unit      *)
(* from one term of the sum to another.                                    *)
(***************************************************************************)

\* The members of S that g puts in state v.
Where(S, g, v) == {y \in S : g[y] = v}

\* h is g with x in state w.
Moved(S, g, h, x, w) == \A y \in S : h[y] = IF y = x THEN w ELSE g[y]

\* Moving x from state g[x] to state w changes how many are in state v.
LEMMA MoveCount ==
  ASSUME NEW S, IsFiniteSet(S), NEW g, NEW h, NEW x \in S, NEW w, NEW v,
         Moved(S, g, h, x, w)
  PROVE  /\ Cardinality(Where(S, g, v)) \in Nat
         /\ Cardinality(Where(S, h, v)) = Cardinality(Where(S, g, v))
                + (IF w = v THEN 1 ELSE 0) - (IF g[x] = v THEN 1 ELSE 0)
<1> DEFINE A == Where(S, g, v)
           B == Where(S, h, v)
<1> USE DEF Where, Moved
<1>1. IsFiniteSet(A) /\ Cardinality(A) \in Nat
  <2>1. A \in SUBSET S
    OBVIOUS
  <2> QED BY <2>1, FS_Subset, FS_CardinalityType
<1>3. CASE w = v
  <2>1. B = A \cup {x}
    BY <1>3
  <2>2. Cardinality(B) = IF x \in A THEN Cardinality(A) ELSE Cardinality(A) + 1
    BY <1>1, <2>1, FS_AddElement
  <2> QED BY <1>1, <1>3, <2>2
<1>4. CASE w # v
  <2>1. B = A \ {x}
    BY <1>4
  <2>2. Cardinality(B) = IF x \in A THEN Cardinality(A) - 1 ELSE Cardinality(A)
    BY <1>1, <2>1, FS_RemoveElement
  <2> QED BY <1>1, <1>4, <2>2
<1> QED BY <1>3, <1>4

\* The step moves fetch worker f, or processing worker p, to state w.
FetchGoes(f, w) == Moved(FetchWorkers, fetch, fetch', f, w)
ProcGoes(p, w) == Moved(Workers, proc, proc', p, w)

\* What a step of fetch worker f that moves it to state w does to the terms.
LEMMA FetchMove ==
  ASSUME TypeOK, NEW f \in FetchWorkers, NEW w, FetchGoes(f, w)
  PROVE  /\ Cardinality(Fetching) \in Nat /\ Cardinality(Sending) \in Nat
         /\ Cardinality(Fetching') = Cardinality(Fetching)
              + (IF w = "fetching" THEN 1 ELSE 0) - (IF fetch[f] = "fetching" THEN 1 ELSE 0)
         /\ Cardinality(Sending') = Cardinality(Sending)
              + (IF w = "sending" THEN 1 ELSE 0) - (IF fetch[f] = "sending" THEN 1 ELSE 0)
<1>1. IsFiniteSet(FetchWorkers) /\ Moved(FetchWorkers, fetch, fetch', f, w)
  BY WatcherAssumption DEF FetchGoes
<1>2. /\ Cardinality(Fetching) \in Nat
      /\ Cardinality(Fetching') = Cardinality(Fetching)
           + (IF w = "fetching" THEN 1 ELSE 0) - (IF fetch[f] = "fetching" THEN 1 ELSE 0)
  <2>1. Fetching = Where(FetchWorkers, fetch, "fetching")
        /\ Fetching' = Where(FetchWorkers, fetch', "fetching")
    BY DEF Fetching, Where
  <2> QED BY <1>1, <2>1, MoveCount
<1>3. /\ Cardinality(Sending) \in Nat
      /\ Cardinality(Sending') = Cardinality(Sending)
           + (IF w = "sending" THEN 1 ELSE 0) - (IF fetch[f] = "sending" THEN 1 ELSE 0)
  <2>1. Sending = Where(FetchWorkers, fetch, "sending")
        /\ Sending' = Where(FetchWorkers, fetch', "sending")
    BY DEF Sending, Where
  <2> QED BY <1>1, <2>1, MoveCount
<1> QED BY <1>2, <1>3

\* Likewise for processing worker p.
LEMMA ProcMove ==
  ASSUME TypeOK, NEW p \in Workers, NEW w, ProcGoes(p, w)
  PROVE  /\ Cardinality(Handling) \in Nat
         /\ Cardinality(Handling') = Cardinality(Handling)
              + (IF w = "handling" THEN 1 ELSE 0) - (IF proc[p] = "handling" THEN 1 ELSE 0)
<1>1. IsFiniteSet(Workers) /\ Moved(Workers, proc, proc', p, w)
  BY WatcherAssumption DEF ProcGoes
<1>2. Handling = Where(Workers, proc, "handling")
      /\ Handling' = Where(Workers, proc', "handling")
  BY DEF Handling, Where
<1> QED BY <1>1, <1>2, MoveCount

LEMMA SizesAreNatural ==
  ASSUME TypeOK
  PROVE  /\ Cardinality(Fetching) \in Nat /\ Cardinality(Sending) \in Nat
         /\ Cardinality(Handling) \in Nat
<1>1. Fetching \in SUBSET FetchWorkers /\ Sending \in SUBSET FetchWorkers
      /\ Handling \in SUBSET Workers
  BY DEF Fetching, Sending, Handling
<1> QED BY <1>1, WatcherAssumption, FS_Subset, FS_CardinalityType

\* A step raises the counters inc by one (processingErrors apart, which no sum
\* contains) and changes the queues and the numbers of busy workers.
Raises(inc, c) == metrics'[c] = IF c \in inc THEN metrics[c] + 1 ELSE metrics[c]
Effect(inc, hashes, fetching, sending, txs, handling) ==
  /\ Raises(inc, "hashesReceived") /\ Raises(inc, "droppedHashes")
  /\ Raises(inc, "fetchErrors") /\ Raises(inc, "txsFetched")
  /\ Raises(inc, "droppedTxs") /\ Raises(inc, "txsProcessed")
  /\ hashCh'.len = hashCh.len + hashes
  /\ Cardinality(Fetching') = Cardinality(Fetching) + fetching
  /\ Cardinality(Sending') = Cardinality(Sending) + sending
  /\ txCh'.len = txCh.len + txs
  /\ Cardinality(Handling') = Cardinality(Handling) + handling

ForwardEffect ==
  /\ sub = "forwarding"
  /\ \/ Effect({"hashesReceived"}, 1, 0, 0, 0, 0)
     \/ Effect({"hashesReceived", "droppedHashes"}, 0, 0, 0, 0, 0)

FetchEffect(f) ==
  /\ fetch[f] \in {"idle", "fetching", "sending"}
  /\ \/ Effect({}, -1, 1, 0, 0, 0)
     \/ Effect({"fetchErrors"}, 0, -1, 0, 0, 0)
     \/ Effect({"txsFetched"}, 0, -1, 1, 0, 0)
     \/ Effect({}, 0, 0, -1, 1, 0)
     \/ Effect({"droppedTxs"}, 0, 0, -1, 0, 0)

ProcEffect(p) ==
  \/ proc[p] = "idle" /\ Effect({}, 0, 0, 0, -1, 1)
  \/ proc[p] = "handling" /\ Effect({"txsProcessed"}, 0, 0, 0, 0, -1)

NoEffect == Effect({}, 0, 0, 0, 0, 0)

\* Every step has no effect on the books, or moves one unit.
StepEffect ==
  \/ NoEffect
  \/ UNCHANGED wait /\ ForwardEffect
  \/ UNCHANGED wait /\ \E f \in FetchWorkers : FetchEffect(f)
  \/ UNCHANGED wait /\ \E p \in Workers : ProcEffect(p)

LEMMA StepHasEffect ==
  ASSUME TypeOK, CountMetrics, [Next]_vars
  PROVE  StepEffect
<1> USE DEF Counters, Raises
<1>0. /\ hashCh.len \in Nat /\ txCh.len \in Nat
      /\ \A c \in Counters : metrics[c] \in Nat
  BY WatcherAssumption DEF TypeOK
<1>1. ASSUME UNCHANGED <<metrics, fetch, proc>>,
             hashCh'.len = hashCh.len, txCh'.len = txCh.len
      PROVE  StepEffect
  <2>1. UNCHANGED <<Fetching, Sending, Handling>>
    BY <1>1 DEF Fetching, Sending, Handling
  <2> QED BY <1>0, <1>1, <2>1, SizesAreNatural DEF StepEffect, NoEffect, Effect
<1>2. CASE Cancel \/ CallWait \/ WaitReturns \/ CrewLeaves \/ ReporterLeaves \/ UNCHANGED vars
  BY <1>1, <1>2 DEF Cancel, CallWait, WaitReturns, CrewLeaves, ReporterLeaves, vars, ProcFrame,
     fetchVars, procVars
<1>3. CASE Subscription
  <2>1. CASE ReceiveHash
    <3>1. sub = "forwarding" /\ UNCHANGED <<wait, fetch, proc, txCh>>
      BY <2>1 DEF ReceiveHash, SubscriptionFrame, ctlVars, fetchVars, procVars
    <3>2. UNCHANGED <<Fetching, Sending, Handling>>
      BY <3>1 DEF Fetching, Sending, Handling
    <3>3. \/ /\ hashCh'.len = hashCh.len + 1
             /\ metrics' = Counted({"hashesReceived"})
          \/ /\ hashCh'.len = hashCh.len
             /\ metrics' = Counted({"hashesReceived", "droppedHashes"})
      BY <2>1 DEF ReceiveHash, Sent, TypeOK
    <3>4. ForwardEffect
      BY <1>0, <3>1, <3>2, <3>3, SizesAreNatural DEF ForwardEffect, Effect, Counted
    <3> QED BY <3>1, <3>4 DEF StepEffect
  <2>2. CASE ~ReceiveHash
    BY <1>1, <1>3, <2>2 DEF Subscription, TopOfLoop, SubscribeFails, SubscribeSucceeds,
       SubscriptionDrops, SubscriptionEnds, BackoffOver, BackoffCancelled, AfterError,
       LeaveSubscription, Closed, SubscriptionFrame, fetchVars, procVars, TypeOK
  <2> QED BY <2>1, <2>2
<1>4. ASSUME NEW f \in FetchWorkers, Fetcher(f) PROVE StepEffect
  <2>0. UNCHANGED <<wait, Handling>>
    BY <1>4 DEF Fetcher, DialClient, TakeHash, FetchFails, FetchSucceeds, SendTx, StopFetcher,
       FetchFrame, ctlVars, procVars, Handling
  <2> USE DEF Effect
  <2>1. CASE DialClient(f) \/ StopFetcher(f)
    <3>1. /\ fetch[f] \in {"undialed", "idle"} /\ UNCHANGED <<hashCh, txCh, metrics>>
          /\ \E r \in {"ready", "failed", "done"} : FetchGoes(f, r)
      BY <2>1 DEF DialClient, StopFetcher, TypeOK, FetchGoes, Moved
    <3>2. UNCHANGED <<Cardinality(Fetching), Cardinality(Sending)>>
      BY <3>1, FetchMove
    <3>3. NoEffect
      BY <1>0, <2>0, <3>1, <3>2, SizesAreNatural DEF NoEffect
    <3> QED BY <3>3 DEF StepEffect
  <2>2. CASE TakeHash(f)
    <3>1. /\ fetch[f] = "idle" /\ FetchGoes(f, "fetching") /\ UNCHANGED <<txCh, metrics>>
          /\ hashCh'.len = hashCh.len - 1
      BY <2>2 DEF TakeHash, Received, TypeOK, FetchGoes, Moved
    <3>2. /\ Cardinality(Fetching') = Cardinality(Fetching) + 1
          /\ Cardinality(Sending') = Cardinality(Sending)
      BY <3>1, FetchMove
    <3>3. FetchEffect(f)
      BY <1>0, <2>0, <3>1, <3>2, SizesAreNatural DEF FetchEffect
    <3> QED BY <2>0, <3>3 DEF StepEffect
  <2>3. CASE FetchFails(f)
    <3>1. /\ fetch[f] = "fetching" /\ FetchGoes(f, "idle") /\ UNCHANGED <<hashCh, txCh>>
          /\ metrics' = Counted({"fetchErrors"})
      BY <2>3 DEF FetchFails, TypeOK, FetchGoes, Moved
    <3>2. /\ Cardinality(Fetching') = Cardinality(Fetching) - 1
          /\ Cardinality(Sending') = Cardinality(Sending)
      BY <3>1, FetchMove
    <3>3. FetchEffect(f)
      BY <1>0, <2>0, <3>1, <3>2, SizesAreNatural DEF FetchEffect, Counted
    <3> QED BY <2>0, <3>3 DEF StepEffect
  <2>4. CASE FetchSucceeds(f)
    <3>1. /\ fetch[f] = "fetching" /\ FetchGoes(f, "sending") /\ UNCHANGED <<hashCh, txCh>>
          /\ metrics' = Counted({"txsFetched"})
      BY <2>4 DEF FetchSucceeds, TypeOK, FetchGoes, Moved
    <3>2. /\ Cardinality(Fetching') = Cardinality(Fetching) - 1
          /\ Cardinality(Sending') = Cardinality(Sending) + 1
      BY <3>1, FetchMove
    <3>3. FetchEffect(f)
      BY <1>0, <2>0, <3>1, <3>2, SizesAreNatural DEF FetchEffect, Counted
    <3> QED BY <2>0, <3>3 DEF StepEffect
  <2>5. CASE SendTx(f)
    <3>1. /\ fetch[f] = "sending" /\ FetchGoes(f, "idle") /\ UNCHANGED hashCh
          /\ \/ txCh'.len = txCh.len + 1 /\ UNCHANGED metrics
             \/ txCh'.len = txCh.len /\ metrics' = Counted({"droppedTxs"})
      BY <2>5 DEF SendTx, Sent, TypeOK, FetchGoes, Moved
    <3>2. /\ Cardinality(Fetching') = Cardinality(Fetching)
          /\ Cardinality(Sending') = Cardinality(Sending) - 1
      BY <3>1, FetchMove
    <3>3. FetchEffect(f)
      BY <1>0, <2>0, <3>1, <3>2, SizesAreNatural DEF FetchEffect, Counted
    <3> QED BY <2>0, <3>3 DEF StepEffect
  <2> QED BY <1>4, <2>1, <2>2, <2>3, <2>4, <2>5 DEF Fetcher
<1>5. CASE SpawnFetchers
  <2>1. UNCHANGED <<Fetching, Sending, Handling, hashCh, txCh, metrics>>
    BY <1>5 DEF SpawnFetchers, FetchFrame, procVars, Fetching, Sending, Handling, TypeOK
  <2> QED BY <1>0, <2>1, SizesAreNatural DEF StepEffect, NoEffect, Effect
<1>6. CASE CloseTxCh
  BY <1>1, <1>6 DEF CloseTxCh, FetchFrame, procVars, Closed, TypeOK
<1>7. ASSUME NEW p \in Workers, Worker(p) PROVE StepEffect
  <2>0. UNCHANGED <<wait, Fetching, Sending, hashCh>>
    BY <1>7 DEF Worker, TakeTx, FinishTx, StopWorker, ProcFrame, ctlVars, fetchVars, Fetching,
       Sending
  <2> USE DEF Effect
  <2>1. CASE TakeTx(p)
    <3>1. /\ proc[p] = "idle" /\ ProcGoes(p, "handling") /\ UNCHANGED metrics
          /\ txCh'.len = txCh.len - 1
      BY <2>1 DEF TakeTx, Received, TypeOK, ProcGoes, Moved
    <3>2. Cardinality(Handling') = Cardinality(Handling) + 1
      BY <3>1, ProcMove
    <3>3. ProcEffect(p)
      BY <1>0, <2>0, <3>1, <3>2, SizesAreNatural DEF ProcEffect
    <3> QED BY <2>0, <3>3 DEF StepEffect
  <2>2. CASE FinishTx(p)
    <3>1. /\ proc[p] = "handling" /\ ProcGoes(p, "idle") /\ UNCHANGED txCh
          /\ \E errs \in {{}, {"processingErrors"}} : metrics' = Counted({"txsProcessed"} \cup errs)
      BY <2>2 DEF FinishTx, TypeOK, ProcGoes, Moved
    <3>2. Cardinality(Handling') = Cardinality(Handling) - 1
      BY <3>1, ProcMove
    <3>3. \A c \in Counters : c # "processingErrors" =>
            metrics'[c] = IF c = "txsProcessed" THEN metrics[c] + 1 ELSE metrics[c]
      BY <1>0, <3>1 DEF Counted
    <3>4. ProcEffect(p)
      BY <1>0, <2>0, <3>1, <3>2, <3>3, SizesAreNatural DEF ProcEffect
    <3> QED BY <2>0, <3>4 DEF StepEffect
  <2>3. CASE StopWorker(p)
    <3>1. proc[p] = "idle" /\ ProcGoes(p, "done") /\ UNCHANGED <<txCh, metrics>>
      BY <2>3 DEF StopWorker, TypeOK, ProcGoes, Moved
    <3>2. Cardinality(Handling') = Cardinality(Handling)
      BY <3>1, ProcMove
    <3>3. NoEffect
      BY <1>0, <2>0, <3>1, <3>2, SizesAreNatural DEF NoEffect
    <3> QED BY <3>3 DEF StepEffect
  <2> QED BY <1>7, <2>1, <2>2, <2>3 DEF Worker
<1> QED BY <1>2, <1>3, <1>4, <1>5, <1>6, <1>7 DEF Next

Accounts == HashAccounting /\ TxAccounting

LEMMA AccountStep == TypeOK /\ Accounts /\ [Next]_vars => Accounts'
<1> SUFFICES ASSUME TypeOK, Accounts, [Next]_vars, CountMetrics PROVE Accounts'
  BY DEF Accounts, HashAccounting, TxAccounting
<1>1. /\ hashCh.len \in Nat /\ txCh.len \in Nat
      /\ \A c \in Counters : metrics[c] \in Nat
  BY WatcherAssumption DEF TypeOK
<1>2. StepEffect
  BY StepHasEffect
<1> USE DEF Accounts, HashAccounting, TxAccounting, Effect, Raises, Counters
<1>3. CASE NoEffect
  BY <1>1, <1>3, SizesAreNatural DEF NoEffect
<1>4. CASE ForwardEffect
  BY <1>1, <1>4, SizesAreNatural DEF ForwardEffect
<1>5. CASE \E f \in FetchWorkers : FetchEffect(f)
  <2>1. CASE Effect({}, -1, 1, 0, 0, 0)
    BY <1>1, <2>1, SizesAreNatural
  <2>2. CASE Effect({"fetchErrors"}, 0, -1, 0, 0, 0)
    BY <1>1, <2>2, SizesAreNatural
  <2>3. CASE Effect({"txsFetched"}, 0, -1, 1, 0, 0)
    BY <1>1, <2>3, SizesAreNatural
  <2>4. CASE Effect({}, 0, 0, -1, 1, 0)
    BY <1>1, <2>4, SizesAreNatural
  <2>5. CASE Effect({"droppedTxs"}, 0, 0, -1, 0, 0)
    BY <1>1, <2>5, SizesAreNatural
  <2> HIDE DEF Effect, Raises, Accounts
  <2> QED BY <1>5, <2>1, <2>2, <2>3, <2>4, <2>5 DEF FetchEffect
<1>6. CASE \E p \in Workers : ProcEffect(p)
  BY <1>1, <1>6, SizesAreNatural DEF ProcEffect
<1> QED BY <1>2, <1>3, <1>4, <1>5, <1>6 DEF StepEffect

LEMMA AccountsInvariant == Spec => []Accounts
<1>1. Init => Accounts
  <2> SUFFICES ASSUME Init PROVE Accounts
    OBVIOUS
  <2>1. Fetching = {} /\ Sending = {} /\ Handling = {}
    BY DEF Init, Fetching, Sending, Handling
  <2>2. Cardinality(Fetching) = 0 /\ Cardinality(Sending) = 0 /\ Cardinality(Handling) = 0
    BY <2>1, FS_EmptySet
  <2> QED BY <2>2 DEF Init, Accounts, HashAccounting, TxAccounting, Counters
<1> QED BY <1>1, AccountStep, TypeCorrect, PTL DEF Spec

\* Every hash received is dropped, queued, being fetched, failed or fetched.
THEOREM HashesAccounted == Spec => []HashAccounting
<1>1. Accounts => HashAccounting
  BY DEF Accounts
<1> QED BY <1>1, AccountsInvariant, PTL

\* Every transaction fetched is being sent, dropped, queued or handed to OnTx.
THEOREM TxsAccounted == Spec => []TxAccounting
<1>1. Accounts => TxAccounting
  BY DEF Accounts
<1> QED BY <1>1, AccountsInvariant, PTL

-----------------------------------------------------------------------------

\* What is announced and neither lost nor handed over is in one of the queues
\* or with a fetch worker.
LEMMA PendingInPipe ==
  ASSUME TypeOK, Accounts, CountMetrics
  PROVE  Pipe!Pending = hashCh.len + Cardinality(Fetching) + Cardinality(Sending) + txCh.len
<1>1. /\ hashCh.len \in Nat /\ txCh.len \in Nat
      /\ \A c \in Counters : metrics[c] \in Nat
  BY WatcherAssumption DEF TypeOK
<1> QED
  BY <1>1, SizesAreNatural DEF Pipe!Pending, Accounts, HashAccounting, TxAccounting, Counters

\* A worker that has not left is one that Wait still waits for.
LEMMA BusyIsNotQuiet ==
  ASSUME ShutdownInv, wait = "returned"
  PROVE  /\ sub = "done"
         /\ \A f \in FetchWorkers : fetch[f] \in {"failed", "done"}
         /\ \A p \in Workers : proc[p] = "done"
BY DEF ShutdownInv, OwnersClose, WaitersWait, AllDone, FetchersGone

\* A step with no effect on the books stutters, or is the return of Wait.
LEMMA QuietStep ==
  ASSUME ShutdownInv, ShutdownInv', [Next]_vars, CountMetrics, NoEffect
  PROVE  [Pipe!Next]_Pipe!pipeVars
<1>1. /\ UNCHANGED <<metrics["hashesReceived"], metrics["txsProcessed"], metrics["droppedHashes"],
                     metrics["fetchErrors"], metrics["droppedTxs"]>>
      /\ Cardinality(Handling') = Cardinality(Handling)
  BY SizesAreNatural DEF NoEffect, Effect, Raises, ShutdownInv
<1>2. CASE wait = "returned" <=> wait' = "returned"
  BY <1>1, <1>2 DEF Pipe!pipeVars
<1>3. CASE wait = "returned" /\ wait' # "returned"
  BY <1>3 DEF Next, vars, Cancel, CallWait, WaitReturns, Subscription, TopOfLoop, SubscribeFails,
     SubscribeSucceeds, ReceiveHash, SubscriptionDrops, SubscriptionEnds, BackoffOver,
     BackoffCancelled, SubscriptionFrame, Fetcher, DialClient, TakeHash, FetchFails,
     FetchSucceeds, SendTx, StopFetcher, SpawnFetchers, CloseTxCh, FetchFrame, Worker, TakeTx,
     FinishTx, StopWorker, CrewLeaves, ReporterLeaves, ProcFrame, ctlVars
<1>4. CASE wait # "returned" /\ wait' = "returned"
  <2>1. Handling' = {}
    BY <1>4, BusyIsNotQuiet DEF Handling, ShutdownInv, WaitersWait, AllDone
  <2>2. Cardinality(Handling) = 0
    BY <1>1, <2>1, FS_EmptySet
  <2> QED BY <1>1, <1>4, <2>2 DEF Pipe!Next, Pipe!BecomeQuiet
<1> QED BY <1>2, <1>3, <1>4

LEMMA PipeStep ==
  ASSUME ShutdownInv, ShutdownInv', Accounts, [Next]_vars, CountMetrics
  PROVE  [Pipe!Next]_Pipe!pipeVars
<1>1. TypeOK /\ TypeOK' /\ StepEffect
  BY StepHasEffect DEF ShutdownInv
<1>2. /\ hashCh.len \in Nat /\ txCh.len \in Nat /\ hashCh'.len \in Nat /\ txCh'.len \in Nat
      /\ \A c \in Counters : metrics[c] \in Nat
  BY <1>1, WatcherAssumption DEF TypeOK
<1>3. /\ Cardinality(Fetching') \in Nat /\ Cardinality(Sending') \in Nat
  <2>1. (Fetching \in SUBSET FetchWorkers /\ Sending \in SUBSET FetchWorkers)'
    BY DEF Fetching, Sending
  <2> QED BY <2>1, WatcherAssumption, FS_Subset, FS_CardinalityType
<1>4. CASE NoEffect
  BY <1>4, QuietStep
<1> DEFINE received == metrics["hashesReceived"]
           delivered == metrics["txsProcessed"]
           lost == metrics["droppedHashes"] + metrics["fetchErrors"] + metrics["droppedTxs"]
           active == Cardinality(Handling)
<1>5. received \in Nat /\ delivered \in Nat /\ lost \in Nat /\ active \in Nat
  BY <1>1, <1>2, SizesAreNatural DEF Counters
<1>6. Pipe!Pending = hashCh.len + Cardinality(Fetching) + Cardinality(Sending) + txCh.len
  BY <1>1, PendingInPipe
<1>7. CASE UNCHANGED wait /\ ForwardEffect
  <2>1. wait # "returned"
    BY <1>7, BusyIsNotQuiet DEF ForwardEffect
  <2>2. /\ received' = received + 1 /\ UNCHANGED <<delivered, active>>
        /\ lost' \in {lost, lost + 1}
    BY <1>1, <1>2, <1>5, <1>7, SizesAreNatural DEF ForwardEffect, Effect, Raises, Counters
  <2> QED BY <1>7, <2>1, <2>2 DEF Pipe!Next, Pipe!Announce
<1>8. ASSUME UNCHANGED wait, NEW f \in FetchWorkers, FetchEffect(f)
      PROVE  [Pipe!Next]_Pipe!pipeVars
  <2>1. wait # "returned"
    BY <1>8, BusyIsNotQuiet DEF FetchEffect
  <2>2. UNCHANGED <<received, delivered, active>> /\ lost' \in {lost, lost + 1}
    BY <1>1, <1>2, <1>5, <1>8, SizesAreNatural DEF FetchEffect, Effect, Raises, Counters
  <2>3. CASE lost' = lost
    BY <1>8, <2>2, <2>3 DEF Pipe!pipeVars
  <2>4. CASE lost' = lost + 1
    <3>1. Pipe!Pending > 0
      BY <1>1, <1>2, <1>3, <1>5, <1>6, <1>8, <2>4, SizesAreNatural
      DEF FetchEffect, Effect, Raises, Counters
    <3> QED BY <1>8, <2>1, <2>2, <2>4, <3>1 DEF Pipe!Next, Pipe!Lose
  <2> QED BY <2>2, <2>3, <2>4
<1>9. ASSUME UNCHANGED wait, NEW p \in Workers, ProcEffect(p)
      PROVE  [Pipe!Next]_Pipe!pipeVars
  <2>1. wait # "returned"
    BY <1>9, BusyIsNotQuiet DEF ProcEffect
  <2>2. UNCHANGED <<received, lost>>
    BY <1>9 DEF ProcEffect, Effect, Raises
  <2>3. CASE proc[p] = "idle" /\ Effect({}, 0, 0, 0, -1, 1)
    <3>1. UNCHANGED delivered /\ active' = active + 1 /\ txCh'.len = txCh.len - 1
      BY <1>2, <2>3 DEF Effect, Raises
    <3>2. Pipe!Pending > 0
      BY <1>1, <1>2, <1>6, <3>1, SizesAreNatural
    <3>3. active < Cardinality(Workers)
      <4>1. Handling \in SUBSET Workers /\ Handling # Workers
        BY <2>3 DEF Handling
      <4> QED BY <4>1, <1>5, WatcherAssumption, FS_Subset, FS_CardinalityType
    <3> QED BY <1>9, <2>1, <2>2, <3>1, <3>2, <3>3 DEF Pipe!Next, Pipe!CallBegins
  <2>4. CASE proc[p] = "handling" /\ Effect({"txsProcessed"}, 0, 0, 0, 0, -1)
    <3>1. delivered' = delivered + 1 /\ active' = active - 1
      BY <1>5, <2>4 DEF Effect, Raises
    <3>2. active > 0
      <4>1. Handling # {}
        BY <2>4 DEF Handling
      <4>2. Handling \in SUBSET Workers
        BY DEF Handling
      <4>3. IsFiniteSet(Handling)
        BY <4>2, WatcherAssumption, FS_Subset
      <4> QED BY <4>1, <4>3, <1>5, FS_EmptySet
    <3> QED BY <1>9, <2>1, <2>2, <3>1, <3>2 DEF Pipe!Next, Pipe!CallEnds
  <2> QED BY <1>9, <2>3, <2>4 DEF ProcEffect
<1> QED BY <1>1, <1>4, <1>7, <1>8, <1>9 DEF StepEffect

\* The watcher hands every announced transaction to OnTx at most once, on at
\* most as many goroutines as there are workers, and never after Wait.
THEOREM WatcherImplementsPipe ==
  ASSUME CountMetrics
  PROVE  Spec => ImplementsPipe
<1>1. Init => Pipe!Init
  <2> SUFFICES ASSUME Init PROVE Pipe!Init
    OBVIOUS
  <2>1. Handling = {}
    BY DEF Init, Handling
  <2>2. Cardinality(Handling) = 0
    BY <2>1, FS_EmptySet
  <2> QED BY <2>2 DEF Init, Counters, Pipe!Init
<1>2. ShutdownInv /\ ShutdownInv' /\ Accounts /\ [Next]_vars => [Pipe!Next]_Pipe!pipeVars
  BY PipeStep
<1> QED
  BY <1>1, <1>2, ShutdownInvariant, AccountsInvariant, PTL DEF Spec, ImplementsPipe, Pipe!Spec
=============================================================================
