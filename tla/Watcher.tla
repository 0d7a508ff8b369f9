------------------------------- MODULE Watcher -------------------------------
(***************************************************************************)
(* The mempool pipeline of internal/mempool/mempool.go: one subscription   *)
(* goroutine, a pool of fetch workers and a pool of processing workers,    *)
(* joined by two bounded channels whose senders never block, and the       *)
(* shutdown protocol (context, closed channels, nested WaitGroups).        *)
(*                                                                         *)
(* A channel is the number of items it holds and whether it is closed: no  *)
(* property tells two hashes apart.                                        *)
(***************************************************************************)
EXTENDS Integers, FiniteSets

CONSTANTS
  FetchWorkers,   \* the slots of the fetch pool (w.FetchWorkers of them)
  Workers,        \* the processing workers (w.Workers of them)
  HashQueueSize,  \* capacity of hashCh
  TxQueueSize,    \* capacity of txCh
  CountMetrics,   \* FALSE abstracts from the counters, and from their bound
  MaxHashes       \* bound: hashes the node announces while they are counted

ASSUME WatcherAssumption ==
  /\ IsFiniteSet(FetchWorkers) /\ IsFiniteSet(Workers)
  /\ HashQueueSize \in Nat /\ TxQueueSize \in Nat
  /\ CountMetrics \in BOOLEAN /\ MaxHashes \in Nat

VARIABLES
  ctxDone,    \* the context given to Start is cancelled
  stopping,   \* Watcher.stopping
  wait,       \* a call of Wait: "none", "blocked" or "returned"
  sub,        \* where the runSubscription goroutine is
  pool,       \* where the fetchWorkers goroutine is
  fetch,      \* per slot: its client while dialing, then its worker
  crew,       \* where the processWorkers goroutine is
  proc,       \* per processing worker
  reporter,   \* where the metricsLoop goroutine is
  hashCh,     \* subscription -> fetch workers
  txCh,       \* fetch workers -> processing workers
  metrics     \* watcherMetrics

vars == <<ctxDone, stopping, wait, sub, pool, fetch, crew, proc,
          reporter, hashCh, txCh, metrics>>
fetchVars == <<pool, fetch>>
procVars  == <<crew, proc>>
ctlVars   == <<ctxDone, stopping, wait>>

SubStates   == {"loop", "dialing", "forwarding", "backoff", "done"}
FetchStates == {"undialed", "ready", "failed", "idle", "fetching", "sending", "done"}
ProcStates  == {"idle", "handling", "done"}
Counters == {"hashesReceived", "txsProcessed", "txsFetched", "fetchErrors",
             "processingErrors", "droppedHashes", "droppedTxs"}

TypeOK ==
  /\ ctxDone \in BOOLEAN /\ stopping \in BOOLEAN
  /\ wait \in {"none", "blocked", "returned"}
  /\ sub \in SubStates
  /\ pool \in {"dialing", "serving", "done"}
  /\ fetch \in [FetchWorkers -> FetchStates]
  /\ crew \in {"serving", "done"}
  /\ proc \in [Workers -> ProcStates]
  /\ reporter \in {"ticking", "done"}
  /\ hashCh \in [len : 0..HashQueueSize, closed : BOOLEAN]
  /\ txCh \in [len : 0..TxQueueSize, closed : BOOLEAN]
  /\ metrics \in [Counters -> Nat]

\* Start: both channels are made and the four goroutines spawned.
Init ==
  /\ ctxDone = FALSE /\ stopping = FALSE /\ wait = "none"
  /\ sub = "loop"
  /\ pool = "dialing" /\ fetch = [f \in FetchWorkers |-> "undialed"]
  /\ crew = "serving" /\ proc = [p \in Workers |-> "idle"]
  /\ reporter = "ticking"
  /\ hashCh = [len |-> 0, closed |-> FALSE]
  /\ txCh = [len |-> 0, closed |-> FALSE]
  /\ metrics = [c \in Counters |-> 0]

-----------------------------------------------------------------------------
\* Helpers: channels and counters

FullOffByOne(ch, size) == ch.len > size            \* mutant
Full(ch, size) == ch.len >= size
Sent(ch)     == [ch EXCEPT !.len = @ + 1]
Received(ch) == [ch EXCEPT !.len = @ - 1]
Closed(ch)   == [ch EXCEPT !.closed = TRUE]
DrainedWhenClosed(ch) == ch.closed                  \* mutant
Drained(ch)  == ch.closed /\ ch.len = 0

\* metrics with every counter of cs one higher.
Counted(cs) ==
  [c \in Counters |-> metrics[c] + (IF CountMetrics /\ c \in cs THEN 1 ELSE 0)]

-----------------------------------------------------------------------------
\* The caller: the controller cancels the context, then waits.

Cancel ==
  /\ ~ctxDone /\ ctxDone' = TRUE
  /\ UNCHANGED <<stopping, wait, sub, fetchVars, procVars, reporter,
                 hashCh, txCh, metrics>>

CallWait ==
  /\ wait = "none"
  /\ wait' = "blocked" /\ stopping' = TRUE
  /\ UNCHANGED <<ctxDone, sub, fetchVars, procVars, reporter, hashCh,
                 txCh, metrics>>

AllButCrew == sub = "done" /\ pool = "done" /\ reporter = "done"  \* mutant: wg.Add(3)

\* w.wg counts four goroutines.
AllDone == sub = "done" /\ pool = "done" /\ crew = "done" /\ reporter = "done"

WaitReturns ==
  /\ wait = "blocked" /\ AllDone
  /\ wait' = "returned"
  /\ UNCHANGED <<ctxDone, stopping, sub, fetchVars, procVars, reporter,
                 hashCh, txCh, metrics>>

-----------------------------------------------------------------------------
\* runSubscription and subscribeOnce

LeaveSubscriptionOpen == sub' = "done" /\ UNCHANGED hashCh  \* mutant: no deferred close

\* Every return of runSubscription runs its deferred close(hashCh).
LeaveSubscription == sub' = "done" /\ hashCh' = Closed(hashCh)

SubscriptionFrame ==
  UNCHANGED <<ctlVars, fetchVars, procVars, reporter, txCh>>

\* The test at the top of the loop.
TopOfLoop ==
  /\ sub = "loop"
  /\ IF ctxDone \/ stopping THEN LeaveSubscription
                            ELSE sub' = "dialing" /\ UNCHANGED hashCh
  /\ UNCHANGED metrics /\ SubscriptionFrame

AfterErrorGivesUp == LeaveSubscription             \* mutant: no retry

\* subscribeOnce returned an error: leave when cancelled, else back off.
AfterError ==
  IF ctxDone THEN LeaveSubscription
             ELSE sub' = "backoff" /\ UNCHANGED hashCh

\* DialContext or EthSubscribe fails.
SubscribeFails ==
  /\ sub = "dialing" /\ AfterError
  /\ UNCHANGED metrics /\ SubscriptionFrame

SubscribeSucceeds ==
  /\ sub = "dialing" /\ sub' = "forwarding"
  /\ UNCHANGED <<hashCh, metrics>> /\ SubscriptionFrame

\* A hash arrives: forward it, or drop it when hashCh is full.
ReceiveHash ==
  /\ sub = "forwarding"
  /\ CountMetrics => metrics["hashesReceived"] < MaxHashes
  /\ \/ /\ ~Full(hashCh, HashQueueSize)
        /\ hashCh' = Sent(hashCh)
        /\ metrics' = Counted({"hashesReceived"})
     \/ /\ Full(hashCh, HashQueueSize)
        /\ metrics' = Counted({"hashesReceived", "droppedHashes"})
        /\ UNCHANGED hashCh
  /\ UNCHANGED sub /\ SubscriptionFrame

\* sub.Err() yields an error: the websocket dropped.
SubscriptionDrops ==
  /\ sub = "forwarding" /\ AfterError
  /\ UNCHANGED metrics /\ SubscriptionFrame

\* sub.Err() yields nil or the context is done: subscribeOnce returns nil.
SubscriptionEnds ==
  /\ sub = "forwarding" /\ LeaveSubscription
  /\ UNCHANGED metrics /\ SubscriptionFrame

ForwardingCancelled == ctxDone /\ SubscriptionEnds

\* The delay (500 ms doubled per attempt, at most 8 s) has passed.
BackoffOver ==
  /\ sub = "backoff"
  /\ sub' = "loop"
  /\ UNCHANGED <<hashCh, metrics>> /\ SubscriptionFrame

BackoffCancelled ==
  /\ sub = "backoff" /\ ctxDone /\ LeaveSubscription
  /\ UNCHANGED metrics /\ SubscriptionFrame

Subscription ==
  \/ TopOfLoop \/ SubscribeFails \/ SubscribeSucceeds \/ ReceiveHash
  \/ SubscriptionDrops \/ SubscriptionEnds \/ BackoffOver \/ BackoffCancelled

-----------------------------------------------------------------------------
\* fetchWorkers

FetchFrame == UNCHANGED <<ctlVars, sub, procVars, reporter>>

\* One client of the pool is dialed; a failed one leaves its slot empty.
DialClient(f) ==
  /\ pool = "dialing" /\ fetch[f] = "undialed"
  /\ \E r \in {"ready", "failed"} : fetch' = [fetch EXCEPT ![f] = r]
  /\ UNCHANGED <<pool, hashCh, txCh, metrics>> /\ FetchFrame

\* All dials over: a worker starts on every slot that has a client.
SpawnFetchers ==
  /\ pool = "dialing" /\ \A f \in FetchWorkers : fetch[f] # "undialed"
  /\ pool' = "serving"
  /\ fetch' = [f \in FetchWorkers |-> IF fetch[f] = "ready" THEN "idle" ELSE fetch[f]]
  /\ UNCHANGED <<hashCh, txCh, metrics>> /\ FetchFrame

TakeHash(f) ==
  /\ fetch[f] = "idle" /\ hashCh.len > 0
  /\ hashCh' = Received(hashCh)
  /\ fetch' = [fetch EXCEPT ![f] = "fetching"]
  /\ UNCHANGED <<pool, txCh, metrics>> /\ FetchFrame

FetchFailsUncounted(f) ==                           \* mutant
  /\ fetch[f] = "fetching"
  /\ fetch' = [fetch EXCEPT ![f] = "idle"]
  /\ UNCHANGED <<pool, hashCh, txCh, metrics>> /\ FetchFrame

\* TransactionByHash fails, times out or is cancelled.
FetchFails(f) ==
  /\ fetch[f] = "fetching"
  /\ fetch' = [fetch EXCEPT ![f] = "idle"]
  /\ metrics' = Counted({"fetchErrors"})
  /\ UNCHANGED <<pool, hashCh, txCh>> /\ FetchFrame

FetchSucceeds(f) ==
  /\ fetch[f] = "fetching"
  /\ fetch' = [fetch EXCEPT ![f] = "sending"]
  /\ metrics' = Counted({"txsFetched"})
  /\ UNCHANGED <<pool, hashCh, txCh>> /\ FetchFrame

SendTxUncounted(f) ==                               \* mutant: a silent drop
  /\ fetch[f] = "sending"
  /\ fetch' = [fetch EXCEPT ![f] = "idle"]
  /\ txCh' = IF Full(txCh, TxQueueSize) THEN txCh ELSE Sent(txCh)
  /\ UNCHANGED <<pool, hashCh, metrics>> /\ FetchFrame

\* The non-blocking send to txCh.
SendTx(f) ==
  /\ fetch[f] = "sending"
  /\ fetch' = [fetch EXCEPT ![f] = "idle"]
  /\ \/ ~Full(txCh, TxQueueSize) /\ txCh' = Sent(txCh) /\ UNCHANGED metrics
     \/ Full(txCh, TxQueueSize) /\ metrics' = Counted({"droppedTxs"}) /\ UNCHANGED txCh
  /\ UNCHANGED <<pool, hashCh>> /\ FetchFrame

StopFetcher(f) ==
  /\ fetch[f] = "idle" /\ (ctxDone \/ Drained(hashCh))
  /\ fetch' = [fetch EXCEPT ![f] = "done"]
  /\ UNCHANGED <<pool, hashCh, txCh, metrics>> /\ FetchFrame

\* fetchWg is back to zero.
FetchWgIgnored == TRUE                              \* mutant: no fetchWg.Wait
FetchersGone == \A f \in FetchWorkers : fetch[f] \in {"failed", "done"}

\* fetchWg.Wait, then the deferred function closes the clients and txCh.
CloseTxCh ==
  /\ pool = "serving" /\ FetchersGone
  /\ pool' = "done" /\ txCh' = Closed(txCh)
  /\ UNCHANGED <<fetch, hashCh, metrics>> /\ FetchFrame

Fetcher(f) ==
  \/ DialClient(f) \/ TakeHash(f) \/ FetchFails(f) \/ FetchSucceeds(f)
  \/ SendTx(f) \/ StopFetcher(f)

-----------------------------------------------------------------------------
\* processWorkers and metricsLoop

ProcFrame == UNCHANGED <<ctlVars, sub, fetchVars, hashCh>>

TakeTx(p) ==
  /\ proc[p] = "idle" /\ txCh.len > 0
  /\ txCh' = Received(txCh)
  /\ proc' = [proc EXCEPT ![p] = "handling"]
  /\ UNCHANGED <<crew, reporter, metrics>> /\ ProcFrame

\* OnTx returns, with or without an error.
FinishTx(p) ==
  /\ proc[p] = "handling"
  /\ proc' = [proc EXCEPT ![p] = "idle"]
  /\ \E errs \in {{}, {"processingErrors"}} :
        metrics' = Counted({"txsProcessed"} \cup errs)
  /\ UNCHANGED <<crew, reporter, txCh>> /\ ProcFrame

StopWorker(p) ==
  /\ proc[p] = "idle" /\ (ctxDone \/ Drained(txCh))
  /\ proc' = [proc EXCEPT ![p] = "done"]
  /\ UNCHANGED <<crew, reporter, txCh, metrics>> /\ ProcFrame

\* processWg.Wait
CrewLeaves ==
  /\ crew = "serving" /\ \A p \in Workers : proc[p] = "done"
  /\ crew' = "done"
  /\ UNCHANGED <<proc, reporter, txCh, metrics>> /\ ProcFrame

ReporterWaitsForWait ==                             \* mutant: no ctx.Done case
  /\ reporter = "ticking" /\ stopping
  /\ reporter' = "done"
  /\ UNCHANGED <<procVars, txCh, metrics>> /\ ProcFrame

ReporterLeaves ==
  /\ reporter = "ticking" /\ ctxDone
  /\ reporter' = "done"
  /\ UNCHANGED <<procVars, txCh, metrics>> /\ ProcFrame

Worker(p) == TakeTx(p) \/ FinishTx(p) \/ StopWorker(p)

Next ==
  \/ Cancel \/ CallWait \/ WaitReturns
  \/ Subscription
  \/ \E f \in FetchWorkers : Fetcher(f)
  \/ SpawnFetchers \/ CloseTxCh
  \/ \E p \in Workers : Worker(p)
  \/ CrewLeaves \/ ReporterLeaves

Spec == Init /\ [][Next]_vars

-----------------------------------------------------------------------------
\* Fairness. Every goroutine that can step does; a dial, a call of the node
\* and OnTx end (timeouts, or the context); a node that is dialed again and
\* again is up at last. Nothing makes hashes arrive, websockets drop, or the
\* caller cancel.

Fairness ==
  /\ WF_vars(TopOfLoop) /\ WF_vars(SubscribeFails \/ SubscribeSucceeds)
  /\ SF_vars(SubscribeSucceeds)
  /\ WF_vars(ForwardingCancelled) /\ WF_vars(BackoffOver \/ BackoffCancelled)
  /\ \A f \in FetchWorkers : WF_vars(Fetcher(f))
  /\ WF_vars(SpawnFetchers) /\ WF_vars(CloseTxCh)
  /\ \A p \in Workers : WF_vars(Worker(p))
  /\ WF_vars(CrewLeaves) /\ WF_vars(ReporterLeaves) /\ WF_vars(WaitReturns)

FairSpec == Spec /\ Fairness

-----------------------------------------------------------------------------
\* Safety

Fetching == {f \in FetchWorkers : fetch[f] = "fetching"}
Sending  == {f \in FetchWorkers : fetch[f] = "sending"}
Handling == {p \in Workers : proc[p] = "handling"}

\* Every hash metricsLoop has counted as received is dropped, queued, being
\* fetched, failed or fetched: stage 1 and 2 lose and duplicate nothing.
HashAccounting ==
  CountMetrics =>
    metrics["hashesReceived"] =
      metrics["droppedHashes"] + hashCh.len + Cardinality(Fetching)
        + metrics["fetchErrors"] + metrics["txsFetched"]

\* Likewise for a fetched transaction on its way to OnTx.
TxAccounting ==
  CountMetrics =>
    metrics["txsFetched"] =
      Cardinality(Sending) + metrics["droppedTxs"] + txCh.len
        + Cardinality(Handling) + metrics["txsProcessed"]

\* A send on a closed channel panics, in a select with a default too: txCh is
\* closed only after the last fetch worker has gone, hashCh only after the
\* forwarding loop has.
NoSendOnClosedChannel ==
  /\ hashCh.closed => sub = "done"
  /\ txCh.closed => \A f \in FetchWorkers : fetch[f] \in {"failed", "done"}

\* Once Wait has returned no goroutine of the pipeline is left: none fetches
\* on a closed client, none is inside OnTx.
QuietAfterWait ==
  wait = "returned" =>
    /\ \A f \in FetchWorkers : fetch[f] \in {"failed", "done"}
    /\ \A p \in Workers : proc[p] = "done"

\* A processing worker leaves a transaction behind in txCh only when the
\* context is cancelled: closing alone drains the queue first.
NoTxLeftBehind ==
  (crew = "done" /\ ~ctxDone /\ Workers # {}) => txCh.closed /\ txCh.len = 0

-----------------------------------------------------------------------------
\* Liveness (under FairSpec)

\* Cancelling the context ends all four goroutines, whatever they wait for.
ShutdownCompletes == ctxDone ~> AllDone

\* A subscription that could not be made, or dropped, is up at last, unless
\* the watcher is stopped: no series of errors makes it give up.
Resubscribes == (sub = "dialing") ~> (sub = "forwarding" \/ ctxDone \/ stopping)

\* A subscription that ended hands over what it queued: the queues drain and
\* both pools leave, even if nobody cancels, as long as one client was dialed.
GracefulDrain ==
  (sub = "done" /\ \E f \in FetchWorkers : fetch[f] \notin {"undialed", "failed"})
    ~> (ctxDone \/ (hashCh.len = 0 /\ txCh.len = 0 /\ pool = "done" /\ crew = "done"))
=============================================================================
