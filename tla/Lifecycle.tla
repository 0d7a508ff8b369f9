------------------------------ MODULE Lifecycle ------------------------------
(***************************************************************************)
(* The watcher lifecycle of internal/telegram/controller.go: the commands  *)
(* /net, /start and /stop, handled one at a time by the update loop of     *)
(* Controller.Start; the goroutine each /stop leaves behind to wait for    *)
(* the watcher; and the sessions (one context, one watcher) themselves.    *)
(*                                                                         *)
(* A watcher is what Watcher.tla shows of it: it runs until its context is *)
(* cancelled and ends some time after.  The fields of the controller are   *)
(* not guarded by any lock: the waiters and the loop interleave freely.    *)
(***************************************************************************)
EXTENDS Integers

CONSTANTS
  Nets,       \* network presets
  Waiters,    \* bound: goroutines of /stop that may be pending at a time
  MaxStarts,  \* bound: attempts to start a session
  None        \* no network

ASSUME LifecycleAssumption ==
  /\ MaxStarts \in Nat /\ None \notin Nets

VARIABLES
  \* fields of Controller; cancelFn and watcher name a session, 0 is nil
  activeNet, running, cancelFn, watcher,
  ethClient, dex,    \* the network they are connected to
  executor,          \* the network of its client and registry
  \* the update loop: idle, or inside startOnActivePreset
  loop, starts,
  key,               \* Cfg.PRIVATE_KEY holds a usable key
  \* per session
  ctx, pipeline, stopping, net,
  \* the goroutines of /stop, and the session each waits for
  waiter, target,
  interrupted        \* SIGINT or SIGTERM cancelled the root context

field   == <<activeNet, running, cancelFn, watcher, ethClient, dex, executor>>
handles == <<ethClient, dex, executor>>
session == <<ctx, pipeline, stopping, net>>
waiting == <<waiter, target>>
vars == <<field, loop, starts, key, session, waiting, interrupted>>

Sessions == 1..MaxStarts

TypeOK ==
  /\ activeNet \in Nets /\ running \in BOOLEAN
  /\ cancelFn \in 0..MaxStarts /\ watcher \in 0..MaxStarts
  /\ ethClient \in Nets \cup {None} /\ dex \in Nets \cup {None}
  /\ executor \in Nets \cup {None}
  /\ loop \in {"idle", "dialing", "identifying", "equipping", "launching", "exited"}
  /\ starts \in 0..MaxStarts /\ key \in BOOLEAN
  /\ ctx \in [Sessions -> {"none", "open", "cancelled"}]
  /\ pipeline \in [Sessions -> {"none", "running", "ended"}]
  /\ stopping \in [Sessions -> BOOLEAN]
  /\ net \in [Sessions -> Nets \cup {None}]
  /\ waiter \in [Waiters -> {"idle", "spawned", "waiting"}]
  /\ target \in [Waiters -> 0..MaxStarts]
  /\ interrupted \in BOOLEAN

\* NewController, then the first turn of the update loop.
Init ==
  /\ activeNet \in Nets /\ running = FALSE /\ cancelFn = 0 /\ watcher = 0
  /\ ethClient = None /\ dex = None /\ executor = None
  /\ loop = "idle" /\ starts = 0 /\ key \in BOOLEAN
  /\ ctx = [s \in Sessions |-> "none"] /\ pipeline = [s \in Sessions |-> "none"]
  /\ stopping = [s \in Sessions |-> FALSE] /\ net = [s \in Sessions |-> None]
  /\ waiter = [w \in Waiters |-> "idle"] /\ target = [w \in Waiters |-> 0]
  /\ interrupted = FALSE

-----------------------------------------------------------------------------
\* /net: selects the preset of the next /start, whether running or not.

AnyName == Nets \cup {None}                         \* mutant: no preset lookup
Selectable == Nets \ {activeNet}

SelectNet ==
  /\ loop = "idle"
  /\ \E n \in Selectable : activeNet' = n
  /\ UNCHANGED <<running, cancelFn, watcher, handles, loop, starts, key,
                 session, waiting, interrupted>>

-----------------------------------------------------------------------------
\* /start: startOnActivePreset, cut where it waits for the node. Its context
\* is a child of the root context.

StartFrame == UNCHANGED <<activeNet, key, waiting, interrupted>>

CancelNothing(s) == UNCHANGED ctx                   \* mutant
CancelContext(s) == ctx' = [ctx EXCEPT ![s] = IF @ = "open" THEN "cancelled" ELSE @]

IdleLoop == loop = "idle"                           \* mutant: running not tested
Startable == loop = "idle" /\ ~running

\* A new context; its cancel function replaces the one held before.
BeginStart ==
  /\ Startable /\ starts < MaxStarts
  /\ starts' = starts + 1
  /\ ctx' = [ctx EXCEPT ![starts + 1] = IF interrupted THEN "cancelled" ELSE "open"]
  /\ net' = [net EXCEPT ![starts + 1] = activeNet]
  /\ cancelFn' = starts + 1
  /\ loop' = "dialing"
  /\ UNCHANGED <<running, watcher, handles, pipeline, stopping>> /\ StartFrame

\* rpc.DialContext or ChainID fails: cancel and report the error.
StartFails ==
  /\ loop \in {"dialing", "identifying"}
  /\ CancelContext(starts) /\ loop' = "idle"
  /\ UNCHANGED <<running, cancelFn, watcher, handles, starts, pipeline,
                 stopping, net>> /\ StartFrame

ClientDialed ==
  /\ loop = "dialing"
  /\ ethClient' = activeNet /\ loop' = "identifying"
  /\ UNCHANGED <<running, cancelFn, watcher, dex, executor, starts, session>> /\ StartFrame

ChainIdentified ==
  /\ loop = "identifying"
  /\ dex' = activeNet /\ loop' = "equipping"
  /\ UNCHANGED <<running, cancelFn, watcher, ethClient, executor, starts, session>>
  /\ StartFrame

KeepOnError == IF key THEN executor' \in {activeNet, executor}  \* mutant
                      ELSE UNCHANGED executor

\* With a usable key the executor is replaced, by nil when its creation
\* fails; without one it keeps its value.
ReplaceExecutor == IF key THEN executor' \in {activeNet, None} ELSE UNCHANGED executor

\* NewWatcher replaces the watcher.
Equip ==
  /\ loop = "equipping" /\ ReplaceExecutor
  /\ watcher' = starts /\ loop' = "launching"
  /\ UNCHANGED <<running, cancelFn, ethClient, dex, starts, session>> /\ StartFrame

\* watcher.Start (which fails for an empty URL only, and no preset has one),
\* then running = true.
Launch ==
  /\ loop = "launching"
  /\ pipeline' = [pipeline EXCEPT ![starts] = "running"]
  /\ running' = TRUE /\ loop' = "idle"
  /\ UNCHANGED <<cancelFn, watcher, handles, starts, ctx, stopping, net>> /\ StartFrame

-----------------------------------------------------------------------------
\* /stop: cancel, and leave a goroutine that waits for the watcher.

Stop ==
  /\ loop = "idle" /\ running
  /\ CancelContext(cancelFn)
  /\ \E w \in Waiters : waiter[w] = "idle" /\ waiter' = [waiter EXCEPT ![w] = "spawned"]
  /\ UNCHANGED <<field, loop, starts, key, pipeline, stopping, net, target,
                 interrupted>>

WaiterFrame == UNCHANGED <<activeNet, cancelFn, watcher, handles, loop, starts,
                           key, ctx, pipeline, net, interrupted>>

\* The goroutine runs at last: it reads c.watcher and calls its Wait.
EnterWait(w) ==
  /\ waiter[w] = "spawned" /\ loop # "exited"
  /\ waiter' = [waiter EXCEPT ![w] = "waiting"]
  /\ target' = [target EXCEPT ![w] = watcher]
  /\ stopping' = [stopping EXCEPT ![watcher] = TRUE]
  /\ UNCHANGED running /\ WaiterFrame

NoWait(w) == TRUE                                   \* mutant: Wait returns at once
WaitReturns(w) == pipeline[target[w]] # "running"

\* Wait has returned: running = false, and "Stopped" is sent.
ReportStopped(w) ==
  /\ waiter[w] = "waiting" /\ loop # "exited"
  /\ WaitReturns(w)
  /\ waiter' = [waiter EXCEPT ![w] = "idle"]
  /\ running' = FALSE
  /\ UNCHANGED <<stopping, target>> /\ WaiterFrame

Waiter(w) == EnterWait(w) \/ ReportStopped(w)

-----------------------------------------------------------------------------
\* The environment: sessions end once cancelled, signals end the process.

WatcherEnds(s) ==
  /\ loop # "exited" /\ pipeline[s] = "running" /\ ctx[s] = "cancelled"
  /\ pipeline' = [pipeline EXCEPT ![s] = "ended"]
  /\ UNCHANGED <<field, loop, starts, key, ctx, stopping, net, waiting, interrupted>>

Interrupt ==
  /\ ~interrupted /\ interrupted' = TRUE
  /\ ctx' = [s \in Sessions |-> IF ctx[s] = "open" THEN "cancelled" ELSE ctx[s]]
  /\ UNCHANGED <<field, loop, starts, key, pipeline, stopping, net, waiting>>

\* Start returns nil and main exits, waiting for nobody.
Exit ==
  /\ interrupted /\ loop = "idle" /\ loop' = "exited"
  /\ UNCHANGED <<field, starts, key, session, waiting, interrupted>>

StartStep == StartFails \/ ClientDialed \/ ChainIdentified \/ Equip \/ Launch

Next ==
  \/ SelectNet \/ BeginStart \/ StartStep \/ Stop
  \/ \E w \in Waiters : Waiter(w)
  \/ \E s \in Sessions : WatcherEnds(s)
  \/ Interrupt \/ Exit

Spec == Init /\ [][Next]_vars

\* Calls of the node end, goroutines run, and a cancelled watcher ends
\* (ShutdownCompletes of Watcher). No command has to come.
Fairness ==
  /\ WF_vars(StartStep) /\ WF_vars(Exit)
  /\ \A w \in Waiters : WF_vars(Waiter(w))
  /\ \A s \in Sessions : WF_vars(WatcherEnds(s))

FairSpec == Spec /\ Fairness

-----------------------------------------------------------------------------
Live(s) == pipeline[s] = "running" /\ ctx[s] = "open"

\* A watcher that nobody has told to stop is the one the controller knows:
\* it answers running, its cancel function is the one /stop calls, and no
\* goroutine of an earlier /stop has told it to give up reconnecting.
LiveIsReachable ==
  \A s \in Sessions : Live(s) => running /\ cancelFn = s /\ watcher = s /\ ~stopping[s]

\* Two watchers never run at the same time, not even while one shuts down:
\* they would share the node connection limits, the executor and the chat.
OneSession ==
  \A s, t \in Sessions :
    pipeline[s] = "running" /\ pipeline[t] = "running" => s = t

\* While it is running, the client, the registry and the executor the commands
\* and the callback use belong to the network of the session's watcher.
RunningOnOneNet ==
  running => /\ ethClient = net[watcher] /\ dex = net[watcher]
             /\ executor \in {net[watcher], None}

\* Every /stop is answered with "Stopped" (unless the process exits).
StopIsAnswered ==
  \A w \in Waiters : waiter[w] # "idle" ~> (waiter[w] = "idle" \/ loop = "exited")
=============================================================================
