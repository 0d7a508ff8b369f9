--------------------------- MODULE LifecycleProofs ---------------------------
(***************************************************************************)
(* Theorems about the sessions of the controller, for any networks and any *)
(* number of starts. TypeCorrect and NetsAgree hold for any number of      *)
(* /stops; the others as long as no second /stop is sent before the first  *)
(* is answered. MCLifecycle_twostops shows what happens when one is.       *)
(***************************************************************************)
EXTENDS LifecycleSession, TLAPS

OneStopAtATime == \A v, w \in Waiters : v = w

Starting == {"dialing", "identifying", "equipping", "launching"}

\* The fields a start under way has set so far, all for the selected network;
\* nothing is running meanwhile. This much holds for any number of /stops.
EquipInv ==
  /\ TypeOK /\ RunningOnOneNet /\ (~key => executor = None)
  /\ loop \in Starting =>
       /\ ~running /\ starts \in Sessions /\ net[starts] = activeNet
       /\ loop # "dialing" => ethClient = activeNet
       /\ loop \in {"equipping", "launching"} => dex = activeNet
       /\ loop = "launching" => watcher = starts /\ executor \in {activeNet, None}

\* A /stop that is not answered yet keeps running up, and waits for the
\* watcher it has cancelled.
WaitersInv ==
  \A w \in Waiters :
    /\ waiter[w] # "idle" => running /\ ctx[watcher] = "cancelled"
    /\ waiter[w] = "waiting" => target[w] = watcher

\* While a session runs it is the last one that was started, and the fields of
\* the controller are its own.
RunningInv ==
  running =>
    /\ loop \in {"idle", "exited"}
    /\ starts \in Sessions /\ cancelFn = starts /\ watcher = starts
    /\ pipeline[starts] # "none" /\ ctx[starts] # "none"

\* Nothing else runs, and the sessions to come are untouched.
OthersInv ==
  /\ \A s \in Sessions : pipeline[s] = "running" => running /\ s = starts
  /\ \A s \in Sessions : s > starts => ctx[s] = "none" /\ pipeline[s] = "none"
  /\ \A s \in Sessions : stopping[s] => ctx[s] = "cancelled"

\* The session of a start that is under way.
StartingInv ==
  loop \in Starting => cancelFn = starts /\ ctx[starts] # "none" /\ pipeline[starts] = "none"

LifecycleInv == EquipInv /\ WaitersInv /\ RunningInv /\ OthersInv /\ StartingInv

-----------------------------------------------------------------------------
LEMMA TypeStep == TypeOK /\ [Next]_vars => TypeOK'
<1> SUFFICES ASSUME TypeOK, [Next]_vars PROVE TypeOK'
  OBVIOUS
<1> USE LifecycleAssumption
    DEF TypeOK, Sessions, StartFrame, WaiterFrame, handles, session, waiting, field, CancelContext
<1>1. CASE SelectNet
  BY <1>1 DEF SelectNet, Selectable
<1>2. CASE BeginStart
  BY <1>2 DEF BeginStart, Startable
<1>3. CASE StartFails \/ ClientDialed \/ ChainIdentified
  BY <1>3 DEF StartFails, ClientDialed, ChainIdentified
<1>4. CASE Equip
  BY <1>4 DEF Equip, ReplaceExecutor
<1>5. CASE Launch
  BY <1>5 DEF Launch
<1>6. CASE Stop
  BY <1>6 DEF Stop
<1>7. ASSUME NEW w \in Waiters, Waiter(w) PROVE TypeOK'
  BY <1>7 DEF Waiter, EnterWait, ReportStopped
<1>8. ASSUME NEW s \in Sessions, WatcherEnds(s) PROVE TypeOK'
  BY <1>8 DEF WatcherEnds
<1>9. CASE Interrupt \/ Exit
  BY <1>9 DEF Interrupt, Exit
<1>10. CASE UNCHANGED vars
  BY <1>10 DEF vars
<1> QED BY <1>1, <1>2, <1>3, <1>4, <1>5, <1>6, <1>7, <1>8, <1>9, <1>10 DEF Next, StartStep

LEMMA TypeInit == Init => TypeOK
<1> SUFFICES ASSUME Init PROVE TypeOK
  OBVIOUS
<1>1. cancelFn \in 0..MaxStarts /\ watcher \in 0..MaxStarts /\ starts \in 0..MaxStarts
  BY LifecycleAssumption DEF Init
<1>2. /\ ctx \in [Sessions -> {"none", "open", "cancelled"}]
      /\ pipeline \in [Sessions -> {"none", "running", "ended"}]
      /\ stopping \in [Sessions -> BOOLEAN] /\ net \in [Sessions -> Nets \cup {None}]
  BY DEF Init
<1>3. waiter \in [Waiters -> {"idle", "spawned", "waiting"}] /\ target \in [Waiters -> 0..MaxStarts]
  BY LifecycleAssumption DEF Init
<1> QED BY <1>1, <1>2, <1>3 DEF Init, TypeOK

\* Every field keeps its type, and no index leaves the sessions.
THEOREM TypeCorrect == Spec => []TypeOK
BY TypeInit, TypeStep, PTL DEF Spec

-----------------------------------------------------------------------------
LEMMA EquipInit == Init => EquipInv
BY TypeInit DEF Init, EquipInv, Starting, RunningOnOneNet

LEMMA EquipStep == EquipInv /\ [Next]_vars => EquipInv'
<1> SUFFICES ASSUME EquipInv, [Next]_vars PROVE EquipInv'
  OBVIOUS
<1>1. TypeOK /\ TypeOK'
  BY TypeStep DEF EquipInv
<1> USE <1>1 DEF EquipInv, Sessions, Starting, RunningOnOneNet, handles, StartFrame
<1>2. CASE SelectNet
  BY <1>2 DEF SelectNet, session
<1>3. CASE BeginStart
  <2>1. starts' = starts + 1 /\ starts' \in 1..MaxStarts
    BY <1>3, LifecycleAssumption DEF BeginStart, TypeOK
  <2> QED BY <1>3, <2>1 DEF BeginStart, Startable, TypeOK
<1>4. CASE StartFails \/ ClientDialed \/ ChainIdentified
  BY <1>4 DEF StartFails, ClientDialed, ChainIdentified, session
<1>5. CASE Equip
  BY <1>5 DEF Equip, ReplaceExecutor, session, TypeOK
<1>6. CASE Launch
  BY <1>6 DEF Launch
<1>7. CASE Stop
  BY <1>7 DEF Stop, field
<1>8. ASSUME NEW w \in Waiters, Waiter(w) PROVE EquipInv'
  BY <1>8 DEF Waiter, EnterWait, ReportStopped, WaiterFrame
<1>9. ASSUME NEW s \in Sessions, WatcherEnds(s) PROVE EquipInv'
  BY <1>9 DEF WatcherEnds, field
<1>10. CASE Interrupt \/ Exit \/ UNCHANGED vars
  BY <1>10 DEF Interrupt, Exit, vars, field, session
<1> QED BY <1>2, <1>3, <1>4, <1>5, <1>6, <1>7, <1>8, <1>9, <1>10 DEF Next, StartStep

\* What runs has its client, registry and executor from one /start: neither
\* /net, nor a start that fails, nor a second /stop changes them under it.
THEOREM NetsAgree == Spec => []RunningOnOneNet
<1>1. EquipInv => RunningOnOneNet
  BY DEF EquipInv
<1> QED BY EquipInit, EquipStep, <1>1, PTL DEF Spec

-----------------------------------------------------------------------------
LEMMA LifecycleInit == Init => LifecycleInv
BY EquipInit DEF Init, LifecycleInv, WaitersInv, RunningInv, OthersInv, StartingInv, Starting, Sessions

\* Without a second /stop, each step keeps the session that runs, the one that
\* starts and the one that ends apart.
LEMMA LifecycleStep ==
  ASSUME OneStopAtATime, LifecycleInv, [Next]_vars
  PROVE  LifecycleInv'
<1>1. EquipInv /\ EquipInv' /\ TypeOK /\ TypeOK'
  BY EquipStep DEF LifecycleInv, EquipInv
<1> USE <1>1 DEF LifecycleInv, Sessions, Starting
<1>2. CASE SelectNet
  BY <1>2 DEF SelectNet, handles, session, waiting, WaitersInv, RunningInv, OthersInv,
              StartingInv
<1>3. CASE BeginStart
  <2> USE <1>3 DEF BeginStart, Startable, StartFrame, handles, waiting
  <2>1. starts' = starts + 1 /\ starts' \in 1..MaxStarts
    BY LifecycleAssumption DEF TypeOK
  <2>2. WaitersInv' /\ RunningInv'
    BY <2>1 DEF WaitersInv, RunningInv
  <2>3. OthersInv'
    BY <2>1 DEF OthersInv, TypeOK
  <2>4. StartingInv'
    BY <2>1 DEF OthersInv, StartingInv, TypeOK
  <2> QED BY <2>2, <2>3, <2>4
<1>4. CASE StartFails
  <2> USE <1>4 DEF StartFails, CancelContext, StartFrame, handles, waiting
  <2>1. WaitersInv' /\ RunningInv'
    BY DEF WaitersInv, RunningInv, TypeOK
  <2>2. OthersInv'
    BY DEF OthersInv, TypeOK
  <2>3. StartingInv'
    BY DEF StartingInv
  <2> QED BY <2>1, <2>2, <2>3
<1>5. CASE ClientDialed \/ ChainIdentified
  <2> USE <1>5 DEF ClientDialed, ChainIdentified, StartFrame, session, waiting
  <2>1. WaitersInv' /\ RunningInv' /\ OthersInv'
    BY DEF WaitersInv, RunningInv, OthersInv
  <2>2. StartingInv'
    BY DEF StartingInv, RunningInv
  <2> QED BY <2>1, <2>2
<1>6. CASE Equip
  <2> USE <1>6 DEF Equip, ReplaceExecutor, StartFrame, session, waiting
  <2>1. ~running
    BY DEF RunningInv
  <2>2. WaitersInv' /\ RunningInv' /\ OthersInv'
    BY <2>1 DEF WaitersInv, RunningInv, OthersInv
  <2>3. StartingInv'
    BY <2>1 DEF StartingInv, TypeOK
  <2> QED BY <2>2, <2>3
<1>7. CASE Launch
  <2> USE <1>7 DEF Launch, StartFrame, handles, waiting
  <2>1. ~running
    BY DEF RunningInv
  <2>2. WaitersInv' /\ RunningInv'
    BY <2>1 DEF EquipInv, WaitersInv, RunningInv, StartingInv, TypeOK
  <2>3. OthersInv'
    BY <2>1 DEF OthersInv, StartingInv, TypeOK
  <2>4. StartingInv'
    BY <2>1 DEF StartingInv
  <2> QED BY <2>2, <2>3, <2>4
<1>8. CASE Stop
  <2> USE <1>8 DEF Stop, CancelContext, field
  <2>1. WaitersInv'
    BY DEF WaitersInv, RunningInv, TypeOK
  <2>2. RunningInv' /\ StartingInv'
    BY DEF RunningInv, StartingInv
  <2>3. OthersInv'
    BY DEF OthersInv, RunningInv, TypeOK
  <2> QED BY <2>1, <2>2, <2>3
<1>9. ASSUME NEW w \in Waiters, EnterWait(w) PROVE LifecycleInv'
  <2> USE <1>9 DEF EnterWait, WaiterFrame, handles
  <2>1. WaitersInv'
    BY DEF WaitersInv, TypeOK
  <2>2. RunningInv' /\ StartingInv'
    BY DEF RunningInv, StartingInv
  <2>3. OthersInv'
    BY DEF OthersInv, WaitersInv, RunningInv, TypeOK
  <2> QED BY <2>1, <2>2, <2>3
<1>10. ASSUME NEW w \in Waiters, ReportStopped(w) PROVE LifecycleInv'
  <2> USE <1>10 DEF ReportStopped, WaitReturns, WaiterFrame, handles
  <2>1. running /\ watcher = starts /\ target[w] = watcher /\ loop \notin Starting
    BY DEF WaitersInv, RunningInv
  <2>2. WaitersInv'
    BY DEF OneStopAtATime, WaitersInv, TypeOK
  <2>3. RunningInv' /\ StartingInv'
    BY <2>1 DEF RunningInv, StartingInv
  <2>4. OthersInv'
    BY <2>1 DEF OthersInv
  <2> QED BY <2>2, <2>3, <2>4
<1>11. ASSUME NEW s \in Sessions, WatcherEnds(s) PROVE LifecycleInv'
  <2> USE <1>11 DEF WatcherEnds, field, waiting
  <2>1. WaitersInv' /\ StartingInv'
    BY DEF WaitersInv, StartingInv
  <2>2. RunningInv' /\ OthersInv'
    BY DEF RunningInv, OthersInv, TypeOK
  <2> QED BY <2>1, <2>2
<1>12. CASE Interrupt
  <2> USE <1>12 DEF Interrupt, field, waiting
  <2>1. WaitersInv'
    BY DEF WaitersInv, RunningInv, TypeOK
  <2>2. RunningInv' /\ StartingInv'
    BY DEF EquipInv, RunningInv, StartingInv
  <2>3. OthersInv'
    BY DEF OthersInv, TypeOK
  <2> QED BY <2>1, <2>2, <2>3
<1>13. CASE Exit
  BY <1>13 DEF Exit, field, session, waiting, WaitersInv, RunningInv, OthersInv, StartingInv, RunningOnOneNet
<1>14. CASE UNCHANGED vars
  BY <1>14 DEF vars, field, session, waiting, WaitersInv, RunningInv, OthersInv, StartingInv, RunningOnOneNet
<1> QED BY <1>2, <1>3, <1>4, <1>5, <1>6, <1>7, <1>8, <1>9, <1>10, <1>11, <1>12, <1>13, <1>14
        DEF Next, StartStep, Waiter

LEMMA LifecycleInvariant == OneStopAtATime => (Spec => []LifecycleInv)
<1> SUFFICES ASSUME OneStopAtATime PROVE Spec => []LifecycleInv
  OBVIOUS
<1>1. LifecycleInv /\ [Next]_vars => LifecycleInv'
  BY LifecycleStep
<1> QED BY LifecycleInit, <1>1, PTL DEF Spec

\* A watcher that lives is the one the fields name: /stop, an interrupt and the
\* next /start reach it.
THEOREM LiveIsReached == OneStopAtATime => (Spec => []LiveIsReachable)
<1>1. LifecycleInv => LiveIsReachable
  BY DEF LifecycleInv, RunningInv, OthersInv, LiveIsReachable, Live
<1> QED BY LifecycleInvariant, <1>1, PTL

\* Never two sessions at once, however /start, /stop and the end of a watcher
\* interleave.
THEOREM SessionsApart == OneStopAtATime => (Spec => []OneSession)
<1>1. LifecycleInv => OneSession
  BY DEF LifecycleInv, RunningInv, OthersInv, Live, OneSession
<1> QED BY LifecycleInvariant, <1>1, PTL

\* "Not running" is never shown while a watcher still calls back: running is
\* cleared only by the goroutine that waited for the current session.
ClearedAfterEnd ==
  [][running /\ ~running' => pipeline[watcher] = "ended"]_vars

\* "Not running" is true: only the end of the current session clears running.
THEOREM ClearedWhenEnded == OneStopAtATime => (Spec => ClearedAfterEnd)
<1>1. ASSUME LifecycleInv, [Next]_vars
      PROVE  [running /\ ~running' => pipeline[watcher] = "ended"]_vars
  <2> USE DEF field, session, waiting, handles, StartFrame
  <2>1. ASSUME NEW w \in Waiters, ReportStopped(w) PROVE pipeline[watcher] = "ended"
    BY <1>1, <2>1 DEF LifecycleInv, EquipInv, TypeOK, WaitersInv, RunningInv, ReportStopped, WaitReturns
  <2>2. CASE \E w \in Waiters : EnterWait(w) \/ ReportStopped(w)
    BY <2>1, <2>2 DEF EnterWait
  <2>3. CASE SelectNet \/ BeginStart \/ StartStep \/ Stop
    BY <2>3 DEF SelectNet, BeginStart, StartStep, StartFails, ClientDialed, ChainIdentified,
                Equip, Launch, Stop
  <2>4. CASE (\E s \in Sessions : WatcherEnds(s)) \/ Interrupt \/ Exit
    BY <2>4 DEF WatcherEnds, Interrupt, Exit
  <2> QED BY <1>1, <2>2, <2>3, <2>4 DEF Next, Waiter
<1> QED BY LifecycleInvariant, <1>1, PTL DEF Spec, ClearedAfterEnd

-----------------------------------------------------------------------------
\* What the abstract session sees of a session: whether its watcher runs and
\* whether it is over.
Calling == {s \in Sessions : pipeline[s] = "running"}
Over    == {s \in Sessions : pipeline[s] = "ended"}
Asked   == running /\ ctx[watcher] = "cancelled"

\* A step that leaves alone what is seen of the sessions is no step of theirs;
\* the fields may change while none is shown.
LEMMA UnseenStep ==
  ASSUME UNCHANGED <<running, pipeline>>, running => UNCHANGED handles, Asked' = Asked
  PROVE  [Promised!Next]_Promised!sessionVars
<1>1. CASE running
  BY <1>1 DEF Promised!sessionVars, Asked
<1>2. CASE ~running
  BY <1>2 DEF Promised!Next, Promised!Prepare, Asked
<1> QED BY <1>1, <1>2

LEMMA SessionStep ==
  ASSUME OneStopAtATime, LifecycleInv, [Next]_vars
  PROVE  [Promised!Next]_Promised!sessionVars
<1>0. ASSUME NEW s \in Sessions, Promised!Open(s) PROVE Promised!Next
  BY <1>0 DEF Promised!Next
<1> USE DEF field, session, waiting, handles, StartFrame, WaiterFrame, Sessions
<1>1. TypeOK /\ WaitersInv /\ RunningInv /\ OthersInv /\ StartingInv /\ EquipInv
  BY DEF LifecycleInv, EquipInv
<1>2. CASE SelectNet \/ BeginStart \/ StartFails \/ ClientDialed \/ ChainIdentified \/ Equip
  <2>1. UNCHANGED <<running, pipeline>>
    BY <1>2 DEF SelectNet, BeginStart, StartFails, ClientDialed, ChainIdentified, Equip
  <2>2. running => SelectNet
    BY <1>1, <1>2 DEF RunningInv, BeginStart, Startable, StartFails, ClientDialed, ChainIdentified, Equip
  <2>3. running => UNCHANGED <<handles, ctx, watcher>>
    BY <2>2 DEF SelectNet
  <2> QED BY <2>1, <2>3, UnseenStep DEF Asked
<1>3. CASE Launch
  <2>1. /\ loop = "launching" /\ starts \in Sessions /\ watcher = starts /\ ~running
        /\ pipeline[starts] = "none" /\ Calling = {}
    BY <1>1, <1>3 DEF EquipInv, Launch, Starting, StartingInv, RunningInv, OthersInv, Calling
  <2>2. /\ running' = TRUE /\ pipeline' = [pipeline EXCEPT ![starts] = "running"]
        /\ UNCHANGED handles
    BY <1>3 DEF Launch
  <2>3. Calling' = {starts} /\ Over' = Over /\ starts \notin Over
    BY <1>1, <2>1, <2>2 DEF Calling, Over, TypeOK
  <2>4. <<ethClient, dex, executor>> \in
          {h \in Nets \X Nets \X (Nets \cup {None}) : h[2] = h[1] /\ h[3] \in {h[1], None}}
    BY <1>1, <2>1 DEF EquipInv, Starting, TypeOK
  <2>5. PICK s \in Sessions : s = starts
    BY <2>1
  <2>6. Promised!Open(s)
    BY <2>1, <2>2, <2>3, <2>4, <2>5 DEF Promised!Open, Calling, Over
  <2> QED BY <1>0, <2>6
<1>4. CASE Stop
  <2>1. /\ running /\ cancelFn = watcher /\ watcher \in Sessions /\ ctx[watcher] # "none"
        /\ UNCHANGED <<running, pipeline, watcher, handles>>
        /\ ctx' = [ctx EXCEPT ![watcher] = IF @ = "open" THEN "cancelled" ELSE @]
    BY <1>1, <1>4 DEF Stop, RunningInv, CancelContext
  <2>2. Asked'
    BY <1>1, <2>1 DEF Asked, TypeOK
  <2> QED BY <2>1, <2>2, UnseenStep DEF Promised!Next, Promised!Ask, Asked
<1>5. ASSUME NEW w \in Waiters, EnterWait(w) PROVE [Promised!Next]_Promised!sessionVars
  BY <1>5, UnseenStep DEF EnterWait, Asked
<1>6. ASSUME NEW w \in Waiters, ReportStopped(w) PROVE [Promised!Next]_Promised!sessionVars
  <2>1. running /\ Asked /\ target[w] = watcher /\ watcher = starts
    BY <1>1, <1>6 DEF WaitersInv, RunningInv, ReportStopped, Asked
  <2>2. Calling = {}
    BY <1>1, <1>6, <2>1 DEF OthersInv, Calling, ReportStopped, WaitReturns
  <2>3. running' = FALSE /\ UNCHANGED <<pipeline, handles>>
    BY <1>6 DEF ReportStopped
  <2> QED BY <2>1, <2>2, <2>3 DEF Promised!Next, Promised!Close, Asked, Calling
<1>7. ASSUME NEW s \in Sessions, WatcherEnds(s) PROVE [Promised!Next]_Promised!sessionVars
  <2>1. /\ running /\ s = starts /\ watcher = starts /\ ctx[s] = "cancelled" /\ pipeline[s] = "running"
        /\ pipeline' = [pipeline EXCEPT ![s] = "ended"]
        /\ UNCHANGED <<running, ctx, watcher, handles>>
    BY <1>1, <1>7 DEF RunningInv, OthersInv, WatcherEnds
  <2>2. Calling = {s} /\ Calling' = {} /\ Over' = Over \cup {s}
    BY <1>1, <2>1 DEF OthersInv, Calling, Over, TypeOK
  <2> QED BY <2>1, <2>2 DEF Promised!Next, Promised!Finish, Calling, Over
<1>8. CASE Interrupt
  <2>1. /\ UNCHANGED <<running, pipeline, watcher, handles>>
        /\ ctx' = [s \in Sessions |-> IF ctx[s] = "open" THEN "cancelled" ELSE ctx[s]]
    BY <1>8 DEF Interrupt
  <2>2. CASE Asked' = Asked
    BY <2>1, <2>2, UnseenStep
  <2>3. CASE Asked' # Asked
    <3>1. running /\ ~Asked /\ Asked'
      BY <1>1, <2>1, <2>3 DEF Asked, RunningInv
    <3> QED BY <2>1, <3>1 DEF Promised!Next, Promised!Ask, Asked
  <2> QED BY <2>2, <2>3
<1>9. CASE Exit \/ UNCHANGED vars
  BY <1>9, UnseenStep DEF Exit, vars, Asked
<1> QED BY <1>2, <1>3, <1>4, <1>5, <1>6, <1>7, <1>8, <1>9 DEF Next, StartStep, Waiter

\* What the user is told of the sessions is true: they come one after the other,
\* each keeps the client, registry and executor it began with, and is reported
\* stopped only when it was asked to stop and has made its last call.
THEOREM LifecycleImplementsSession == OneStopAtATime => (Spec => ImplementsSession)
<1> SUFFICES ASSUME OneStopAtATime PROVE Spec => ImplementsSession
  OBVIOUS
<1>1. Init => Promised!Init
  BY DEF Init, Sessions, Promised!Init
<1>2. LifecycleInv /\ [Next]_vars => [Promised!Next]_Promised!sessionVars
  BY SessionStep
<1> QED BY <1>1, <1>2, LifecycleInvariant, PTL DEF Spec, ImplementsSession, Promised!Spec
=============================================================================
