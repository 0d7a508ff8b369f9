-------------------------- MODULE DetectionProofs --------------------------
(***************************************************************************)
(* Theorems about what becomes of a transaction, for any transactions,     *)
(* pairs and number of workers.                                            *)
(***************************************************************************)
EXTENDS Detection, FiniteSetTheorems, TLAPS

Places == Inside \cup {"none", "dropped", "detected"}
Signals == [tx : Liquidity \cup {NoTx}, pair : Pairs \cup {NoPair}]

\* The part of TypeOK about single calls of the callback.
CallTypes ==
  /\ tx \in [Liquidity -> Kinds] /\ created \subseteq Pairs
  /\ status \in [Liquidity -> {"pending", "succeeded", "failed"}]
  /\ callback \in [Calls -> Places] /\ signal \in [Calls -> Signals]
  /\ buyer \in [Calls -> Buying \cup {"none", "refused", "bought"}]
  /\ vetted \in [Calls -> BOOLEAN]
  /\ monitor \in [Calls -> {"none", "polling", "confirmed", "over"}]
  /\ failed \subseteq Calls

\* A transaction that has succeeded has left its pair on the chain.
ChainHasPairs ==
  \A l \in Liquidity : status[l] = "succeeded" /\ tx[l].call # "other" => tx[l].pair \in created

\* A signal, once made, is one of an addition of liquidity, and stays: what
\* comes after the callback begins with its report.
SignalStays(a) ==
  /\ callback[a] # "none" => signal[a].tx \in Liquidity
  /\ callback[a] \in {"scanning", "reporting", "detected"} => This(a).call # "other"
  /\ buyer[a] # "none" \/ monitor[a] # "none" \/ vetted[a] => callback[a] = "detected"

\* FilterExact, and its part about what is still to be reported.
Passable(a) ==
  \/ Promised(This(a))
  \/ /\ This(a).call # "other" /\ This(a).pair \in WethPairs
     /\ This(a).call = "addLiquidity" \/ a \in failed

Filtered(a) ==
  /\ callback[a] = "dropped" => ~Promised(This(a)) \/ a \in failed
  /\ callback[a] \in {"reporting", "detected"} => Passable(a)

\* OnChainFirst, and what the check has seen before the buy.
SeenOnChain(a) ==
  /\ vetted[a] => This(a).pair \in created
  /\ monitor[a] = "confirmed" => /\ status[signal[a].tx] = "succeeded"
                                 /\ signal[a].pair = This(a).pair /\ signal[a].pair \in created

CallInv(a) == SignalStays(a) /\ Filtered(a) /\ SeenOnChain(a)
DetectionInv == CallTypes /\ ChainHasPairs /\ \A a \in Calls : CallInv(a)

-----------------------------------------------------------------------------
LEMMA DetectionInit == Init => DetectionInv
<1> SUFFICES ASSUME Init PROVE DetectionInv
  OBVIOUS
<1>1. CallTypes /\ ChainHasPairs
  BY DEF Init, CallTypes, ChainHasPairs, Places, Signals
<1>2. ASSUME NEW a \in Calls PROVE CallInv(a)
  BY DEF Init, CallInv, SignalStays, Filtered, Passable, SeenOnChain
<1> QED BY <1>1, <1>2 DEF DetectionInv

\* What a call has seen stays true while the chain grows.
LEMMA ChainGrows ==
  ASSUME DetectionInv, UNCHANGED <<tx, callback, signal, goroutines, failed>>,
         CallTypes', ChainHasPairs', created \subseteq created',
         \A l \in Liquidity : status[l] = "succeeded" => status'[l] = "succeeded"
  PROVE  DetectionInv'
<1>1. ASSUME NEW a \in Calls PROVE CallInv(a)'
  <2> USE DEF goroutines, This
  <2>1. CallInv(a) /\ signal[a] \in Signals
    BY DEF DetectionInv, CallTypes
  <2>2. SignalStays(a)' /\ Filtered(a)'
    BY <2>1 DEF CallInv, SignalStays, Filtered, Passable
  <2>3. SeenOnChain(a)'
    BY <2>1 DEF CallInv, SignalStays, SeenOnChain
  <2> QED BY <2>2, <2>3 DEF CallInv
<1> QED BY <1>1 DEF DetectionInv

\* A step of one call leaves the others as they are.
LEMMA OneCall ==
  ASSUME DetectionInv, UNCHANGED chain, CallTypes', NEW a \in Calls, CallInv(a)',
         failed \subseteq failed', failed' \subseteq failed \cup {a},
         \A b \in Calls \ {a} : /\ callback'[b] = callback[b] /\ signal'[b] = signal[b]
                                /\ buyer'[b] = buyer[b] /\ vetted'[b] = vetted[b]
                                /\ monitor'[b] = monitor[b]
  PROVE  DetectionInv'
<1>1. ASSUME NEW b \in Calls \ {a} PROVE CallInv(b)'
  <2>1. CallInv(b)
    BY DEF DetectionInv
  <2> USE DEF chain, This
  <2>2. SignalStays(b)' /\ SeenOnChain(b)'
    BY <2>1 DEF CallInv, SignalStays, SeenOnChain
  <2>3. Filtered(b)'
    BY <2>1 DEF CallInv, Filtered, Passable
  <2> QED BY <2>2, <2>3 DEF CallInv
<1>2. ChainHasPairs'
  BY DEF DetectionInv, ChainHasPairs, chain
<1> QED BY <1>1, <1>2 DEF DetectionInv

\* The steps of one call of the callback, in the order of the code.
LEMMA CallbackStep ==
  ASSUME DetectionInv, NEW a \in Calls, Callback(a)
  PROVE  DetectionInv'
<1> USE DEF DetectionInv, control
<1>1. CallInv(a) /\ callback[a] \in Inside /\ signal[a].tx \in Liquidity /\ This(a) \in Kinds
  BY DEF CallInv, SignalStays, Callback, Analyze, Scan, Report, Inside, This, CallTypes
<1>2. UNCHANGED <<chain, vetted>> /\ failed \subseteq failed' /\ failed' \subseteq failed \cup {a}
  BY DEF Callback, Analyze, Scan, Report, Answered, Unanswered, goroutines
<1>3. CASE Analyze(a)
  <2> USE <1>3 DEF Analyze, goroutines
  <2>1. CASE Drop(a)
    <3>1. CallTypes'
      BY <1>2, <2>1 DEF CallTypes, Drop, Goes, chain, Places
    <3>2. ~Promised(This(a)) \/ a \in failed'
      BY <1>1, <2>1 DEF Promised, Unanswered, Signalled, Drop, Goes, CallTypes, Places
    <3>3. CallInv(a)'
      BY <1>1, <1>2, <2>1, <3>2
      DEF CallInv, SignalStays, Filtered, Passable, SeenOnChain, Drop, Goes, CallTypes, chain, This
    <3> QED BY <1>2, <2>1, <3>1, <3>3, OneCall DEF Drop, Goes, CallTypes
  <2>2. ASSUME NEW p \in Pairs \cup {NoPair}, This(a).call # "other", Signalled(a, p),
               failed' = failed
        PROVE  DetectionInv'
    <3>1. CallTypes'
      BY <1>2, <2>2 DEF CallTypes, Signalled, Goes, chain, Places, Signals, Inside
    <3>2. CallInv(a)'
      BY <1>1, <1>2, <2>2
      DEF CallInv, SignalStays, Filtered, Passable, SeenOnChain, Signalled, Goes, CallTypes, chain, This, Signals
    <3> QED BY <1>2, <2>2, <3>1, <3>2, OneCall DEF Signalled, Goes, CallTypes
  <2>3. This(a).pair \in Pairs
    BY <1>1 DEF Kinds
  <2> QED BY <2>1, <2>2, <2>3 DEF Answered
<1>4. CASE Scan(a)
  <2> USE <1>4 DEF Scan, goroutines
  <2>1. CallTypes'
    BY <1>2 DEF CallTypes, Drop, Pass, Goes, chain, Places, Inside
  <2>2. This(a).call # "other" /\ This(a)' = This(a)
    BY <1>1, <1>2 DEF CallInv, SignalStays, chain, This, Drop, Pass
  <2>3. CASE Drop(a) /\ callback'[a] = "dropped"
    <3>1. ~Promised(This(a))
      BY <1>1, <2>3 DEF Promised, TooLittle, Pass, Goes, CallTypes, Places
    <3>2. CallInv(a)'
      BY <1>1, <1>2, <2>2, <2>3, <3>1 DEF CallInv, SignalStays, Filtered, Passable, SeenOnChain, Drop, chain
    <3> QED BY <1>2, <2>1, <2>3, <3>2, OneCall DEF Drop, Goes, CallTypes
  <2>4. CASE Pass(a) /\ callback'[a] = "reporting"
    <3>1. \/ Promised(This(a))
          \/ /\ This(a).call # "other" /\ This(a).pair \in WethPairs
             /\ This(a).call = "addLiquidity" \/ a \in failed'
      BY <1>1, <2>2, <2>4 DEF Promised, TooLittle, Drop, Goes, CallTypes, Places, Unanswered, Kinds
    <3>2. CallInv(a)'
      BY <1>1, <1>2, <2>2, <2>4, <3>1 DEF CallInv, SignalStays, Filtered, Passable, SeenOnChain, Pass, chain
    <3> QED BY <1>2, <2>1, <2>4, <3>2, OneCall DEF Pass, Goes, CallTypes
  <2>5. (Drop(a) => callback'[a] = "dropped") /\ (Pass(a) => callback'[a] = "reporting")
    BY DEF Drop, Pass, Goes, CallTypes
  <2> QED BY <2>3, <2>4, <2>5
<1>5. CASE Report(a)
  <2> USE <1>5 DEF Report
  <2>1. CallTypes'
    BY <1>2 DEF CallTypes, Goes, chain, Places, Buying
  <2>2. CallInv(a)'
    BY <1>1, <1>2
    DEF CallInv, SignalStays, Filtered, Passable, SeenOnChain, Goes, CallTypes, chain, This
  <2> QED BY <1>2, <2>1, <2>2, OneCall DEF Goes, CallTypes
<1> QED BY <1>3, <1>4, <1>5 DEF Callback

\* The steps of the goroutines it has left behind.
LEMMA GoroutineStep ==
  ASSUME DetectionInv, NEW a \in Calls, AutoBuy(a) \/ Monitor(a)
  PROVE  DetectionInv'
<1> USE DEF DetectionInv
<1>1. UNCHANGED <<chain, callback, signal, failed>>
  BY DEF AutoBuy, CheckBalance, Vet, Refuse, Execute, BuyerFrame,
         Monitor, ReadReceipt, MonitorTimeout, MonitorFrame
<1>2. CallInv(a) /\ callback[a] = "detected" /\ signal[a].tx \in Liquidity
  BY DEF CallInv, SignalStays, AutoBuy, CheckBalance, Vet, Refuse, Execute, Buying,
         Monitor, ReadReceipt, MonitorTimeout
<1>3. CASE AutoBuy(a)
  <2> USE <1>3 DEF AutoBuy, CheckBalance, Vet, Refuse, Execute, BuyerFrame
  <2>1. CallTypes'
    BY <1>1 DEF CallTypes, Goes, chain, Buying
  <2>2. vetted'[a] => vetted[a] \/ This(a).pair \in created
    BY DEF HasPool, Goes, CallTypes
  <2>3. CallInv(a)'
    BY <1>1, <1>2, <2>2 DEF CallInv, SignalStays, Filtered, Passable, SeenOnChain, chain, This
  <2> QED BY <1>1, <2>1, <2>3, OneCall DEF Goes, CallTypes
<1>4. CASE Monitor(a)
  <2> USE <1>4 DEF Monitor, ReadReceipt, MonitorTimeout, MonitorFrame
  <2>1. CallTypes'
    BY <1>1 DEF CallTypes, Goes, chain
  <2>2. monitor'[a] = "confirmed" =>
          /\ status[signal[a].tx] = "succeeded"
          /\ signal[a].pair = This(a).pair /\ signal[a].pair \in created
    BY <1>2 DEF CallInv, SignalStays, ChainHasPairs, Successful, MintFound, MintOf, This, Goes, CallTypes
  <2>3. CallInv(a)'
    BY <1>1, <1>2, <2>2 DEF CallInv, SignalStays, Filtered, Passable, SeenOnChain, chain, This
  <2> QED BY <1>1, <2>1, <2>3, OneCall DEF Goes, CallTypes
<1> QED BY <1>3, <1>4

LEMMA DetectionStep == DetectionInv /\ [Next]_vars => DetectionInv'
<1> SUFFICES ASSUME DetectionInv, [Next]_vars PROVE DetectionInv'
  OBVIOUS
<1>1. ASSUME NEW l \in Liquidity, Mine(l) PROVE DetectionInv'
  <2> USE <1>1 DEF Mine, goroutines
  <2>1. CallTypes'
    BY DEF DetectionInv, CallTypes, Kinds
  <2>2. ChainHasPairs'
    BY DEF DetectionInv, CallTypes, ChainHasPairs
  <2>3. created \subseteq created' /\ \A k \in Liquidity : status[k] = "succeeded" => status'[k] = "succeeded"
    BY DEF DetectionInv, CallTypes
  <2> QED BY <2>1, <2>2, <2>3, ChainGrows
<1>2. ASSUME NEW p \in Pairs, Create(p) PROVE DetectionInv'
  <2> USE <1>2 DEF Create, goroutines
  <2>1. CallTypes' /\ ChainHasPairs'
    BY DEF DetectionInv, CallTypes, ChainHasPairs
  <2> QED BY <2>1, ChainGrows
<1>3. CASE UNCHANGED <<chain, callback, signal, goroutines, failed>>
  <2>1. CallTypes' /\ ChainHasPairs'
    BY <1>3 DEF DetectionInv, CallTypes, ChainHasPairs, chain, goroutines
  <2> QED BY <1>3, <2>1, ChainGrows DEF chain
<1>4. ASSUME NEW a \in Calls, NEW l \in Liquidity, HandOver(a, l) PROVE DetectionInv'
  <2> USE <1>4 DEF HandOver, goroutines, Goes
  <2>1. CallTypes'
    BY DEF DetectionInv, CallTypes, chain, Places, Inside, Signals
  <2>2. CallInv(a)'
    <3>1. callback'[a] = "analyzing" /\ signal'[a].tx = l
      BY DEF DetectionInv, CallTypes, Signals
    <3>2. buyer'[a] = "none" /\ monitor'[a] = "none" /\ ~vetted'[a]
      BY DEF DetectionInv, CallInv, SignalStays
    <3> QED BY <3>1, <3>2 DEF CallInv, SignalStays, Filtered, Passable, SeenOnChain
  <2> QED BY <2>1, <2>2, OneCall DEF DetectionInv, CallTypes
<1>5. ASSUME NEW a \in Calls, Callback(a) \/ AutoBuy(a) \/ Monitor(a) PROVE DetectionInv'
  BY <1>5, CallbackStep, GoroutineStep
<1>6. ASSUME NEW p \in Pairs, Learn(p) \/ Forget(p) PROVE DetectionInv'
  BY <1>3, <1>6 DEF Learn, Forget
<1>7. CASE TurnAutoBuy \/ Stop \/ Stopped \/ StartAgain \/ UNCHANGED vars
  BY <1>3, <1>7 DEF TurnAutoBuy, Stop, Stopped, StartAgain, vars
<1> QED BY <1>1, <1>2, <1>4, <1>5, <1>6, <1>7 DEF Next

LEMMA DetectionInvariant == Spec => []DetectionInv
BY DetectionInit, DetectionStep, PTL DEF Spec

\* Liquidity of at least the minimum for a pair with WETH is detected, but for
\* calls the node has not answered; what is detected besides is liquidity for such
\* a pair, brought by addLiquidity or in a transaction the node did not give again.
THEOREM FilterIsExact == Spec => []FilterExact
<1>1. DetectionInv => FilterExact
  BY DEF DetectionInv, CallInv, Filtered, Passable, SeenOnChain, FilterExact
<1> QED BY <1>1, DetectionInvariant, PTL

\* Nothing is confirmed, or bought under the safety check, before the chain has
\* the pair.
THEOREM ChainComesFirst == Spec => []OnChainFirst
<1>1. DetectionInv => OnChainFirst
  BY DEF DetectionInv, CallInv, Filtered, Passable, SeenOnChain, OnChainFirst
<1> QED BY <1>1, DetectionInvariant, PTL
-----------------------------------------------------------------------------
\* A worker is in one callback at a time, and another one only when it has
\* left that.
LEMMA Busy ==
  Cardinality(InCallback) <= Workers =>
    /\ InCallback' \subseteq InCallback => Cardinality(InCallback') <= Workers
    /\ \A a \in Calls \ InCallback :
         FreeWorker /\ InCallback' = InCallback \cup {a} => Cardinality(InCallback') <= Workers
<1>1. IsFiniteSet(Calls)
  BY FS_Interval, DetectionAssumption DEF Calls
<1>2. IsFiniteSet(InCallback) /\ Cardinality(InCallback) \in Nat
  BY <1>1, FS_Subset, FS_CardinalityType DEF InCallback
<1>3. InCallback' \subseteq InCallback =>
        Cardinality(InCallback') \in Nat /\ Cardinality(InCallback') <= Cardinality(InCallback)
  BY <1>2, FS_Subset, FS_CardinalityType
<1>4. ASSUME NEW a \in Calls \ InCallback, InCallback' = InCallback \cup {a}
      PROVE  Cardinality(InCallback') = Cardinality(InCallback) + 1
  BY <1>2, <1>4, FS_AddElement
<1> QED BY <1>2, <1>3, <1>4, DetectionAssumption DEF FreeWorker

LEMMA TypeStep == TypeOK /\ [Next]_vars => TypeOK'
<1> SUFFICES ASSUME TypeOK, [Next]_vars PROVE TypeOK'
  OBVIOUS
<1>1. ASSUME UNCHANGED callback PROVE Cardinality(InCallback') <= Workers
  BY <1>1 DEF TypeOK, InCallback
<1>2. ASSUME NEW l \in Liquidity, Mine(l) PROVE TypeOK'
  BY <1>1, <1>2 DEF Mine, TypeOK, Kinds, control, goroutines
<1>3. ASSUME NEW p \in Pairs, Create(p) \/ Learn(p) \/ Forget(p) PROVE TypeOK'
  BY <1>1, <1>3 DEF Create, Learn, Forget, TypeOK, control, chain, goroutines
<1>4. CASE TurnAutoBuy \/ Stop \/ Stopped \/ StartAgain
  BY <1>1, <1>4 DEF TurnAutoBuy, Stop, Stopped, StartAgain, TypeOK, chain, goroutines
<1>5. ASSUME NEW a \in Calls, NEW l \in Liquidity, HandOver(a, l) PROVE TypeOK'
  <2> USE <1>5 DEF HandOver, TypeOK, Goes, Inside
  <2>1. InCallback' = InCallback \cup {a} /\ a \in Calls \ InCallback
    BY DEF InCallback
  <2>2. Cardinality(InCallback') <= Workers
    BY <2>1, Busy, DetectionAssumption
  <2> QED BY <2>2 DEF control, chain, goroutines
<1>6. ASSUME NEW a \in Calls, Callback(a) PROVE TypeOK'
  <2> USE <1>6 DEF Callback, Analyze, Scan, Report, Drop, Pass, Signalled, Answered, Unanswered,
              TypeOK, Goes, Inside
  <2>1. callback[a] \in Inside /\ \E place \in Inside \cup {"dropped", "detected"} :
          callback' = [callback EXCEPT ![a] = place]
    OBVIOUS
  <2>2. InCallback' \subseteq InCallback
    BY <2>1 DEF InCallback
  <2>3. Cardinality(InCallback') <= Workers
    BY <2>2, Busy, DetectionAssumption
  <2>4. signal' \in [Calls -> [tx : Liquidity \cup {NoTx}, pair : Pairs \cup {NoPair}]]
    OBVIOUS
  <2>5. /\ failed' \subseteq Calls /\ buyer' \in [Calls -> Buying \cup {"none", "refused", "bought"}]
        /\ monitor' \in [Calls -> {"none", "polling", "confirmed", "over"}] /\ vetted' = vetted
    BY DEF Buying, goroutines
  <2> QED BY <2>1, <2>3, <2>4, <2>5 DEF control, chain
<1>7. ASSUME NEW a \in Calls, AutoBuy(a) \/ Monitor(a) PROVE TypeOK'
  BY <1>1, <1>7
  DEF AutoBuy, CheckBalance, Vet, Refuse, Execute, BuyerFrame, Monitor, ReadReceipt,
      MonitorTimeout, MonitorFrame, TypeOK, Goes, Buying, control, chain
<1>8. CASE UNCHANGED vars
  BY <1>1, <1>8 DEF vars, TypeOK, chain, control, goroutines
<1> QED BY <1>2, <1>3, <1>4, <1>5, <1>6, <1>7, <1>8 DEF Next

\* Type correctness; in particular no more callbacks run than there are workers,
\* and the registry knows no pair that does not exist.
THEOREM TypeCorrect == Spec => []TypeOK
<1>1. Init => TypeOK
  <2> SUFFICES ASSUME Init PROVE TypeOK
    OBVIOUS
  <2>1. InCallback = {}
    BY DEF Init, InCallback, Inside
  <2> QED BY <2>1, FS_EmptySet, DetectionAssumption DEF Init, TypeOK
<1> QED BY <1>1, TypeStep, PTL DEF Spec
=============================================================================
