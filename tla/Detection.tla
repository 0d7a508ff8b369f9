------------------------------ MODULE Detection ------------------------------
(***************************************************************************)
(* What becomes of a pending transaction the watcher hands to the callback *)
(* (controller.go): the liquidity analyzer (internal/signals/liquidity.go, *)
(* mint.go) and the scanner (internal/scanner/scanner.go) in the callback, *)
(* then the goroutines that outlive it: an auto-buy, up to the executor    *)
(* (Trading goes on from there), and the monitor of the receipt. Around    *)
(* them: blocks, /autobuy, /stop, /net and /start.                         *)
(*                                                                         *)
(* A pair is known by its two tokens. A transaction is the function it     *)
(* calls, its pair, and whether the ETH or WETH it adds reaches            *)
(* MIN_LIQUIDITY_ETH. The bot has a wallet. The second network shares no   *)
(* transaction, and no pair, with the first.                               *)
(***************************************************************************)
EXTENDS Integers, FiniteSets

CONSTANTS
  Liquidity,  \* transactions to the router of the first network
  Pairs,
  WethPairs,  \* those with WETH on one side
  NoPair,     \* address zero: getPair of a pair that does not exist yet
  NoTx,
  Workers,    \* processing workers of the watcher
  MaxSeen     \* bound: transactions handed to the callback, repeated ones included

ASSUME DetectionAssumption ==
  /\ WethPairs \subseteq Pairs /\ NoPair \notin Pairs /\ NoTx \notin Liquidity
  /\ Workers \in Nat \ {0} /\ MaxSeen \in Nat

VARIABLES
  \* the chain
  tx,        \* what each transaction is
  status,    \* "pending", or that of its receipt
  created,   \* the pairs that exist
  \* the controller
  session,   \* its watcher: "running", "stopping" (cancelled), "stopped"; or on another network
  autoBuy,   \* autoBuyEnabled
  checkOn,   \* honeypotCheckEnabled, fixed for the life of the process
  known,     \* the pair registry of the session
  \* per call of the callback
  callback,  \* where it is, and how it ended
  signal,    \* the transaction, and the pair of the signal
  buyer,     \* executeAutoBuy
  vetted,    \* the buy has passed the safety check
  monitor,   \* monitorLiquidityReceipt
  failed     \* history: the node did not answer this call of the callback

chain   == <<tx, status, created>>
control == <<session, autoBuy, checkOn, known>>
goroutines == <<buyer, vetted, monitor>>
vars    == <<chain, control, callback, signal, goroutines, failed>>

Calls == 1..MaxSeen
Kinds == {t \in [call : {"addLiquidityETH", "addLiquidity", "other"}, pair : Pairs,
                 enough : BOOLEAN] :
            /\ t.call = "addLiquidityETH" => t.pair \in WethPairs
            /\ t.enough => t.pair \in WethPairs /\ t.call # "other"
            /\ t.call = "other" => t.pair \in WethPairs}

Inside == {"analyzing", "scanning", "reporting"}
Buying == {"balance", "checking", "buying"}
InCallback == {a \in Calls : callback[a] \in Inside}

TypeOK ==
  /\ tx \in [Liquidity -> Kinds] /\ created \subseteq Pairs
  /\ status \in [Liquidity -> {"pending", "succeeded", "failed"}]
  /\ session \in {"running", "stopping", "stopped", "elsewhere"}
  /\ autoBuy \in BOOLEAN /\ checkOn \in BOOLEAN /\ known \subseteq created
  /\ callback \in [Calls -> Inside \cup {"none", "dropped", "detected"}]
  /\ Cardinality(InCallback) <= Workers
  /\ signal \in [Calls -> [tx : Liquidity \cup {NoTx}, pair : Pairs \cup {NoPair}]]
  /\ buyer \in [Calls -> Buying \cup {"none", "refused", "bought"}]
  /\ vetted \in [Calls -> BOOLEAN]
  /\ monitor \in [Calls -> {"none", "polling", "confirmed", "over"}]
  /\ failed \subseteq Calls

Init ==
  /\ tx \in [Liquidity -> Kinds]
  /\ status = [l \in Liquidity |-> "pending"]
  /\ created = {} /\ known = {}
  /\ session = "running" /\ autoBuy \in BOOLEAN /\ checkOn \in BOOLEAN
  /\ callback = [a \in Calls |-> "none"]
  /\ signal = [a \in Calls |-> [tx |-> NoTx, pair |-> NoPair]]
  /\ buyer = [a \in Calls |-> "none"] /\ vetted = [a \in Calls |-> FALSE]
  /\ monitor = [a \in Calls |-> "none"] /\ failed = {}

Goes(var, a, place) == [var EXCEPT ![a] = place]
This(a) == tx[signal[a].tx]

\* Bound: once the last callback has reported nothing reads autoBuy and the
\* registry, and neither changes any more.
MoreToCome == \E a \in Calls : callback[a] \in Inside \cup {"none"}

-----------------------------------------------------------------------------
\* Blocks, and the registry that hears of new pairs and forgets old ones

Mine(l) ==
  /\ status[l] = "pending"
  /\ \E s \in {"succeeded", "failed"} :
       /\ status' = [status EXCEPT ![l] = s]
       /\ created' = IF s = "succeeded" /\ tx[l].call # "other"
                     THEN created \cup {tx[l].pair} ELSE created
  /\ UNCHANGED <<tx, control, callback, signal, goroutines, failed>>

\* A transaction the watcher has not seen creates a pair. Pairs that none of
\* the transactions adds to make no difference.
Create(p) ==
  /\ p \notin created /\ \E l \in Liquidity : tx[l].pair = p /\ created' = created \cup {p}
  /\ UNCHANGED <<tx, status, control, callback, signal, goroutines, failed>>

Learn(p) ==
  /\ session = "running" /\ MoreToCome /\ p \in created \ known /\ known' = known \cup {p}
  /\ UNCHANGED <<chain, session, autoBuy, checkOn, callback, signal, goroutines, failed>>

Forget(p) ==
  /\ MoreToCome /\ p \in known /\ known' = known \ {p}
  /\ UNCHANGED <<chain, session, autoBuy, checkOn, callback, signal, goroutines, failed>>

-----------------------------------------------------------------------------
\* Commands

TurnAutoBuy ==
  /\ MoreToCome /\ autoBuy' = ~autoBuy /\ (autoBuy' => session # "stopped")
  /\ UNCHANGED <<chain, session, checkOn, known, callback, signal, goroutines, failed>>

Stop ==
  /\ session = "running" /\ session' = "stopping"
  /\ UNCHANGED <<chain, autoBuy, checkOn, known, callback, signal, goroutines, failed>>

\* Wait returns: the workers have ended, in the middle of no callback.
Stopped ==
  /\ session = "stopping" /\ InCallback = {} /\ session' = "stopped"
  /\ UNCHANGED <<chain, autoBuy, checkOn, known, callback, signal, goroutines, failed>>

\* /start again, with a registry that knows nothing, or after /net elsewhere:
\* client, registry and executor are replaced under the goroutines that use
\* them. autoBuyEnabled comes from the config, and keeps its value.
StartAgain ==
  /\ session = "stopped" /\ session' \in {"running", "elsewhere"} /\ known' = {}
  /\ UNCHANGED <<chain, autoBuy, checkOn, callback, signal, goroutines, failed>>

-----------------------------------------------------------------------------
\* The callback. A cancelled context fails every call to the node.

Answered == session = "running" /\ UNCHANGED failed
Unanswered(a) == failed' = failed \cup {a}

AnyWorker == TRUE                                   \* mutant
FreeWorker == Cardinality(InCallback) < Workers

\* A worker takes a transaction to the router, pending or mined by now; one it
\* has seen before is as good as a new one.
HandOver(a, l) ==
  /\ session \in {"running", "stopping"} /\ FreeWorker
  /\ callback[a] = "none" /\ \A b \in 1..(a - 1) : callback[b] # "none"
  /\ callback' = Goes(callback, a, "analyzing")
  /\ signal' = [signal EXCEPT ![a].tx = l]
  /\ UNCHANGED <<chain, control, goroutines, failed>>

Drop(a) == callback' = Goes(callback, a, "dropped") /\ UNCHANGED signal
Pass(a) == callback' = Goes(callback, a, "reporting") /\ UNCHANGED signal
Signalled(a, p) ==
  callback' = Goes(callback, a, "scanning") /\ signal' = [signal EXCEPT ![a].pair = p]

\* AnalyzePending: the registry first, then the factory; an error is no signal.
Analyze(a) ==
  LET t == This(a) IN
  /\ callback[a] = "analyzing"
  /\ \/ t.call = "other" /\ Drop(a) /\ UNCHANGED failed
     \/ t.call # "other" /\ t.pair \in known /\ Signalled(a, t.pair) /\ UNCHANGED failed
     \/ t.call # "other" /\ t.pair \notin known /\ Answered
          /\ Signalled(a, IF t.pair \in created THEN t.pair ELSE NoPair)
     \/ t.call # "other" /\ t.pair \notin known /\ Unanswered(a) /\ Drop(a)
  /\ UNCHANGED <<chain, control, goroutines>>

\* Only the value of addLiquidityETH is tested: MinTokenLiquidity is nil.
TooLittleOfAny(t) == t.call = "addLiquidity" \/ ~t.enough
                                   \* mutant: the value of any, and addLiquidity has none
TooLittle(t) == t.call = "addLiquidityETH" /\ ~t.enough

\* Run: pairs without WETH are rejected; the transaction is asked for again,
\* and without an answer its value is not looked at.
Scan(a) ==
  LET t == This(a) IN
  /\ callback[a] = "scanning"
  /\ \/ t.pair \notin WethPairs /\ Drop(a) /\ UNCHANGED failed
     \/ t.pair \in WethPairs /\ Answered /\ TooLittle(t) /\ Drop(a)
     \/ t.pair \in WethPairs /\ Answered /\ ~TooLittle(t) /\ Pass(a)
     \/ t.pair \in WethPairs /\ Unanswered(a) /\ Pass(a)
  /\ UNCHANGED <<chain, control, goroutines>>

\* An auto-buy or a message, and the monitor in any case.
Report(a) ==
  /\ callback[a] = "reporting" /\ callback' = Goes(callback, a, "detected")
  /\ buyer' = IF autoBuy THEN Goes(buyer, a, "balance") ELSE buyer
  /\ monitor' = Goes(monitor, a, "polling")
  /\ UNCHANGED <<chain, control, signal, vetted, failed>>

Callback(a) == Analyze(a) \/ Scan(a) \/ Report(a)

-----------------------------------------------------------------------------
\* executeAutoBuy: every step reads the controller's client and executor anew.

BuyerFrame == UNCHANGED <<chain, control, callback, signal, monitor, failed>>

CheckBalance(a) ==
  /\ buyer[a] = "balance" /\ BuyerFrame /\ UNCHANGED vetted
  /\ buyer' = Goes(buyer, a, IF checkOn THEN "checking" ELSE "buying")

\* A token without a pool where the client looks is a honeypot: that a clean
\* verdict has a pool is an invariant of Checker (SafeVerdictIsEarned).
HasPool(a) == session # "elsewhere" /\ This(a).pair \in created

Vet(a) ==
  /\ buyer[a] = "checking" /\ HasPool(a) /\ BuyerFrame
  /\ buyer' = Goes(buyer, a, "buying") /\ vetted' = [vetted EXCEPT ![a] = TRUE]

\* Too little balance, a honeypot, an error, or 30 s are over.
Refuse(a) ==
  /\ buyer[a] \in Buying /\ buyer' = Goes(buyer, a, "refused")
  /\ BuyerFrame /\ UNCHANGED vetted

\* The executor is called: Trading goes on.
Execute(a) ==
  /\ buyer[a] = "buying" /\ buyer' = Goes(buyer, a, "bought")
  /\ BuyerFrame /\ UNCHANGED vetted

AutoBuy(a) == CheckBalance(a) \/ Vet(a) \/ Refuse(a) \/ Execute(a)

-----------------------------------------------------------------------------
\* monitorLiquidityReceipt: the client the controller has by now is asked every
\* 3 s, for 60 s.

MonitorFrame == UNCHANGED <<chain, control, callback, signal, buyer, vetted, failed>>

MintOf(t) == t.pair
MintFound(a) == signal[a].pair = MintOf(This(a))

Unsuccessful(a) == status[signal[a].tx] # "pending" \* mutant: Status is not tested
Successful(a) == status[signal[a].tx] = "succeeded"

ReadReceipt(a) ==
  /\ monitor[a] = "polling" /\ session # "elsewhere" /\ status[signal[a].tx] # "pending"
  /\ monitor' = Goes(monitor, a, IF Successful(a) /\ MintFound(a) THEN "confirmed" ELSE "over")
  /\ MonitorFrame

PollForGood(a) == FALSE                             \* mutant: no timeout
MonitorTimeout(a) ==
  /\ monitor[a] = "polling" /\ monitor' = Goes(monitor, a, "over") /\ MonitorFrame

Monitor(a) == ReadReceipt(a) \/ MonitorTimeout(a)

-----------------------------------------------------------------------------
Next ==
  \/ \E l \in Liquidity : Mine(l)
  \/ \E p \in Pairs : Create(p) \/ Learn(p) \/ Forget(p)
  \/ TurnAutoBuy \/ Stop \/ Stopped \/ StartAgain
  \/ \E a \in Calls : \/ \E l \in Liquidity : HandOver(a, l)
                      \/ Callback(a) \/ AutoBuy(a) \/ Monitor(a)

Spec == Init /\ [][Next]_vars

\* Goroutines run, and each has a time limit; only that of getPair is not the
\* program's but the node's: it has the context of the session and no other.
\* Nobody has to stop the watcher, and no transaction has to be mined.
FairSpec ==
  /\ Spec
  /\ \A a \in Calls : WF_vars(Callback(a)) /\ WF_vars(AutoBuy(a)) /\ WF_vars(Monitor(a))

-----------------------------------------------------------------------------
\* What /autobuy says it reacts to: liquidity of at least the minimum, for a
\* pair with WETH.
Promised(t) == t.call # "other" /\ t.pair \in WethPairs /\ t.enough

\* The callback detects what was promised, wherever the pair was looked up and
\* whatever is mined, learned or forgotten meanwhile; only a call the node does
\* not answer, or that /stop cancels, may drop it. What is detected besides is
\* liquidity of a pair with WETH, of less than the minimum: that of any
\* addLiquidity, and that of a transaction the node did not give again.
FilterExact ==
  \A a \in Calls :
    LET t == This(a) IN
    /\ callback[a] = "dropped" => ~Promised(t) \/ a \in failed
    /\ callback[a] = "detected" /\ ~Promised(t) =>
         /\ t.call # "other" /\ t.pair \in WethPairs
         /\ t.call = "addLiquidity" \/ a \in failed

\* /autobuy on says that the bot executes when liquidity of the minimum is
\* detected.
MinimumKept == \A a \in Calls : buyer[a] \in Buying => Promised(This(a))

\* Nothing is confirmed, or bought under the safety check, before the chain has
\* the pair: a pending transaction that fails has no buys behind it, and no
\* confirmation is of another pair.
OnChainFirst ==
  \A a \in Calls :
    /\ buyer[a] = "bought" /\ vetted[a] => This(a).pair \in created
    /\ monitor[a] = "confirmed" => /\ status[signal[a].tx] = "succeeded"
                                   /\ signal[a].pair = This(a).pair /\ signal[a].pair \in created

Active(a) == callback[a] \in Inside \/ buyer[a] \in Buying \/ monitor[a] = "polling"

\* Whatever a transaction has set off comes to an end, also when /stop, /net
\* and /start have taken its session away.
BackgroundEnds == \A a \in Calls : Active(a) ~> ~Active(a)
=============================================================================
