------------------------------- MODULE Trading -------------------------------
(***************************************************************************)
(* Buying: /buy and /forcebuy of the update loop and the goroutines of     *)
(* executeAutoBuy (internal/telegram/controller.go), the trade executor    *)
(* they share (internal/executor/executor.go), the bundler                 *)
(* (internal/bundle/bundler.go), and the wallet's account as the node and  *)
(* the relay see it. /sell changes nothing: it passes the amount nil, and  *)
(* ExecuteSell refuses that first of all.                                  *)
(*                                                                         *)
(* The controller has a wallet. Amounts and gas prices are abstracted: a   *)
(* balance or gas check may refuse any buy, a node may refuse any          *)
(* transaction, and a transaction with a used nonce replaces the pending   *)
(* one when the gas price has risen enough in between. /start is given the *)
(* same network again, so that the account stays the same.                 *)
(***************************************************************************)
EXTENDS Integers, FiniteSets, FiniteSetsExt

CONSTANTS
  Tokens,     \* all tokens
  Honeypots,  \* those the check calls honeypots whatever fails (SafeVerdictIsEarned of Checker)
  Risky,      \* those it scores below 40
  AutoBuys,   \* auto-buy goroutines that may run at a time
  Loop,       \* the update loop, which runs /buy itself
  Bundler,    \* the executor has a bundler
  Restarts,   \* bound: /start may replace the executor once
  MaxBuys,    \* bound: transactions built; no buy begins after the last of them
  NoTx

ASSUME TradingAssumption ==
  /\ IsFiniteSet(Tokens) /\ Honeypots \subseteq Tokens /\ Risky \subseteq Tokens
  /\ Honeypots \cap Risky = {} /\ Loop \notin AutoBuys /\ IsFiniteSet(AutoBuys)
  /\ {Bundler, Restarts} \subseteq BOOLEAN /\ MaxBuys \in Nat

VARIABLES
  \* controller
  live,        \* a watcher is running: OnTx may be called
  autoBuy,     \* autoBuyEnabled
  checkOn,     \* honeypotCheckEnabled, fixed for the life of the process
  useBundles,  \* tradeConfig.UseBundles
  \* executors: /start makes a new one with no positions
  generation,  \* the current executor
  positions,   \* its positions: at most one transaction of each token
  buy,         \* per buyer: where it is in its buy, and the local variables
  \* the wallet's account
  built,       \* transactions built so far
  nonce,       \* the next nonce of the latest block
  pool,        \* pending transactions
  relay,       \* bundles the relay tries to include
  mined,       \* transactions of the chain
  submitted,   \* history: what the node or the relay has ever accepted
  unanswered   \* history: what the node accepted without its answer arriving

Buyers == AutoBuys \cup {Loop}
chain  == <<built, nonce, pool, relay, mined, submitted, unanswered>>
vars   == <<live, autoBuy, checkOn, useBundles, generation, positions, buy, chain>>

Vets == {"none", "passed", "off", "forced"}
Places == {"idle", "vetting", "building", "sending", "bundling", "tracking"}
\* A buy takes one nonce, and one for its bribe.
MaxNonce == 2 * MaxBuys
\* A swap: how its token was vetted and which executor was called are history.
Txs == [id : 1..MaxBuys, nonce : 0..MaxNonce, token : Tokens, vet : Vets, by : {0, 1}]
Bundled == {u.swap : u \in relay}

Idle == [pc |-> "idle", token |-> NoTx, vet |-> "none", tx |-> NoTx,
         bundle |-> FALSE, by |-> 0, bribe |-> 0]

TypeOK ==
  /\ live \in BOOLEAN /\ autoBuy \in BOOLEAN /\ checkOn \in BOOLEAN /\ useBundles \in BOOLEAN
  /\ generation \in {0, 1}
  /\ positions \subseteq Txs /\ \A x, y \in positions : x.token = y.token => x = y
  /\ buy \in [Buyers -> [pc : Places, token : Tokens \cup {NoTx}, vet : Vets,
                         tx : Txs \cup {NoTx}, bundle : BOOLEAN, by : {0, 1},
                         bribe : 0..(MaxNonce + 1)]]
  /\ built \in 0..MaxBuys /\ nonce \in 0..(MaxNonce + 1) /\ pool \subseteq Txs /\ mined \subseteq Txs
  /\ submitted \subseteq Txs /\ unanswered \subseteq submitted
  /\ relay \subseteq [swap : Txs, bribe : 0..(MaxNonce + 1)]

Init ==
  /\ live = TRUE /\ autoBuy \in BOOLEAN /\ checkOn \in BOOLEAN /\ useBundles = FALSE
  /\ generation = 0
  /\ positions = {}
  /\ buy = [b \in Buyers |-> Idle]
  /\ built = 0 /\ nonce = 0 /\ pool = {} /\ relay = {} /\ mined = {}
  /\ submitted = {} /\ unanswered = {}

-----------------------------------------------------------------------------
Control == UNCHANGED <<live, autoBuy, checkOn, useBundles, generation>>

\* PendingNonceAt: the first nonce that no pending transaction has.
PendingNonce == Min((nonce..(MaxNonce + 1)) \ {x.nonce : x \in pool})

At(b, place) == buy[b].pc = place
Goto(b, place) == buy' = [buy EXCEPT ![b].pc = place]
Return(b) == buy' = [buy EXCEPT ![b] = Idle]
\* ExecuteBuy is called on the executor of the moment and given a copy of the
\* trade config.
Begin(b, t, place, v) ==
  buy' = [buy EXCEPT ![b] = [Idle EXCEPT !.pc = place, !.token = t, !.vet = v,
                                         !.bundle = useBundles /\ place = "building",
                                         !.by = IF place = "building" THEN generation ELSE 0]]

-----------------------------------------------------------------------------
\* Commands of the update loop; the loop is busy while it buys.

TurnAutoBuy ==
  /\ At(Loop, "idle") /\ autoBuy' = ~autoBuy /\ (autoBuy' => live)
  /\ UNCHANGED <<live, checkOn, useBundles, generation, positions, buy, chain>>

TurnBundles ==
  /\ At(Loop, "idle") /\ useBundles' = ~useBundles
  /\ UNCHANGED <<live, autoBuy, checkOn, generation, positions, buy, chain>>

StopWatcher ==
  /\ At(Loop, "idle") /\ live /\ live' = FALSE
  /\ UNCHANGED <<autoBuy, checkOn, useBundles, generation, positions, buy, chain>>

\* startOnActivePreset: a new executor; autoBuyEnabled comes from the config,
\* which the last /autobuy has set to the same value.
StartWatcher ==
  /\ Restarts /\ At(Loop, "idle") /\ ~live /\ generation = 0
  /\ live' = TRUE /\ generation' = 1 /\ positions' = {}
  /\ UNCHANGED <<autoBuy, checkOn, useBundles, buy, chain>>

BuyUnparsed(t, forced) ==                           \* mutant: no IsHexAddress test
  /\ At(Loop, "idle") /\ forced
  /\ \E a \in {t, NoTx} : Begin(Loop, a, "building", "forced")
  /\ UNCHANGED <<positions, chain>> /\ Control

BuyCommand(t, forced) ==
  /\ At(Loop, "idle") /\ built < MaxBuys
  /\ IF forced THEN Begin(Loop, t, "building", "forced") ELSE Begin(Loop, t, "vetting", "none")
  /\ UNCHANGED <<positions, chain>> /\ Control

-----------------------------------------------------------------------------
\* The callback finds liquidity for t and spawns executeAutoBuy.

Detect(b, t) ==
  /\ live /\ autoBuy /\ At(b, "idle") /\ built < MaxBuys /\ Begin(b, t, "vetting", "none")
  /\ UNCHANGED <<positions, chain>> /\ Control

-----------------------------------------------------------------------------
\* A buy, step by step

\* What the honeypot check may say of t: of any token that it is a honeypot, for
\* so it calls one the node does not answer for in time. It returns no error.
Verdicts(t) ==
  {"honeypot"} \cup (IF t \in Honeypots THEN {} ELSE IF t \in Risky THEN {"risky"} ELSE {"safe"})

RefusedByLoop(b, v) == b = Loop /\ v \in {"honeypot", "risky"}  \* mutant

\* A honeypot is refused; a risky token by /buy only.
Refused(b, v) == v = "honeypot" \/ (v = "risky" /\ b = Loop)

Vetted(b, v) ==
  buy' = [buy EXCEPT ![b].pc = "building", ![b].vet = v, ![b].bundle = useBundles,
                     ![b].by = generation]

Vet(b) ==
  /\ At(b, "vetting")
  /\ \/ ~checkOn /\ Vetted(b, "off")
     \/ checkOn /\ \E v \in Verdicts(buy[b].token) :
          IF Refused(b, v) THEN Return(b) ELSE Vetted(b, "passed")
  /\ UNCHANGED <<positions, chain>> /\ Control

\* Too little balance, gas above the maximum, an error or the timeout.
GiveUp(b) ==
  /\ At(b, "vetting") \/ At(b, "building")
  /\ Return(b) /\ UNCHANGED <<positions, chain>> /\ Control

\* ExecuteBuy up to buildBuyTransaction, which reads the nonce.
Build(b) ==
  /\ At(b, "building") /\ built < MaxBuys
  /\ built' = built + 1
  /\ buy' = [buy EXCEPT ![b].pc = "sending",
                        ![b].tx = [id |-> built + 1, nonce |-> PendingNonce, by |-> buy[b].by,
                                   token |-> buy[b].token, vet |-> buy[b].vet]]
  /\ UNCHANGED <<positions, nonce, pool, relay, mined, submitted, unanswered>> /\ Control

\* The node takes a transaction with a new nonce, or in place of the pending
\* one with the same nonce.
Accept(x) ==
  /\ x.nonce >= nonce
  /\ pool' = {y \in pool : y.nonce # x.nonce} \cup {x}
  /\ submitted' = submitted \cup {x}

\* sendTransaction: accepted, refused, or accepted with the answer lost. With
\* bundles: the fallback when the bundle cannot be made or simulated.
SendPublic(b) ==
  /\ At(b, "sending") \/ At(b, "bundling")
  /\ \/ Accept(buy[b].tx) /\ Goto(b, "tracking") /\ UNCHANGED unanswered
     \/ UNCHANGED <<pool, submitted, unanswered>> /\ Return(b)
     \/ Accept(buy[b].tx) /\ Return(b) /\ unanswered' = unanswered \cup {buy[b].tx}
  /\ UNCHANGED <<positions, built, nonce, relay, mined>> /\ Control

\* CreateSniperBundle reads the nonce again for the bribe, if there is one.
MakeBundle(b) ==
  /\ Bundler /\ buy[b].bundle /\ At(b, "sending")
  /\ \E n \in {0, PendingNonce + 1} :
       buy' = [buy EXCEPT ![b].pc = "bundling", ![b].bribe = n]
  /\ UNCHANGED <<positions, chain>> /\ Control

SendBoth(b) ==                                      \* mutant: a failed block falls back
  /\ At(b, "bundling") /\ Goto(b, "tracking") /\ Accept(buy[b].tx)
  /\ relay' = relay \cup {[swap |-> buy[b].tx, bribe |-> buy[b].bribe]}
  /\ UNCHANGED <<positions, built, nonce, mined, unanswered>> /\ Control

\* SendBundle for three blocks: errors are logged, and the buy is a success.
SendBundle(b) ==
  /\ At(b, "bundling") /\ Goto(b, "tracking")
  /\ \/ /\ relay' = relay \cup {[swap |-> buy[b].tx, bribe |-> buy[b].bribe]}
        /\ submitted' = submitted \cup {buy[b].tx}
     \/ UNCHANGED <<relay, submitted>>
  /\ UNCHANGED <<positions, built, nonce, pool, mined, unanswered>> /\ Control

TrackNothing(b) ==                                  \* mutant
  At(b, "tracking") /\ Return(b) /\ UNCHANGED <<positions, chain>> /\ Control

\* trackPosition, in the map of the executor that was called.
Track(b) ==
  /\ At(b, "tracking") /\ Return(b)
  /\ positions' = IF buy[b].tx.by = generation
                  THEN {x \in positions : x.token # buy[b].token} \cup {buy[b].tx}
                  ELSE positions
  /\ UNCHANGED chain /\ Control

Buy(b) ==
  Vet(b) \/ GiveUp(b) \/ Build(b) \/ SendPublic(b) \/ MakeBundle(b) \/ SendBundle(b) \/ Track(b)

-----------------------------------------------------------------------------
\* The chain

Outdated(next) == {x \in pool : x.nonce < next}
ChainFrame == UNCHANGED <<positions, buy>> /\ Control

Mine(x) ==
  /\ x \in pool /\ x.nonce = nonce
  /\ nonce' = nonce + 1 /\ mined' = mined \cup {x} /\ pool' = pool \ Outdated(nonce + 1)
  /\ UNCHANGED <<built, relay, submitted, unanswered>> /\ ChainFrame

\* A bundle is included as a whole: the swap, and its bribe (0: none) after it.
Include(u) ==
  /\ u \in relay /\ u.swap.nonce = nonce /\ u.bribe \in {0, nonce + 1}
  /\ nonce' = nonce + (IF u.bribe = 0 THEN 1 ELSE 2)
  /\ mined' = mined \cup {u.swap}
  /\ pool' = pool \ Outdated(nonce') /\ relay' = relay \ {u}
  /\ UNCHANGED <<built, submitted, unanswered>> /\ ChainFrame

Expire(u) ==
  /\ u \in relay /\ relay' = relay \ {u}
  /\ UNCHANGED <<built, nonce, pool, mined, submitted, unanswered>> /\ ChainFrame

Next ==
  \/ TurnAutoBuy \/ TurnBundles \/ StopWatcher \/ StartWatcher
  \/ \E t \in Tokens : \/ \E forced \in BOOLEAN : BuyCommand(t, forced)
                       \/ \E b \in AutoBuys : Detect(b, t)
  \/ \E b \in Buyers : Buy(b)
  \/ \E x \in pool : Mine(x)
  \/ \E u \in relay : Include(u) \/ Expire(u)

Spec == Init /\ [][Next]_vars

-----------------------------------------------------------------------------
\* No token the check calls a honeypot is bought, on any path to the chain,
\* unless the user forced it or had the check turned off.
HoneypotsNotBought ==
  \A x \in submitted :
    x.token \in Honeypots => x.vet \in {"off", "forced"}

\* Whatever becomes of the executor's answers and errors, a buy on the chain is
\* listed by /positions, or about to be: unless the node's answer was lost, or
\* /start has replaced the executor that made it.
BoughtIsListed ==
  \A x \in mined : x.by = generation /\ x \notin unanswered =>
    \/ \E y \in positions : y.token = x.token
    \/ \E b \in Buyers : At(b, "tracking") /\ buy[b].tx = x

\* A buy goes to the relay or to the public pool, never to both: the fallback
\* would expose a bundled buy to the front-running it was bundled against.
OneWayOnly == \A u \in relay : u.swap \notin pool

\* "Auto-buy success": the wallet's buys do not displace each other. A listed
\* buy sent to the public pool is there until it is on the chain.
ListedNotDisplaced == positions \subseteq pool \cup mined \cup Bundled
=============================================================================
