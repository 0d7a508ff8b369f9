------------------------------- MODULE Signals -------------------------------
(***************************************************************************)
(* The pair registry (internal/signals/pairs.go) and the mint watcher      *)
(* (startMintWatcher in internal/telegram/controller.go) of one session:   *)
(* the registry learns pairs from a subscription to PairCreated and forgets*)
(* them after a TTL; the mint watcher subscribes to Mint on the pairs the  *)
(* registry knows, and resubscribes when their number changes.             *)
(*                                                                         *)
(* A factory has one pair per two tokens: a pair stands for its tokens too.*)
(***************************************************************************)
EXTENDS Integers, FiniteSets

CONSTANT Pairs   \* pairs the factory may create

ASSUME SignalsAssumption == IsFiniteSet(Pairs)

VARIABLES
  ctxDone,  \* the session is cancelled
  pairs,    \* PairRegistry.pairs
  byTok,    \* PairRegistry.byTok, as the pairs it leads to
  expired,  \* known pairs whose SeenAt is beyond the TTL
  feed,     \* registry goroutine: "loop", "active", "backoff" or "done"
  feedSub,  \* its PairCreated subscription delivers
  mint,     \* mint watcher goroutine: "top", "listening", "resub" or "done"
  haveSub,  \* its variable sub is not nil
  mintSub,  \* its Mint subscription delivers
  filter,   \* the pairs it asked for
  lastN     \* their number

registry == <<pairs, byTok, expired>>
feedVars == <<feed, feedSub>>
mintVars == <<mint, haveSub, mintSub, filter, lastN>>
vars == <<ctxDone, registry, feedVars, mintVars>>

TypeOK ==
  /\ ctxDone \in BOOLEAN
  /\ pairs \subseteq Pairs /\ byTok \subseteq Pairs
  /\ expired \subseteq Pairs /\ filter \subseteq Pairs
  /\ feed \in {"loop", "active", "backoff", "done"} /\ feedSub \in BOOLEAN
  /\ mint \in {"top", "listening", "resub", "done"}
  /\ haveSub \in BOOLEAN /\ mintSub \in BOOLEAN /\ lastN \in 0..Cardinality(Pairs)

Init ==
  /\ ctxDone = FALSE /\ pairs = {} /\ byTok = {} /\ expired = {}
  /\ feed = "loop" /\ feedSub = FALSE
  /\ mint = "top" /\ haveSub = FALSE /\ mintSub = FALSE /\ filter = {} /\ lastN = 0

SizeOfIndex == 2 * Cardinality(byTok)               \* mutant: keys of the index
Size == Cardinality(pairs)

-----------------------------------------------------------------------------
\* The environment: /stop, time, the chain

Cancel ==
  /\ ~ctxDone /\ ctxDone' = TRUE
  /\ UNCHANGED <<registry, feedVars, mintVars>>

\* A known pair passes the TTL (48 h).
Expire(p) ==
  /\ p \in pairs \ expired /\ expired' = expired \cup {p}
  /\ UNCHANGED <<ctxDone, pairs, byTok, feedVars, mintVars>>

\* handlePairCreated: both maps change under one lock. A known pair is seen
\* again when a reorganisation moves its creation; an event the node sends
\* while the subscription is down is lost.
PairCreated(p) ==
  /\ feed = "active" /\ feedSub
  /\ pairs' = pairs \cup {p} /\ byTok' = byTok \cup {p} /\ expired' = expired \ {p}
  /\ UNCHANGED <<ctxDone, feedVars, mintVars>>

-----------------------------------------------------------------------------
\* The goroutine of PairRegistry.Start

FeedFrame == UNCHANGED <<ctxDone, mintVars>>

FeedSubscribes ==
  /\ feed = "loop" /\ ~ctxDone
  /\ \/ feed' = "active" /\ feedSub' = TRUE
     \/ feed' = "backoff" /\ UNCHANGED feedSub
  /\ UNCHANGED registry /\ FeedFrame

ForgetPairs == pairs' = pairs \ expired /\ UNCHANGED byTok  \* mutant
Forget == pairs' = pairs \ expired /\ byTok' = byTok \ expired

\* gc, every minute of an active stream.
GC ==
  /\ feed = "active" /\ expired # {}
  /\ Forget /\ expired' = {}
  /\ UNCHANGED feedVars /\ FeedFrame

FeedDrops ==
  /\ feed = "active" /\ feedSub /\ feedSub' = FALSE
  /\ UNCHANGED <<feed, registry>> /\ FeedFrame

\* sub.Err(): the goroutine resubscribes after a delay.
FeedSeesError ==
  /\ feed = "active" /\ ~feedSub /\ feed' = "backoff"
  /\ UNCHANGED <<feedSub, registry>> /\ FeedFrame

FeedBackoffOver ==
  /\ feed = "backoff" /\ feed' = "loop"
  /\ UNCHANGED <<feedSub, registry>> /\ FeedFrame

FeedLeavesStream ==                                 \* mutant: looks at ctx in the stream only
  /\ feed = "active" /\ ctxDone
  /\ feed' = "done" /\ feedSub' = FALSE
  /\ UNCHANGED registry /\ FeedFrame

\* ctx.Done in each of the three places; the deferred calls unsubscribe.
FeedLeaves ==
  /\ feed # "done" /\ ctxDone
  /\ feed' = "done" /\ feedSub' = FALSE
  /\ UNCHANGED registry /\ FeedFrame

Feed == FeedSubscribes \/ GC \/ FeedSeesError \/ FeedBackoffOver \/ FeedLeaves

-----------------------------------------------------------------------------
\* The goroutine of startMintWatcher

MintFrame == UNCHANGED <<ctxDone, registry, feedVars>>

MintLeavesSubscribed ==                             \* mutant: no Unsubscribe
  /\ mint \in {"top", "listening"} /\ ctxDone
  /\ mint' = "done"
  /\ UNCHANGED <<haveSub, mintSub, filter, lastN>> /\ MintFrame

MintLeaves ==
  /\ mint \in {"top", "listening"} /\ ctxDone
  /\ mint' = "done" /\ mintSub' = FALSE
  /\ UNCHANGED <<haveSub, filter, lastN>> /\ MintFrame

\* Nothing to do: no pairs yet, or sub is set and their number is lastN.
MintIdle == pairs = {} \/ (haveSub /\ Size = lastN)

\* Unsubscribe, then subscribe to the pairs known now.
MintSubscribes ==
  /\ mint = "top" /\ ~ctxDone /\ ~MintIdle
  /\ \/ /\ mint' = "listening" /\ haveSub' = TRUE /\ mintSub' = TRUE
        /\ filter' = pairs /\ lastN' = Size
     \/ mintSub' = FALSE /\ UNCHANGED <<mint, haveSub, filter, lastN>>
  /\ MintFrame

MintDrops ==
  /\ mintSub /\ mintSub' = FALSE
  /\ UNCHANGED <<mint, haveSub, filter, lastN>> /\ MintFrame

MintSeesError ==
  /\ mint = "listening" /\ ~mintSub /\ mint' = "resub"
  /\ UNCHANGED <<haveSub, mintSub, filter, lastN>> /\ MintFrame

SizeFell == Size < lastN                            \* mutant
SizeChanged == Size # lastN

\* The ticker: the number of pairs has changed.
MintTicks ==
  /\ mint = "listening" /\ SizeChanged
  /\ mint' = "resub" /\ mintSub' = FALSE
  /\ UNCHANGED <<haveSub, filter, lastN>> /\ MintFrame

\* RESUB sleeps and goes back to the top; sub keeps its value.
MintBackoffOver ==
  /\ mint = "resub" /\ mint' = "top"
  /\ UNCHANGED <<haveSub, mintSub, filter, lastN>> /\ MintFrame

Mint == MintLeaves \/ MintSubscribes \/ MintSeesError \/ MintTicks \/ MintBackoffOver

Next ==
  \/ Cancel
  \/ \E p \in Pairs : Expire(p) \/ PairCreated(p)
  \/ Feed \/ FeedDrops \/ Mint \/ MintDrops

Spec == Init /\ [][Next]_vars

\* Goroutines run; a node that is asked again and again accepts at last (the
\* subscribe actions are strongly fair to their successful outcome).
MintSucceeds == MintSubscribes /\ mint' = "listening"
Fairness ==
  /\ WF_vars(FeedLeaves) /\ WF_vars(FeedSubscribes) /\ WF_vars(FeedSeesError)
  /\ WF_vars(FeedBackoffOver)
  /\ WF_vars(MintLeaves) /\ WF_vars(MintSeesError) /\ WF_vars(MintTicks)
  /\ WF_vars(MintBackoffOver) /\ SF_vars(MintSucceeds)

FairSpec == Spec /\ Fairness

-----------------------------------------------------------------------------
\* GetByTokens and Get agree: the analyzer is never sent to a pair that gc
\* has forgotten, and finds every pair the registry still knows.
IndexConsistent == byTok = pairs

\* A goroutine that has left has given up its subscription at the node.
NoSubscriptionLeak ==
  (feed = "done" => ~feedSub) /\ (mint = "done" => ~mintSub)

\* Cancelling the session ends both goroutines, wherever they sleep.
SignalsShutDown == ctxDone ~> (feed = "done" /\ mint = "done")

\* In a session younger than the TTL, and whose Mint subscriptions hold, every
\* known pair is watched for Mint at last.
PairsAreWatched ==
  [](expired = {}) /\ [](mint = "listening" => mintSub) =>
    \A p \in Pairs : p \in pairs ~> (mintSub /\ p \in filter) \/ ctxDone
=============================================================================
