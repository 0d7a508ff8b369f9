------------------------------- MODULE Checker -------------------------------
(***************************************************************************)
(* One call of CheckToken (internal/scanner/honeypot.go): the goroutines   *)
(* checkOwnership and checkDangerousFunctions, which change one score      *)
(* without a lock, then the simulated trades, the liquidity, and the final *)
(* score, under a deadline after which every call to the node fails. The   *)
(* pool of the token may come and go on the chain meanwhile.               *)
(*                                                                         *)
(* getTokenInfo, the risk factors and the facts that are only displayed    *)
(* are left out. The cache is too: each caller makes a checker of its own, *)
(* so that the cache is empty when CheckToken looks.                       *)
(***************************************************************************)
EXTENDS Integers, FiniteSets, FiniteSetsExt

CONSTANTS
  Functions,   \* the selectors and patterns searched for in the bytecode; those
               \* that cost nothing change nothing
  Risk,        \* what each takes off the score
  Blacklists,  \* those that make the token a honeypot
  Taxes        \* losses the router may tell, in whole per cent; -1: no loss

ASSUME CheckerAssumption ==
  /\ IsFiniteSet(Functions) /\ Risk \in [Functions -> Nat \ {0}] /\ Blacklists \subseteq Functions
  /\ \A f \in Blacklists : Risk[f] > 20       \* 50 each
  /\ Taxes \subseteq -1..100

VARIABLES
  \* the world
  token,       \* what the token is
  pool,        \* its liquidity at the latest block
  expired,     \* the deadline has passed
  failed,      \* history: a call failed that the token and its pool would have let pass
  deep,        \* history: the pool has been deep all along
  \* TokenSafety
  score, honeypot, blacklist, canSell,
  loss,        \* history: what the router has told of the round trip
  \* the goroutines
  owner,       \* checkOwnership: where it is, and the score it has loaded
  scan,        \* checkDangerousFunctions: the same, and the functions still to be found
  main         \* CheckToken itself

world  == <<token, pool, expired, deep>>
sale   == <<canSell, loss>>
safety == <<score, honeypot, blacklist, sale>>
vars   == <<world, failed, safety, owner, scan, main>>

Pools  == {"none", "empty", "low", "enough"}
Tradable == pool \in {"low", "enough"}
\* Who may sell: holders, as with any ordinary token; anybody, for nothing
\* checks the seller's balance and allowance; nobody; nobody, nor approve.
Trades == {"holders", "anybody", "nobody", "unapprovable"}
Tokens == [code : BOOLEAN, found : SUBSET Functions,
           owner : {"none", "renounced", "active"}, trade : Trades]

Unread == -2
OwnerRisk == 10
Total(S) == MapThenSumSet(LAMBDA f : Risk[f], S)
Scores == (-100 - OwnerRisk - Total(Functions))..100

TypeOK ==
  /\ token \in Tokens /\ pool \in Pools /\ deep \in BOOLEAN
  /\ expired \in BOOLEAN /\ failed \in BOOLEAN
  /\ score \in Scores /\ {honeypot, blacklist, canSell} \subseteq BOOLEAN
  /\ loss \in Taxes \cup {Unread}
  /\ owner \in [pc : {"calling", "loaded", "done"}, had : Scores]
  /\ scan.pc \in {"calling", "loading", "loaded", "done"}
  /\ scan.todo \subseteq Functions /\ scan.had \in Scores
  /\ main \in {"joining", "buying", "approving", "selling", "pairing", "reserves", "final", "done"}
  /\ main = "done" => score \in 0..100

\* A token without code has no functions, no owner, and cannot be traded.
Init ==
  /\ token \in {t \in Tokens : ~t.code => t.found = {} /\ t.owner = "none" /\ t.trade = "nobody"}
  /\ pool \in Pools /\ deep = (pool = "enough") /\ expired = FALSE /\ failed = FALSE
  /\ score = 100 /\ honeypot = FALSE /\ blacklist = FALSE /\ canSell = FALSE /\ loss = Unread
  /\ owner = [pc |-> "calling", had |-> 100]
  /\ scan = [pc |-> "calling", todo |-> {}, had |-> 100]
  /\ main = "joining"

-----------------------------------------------------------------------------
\* The node. A call that the token or the router would not revert is answered
\* within the deadline, unless the node fails.

Answered == ~expired /\ UNCHANGED failed
Unanswered == failed' = TRUE
Garbled == ~expired /\ failed' = TRUE               \* an answer that is not decoded

Expire ==
  /\ main # "done" /\ ~expired /\ expired' = TRUE
  /\ UNCHANGED <<token, pool, deep, failed, safety, owner, scan, main>>

\* Blocks add liquidity and take it away; a pair once created stays.
PoolChanges ==
  /\ main # "done" /\ pool' \in Pools \ {pool, "none"} /\ deep' = FALSE
  /\ UNCHANGED <<token, expired, failed, safety, owner, scan, main>>

\* Each eth_call runs on the latest block and is forgotten: the test address
\* does not hold what it has bought in the call before, and has approved nothing.
Sellable == token.trade = "anybody"

-----------------------------------------------------------------------------
\* checkOwnership: the score is loaded, and stored, with nothing that keeps the
\* other goroutine out.

OwnerFrame == UNCHANGED <<world, honeypot, blacklist, sale, scan, main>>

DeductAnyOwner == token.owner # "none"              \* mutant: renounced is not tested
Deduct == token.owner = "active"

OwnerCall ==
  /\ owner.pc = "calling" /\ OwnerFrame /\ UNCHANGED score
  /\ \/ Answered /\ owner' = [owner EXCEPT !.pc = IF Deduct THEN "loaded" ELSE "done",
                                           !.had = score]
     \/ Unanswered /\ owner' = [owner EXCEPT !.pc = "done"]

OwnerStore ==
  /\ owner.pc = "loaded" /\ owner' = [owner EXCEPT !.pc = "done"]
  /\ score' = owner.had - OwnerRisk
  /\ OwnerFrame /\ UNCHANGED failed

-----------------------------------------------------------------------------
\* checkDangerousFunctions: the functions come in the order of a Go map.

ScanFrame == UNCHANGED <<world, sale, owner, main>>

LetNoCodePass ==                                    \* mutant: returns without a verdict
  /\ scan' = [scan EXCEPT !.pc = "done"]
  /\ UNCHANGED <<score, honeypot>>

NoCode ==
  /\ scan' = [scan EXCEPT !.pc = "done"]
  /\ score' = 0 /\ honeypot' = TRUE

CodeCall ==
  /\ scan.pc = "calling" /\ ScanFrame /\ UNCHANGED blacklist
  /\ \/ Answered /\ token.code /\ UNCHANGED <<score, honeypot>>
        /\ scan' = [scan EXCEPT !.pc = "loading", !.todo = token.found]
     \/ Answered /\ ~token.code /\ NoCode
     \/ Unanswered /\ NoCode

ScanLoad ==
  /\ scan.pc = "loading"
  /\ scan' = IF scan.todo = {} THEN [scan EXCEPT !.pc = "done"]
                               ELSE [scan EXCEPT !.pc = "loaded", !.had = score]
  /\ ScanFrame /\ UNCHANGED <<failed, score, honeypot, blacklist>>

ScanStore ==
  /\ scan.pc = "loaded"
  /\ \E f \in scan.todo :
       /\ score' = scan.had - Risk[f]
       /\ scan' = [scan EXCEPT !.pc = "loading", !.todo = @ \ {f}]
       /\ blacklist' = (blacklist \/ f \in Blacklists)
       /\ honeypot' = (honeypot \/ f \in Blacklists)
  /\ ScanFrame /\ UNCHANGED failed

-----------------------------------------------------------------------------
\* CheckToken after wg.Wait: simulateTrades, checkLiquidity

MainFrame == UNCHANGED <<world, owner, scan, blacklist>>

Joined == owner.pc = "done" /\ scan.pc = "done"

Wait ==
  /\ main = "joining" /\ Joined /\ main' = "buying"
  /\ MainFrame /\ UNCHANGED <<failed, score, honeypot, sale>>

\* Without liquidity the router reverts. An answer of no tokens is the end too.
SimulateBuy ==
  /\ main = "buying" /\ MainFrame /\ UNCHANGED <<honeypot, sale>>
  /\ \/ Answered /\ Tradable /\ main' = "approving" /\ UNCHANGED score
     \/ Garbled /\ Tradable /\ main' = "pairing" /\ UNCHANGED score
     \/ /\ IF Tradable THEN Unanswered ELSE UNCHANGED failed
        /\ main' = "pairing" /\ score' = score - 30

Condemn == honeypot' = TRUE /\ score' = 0 /\ main' = "pairing"

SimulateApprove ==
  /\ main = "approving" /\ MainFrame /\ UNCHANGED sale
  /\ \/ Answered /\ token.trade # "unapprovable" /\ main' = "selling"
        /\ UNCHANGED <<score, honeypot>>
     \/ token.trade = "unapprovable" /\ Condemn /\ UNCHANGED failed
     \/ Unanswered /\ Condemn

TaxRisk(tax) ==
  IF tax < 0 \/ tax = 10 THEN 0
  ELSE IF tax < 10 THEN 5 ELSE IF tax <= 25 THEN 15 ELSE 30

\* The router tells the loss from the reserves at each of the two calls, not
\* from what the token keeps for itself: any loss may come with any token. When
\* its answer is not decoded no loss is looked at.
SimulateSell ==
  /\ main = "selling" /\ MainFrame
  /\ \/ /\ Answered /\ Sellable /\ Tradable /\ canSell' = TRUE /\ loss' \in Taxes
        /\ IF loss' > 50 THEN Condemn
           ELSE /\ score' = score - TaxRisk(loss')
                /\ main' = "pairing" /\ UNCHANGED honeypot
     \/ /\ Garbled /\ Sellable /\ Tradable /\ canSell' = TRUE
        /\ main' = "pairing" /\ UNCHANGED <<loss, score, honeypot>>
     \/ ~(Sellable /\ Tradable) /\ Condemn /\ UNCHANGED <<failed, sale>>
     \/ Unanswered /\ Condemn /\ UNCHANGED sale

\* An error of getPair, getReserves or token0 takes nothing off the score.
FindPair ==
  /\ main = "pairing" /\ MainFrame /\ UNCHANGED <<honeypot, sale>>
  /\ \/ Answered /\ pool = "none" /\ score' = score - 50 /\ main' = "final"
     \/ Answered /\ pool # "none" /\ main' = "reserves" /\ UNCHANGED score
     \/ Unanswered /\ main' = "final" /\ UNCHANGED score

ReadReserves ==
  /\ main = "reserves" /\ main' = "final" /\ MainFrame /\ UNCHANGED <<honeypot, sale>>
  /\ \/ Answered /\ score' = IF pool = "enough" THEN score ELSE score - 40
     \/ Unanswered /\ UNCHANGED score

\* calculateFinalScore
Unclamped == score                                  \* mutant
Clamped == IF score < 0 THEN 0 ELSE score
Critical == honeypot \/ ~canSell \/ blacklist

TooRiskyToBuy == Clamped <= 40                      \* mutant: the limit of /buy, and <=
TooRisky == Clamped < 30

FinalScore ==
  /\ main = "final" /\ main' = "done"
  /\ score' = IF Critical THEN 0 ELSE Clamped
  /\ honeypot' = (Critical \/ TooRisky)
  /\ MainFrame /\ UNCHANGED <<failed, sale>>

Simulate == SimulateBuy \/ SimulateApprove \/ SimulateSell
CheckLiquidity == FindPair \/ ReadReserves

Next ==
  \/ Expire \/ PoolChanges
  \/ OwnerCall \/ OwnerStore
  \/ CodeCall \/ ScanLoad \/ ScanStore
  \/ Wait \/ Simulate \/ CheckLiquidity \/ FinalScore

Spec == Init /\ [][Next]_vars

-----------------------------------------------------------------------------
Done == main = "done"

\* A token that is not called a honeypot has earned it, whatever calls failed
\* and however the goroutines raced: its code was read and has no blacklist,
\* its sale went through (by anybody: the simulated seller holds nothing), and
\* the pool it was sold to is on the chain: a pool still pending is none (what
\* Detection relies on). Of its tax it says only that the router told no loss
\* above half: a token whose sale was not decoded passes with none looked at.
SafeVerdictIsEarned ==
  Done /\ ~honeypot =>
    /\ token.code /\ token.found \cap Blacklists = {}
    /\ token.trade = "anybody" /\ pool # "none"
    /\ loss # Unread => loss <= 50

\* The race for the score loses the owner's deduction, or some of those for
\* functions, but never both: what the two goroutines leave is bounded.
RaceLosesOneSide ==
  main = "buying" /\ ~failed =>
    LET byOwner == IF token.owner = "active" THEN OwnerRisk ELSE 0
        full == IF token.code THEN 100 - byOwner - Total(token.found) ELSE 0
    IN \/ score = full + byOwner
       \/ \E lost \in SUBSET token.found : score = full + Total(lost)

\* When no call fails and the pool is there and deep all along, the verdict on
\* a token with small risks, with or without an owner, turns on one thing: its
\* sale by somebody who holds nothing. If nobody tests the seller's balance and
\* allowance, and the router tells no loss above half, the token passes with a
\* score that /buy accepts: the deductions of the stages and the two limits
\* fit. Any other, an ordinary clean token included, is called a honeypot.
VerdictTurnsOnSale ==
  Done /\ ~failed /\ deep /\ token.code /\ Total(token.found) <= 20 =>
    IF token.trade = "anybody" /\ loss <= 50
    THEN ~honeypot /\ score >= 40
    ELSE honeypot /\ score = 0
=============================================================================
