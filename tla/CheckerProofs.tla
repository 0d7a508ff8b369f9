---------------------------- MODULE CheckerProofs ----------------------------
(***************************************************************************)
(* Theorems about the verdict and the score of Checker, for every set of   *)
(* functions and losses, and whatever they take off the score.             *)
(***************************************************************************)
EXTENDS Checker, FiniteSetTheorems, TLAPS

\* The part of TypeOK the steps below need. The bounds of the score are not
\* among them: no verdict rests on it alone.
ScanType ==
  /\ token.found \subseteq Functions /\ loss \in Int
  /\ score \in Int
  /\ scan \in [pc : {"calling", "loading", "loaded", "done"}, todo : SUBSET Functions, had : Int]
  /\ owner \in [pc : {"calling", "loaded", "done"}, had : Int]

\* checkDangerousFunctions leaves no blacklist behind: one that it has not met
\* is still to come, and without code there is a verdict.
ScanFinds ==
  /\ scan.pc \in {"loading", "loaded"} =>
       /\ token.code
       /\ blacklist \/ token.found \cap Blacklists \subseteq scan.todo
  /\ scan.pc = "done" =>
       \/ honeypot
       \/ token.code /\ (blacklist \/ token.found \cap Blacklists = {})

\* A sale that succeeds is one anybody could make, to a pool, which stays; and
\* a loss above half is judged in the step that reads it. An answer that is not
\* decoded leaves the loss unread, which is below every limit.
SalesAreJudged ==
  /\ canSell => token.trade = "anybody" /\ pool # "none"
  /\ honeypot \/ loss <= 50

\* CheckToken waits for the goroutines, and its last step takes nothing back.
VerdictWaits ==
  /\ main # "joining" => Joined
  /\ main = "done" /\ ~honeypot => canSell /\ ~blacklist

VerdictInv == ScanType /\ ScanFinds /\ SalesAreJudged /\ VerdictWaits

-----------------------------------------------------------------------------
LEMMA TaxesAreInt == Taxes \subseteq Int
<1>1. -1..100 \subseteq Int
  OBVIOUS
<1> QED BY <1>1, CheckerAssumption

LEMMA VerdictInit == Init => VerdictInv
<1> SUFFICES ASSUME Init PROVE VerdictInv
  OBVIOUS
<1>1. token \in Tokens
  BY DEF Init
<1>2. token.found \subseteq Functions
  BY <1>1 DEF Tokens
<1>3. ScanType
  <2>1. loss \in Int
    BY DEF Init, Unread
  <2>2. /\ score \in Int
        /\ scan \in [pc : {"calling", "loading", "loaded", "done"}, todo : SUBSET Functions, had : Int]
        /\ owner \in [pc : {"calling", "loaded", "done"}, had : Int]
    BY DEF Init
  <2> QED BY <1>2, <2>1, <2>2 DEF ScanType
<1>4. ScanFinds /\ SalesAreJudged /\ VerdictWaits
  BY DEF Init, Unread, ScanFinds, SalesAreJudged, VerdictWaits
<1> QED BY <1>3, <1>4 DEF VerdictInv

\* Each step of CheckToken keeps the invariant; the goroutines disturb what
\* was found, the simulated trades what was sold, the rest only the score.
LEMMA VerdictStep == VerdictInv /\ [Next]_vars => VerdictInv'
<1> SUFFICES ASSUME VerdictInv, [Next]_vars PROVE VerdictInv'
  OBVIOUS
<1> USE DEF VerdictInv, Joined, sale
<1>1. CASE Expire \/ PoolChanges
  BY <1>1 DEF Expire, PoolChanges, safety, ScanType, ScanFinds, SalesAreJudged, VerdictWaits
<1>2. CASE OwnerCall \/ OwnerStore
  <2> USE DEF OwnerFrame, world
  <2>1. ScanType'
    <3>1. CASE OwnerCall
      BY <3>1 DEF OwnerCall, ScanType
    <3>2. CASE OwnerStore
      <4>1. owner.had - OwnerRisk \in Int
        BY DEF ScanType, OwnerRisk
      <4> QED BY <3>2, <4>1 DEF OwnerStore, ScanType
    <3> QED BY <1>2, <3>1, <3>2
  <2>2. ScanFinds' /\ SalesAreJudged'
    BY <1>2 DEF OwnerCall, OwnerStore, ScanFinds, SalesAreJudged
  <2>3. VerdictWaits'
    BY <1>2 DEF OwnerCall, OwnerStore, ScanType, VerdictWaits
  <2> QED BY <2>1, <2>2, <2>3
<1>3. CASE CodeCall
  <2> USE <1>3 DEF CodeCall, NoCode, ScanFrame, world
  <2>1. ScanType'
    <3>1. CASE UNCHANGED score /\ scan' = [scan EXCEPT !.pc = "loading", !.todo = token.found]
      BY <3>1 DEF ScanType
    <3>2. CASE NoCode
      BY <3>2 DEF ScanType
    <3> QED BY <3>1, <3>2
  <2>2. ScanFinds' /\ SalesAreJudged'
    <3>1. CASE /\ token.code /\ UNCHANGED <<blacklist, honeypot>>
               /\ scan' = [scan EXCEPT !.pc = "loading", !.todo = token.found]
      BY <3>1 DEF ScanType, ScanFinds, SalesAreJudged
    <3>2. CASE NoCode
      BY <3>2 DEF ScanType, ScanFinds, SalesAreJudged
    <3> QED BY <3>1, <3>2
  <2>3. VerdictWaits'
    BY DEF ScanType, VerdictWaits
  <2> QED BY <2>1, <2>2, <2>3
<1>4. CASE ScanLoad
  <2> USE <1>4 DEF ScanLoad, ScanFrame, world
  <2>1. ScanType'
    BY DEF ScanType
  <2>2. ScanFinds' /\ SalesAreJudged'
    BY DEF ScanType, ScanFinds, SalesAreJudged
  <2>3. VerdictWaits'
    BY DEF ScanType, VerdictWaits
  <2> QED BY <2>1, <2>2, <2>3
<1>5. CASE ScanStore
  <2> USE DEF ScanFrame, world
  <2>1. PICK f \in scan.todo :
          /\ score' = scan.had - Risk[f]
          /\ scan' = [scan EXCEPT !.pc = "loading", !.todo = @ \ {f}]
          /\ blacklist' = (blacklist \/ f \in Blacklists)
          /\ honeypot' = (honeypot \/ f \in Blacklists)
    BY <1>5 DEF ScanStore
  <2>2. Risk[f] \in Int /\ scan.had \in Int
    BY CheckerAssumption DEF ScanType
  <2>3. ScanType'
    <3>1. scan' \in [pc : {"calling", "loading", "loaded", "done"}, todo : SUBSET Functions, had : Int]
      BY <2>1 DEF ScanType
    <3>2. score' \in Int
      BY <2>1, <2>2
    <3> QED BY <1>5, <3>1, <3>2 DEF ScanStore, ScanType
  <2>4. ScanFinds' /\ SalesAreJudged'
    BY <1>5, <2>1 DEF ScanStore, ScanType, ScanFinds, SalesAreJudged
  <2>5. VerdictWaits'
    BY <1>5, <2>1 DEF ScanStore, ScanType, VerdictWaits
  <2> QED BY <2>3, <2>4, <2>5
<1>6. CASE Wait
  BY <1>6 DEF Wait, MainFrame, world, ScanType, ScanFinds, SalesAreJudged, VerdictWaits
<1>7. CASE Simulate
  <2> USE DEF Simulate, SimulateBuy, SimulateApprove, SimulateSell, Condemn, MainFrame, world
  <2>1. loss' \in Int /\ TaxRisk(loss') \in Int
    <3>1. loss' \in Taxes \/ UNCHANGED loss
      BY <1>7
    <3>2. loss' \in Int
      BY <3>1, TaxesAreInt DEF ScanType
    <3> QED BY <3>2 DEF TaxRisk
  <2>2. ScanType'
    BY <1>7, <2>1 DEF ScanType
  <2>3. ScanFinds'
    BY <1>7 DEF ScanFinds
  <2>4. SalesAreJudged'
    <3>1. CASE SimulateBuy \/ SimulateApprove
      BY <3>1 DEF SalesAreJudged
    <3>2. CASE SimulateSell
      <4>1. loss' > 50 \/ loss' <= 50
        BY <2>1
      <4> QED BY <3>2, <4>1 DEF SalesAreJudged, Sellable, Tradable, ScanType
    <3> QED BY <1>7, <3>1, <3>2
  <2>5. VerdictWaits'
    BY <1>7 DEF VerdictWaits
  <2> QED BY <2>2, <2>3, <2>4, <2>5
<1>8. CASE CheckLiquidity
  BY <1>8 DEF CheckLiquidity, FindPair, ReadReserves, MainFrame, world,
              ScanType, ScanFinds, SalesAreJudged, VerdictWaits
<1>9. CASE FinalScore
  <2> USE <1>9 DEF FinalScore, MainFrame, world
  <2>1. Clamped \in Int
    BY DEF Clamped, ScanType
  <2>2. ScanType'
    BY <2>1 DEF ScanType
  <2>3. honeypot => honeypot'
    BY DEF Critical
  <2>4. ScanFinds' /\ SalesAreJudged'
    BY <2>3 DEF ScanFinds, SalesAreJudged
  <2>5. VerdictWaits'
    BY DEF Critical, VerdictWaits
  <2> QED BY <2>2, <2>4, <2>5
<1>10. CASE UNCHANGED vars
  BY <1>10 DEF vars, world, safety, ScanType, ScanFinds, SalesAreJudged, VerdictWaits
<1> QED BY <1>1, <1>2, <1>3, <1>4, <1>5, <1>6, <1>7, <1>8, <1>9, <1>10 DEF Next

\* For every token, whatever calls fail and whatever is not decoded: a token that
\* is not called a honeypot has code without blacklists, was sold to a pool on the
\* chain by somebody who held nothing, and the router, where its answer was read,
\* told no loss above half.
THEOREM VerdictsAreEarned == Spec => []SafeVerdictIsEarned
<1>1. VerdictInv => SafeVerdictIsEarned
  BY DEF VerdictInv, ScanFinds, SalesAreJudged, VerdictWaits, Joined, Done, SafeVerdictIsEarned
<1> QED BY VerdictInit, VerdictStep, <1>1, PTL DEF Spec
-----------------------------------------------------------------------------
\* What Total sums up: MapThenSumSet takes the functions of a set in an order
\* that CHOOSE fixes, by a recursive function on its subsets.
Pick(S) == CHOOSE f \in S : TRUE
Sums(g, S) ==
  g = [T \in SUBSET S |-> IF T = {} THEN 0 ELSE Risk[Pick(T)] + g[T \ {Pick(T)}]]
Iter(S) == CHOOSE g : Sums(g, S)

LEMMA TotalIsIter == ASSUME NEW S PROVE Total(S) = Iter(S)[S]
BY DEF Total, MapThenSumSet, MapThenFoldSet, Iter, Sums, Pick

\* Induction over finite sets: what is true of some sets of functions is true
\* of one without a smaller one.
LEMMA SmallestSet ==
  ASSUME NEW Z, Z \subseteq SUBSET Functions, Z # {}
  PROVE  \E S \in Z : \A T \in Z : T \subseteq S => T = S
<1> DEFINE R == StrictSubsetOrdering(Functions)
<1>1. SUBSET Functions = FiniteSubsetsOf(Functions)
  BY CheckerAssumption, FS_FiniteSubsetsOfFinite
<1>2. IsWellFoundedOn(R, SUBSET Functions)
  BY <1>1, FS_StrictSubsetOrderingWellFounded
<1> HIDE DEF R
<1>3. \E S \in Z : \A T \in Z : <<T, S>> \notin R
  BY <1>2, WFMin, Zenon
<1> QED BY <1>3 DEF R, StrictSubsetOrdering

\* The recursive function exists for each set, and gives every subset what the
\* function of that subset gives it.
IterFits(S) == Sums(Iter(S), S) /\ \A T \in SUBSET S : Iter(S)[T] = Iter(T)[T]

LEMMA IterExists == \A S \in SUBSET Functions : IterFits(S)
<1> DEFINE Z == {S \in SUBSET Functions : ~IterFits(S)}
<1> SUFFICES ASSUME Z # {} PROVE FALSE
  OBVIOUS
<1>1. PICK S \in Z : \A T \in Z : T \subseteq S => T = S
  <2> HIDE DEF Z
  <2>1. Z \subseteq SUBSET Functions
    BY DEF Z
  <2> QED BY <2>1, SmallestSet
<1>2. \A T \in SUBSET S : T # S => IterFits(T)
  BY <1>1
<1>3. \A T \in SUBSET S : T # {} => Pick(T) \in T
  BY DEF Pick
<1>4. Sums(Iter(S), S)
  <2> DEFINE g == [T \in SUBSET S |-> IF T = {} THEN 0
                     ELSE Risk[Pick(T)] + Iter(T \ {Pick(T)})[T \ {Pick(T)}]]
  <2>1. ASSUME NEW U \in SUBSET S, U # S PROVE g[U] = Iter(U)[U]
    <3>1. Sums(Iter(U), U)
      BY <1>2, <2>1 DEF IterFits
    <3>2. CASE U = {}
      <4>1. Iter(U)[U] = 0
        BY <3>1, <3>2 DEF Sums
      <4> QED BY <3>2, <4>1
    <3>3. CASE U # {}
      <4>1. Iter(U)[U] = Risk[Pick(U)] + Iter(U)[U \ {Pick(U)}]
        BY <3>1, <3>3 DEF Sums
      <4>2. Iter(U)[U \ {Pick(U)}] = Iter(U \ {Pick(U)})[U \ {Pick(U)}]
        BY <1>2, <2>1 DEF IterFits
      <4> QED BY <3>3, <4>1, <4>2
    <3> QED BY <3>2, <3>3
  <2>2. ASSUME NEW T \in SUBSET S, T # {} PROVE g[T \ {Pick(T)}] = Iter(T \ {Pick(T)})[T \ {Pick(T)}]
    <3>1. T \ {Pick(T)} \in SUBSET S /\ T \ {Pick(T)} # S
      BY <1>3, <2>2
    <3> QED BY <2>1, <3>1
  <2>3. g = [T \in SUBSET S |-> IF T = {} THEN 0 ELSE Risk[Pick(T)] + g[T \ {Pick(T)}]]
    BY <2>2
  <2>4. Sums(g, S)
    BY <2>3 DEF Sums
  <2> HIDE DEF g
  <2> QED BY <2>4 DEF Iter
<1>5. \A T \in SUBSET S : Iter(S)[T] = Iter(T)[T]
  <2> DEFINE Y == {T \in SUBSET S : Iter(S)[T] # Iter(T)[T]}
  <2> SUFFICES ASSUME Y # {} PROVE FALSE
    OBVIOUS
  <2>1. PICK T \in Y : \A U \in Y : U \subseteq T => U = T
    <3> HIDE DEF Y
    <3>1. Y \subseteq SUBSET Functions
      BY <1>1 DEF Y
    <3> QED BY <3>1, SmallestSet
  <2>2. T \in SUBSET S /\ T # S /\ IterFits(T)
    BY <1>2, <2>1
  <2>3. T # {}
    <3>1. Iter(S)[{}] = 0
      BY <1>4 DEF Sums
    <3>2. CASE T = {}
      <4>1. Iter(T)[T] = 0
        BY <2>2, <3>2 DEF IterFits, Sums
      <4> QED BY <2>1, <3>1, <3>2, <4>1
    <3> QED BY <3>2
  <2> DEFINE U == T \ {Pick(T)}
  <2>4. U \in SUBSET T /\ U # T
    BY <1>3, <2>2, <2>3
  <2>5. Iter(S)[U] = Iter(U)[U] /\ Iter(T)[U] = Iter(U)[U]
    BY <2>1, <2>2, <2>4 DEF IterFits
  <2>6. Iter(S)[T] = Risk[Pick(T)] + Iter(S)[U]
    BY <1>4, <2>2, <2>3 DEF Sums
  <2>7. Iter(T)[T] = Risk[Pick(T)] + Iter(T)[U]
    BY <2>2, <2>3 DEF IterFits, Sums
  <2> QED BY <2>1, <2>5, <2>6, <2>7
<1> QED BY <1>1, <1>4, <1>5 DEF IterFits

LEMMA TotalUnfolds ==
  /\ Total({}) = 0
  /\ \A S \in SUBSET Functions : S # {} => Total(S) = Risk[Pick(S)] + Total(S \ {Pick(S)})
<1>1. Total({}) = 0
  BY IterExists, TotalIsIter DEF IterFits, Sums
<1>2. ASSUME NEW S \in SUBSET Functions, S # {}
      PROVE  Total(S) = Risk[Pick(S)] + Total(S \ {Pick(S)})
  <2>1. IterFits(S) /\ Total(S) = Iter(S)[S]
    BY IterExists, TotalIsIter
  <2>2. Iter(S)[S] = Risk[Pick(S)] + Iter(S)[S \ {Pick(S)}]
    BY <1>2, <2>1 DEF IterFits, Sums
  <2>3. Iter(S)[S \ {Pick(S)}] = Total(S \ {Pick(S)})
    BY <2>1, TotalIsIter DEF IterFits
  <2> QED BY <2>1, <2>2, <2>3
<1> QED BY <1>1, <1>2

LEMMA TotalType == \A S \in SUBSET Functions : Total(S) \in Nat
<1> DEFINE Z == {S \in SUBSET Functions : Total(S) \notin Nat}
<1> SUFFICES ASSUME Z # {} PROVE FALSE
  OBVIOUS
<1>1. PICK S \in Z : \A T \in Z : T \subseteq S => T = S
  <2> HIDE DEF Z
  <2>1. Z \subseteq SUBSET Functions
    BY DEF Z
  <2> QED BY <2>1, SmallestSet
<1>2. S # {}
  <2>1. Total({}) \in Nat
    BY TotalUnfolds
  <2> QED BY <1>1, <2>1
<1>3. Pick(S) \in S
  BY <1>2 DEF Pick
<1>4. Total(S \ {Pick(S)}) \in Nat /\ Risk[Pick(S)] \in Nat
  BY <1>1, <1>3, CheckerAssumption
<1> QED BY <1>1, <1>2, <1>4, TotalUnfolds

\* The sum does not depend on the order.
LEMMA TotalRemove ==
  \A S \in SUBSET Functions : \A f \in S : Total(S) = Risk[f] + Total(S \ {f})
<1> DEFINE Fits(S) == \A f \in S : Total(S) = Risk[f] + Total(S \ {f})
           Z == {S \in SUBSET Functions : ~Fits(S)}
<1> SUFFICES ASSUME Z # {} PROVE FALSE
  OBVIOUS
<1>1. PICK S \in Z : \A T \in Z : T \subseteq S => T = S
  <2> HIDE DEF Z
  <2>1. Z \subseteq SUBSET Functions
    BY DEF Z
  <2> QED BY <2>1, SmallestSet
<1>2. PICK f \in S : Total(S) # Risk[f] + Total(S \ {f})
  BY <1>1
<1> DEFINE p == Pick(S)
<1>3. p \in S /\ Total(S) = Risk[p] + Total(S \ {p})
  BY <1>1, TotalUnfolds DEF Pick
<1>4. p # f
  BY <1>2, <1>3
<1>5. Fits(S \ {p}) /\ Fits(S \ {f})
  BY <1>1, <1>3
<1>6. /\ Total(S \ {p}) = Risk[f] + Total((S \ {p}) \ {f})
      /\ Total(S \ {f}) = Risk[p] + Total((S \ {f}) \ {p})
  BY <1>3, <1>4, <1>5
<1>7. (S \ {p}) \ {f} = (S \ {f}) \ {p}
  OBVIOUS
<1>8. Risk[f] \in Nat /\ Risk[p] \in Nat /\ Total((S \ {f}) \ {p}) \in Nat
  BY <1>1, <1>3, CheckerAssumption, TotalType
<1>9. Total(S) = Risk[p] + (Risk[f] + Total((S \ {f}) \ {p}))
  BY <1>3, <1>6, <1>7
<1>10. Risk[f] + Total(S \ {f}) = Risk[f] + (Risk[p] + Total((S \ {f}) \ {p}))
  BY <1>6
<1> HIDE DEF p, Z, Fits
<1>11. \A a, b, t \in Nat : a + (b + t) = b + (a + t)
  OBVIOUS
<1> QED BY <1>2, <1>8, <1>9, <1>10, <1>11

LEMMA TotalSplit ==
  \A S \in SUBSET Functions : \A A \in SUBSET S : Total(S) = Total(A) + Total(S \ A)
<1> SUFFICES ASSUME NEW S \in SUBSET Functions
             PROVE  \A A \in SUBSET S : Total(S) = Total(A) + Total(S \ A)
  OBVIOUS
<1> DEFINE Z == {A \in SUBSET S : Total(S) # Total(A) + Total(S \ A)}
<1> SUFFICES ASSUME Z # {} PROVE FALSE
  OBVIOUS
<1>1. PICK A \in Z : \A T \in Z : T \subseteq A => T = A
  <2> HIDE DEF Z
  <2>1. Z \subseteq SUBSET Functions
    BY DEF Z
  <2> QED BY <2>1, SmallestSet
<1>2. A # {}
  <2>1. S \ {} = S
    OBVIOUS
  <2>2. Total({}) + Total(S \ {}) = Total(S)
    BY <2>1, TotalUnfolds, TotalType
  <2> QED BY <1>1, <2>2
<1>3. PICK f \in A : TRUE
  BY <1>2
<1> DEFINE B == A \ {f}
<1>4. Total(S) = Total(B) + Total(S \ B)
  BY <1>1, <1>3
<1>5. Total(A) = Risk[f] + Total(B)
  BY <1>1, <1>3, TotalRemove
<1>6. Total(S \ B) = Risk[f] + Total(S \ A)
  <2>1. f \in S \ B /\ (S \ B) \ {f} = S \ A /\ S \ B \in SUBSET Functions
    BY <1>1, <1>3
  <2> HIDE DEF B
  <2> QED BY <2>1, TotalRemove
<1>7. Risk[f] \in Nat /\ Total(B) \in Nat /\ Total(S \ A) \in Nat
  BY <1>1, <1>3, CheckerAssumption, TotalType
<1>8. Total(S) # Total(A) + Total(S \ A)
  BY <1>1
<1> HIDE DEF B, Z
<1> QED BY <1>4, <1>5, <1>6, <1>7, <1>8

LEMMA TotalGrows ==
  \A S \in SUBSET Functions : \A A \in SUBSET S : Total(A) <= Total(S)
<1> SUFFICES ASSUME NEW S \in SUBSET Functions, NEW A \in SUBSET S PROVE Total(A) <= Total(S)
  OBVIOUS
<1>1. Total(S) = Total(A) + Total(S \ A) /\ Total(A) \in Nat /\ Total(S \ A) \in Nat
  BY TotalSplit, TotalType
<1> QED BY <1>1
-----------------------------------------------------------------------------
\* Where the score is after any order of the two goroutines: what the scan has
\* taken off so far is the risk of Counted.
Counted == IF scan.pc = "calling" THEN {} ELSE token.found \ scan.todo

OwnerTaken == IF owner.pc = "done" THEN OwnerRisk ELSE 0
Spent == CASE main \in {"joining", "buying", "approving", "selling"} -> 0
           [] main \in {"pairing", "reserves"} -> 30
           [] main \in {"final", "done"} -> 80
Floor == 0 - OwnerTaken - Total(Counted) - Spent

Stages == {"joining", "buying", "approving", "selling", "pairing", "reserves", "final", "done"}

BeforeSale == {"joining", "buying", "approving", "selling"}
Passes == token.trade = "anybody" /\ loss <= 50

WorldType ==
  /\ token \in Tokens /\ pool \in Pools /\ main \in Stages
  /\ deep \in BOOLEAN /\ expired \in BOOLEAN /\ failed \in BOOLEAN
  /\ loss \in Taxes \cup {Unread}
  /\ honeypot \in BOOLEAN /\ blacklist \in BOOLEAN /\ canSell \in BOOLEAN

\* Each deduction is taken once, so that nothing falls below the sum of them.
ScoreBounds ==
  /\ score \in Floor..100 /\ scan.had \in Floor..100 /\ owner.had \in Floor..100
  /\ main = "done" => score >= 0

\* The score either has all that was counted and nothing of the owner, or was
\* stored by checkOwnership, or grew from that: then it has the owner's, and
\* lacks what the other goroutine stored in between.
OwnerLost(v) == v = 100 - Total(Counted)
OwnerKept(v) ==
  owner.pc = "done" /\ Deduct /\ \E A \in SUBSET Counted : v = 100 - OwnerRisk - Total(A)

OneSideLost ==
  /\ OwnerLost(score) \/ OwnerKept(score)
  /\ scan.pc = "loaded" => OwnerLost(scan.had) \/ OwnerKept(scan.had)
  /\ owner.pc = "loaded" => \E A \in SUBSET Counted : owner.had = 100 - Total(A)

RaceInv ==
  /\ scan.todo \subseteq token.found
  /\ owner.pc = "loaded" => Deduct
  /\ ~token.code => token.found = {} /\ ~Deduct /\ scan.pc \in {"calling", "done"}
  /\ ~failed /\ token.code /\ scan.pc \in {"calling", "done"} => scan.todo = {}
  /\ ~failed /\ main \in {"joining", "buying"} =>
       IF token.code THEN OneSideLost ELSE scan.pc = "done" => score = 0

\* What VerdictTurnsOnSale asks of the token, the pool and the node.
Clean == ~failed /\ deep /\ token.code /\ Total(token.found) <= 20

\* Up to the sale such a token keeps at least 70 points and is not called a
\* honeypot; from then on the sale has decided, the points left and canSell
\* are enough for the last step, and the verdict is not taken back.
CleanInv ==
  Clean =>
    /\ pool = "enough" /\ ~blacklist
    /\ main \in BeforeSale => ~honeypot
    /\ main \in BeforeSale \ {"joining"} => score >= 70
    /\ main \in Stages \ BeforeSale =>
         IF Passes THEN ~honeypot /\ score >= 40 /\ canSell
         ELSE honeypot /\ (main = "done" => score = 0)

ScoreInv == WorldType /\ ScoreBounds /\ RaceInv /\ CleanInv

-----------------------------------------------------------------------------
LEMMA CountedType ==
  ASSUME ScanType
  PROVE  /\ Counted \in SUBSET Functions /\ Total(Counted) \in Nat
         /\ OwnerTaken \in {0, 10} /\ (WorldType => Spent \in {0, 30, 80})
         /\ WorldType => Floor \in Int /\ Floor <= 0
<1>1. Counted \in SUBSET Functions
  BY DEF ScanType, Counted
<1>2. Total(Counted) \in Nat
  BY <1>1, TotalType
<1>3. OwnerTaken \in {0, 10}
  BY DEF OwnerTaken, OwnerRisk
<1>4. WorldType => Spent \in {0, 30, 80}
  BY DEF WorldType, Stages, Spent
<1>5. WorldType => Floor \in Int /\ Floor <= 0
  BY <1>2, <1>3, <1>4 DEF Floor
<1> QED BY <1>1, <1>2, <1>3, <1>4, <1>5

LEMMA ScoreInit == Init => ScoreInv
<1> SUFFICES ASSUME Init PROVE ScoreInv
  OBVIOUS
<1>1. WorldType
  BY DEF Init, WorldType, Stages
<1>2. Counted = {} /\ OwnerTaken = 0 /\ Spent = 0 /\ Total(Counted) = 0
  BY TotalUnfolds DEF Init, Counted, OwnerTaken, Spent
<1>3. ScoreBounds
  <2>1. Floor = 0
    BY <1>2 DEF Floor
  <2> QED BY <2>1 DEF Init, ScoreBounds
<1>4. RaceInv
  <2>1. OwnerLost(score)
    BY <1>2 DEF Init, OwnerLost
  <2> QED BY <2>1 DEF Init, RaceInv, OneSideLost, Deduct
<1>5. CleanInv
  BY DEF Init, Clean, CleanInv, BeforeSale
<1> QED BY <1>1, <1>3, <1>4, <1>5 DEF ScoreInv

\* What a step may do to the things the invariants compare: the token stays,
\* and a failed call, a shallow pool and a deduction are not undone.
LEMMA Onwards ==
  ASSUME ScanType, WorldType, [Next]_vars
  PROVE  /\ token' = token /\ (failed => failed') /\ (~deep => ~deep')
         /\ OwnerTaken <= OwnerTaken' /\ Spent <= Spent' /\ Counted \subseteq Counted'
<1> USE DEF OwnerFrame, ScanFrame, MainFrame, world, sale, safety, Answered, Unanswered, Garbled
<1>1. token' = token /\ (~deep => ~deep')
  <2>1. UNCHANGED <<token, deep>> \/ (UNCHANGED token /\ deep' = FALSE)
    BY DEF Next, vars, Expire, PoolChanges, OwnerCall, OwnerStore, CodeCall, ScanLoad, ScanStore,
         Wait, Simulate, SimulateBuy, SimulateApprove, SimulateSell,
         CheckLiquidity, FindPair, ReadReserves, FinalScore
  <2> QED BY <2>1
<1>2. failed => failed'
  BY DEF Next, vars, Expire, PoolChanges, OwnerCall, OwnerStore, CodeCall, NoCode, ScanLoad,
         ScanStore, Wait, Simulate, SimulateBuy, SimulateApprove, SimulateSell, Condemn,
         CheckLiquidity, FindPair, ReadReserves, FinalScore
<1>3. OwnerTaken <= OwnerTaken'
  <2>1. owner.pc = "done" => owner'.pc = "done"
    <3>1. CASE OwnerCall \/ OwnerStore
      BY <3>1 DEF OwnerCall, OwnerStore, ScanType
    <3>2. CASE UNCHANGED owner
      BY <3>2
    <3> QED BY <3>1, <3>2 DEF Next, vars, Expire, PoolChanges, CodeCall, ScanLoad, ScanStore,
              Wait, Simulate, SimulateBuy, SimulateApprove, SimulateSell,
              CheckLiquidity, FindPair, ReadReserves, FinalScore
  <2> QED BY <2>1 DEF OwnerTaken, OwnerRisk
<1>4. Spent <= Spent'
  <2>1. \/ main' = main
        \/ main = "joining" /\ main' = "buying"
        \/ main \in {"buying", "approving", "selling"} /\ main' \in {"approving", "selling", "pairing"}
        \/ main \in {"pairing", "reserves"} /\ main' \in {"reserves", "final"}
        \/ main = "final" /\ main' = "done"
    BY DEF Next, vars, Expire, PoolChanges, OwnerCall, OwnerStore, CodeCall, ScanLoad, ScanStore,
           Wait, Simulate, SimulateBuy, SimulateApprove, SimulateSell, Condemn,
           CheckLiquidity, FindPair, ReadReserves, FinalScore
  <2>2. CASE main' = main
    <3>1. Spent' = Spent
      BY <2>2, Zenon DEF Spent
    <3>2. Spent \in {0, 30, 80}
      BY CountedType
    <3> QED BY <3>1, <3>2
  <2>3. CASE main' # main
    BY <2>1, <2>3 DEF Spent
  <2> QED BY <2>2, <2>3
<1>5. Counted \subseteq Counted'
  <2>1. CASE CodeCall
    BY <2>1 DEF CodeCall, Counted
  <2>2. CASE ScanLoad
    BY <2>2, <1>1 DEF ScanLoad, ScanType, Counted
  <2>3. CASE ScanStore
    BY <2>3, <1>1 DEF ScanStore, ScanType, Counted
  <2>4. CASE UNCHANGED scan
    BY <2>4, <1>1 DEF Counted
  <2> QED BY <2>1, <2>2, <2>3, <2>4 DEF Next, vars, Expire, PoolChanges, OwnerCall, OwnerStore,
            Wait, Simulate, SimulateBuy, SimulateApprove, SimulateSell,
            CheckLiquidity, FindPair, ReadReserves, FinalScore
<1> QED BY <1>1, <1>2, <1>3, <1>4, <1>5

\* One more function is counted: its risk is what the store takes off.
LEMMA ScanCounts ==
  ASSUME ScanType, WorldType, scan.todo \subseteq token.found, ScanStore
  PROVE  \E f \in scan.todo :
           /\ f \in token.found \ Counted /\ Counted' = Counted \cup {f}
           /\ Total(Counted') = Total(Counted) + Risk[f]
           /\ Risk[f] \in Nat /\ score' = scan.had - Risk[f]
           /\ scan' = [scan EXCEPT !.pc = "loading", !.todo = @ \ {f}]
           /\ blacklist' = (blacklist \/ f \in Blacklists)
           /\ honeypot' = (honeypot \/ f \in Blacklists)
<1>1. PICK f \in scan.todo :
        /\ score' = scan.had - Risk[f]
        /\ scan' = [scan EXCEPT !.pc = "loading", !.todo = @ \ {f}]
        /\ blacklist' = (blacklist \/ f \in Blacklists)
        /\ honeypot' = (honeypot \/ f \in Blacklists)
  BY DEF ScanStore
<1>2. f \in token.found \ Counted /\ Counted' = Counted \cup {f}
  BY <1>1 DEF ScanStore, ScanFrame, world, ScanType, Counted
<1>3. Counted' \in SUBSET Functions
  BY <1>2 DEF ScanType, Counted
<1>4. Counted' \ {f} = Counted
  BY <1>2
<1>5. Risk[f] \in Nat
  BY <1>1, CheckerAssumption DEF ScanType
<1>6. Total(Counted') = Risk[f] + Total(Counted)
  <2>1. \A S \in SUBSET Functions : f \in S => Total(S) = Risk[f] + Total(S \ {f})
    BY TotalRemove
  <2>2. f \in Counted'
    BY <1>2
  <2> QED BY <2>1, <2>2, <1>3, <1>4
<1>7. Total(Counted') = Total(Counted) + Risk[f]
  BY <1>5, <1>6, CountedType
<1> QED BY <1>1, <1>2, <1>5, <1>7

LEMMA BoundsStep ==
  ASSUME VerdictInv, VerdictInv', WorldType, ScoreBounds, scan.todo \subseteq token.found,
         [Next]_vars
  PROVE  WorldType' /\ ScoreBounds'
<1> USE DEF OwnerFrame, ScanFrame, MainFrame, world, sale, safety
<1>1. ScanType /\ ScanType'
  BY DEF VerdictInv
<1>2. WorldType'
  <2>1. token' = token
    BY <1>1, Onwards
  <2>2. pool' \in Pools
    BY DEF WorldType, Next, vars, Expire, PoolChanges, OwnerCall, OwnerStore, CodeCall, ScanLoad,
           ScanStore, Wait, Simulate, SimulateBuy, SimulateApprove, SimulateSell,
           CheckLiquidity, FindPair, ReadReserves, FinalScore
  <2>3. main' \in Stages
    BY DEF WorldType, Stages, Next, vars, Expire, PoolChanges, OwnerCall, OwnerStore, CodeCall,
           ScanLoad, ScanStore, Wait, Simulate, SimulateBuy, SimulateApprove, SimulateSell,
           Condemn, CheckLiquidity, FindPair, ReadReserves, FinalScore
  <2>4. deep' \in BOOLEAN /\ expired' \in BOOLEAN /\ failed' \in BOOLEAN /\ canSell' \in BOOLEAN
    BY DEF WorldType, Next, vars, Expire, PoolChanges, OwnerCall, OwnerStore, CodeCall, NoCode,
           ScanLoad, ScanStore, Wait, Simulate, SimulateBuy, SimulateApprove, SimulateSell,
           Condemn, CheckLiquidity, FindPair, ReadReserves, FinalScore, Answered, Unanswered, Garbled
  <2>5. honeypot' \in BOOLEAN /\ blacklist' \in BOOLEAN
    BY DEF WorldType, Next, vars, Expire, PoolChanges, OwnerCall, OwnerStore, CodeCall, NoCode,
           ScanLoad, ScanStore, Wait, Simulate, SimulateBuy, SimulateApprove, SimulateSell,
           Condemn, CheckLiquidity, FindPair, ReadReserves, FinalScore, Critical, TooRisky
  <2>6. loss' \in Taxes \cup {Unread}
    <3>1. CASE SimulateSell
      BY <3>1 DEF WorldType, SimulateSell
    <3>2. CASE UNCHANGED loss
      BY <3>2 DEF WorldType
    <3> QED BY <3>1, <3>2 DEF Next, vars, Expire, PoolChanges, OwnerCall, OwnerStore, CodeCall,
              ScanLoad, ScanStore, Wait, Simulate, SimulateBuy, SimulateApprove,
              CheckLiquidity, FindPair, ReadReserves, FinalScore
  <2> QED BY <2>1, <2>2, <2>3, <2>4, <2>5, <2>6 DEF WorldType
<1>3. /\ OwnerTaken \in {0, 10} /\ OwnerTaken' \in {0, 10} /\ OwnerTaken <= OwnerTaken'
      /\ Spent \in {0, 30, 80} /\ Spent' \in {0, 30, 80} /\ Spent <= Spent'
      /\ Total(Counted) \in Nat /\ Total(Counted') \in Nat /\ Total(Counted) <= Total(Counted')
  <2>1. Counted \subseteq Counted' /\ OwnerTaken <= OwnerTaken' /\ Spent <= Spent'
    BY <1>1, Onwards
  <2>2. Counted' \in SUBSET Functions
    BY <1>1 DEF ScanType, Counted
  <2>3. OwnerTaken' \in {0, 10} /\ Spent' \in {0, 30, 80}
    BY <1>2 DEF WorldType, Stages, OwnerTaken, OwnerRisk, Spent
  <2> QED BY <1>1, <2>1, <2>2, <2>3, CountedType, TotalType, TotalGrows
<1>4. Floor \in Int /\ Floor' \in Int /\ Floor' <= 0
  BY <1>3 DEF Floor
<1>5. Floor' <= Floor
  BY <1>3 DEF Floor
<1>6. ASSUME NEW v \in Floor..100 PROVE v \in Floor'..100
  BY <1>4, <1>5
<1>7. CASE Expire \/ PoolChanges
  BY <1>2, <1>6, <1>7 DEF Expire, PoolChanges, ScoreBounds
<1>8. CASE OwnerCall
  BY <1>1, <1>2, <1>6, <1>8 DEF OwnerCall, ScanType, VerdictInv, VerdictWaits, Joined, ScoreBounds
<1>9. CASE OwnerStore
  <2>1. OwnerTaken = 0 /\ OwnerTaken' = 10 /\ Spent' = Spent /\ Counted' = Counted
    BY <1>1, <1>9 DEF OwnerStore, ScanType, OwnerTaken, OwnerRisk, Spent, Counted
  <2>2. Floor' = Floor - 10
    BY <1>3, <2>1 DEF Floor
  <2>3. score' \in Floor'..100
    BY <1>4, <1>9, <2>2 DEF OwnerStore, ScoreBounds, OwnerRisk
  <2> QED BY <1>1, <1>2, <1>6, <1>9, <2>3 DEF OwnerStore, ScanType, VerdictInv, VerdictWaits, Joined, ScoreBounds
<1>10. CASE CodeCall
  <2>1. score' = score \/ score' = 0
    BY <1>10 DEF CodeCall, NoCode
  <2>2. score' \in Floor'..100
    BY <1>4, <1>6, <2>1 DEF ScoreBounds
  <2> QED BY <1>1, <1>2, <1>6, <1>10, <2>2 DEF CodeCall, NoCode, ScanType, VerdictInv, VerdictWaits, Joined, ScoreBounds
<1>11. CASE ScanLoad
  BY <1>1, <1>2, <1>6, <1>11 DEF ScanLoad, ScanType, VerdictInv, VerdictWaits, Joined, ScoreBounds
<1>12. CASE ScanStore
  <2>1. PICK f \in scan.todo :
          /\ Total(Counted') = Total(Counted) + Risk[f]
          /\ Risk[f] \in Nat /\ score' = scan.had - Risk[f]
          /\ scan' = [scan EXCEPT !.pc = "loading", !.todo = @ \ {f}]
    BY <1>1, <1>12, ScanCounts
  <2>2. OwnerTaken' = OwnerTaken /\ Spent' = Spent
    BY <1>12 DEF ScanStore, OwnerTaken, Spent
  <2>3. Floor' = Floor - Risk[f]
    BY <1>3, <2>1, <2>2 DEF Floor
  <2>4. score' \in Floor'..100
    BY <1>4, <2>1, <2>3 DEF ScoreBounds
  <2> QED BY <1>1, <1>2, <1>6, <1>12, <2>1, <2>4 DEF ScanStore, ScanType, VerdictInv, VerdictWaits, Joined, ScoreBounds
<1>13. CASE Wait
  BY <1>2, <1>6, <1>13 DEF Wait, ScoreBounds
<1>14. CASE Simulate
  <2>1. main' # "done" /\ owner' = owner /\ scan' = scan
    BY <1>14 DEF Simulate, SimulateBuy, SimulateApprove, SimulateSell, Condemn
  <2>2. OwnerTaken' = OwnerTaken /\ Counted' = Counted
    BY <1>1, <2>1, Onwards DEF OwnerTaken, Counted
  <2>3. \/ score' = score \/ score' = 0
        \/ main' = "pairing" /\ Spent = 0 /\ \E d \in 0..30 : score' = score - d
    BY <1>14 DEF Simulate, SimulateBuy, SimulateApprove, SimulateSell, Condemn, TaxRisk, Spent
  <2>4. score' \in Floor'..100
    <3>1. CASE score' = score \/ score' = 0
      BY <1>4, <1>6, <3>1 DEF ScoreBounds
    <3>2. CASE main' = "pairing" /\ Spent = 0 /\ \E d \in 0..30 : score' = score - d
      <4>1. Spent' = 30
        BY <3>2 DEF Spent
      <4>2. Floor' = Floor - 30
        BY <1>3, <2>2, <3>2, <4>1 DEF Floor
      <4> QED BY <1>4, <3>2, <4>2 DEF ScoreBounds
    <3> QED BY <2>3, <3>1, <3>2
  <2> QED BY <1>2, <1>6, <2>1, <2>4 DEF ScoreBounds
<1>15. CASE CheckLiquidity
  <2>1. main' # "done" /\ owner' = owner /\ scan' = scan
    BY <1>15 DEF CheckLiquidity, FindPair, ReadReserves
  <2>2. OwnerTaken' = OwnerTaken /\ Counted' = Counted
    BY <1>1, <2>1, Onwards DEF OwnerTaken, Counted
  <2>3. \/ score' = score
        \/ main' = "final" /\ Spent = 30 /\ (score' = score - 50 \/ score' = score - 40)
    BY <1>15 DEF CheckLiquidity, FindPair, ReadReserves, Spent
  <2>4. score' \in Floor'..100
    <3>1. CASE score' = score
      BY <1>6, <3>1 DEF ScoreBounds
    <3>2. CASE main' = "final" /\ Spent = 30 /\ (score' = score - 50 \/ score' = score - 40)
      <4>1. Spent' = 80
        BY <3>2 DEF Spent
      <4>2. Floor' = Floor - 50
        BY <1>3, <2>2, <3>2, <4>1 DEF Floor
      <4> QED BY <1>4, <3>2, <4>2 DEF ScoreBounds
    <3> QED BY <2>3, <3>1, <3>2
  <2> QED BY <1>2, <1>6, <2>1, <2>4 DEF ScoreBounds
<1>16. CASE FinalScore
  <2>1. score' \in 0..100
    BY <1>16, <1>4 DEF FinalScore, Clamped, ScoreBounds
  <2>2. score' \in Floor'..100
    BY <1>4, <2>1
  <2> QED BY <1>2, <1>6, <1>16, <2>1, <2>2 DEF FinalScore, ScoreBounds
<1>17. CASE UNCHANGED vars
  BY <1>2, <1>6, <1>17 DEF vars, ScoreBounds
<1> QED BY <1>2, <1>7, <1>8, <1>9, <1>10, <1>11, <1>12, <1>13, <1>14, <1>15, <1>16, <1>17 DEF Next

\* The race, one step of a goroutine at a time: a load sees one of the values
\* the score may have, and a store adds its own deduction to what was loaded.
LEMMA RaceStep ==
  ASSUME ScanType, WorldType, RaceInv, VerdictInv, [Next]_vars
  PROVE  RaceInv'
<1> USE DEF OwnerFrame, ScanFrame, MainFrame, world, sale, safety
<1>1. token' = token /\ (failed => failed') /\ (Deduct' <=> Deduct)
  BY Onwards DEF Deduct
<1>2. CASE UNCHANGED <<score, owner, scan>> /\ (main' \in {"joining", "buying"} => main \in {"joining", "buying"})
  BY <1>1, <1>2 DEF RaceInv, OneSideLost, OwnerLost, OwnerKept, Counted
<1>3. CASE Expire \/ PoolChanges \/ Wait \/ UNCHANGED vars
  BY <1>2, <1>3 DEF Expire, PoolChanges, Wait, vars
<1>4. CASE OwnerCall
  <2>1. Counted' = Counted
    BY <1>1, <1>4 DEF OwnerCall, Counted
  <2>2. ASSUME ~failed', token.code, main' \in {"joining", "buying"} PROVE OneSideLost'
    <3>1. OneSideLost /\ ~OwnerKept(score) /\ (scan.pc = "loaded" => ~OwnerKept(scan.had))
      BY <1>1, <1>4, <2>2 DEF OwnerCall, RaceInv, OneSideLost, OwnerKept
    <3>2. OwnerLost(score)' /\ (scan.pc = "loaded" => OwnerLost(scan.had)')
      BY <1>4, <2>1, <3>1 DEF OwnerCall, OneSideLost, OwnerLost
    <3>3. owner'.pc = "loaded" => owner'.had = 100 - Total(Counted')
      BY <1>1, <1>4, <2>1, <2>2, <3>1 DEF OwnerCall, ScanType, OneSideLost, OwnerLost, Answered, Unanswered
    <3> QED BY <1>4, <3>2, <3>3 DEF OwnerCall, OneSideLost
  <2>3. owner'.pc = "loaded" => Deduct'
    BY <1>1, <1>4 DEF OwnerCall, ScanType
  <2> QED BY <1>1, <1>4, <2>2, <2>3 DEF OwnerCall, RaceInv
<1>5. CASE OwnerStore
  <2>1. Counted' = Counted
    BY <1>1, <1>5 DEF OwnerStore, Counted
  <2>2. ASSUME ~failed', token.code, main' \in {"joining", "buying"} PROVE OneSideLost'
    <3>1. OneSideLost /\ owner.pc = "loaded" /\ owner'.pc = "done"
      BY <1>1, <1>5, <2>2 DEF OwnerStore, RaceInv, ScanType
    <3>2. PICK A \in SUBSET Counted : owner.had = 100 - Total(A)
      BY <3>1 DEF OneSideLost
    <3>3. A \in SUBSET Functions /\ Total(A) \in Nat
      BY <3>2, CountedType, TotalType
    <3>4. score' = 100 - OwnerRisk - Total(A)
      BY <1>5, <3>2, <3>3 DEF OwnerStore, OwnerRisk
    <3>5. OwnerKept(score)'
      BY <1>1, <1>5, <2>1, <3>1, <3>2, <3>4 DEF OwnerStore, OwnerKept, RaceInv
    <3>6. scan.pc = "loaded" => OwnerLost(scan.had)'
      BY <1>5, <2>1, <3>1 DEF OwnerStore, OneSideLost, OwnerLost, OwnerKept
    <3> QED BY <1>5, <3>1, <3>5, <3>6 DEF OwnerStore, OneSideLost
  <2>3. token.code /\ owner'.pc = "done"
    BY <1>5 DEF OwnerStore, ScanType, RaceInv
  <2> QED BY <1>1, <1>5, <2>2, <2>3 DEF OwnerStore, RaceInv
<1>6. CASE CodeCall
  <2>1. CASE token.code /\ UNCHANGED score /\ scan' = [scan EXCEPT !.pc = "loading", !.todo = token.found]
    <3>1. Counted = {} /\ Counted' = {}
      BY <1>1, <1>6, <2>1 DEF CodeCall, ScanType, Counted
    <3>2. OneSideLost => OneSideLost'
      BY <1>1, <1>6, <2>1, <3>1 DEF CodeCall, ScanType, OneSideLost, OwnerLost, OwnerKept
    <3> QED BY <1>1, <1>6, <2>1, <3>2 DEF CodeCall, NoCode, ScanType, RaceInv
  <2>2. CASE NoCode /\ (failed' \/ ~token.code)
    BY <1>1, <1>6, <2>2 DEF CodeCall, NoCode, ScanType, RaceInv
  <2> QED BY <1>6, <2>1, <2>2 DEF CodeCall, Unanswered
<1>7. CASE ScanLoad
  <2>1. Counted' = Counted
    BY <1>1, <1>7 DEF ScanLoad, ScanType, Counted
  <2>2. OneSideLost => OneSideLost'
    BY <1>1, <1>7, <2>1 DEF ScanLoad, ScanType, OneSideLost, OwnerLost, OwnerKept
  <2> QED BY <1>1, <1>7, <2>2 DEF ScanLoad, ScanType, RaceInv
<1>8. CASE ScanStore
  <2>1. PICK f \in scan.todo :
          /\ f \in token.found \ Counted /\ Counted' = Counted \cup {f}
          /\ Total(Counted') = Total(Counted) + Risk[f]
          /\ Risk[f] \in Nat /\ score' = scan.had - Risk[f]
          /\ scan' = [scan EXCEPT !.pc = "loading", !.todo = @ \ {f}]
    BY <1>8, ScanCounts DEF RaceInv
  <2>2. ASSUME OwnerLost(scan.had) PROVE OwnerLost(score)'
    BY <2>1, <2>2, CountedType DEF OwnerLost
  <2>3. ASSUME OwnerKept(scan.had) PROVE OwnerKept(score)'
    <3>1. PICK A \in SUBSET Counted : scan.had = 100 - OwnerRisk - Total(A)
      BY <2>3 DEF OwnerKept
    <3> DEFINE B == A \cup {f}
    <3>2. B \in SUBSET Counted' /\ B \in SUBSET Functions /\ f \in B /\ B \ {f} = A
      BY <2>1, <3>1, CountedType DEF ScanType
    <3>3. Total(A) \in Nat
      BY <3>1, CountedType, TotalType
    <3> HIDE DEF B
    <3>4. Total(B) = Risk[f] + Total(A)
      BY <3>2, TotalRemove
    <3>5. score' = 100 - OwnerRisk - Total(B)
      BY <2>1, <3>1, <3>3, <3>4 DEF OwnerRisk
    <3> QED BY <1>1, <1>8, <2>3, <3>2, <3>5 DEF ScanStore, OwnerKept
  <2>4. OneSideLost => OneSideLost'
    BY <1>8, <2>1, <2>2, <2>3 DEF ScanStore, ScanType, OneSideLost
  <2> QED BY <1>1, <1>8, <2>1, <2>4 DEF ScanStore, ScanType, RaceInv
<1>9. CASE Simulate \/ CheckLiquidity \/ FinalScore
  <2>1. /\ UNCHANGED <<owner, scan>>
        /\ main' \in {"joining", "buying"} => FALSE
    BY <1>9 DEF Simulate, SimulateBuy, SimulateApprove, SimulateSell, Condemn,
                CheckLiquidity, FindPair, ReadReserves, FinalScore
  <2> QED BY <1>1, <2>1 DEF RaceInv
<1> QED BY <1>3, <1>4, <1>5, <1>6, <1>7, <1>8, <1>9 DEF Next

\* A clean token loses nothing else: 30 points to the goroutines, at most 30 to
\* the loss of a sale that succeeds, and nothing to its pool; and what condemns
\* it is its sale alone.
LEMMA CleanStep ==
  ASSUME VerdictInv, WorldType, ScoreBounds, RaceInv, CleanInv, [Next]_vars
  PROVE  CleanInv'
<1> USE DEF OwnerFrame, ScanFrame, MainFrame, world, sale, safety
<1>1. ScanType
  BY DEF VerdictInv
<1>2. SUFFICES ASSUME Clean'
               PROVE  /\ pool' = "enough" /\ ~blacklist'
                      /\ main' \in BeforeSale => ~honeypot'
                      /\ main' \in BeforeSale \ {"joining"} => score' >= 70
                      /\ main' \in Stages \ BeforeSale =>
                           IF Passes' THEN ~honeypot' /\ score' >= 40 /\ canSell'
                           ELSE honeypot' /\ (main' = "done" => score' = 0)
  BY DEF CleanInv, BeforeSale, Stages
<1>3. Clean /\ token' = token
  BY <1>1, <1>2, Onwards DEF Clean
<1>4. /\ pool = "enough" /\ ~blacklist
      /\ main \in BeforeSale => ~honeypot
      /\ main \in BeforeSale \ {"joining"} => score >= 70
      /\ main \in Stages \ BeforeSale =>
           IF Passes THEN ~honeypot /\ score >= 40 /\ canSell
           ELSE honeypot /\ (main = "done" => score = 0)
  BY <1>3 DEF CleanInv
<1>5. ~failed' /\ deep' /\ token.code /\ loss \in Int /\ score \in Int
  BY <1>1, <1>2, <1>3 DEF Clean, ScanType
<1>6. CASE Expire \/ PoolChanges \/ UNCHANGED vars
  <2>1. UNCHANGED <<pool, honeypot, blacklist, main, score, canSell, loss>>
    BY <1>5, <1>6, Zenon DEF Expire, PoolChanges, vars
  <2>2. Passes' <=> Passes
    BY <1>3, <2>1 DEF Passes
  <2> QED BY <1>4, <2>1, <2>2, Zenon
<1>7. CASE OwnerCall \/ OwnerStore \/ ScanLoad \/ CodeCall
  <2>1. main = "joining"
    BY <1>7 DEF OwnerCall, OwnerStore, ScanLoad, CodeCall, ScanType, VerdictInv, VerdictWaits, Joined, WorldType, Stages
  <2>2. UNCHANGED <<pool, honeypot, blacklist, main>>
    BY <1>5, <1>7, Zenon DEF OwnerCall, OwnerStore, ScanLoad, CodeCall, NoCode, Unanswered
  <2> QED BY <1>4, <2>1, <2>2 DEF BeforeSale
<1>8. CASE ScanStore
  <2>1. main = "joining"
    BY <1>8 DEF ScanStore, VerdictInv, VerdictWaits, Joined
  <2>2. PICK f \in token.found :
          /\ blacklist' = (blacklist \/ f \in Blacklists)
          /\ honeypot' = (honeypot \/ f \in Blacklists)
    BY <1>1, <1>8, ScanCounts DEF RaceInv
  <2>3. f \notin Blacklists
    <3>1. token.found \in SUBSET Functions /\ token.found \ {f} \in SUBSET Functions
      BY <1>1 DEF ScanType
    <3>2. Total(token.found) = Risk[f] + Total(token.found \ {f})
      BY <3>1, TotalRemove
    <3>3. Risk[f] \in Nat /\ Total(token.found \ {f}) \in Nat
      BY <3>1, CheckerAssumption, TotalType
    <3>4. Risk[f] <= 20
      BY <1>3, <3>2, <3>3 DEF Clean
    <3> QED BY <3>3, <3>4, CheckerAssumption
  <2> QED BY <1>4, <1>8, <2>1, <2>2, <2>3 DEF ScanStore, BeforeSale
<1>9. CASE Wait
  <2>1. ~failed /\ scan.pc = "done"
    BY <1>3, <1>9 DEF Clean, Wait, Joined
  <2>2. OwnerLost(score) \/ OwnerKept(score)
    BY <1>5, <1>9, <2>1 DEF Wait, RaceInv, OneSideLost
  <2>3. \A A \in SUBSET Counted : Total(A) \in Nat /\ Total(A) <= 20
    <3>1. Counted \subseteq token.found /\ token.found \in SUBSET Functions
      BY <1>1 DEF Counted, ScanType
    <3>2. Total(token.found) \in Nat /\ Total(token.found) <= 20
      BY <1>3, <3>1, TotalType DEF Clean
    <3>3. ASSUME NEW A \in SUBSET Counted PROVE Total(A) \in Nat /\ Total(A) <= 20
      <4>1. A \in SUBSET token.found /\ A \in SUBSET Functions
        BY <3>1
      <4>2. Total(A) \in Nat /\ Total(A) <= Total(token.found)
        BY <3>1, <4>1, TotalType, TotalGrows
      <4> QED BY <3>2, <4>2
    <3> QED BY <3>3
  <2>4. score >= 70
    <3>1. CASE OwnerLost(score)
      BY <2>3, <3>1 DEF OwnerLost
    <3>2. CASE OwnerKept(score)
      BY <2>3, <3>2 DEF OwnerKept, OwnerRisk
    <3> QED BY <2>2, <3>1, <3>2
  <2> QED BY <1>4, <1>5, <1>9, <2>4 DEF Wait, BeforeSale
<1>10. CASE SimulateBuy
  <2>1. /\ UNCHANGED <<pool, honeypot, blacklist, score>> /\ ~honeypot /\ score >= 70
        /\ main' = "approving"
    BY <1>4, <1>5, <1>10 DEF SimulateBuy, Tradable, Unanswered, Garbled, BeforeSale
  <2> QED BY <1>4, <2>1 DEF BeforeSale
<1>11. CASE SimulateApprove
  <2>1. UNCHANGED <<pool, blacklist, loss>> /\ ~honeypot /\ score >= 70
    BY <1>4, <1>11 DEF SimulateApprove, BeforeSale
  <2>2. CASE main' = "selling" /\ UNCHANGED <<score, honeypot>>
    BY <1>4, <2>1, <2>2 DEF BeforeSale
  <2>3. CASE token.trade = "unapprovable" /\ Condemn
    BY <1>3, <1>4, <2>1, <2>3 DEF Condemn, BeforeSale, Passes
  <2> QED BY <1>5, <1>11, <2>2, <2>3 DEF SimulateApprove, Unanswered
<1>12. CASE SimulateSell
  <2>1. UNCHANGED <<pool, blacklist>> /\ ~honeypot /\ score >= 70 /\ Tradable
    BY <1>4, <1>12 DEF SimulateSell, BeforeSale, Tradable
  <2>2. CASE /\ Sellable /\ canSell' = TRUE /\ loss' \in Taxes
             /\ IF loss' > 50 THEN Condemn
                ELSE score' = score - TaxRisk(loss') /\ main' = "pairing" /\ UNCHANGED honeypot
    <3>1. loss' \in Int
      BY <2>2, TaxesAreInt
    <3>2. CASE loss' > 50
      <4>1. ~Passes'
        BY <3>1, <3>2 DEF Passes
      <4> QED BY <1>4, <2>1, <2>2, <3>2, <4>1 DEF Condemn, BeforeSale
    <3>3. CASE loss' <= 50
      <4>1. TaxRisk(loss') \in 0..30
        BY <3>1 DEF TaxRisk
      <4>2. score' >= 40 /\ main' = "pairing" /\ ~honeypot' /\ canSell'
        BY <1>5, <2>1, <2>2, <3>1, <3>3, <4>1
      <4>3. Passes'
        BY <1>3, <2>2, <3>3 DEF Passes, Sellable
      <4> QED BY <1>4, <2>1, <4>2, <4>3 DEF BeforeSale
    <3> QED BY <3>1, <3>2, <3>3
  <2>3. CASE ~Sellable /\ Condemn
    BY <1>3, <1>4, <2>1, <2>3 DEF Sellable, Condemn, BeforeSale, Passes
  <2> QED BY <1>5, <1>12, <2>1, <2>2, <2>3 DEF SimulateSell, Unanswered, Garbled
<1>13. CASE CheckLiquidity
  <2>1. /\ UNCHANGED <<pool, honeypot, blacklist, score, canSell, loss>> /\ main' \in {"reserves", "final"}
        /\ main \in Stages \ BeforeSale
    BY <1>4, <1>13 DEF CheckLiquidity, FindPair, ReadReserves, Stages, BeforeSale
  <2>2. Passes' <=> Passes
    BY <1>3, <2>1 DEF Passes
  <2> QED BY <1>4, <2>1, <2>2 DEF BeforeSale, Stages
<1>14. CASE FinalScore
  <2>1. /\ UNCHANGED <<pool, blacklist, canSell, loss>> /\ main' = "done"
        /\ IF Passes THEN ~honeypot /\ score >= 40 /\ canSell ELSE honeypot
    BY <1>4, <1>14 DEF FinalScore, Stages, BeforeSale
  <2>2. Passes' <=> Passes
    BY <1>3, <2>1 DEF Passes
  <2>3. CASE Passes
    <3>1. Clamped = score /\ ~Critical /\ ~TooRisky
      BY <1>4, <1>5, <2>1, <2>3 DEF Clamped, Critical, TooRisky
    <3>2. score' = score
      BY <1>14, <3>1 DEF FinalScore
    <3>3. ~honeypot'
      BY <1>14, <3>1 DEF FinalScore
    <3>4. canSell'
      BY <2>1, <2>3
    <3> QED BY <1>4, <2>1, <2>2, <2>3, <3>2, <3>3, <3>4 DEF BeforeSale
  <2>4. CASE ~Passes
    <3>1. Critical
      BY <2>1, <2>4 DEF Critical
    <3>2. score' = 0 /\ honeypot'
      BY <1>14, <3>1, Zenon DEF FinalScore
    <3> QED BY <1>4, <2>1, <2>2, <2>4, <3>2 DEF BeforeSale
  <2> QED BY <2>3, <2>4
<1> QED BY <1>6, <1>7, <1>8, <1>9, <1>10, <1>11, <1>12, <1>13, <1>14 DEF Next, Simulate

LEMMA ScoreStep == VerdictInv /\ VerdictInv' /\ ScoreInv /\ [Next]_vars => ScoreInv'
<1> SUFFICES ASSUME VerdictInv, VerdictInv', ScoreInv, [Next]_vars PROVE ScoreInv'
  OBVIOUS
<1>1. ScanType /\ scan.todo \subseteq token.found
  BY DEF VerdictInv, ScoreInv, RaceInv
<1> QED BY <1>1, BoundsStep, RaceStep, CleanStep DEF ScoreInv

LEMMA ScoreAlways == Spec => [](VerdictInv /\ ScoreInv)
BY VerdictInit, VerdictStep, ScoreInit, ScoreStep, PTL DEF Spec

\* The state has its type, and the score its bounds: no order of the
\* goroutines and no failure takes a deduction twice, and the score CheckToken
\* returns is one of 0..100.
THEOREM CheckerTypeCorrect == Spec => []TypeOK
<1>1. VerdictInv /\ ScoreInv => TypeOK
  <2> SUFFICES ASSUME VerdictInv, ScoreInv PROVE TypeOK
    OBVIOUS
  <2>1. ScanType /\ WorldType /\ ScoreBounds
    BY DEF VerdictInv, ScoreInv
  <2>2. Floor..100 \subseteq Scores
    <3>1. Functions \in SUBSET Functions /\ Counted \in SUBSET Functions
      BY <2>1, CountedType
    <3>2. Total(Counted) <= Total(Functions) /\ Total(Functions) \in Nat /\ Total(Counted) \in Nat
      BY <3>1, TotalGrows, TotalType
    <3>3. OwnerTaken \in {0, 10} /\ Spent \in {0, 30, 80}
      BY <2>1, CountedType
    <3>4. Floor \in Int /\ Floor >= -100 - OwnerRisk - Total(Functions)
      BY <3>2, <3>3 DEF Floor, OwnerRisk
    <3>5. -100 - OwnerRisk - Total(Functions) \in Int
      BY <3>2 DEF OwnerRisk
    <3> QED BY <3>4, <3>5 DEF Scores
  <2>3. score \in Scores /\ owner.had \in Scores /\ scan.had \in Scores
    BY <2>1, <2>2 DEF ScoreBounds
  <2>4. owner \in [pc : {"calling", "loaded", "done"}, had : Scores]
    BY <2>1, <2>3 DEF ScanType
  <2>5. main = "done" => score \in 0..100
    BY <2>1, CountedType DEF ScoreBounds
  <2> QED BY <2>1, <2>3, <2>4, <2>5 DEF TypeOK, WorldType, Stages, ScanType
<1> QED BY <1>1, ScoreAlways, PTL

\* When both goroutines are done and no call has failed, the score lacks the
\* owner's deduction, or some of those for functions: never both.
THEOREM RaceLosesOneSideAlways == Spec => []RaceLosesOneSide
<1>1. VerdictInv /\ ScoreInv => RaceLosesOneSide
  <2> SUFFICES ASSUME VerdictInv, ScoreInv, main = "buying", ~failed
               PROVE  LET byOwner == IF token.owner = "active" THEN OwnerRisk ELSE 0
                          full == IF token.code THEN 100 - byOwner - Total(token.found) ELSE 0
                      IN \/ score = full + byOwner
                         \/ \E lost \in SUBSET token.found : score = full + Total(lost)
    BY DEF RaceLosesOneSide
  <2> DEFINE byOwner == IF token.owner = "active" THEN OwnerRisk ELSE 0
             full == IF token.code THEN 100 - byOwner - Total(token.found) ELSE 0
  <2>1. ScanType /\ RaceInv /\ owner.pc = "done" /\ scan.pc = "done"
    BY DEF VerdictInv, VerdictWaits, Joined, ScoreInv
  <2>2. byOwner \in {0, 10} /\ (Deduct => byOwner = OwnerRisk)
    BY DEF OwnerRisk, Deduct
  <2>3. token.found \in SUBSET Functions /\ Total(token.found) \in Nat
    BY <2>1, TotalType DEF ScanType
  <2>4. CASE ~token.code
    <3>1. byOwner = 0 /\ score = 0
      BY <2>1, <2>4 DEF RaceInv, Deduct
    <3> QED BY <2>4, <3>1
  <2>5. CASE token.code
    <3>1. Counted = token.found
      BY <2>1, <2>5 DEF RaceInv, Counted
    <3>2. OwnerLost(score) \/ OwnerKept(score)
      BY <2>1, <2>5 DEF RaceInv, OneSideLost
    <3>3. CASE OwnerLost(score)
      <4>1. score = 100 - Total(token.found)
        BY <3>1, <3>3 DEF OwnerLost
      <4>2. full = 100 - byOwner - Total(token.found)
        BY <2>5
      <4>3. score = full + byOwner
        <5> HIDE DEF full, byOwner
        <5> QED BY <2>2, <2>3, <4>1, <4>2
      <4> QED BY <4>3
    <3>4. CASE OwnerKept(score)
      <4>1. PICK A \in SUBSET token.found : score = 100 - OwnerRisk - Total(A)
        BY <3>1, <3>4 DEF OwnerKept
      <4> DEFINE lost == token.found \ A
      <4>2. Total(token.found) = Total(A) + Total(lost)
        BY <2>3, <4>1, TotalSplit
      <4>3. Total(A) \in Nat /\ Total(lost) \in Nat
        BY <2>3, <4>1, TotalType
      <4>4. byOwner = OwnerRisk /\ full = 100 - byOwner - Total(token.found)
        BY <2>2, <2>5, <3>4 DEF OwnerKept
      <4>5. lost \in SUBSET token.found
        OBVIOUS
      <4>6. score = full + Total(lost)
        <5> HIDE DEF full, byOwner, lost
        <5> QED BY <2>2, <2>3, <4>1, <4>2, <4>3, <4>4
      <4> HIDE DEF lost
      <4> QED BY <4>5, <4>6
    <3> QED BY <3>2, <3>3, <3>4
  <2> QED BY <2>4, <2>5
<1> QED BY <1>1, ScoreAlways, PTL

\* For every table of risks in which a blacklist costs more than 20, and whatever
\* losses the router tells: when no call fails and the pool was deep all along,
\* the verdict on a token with small risks is that of its simulated sale. It
\* passes, with a score that /buy accepts, exactly when whoever holds nothing may
\* sell it at a loss of at most half; an ordinary token ends as a honeypot.
THEOREM VerdictTurnsOnSaleAlways == Spec => []VerdictTurnsOnSale
<1>1. VerdictInv /\ ScoreInv => VerdictTurnsOnSale
  <2> SUFFICES ASSUME VerdictInv, ScoreInv, Clean, main = "done"
               PROVE  IF Passes THEN ~honeypot /\ score >= 40 ELSE honeypot /\ score = 0
    BY DEF VerdictTurnsOnSale, Done, Clean, Passes
  <2>1. main \in Stages \ BeforeSale
    BY DEF Stages, BeforeSale
  <2> QED BY <2>1 DEF ScoreInv, CleanInv
<1> QED BY <1>1, ScoreAlways, PTL
=============================================================================
