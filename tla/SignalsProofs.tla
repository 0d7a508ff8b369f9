---------------------------- MODULE SignalsProofs ----------------------------
(***************************************************************************)
(* Theorems about the pair registry and the mint watcher, for any number   *)
(* of pairs.                                                               *)
(***************************************************************************)
EXTENDS Signals, FiniteSetTheorems, TLAPS

\* The size a subscription remembers is that of a set of pairs.
LEMMA SizeType == ASSUME pairs \subseteq Pairs PROVE Size \in 0..Cardinality(Pairs)
<1>1. Cardinality(pairs) <= Cardinality(Pairs) /\ Cardinality(pairs) \in Nat /\ Cardinality(Pairs) \in Nat
  BY SignalsAssumption, FS_Subset, FS_CardinalityType
<1> QED BY <1>1 DEF Size

SignalsInv == TypeOK /\ IndexConsistent /\ NoSubscriptionLeak

LEMMA SignalsInit == Init => SignalsInv
<1> SUFFICES ASSUME Init PROVE SignalsInv
  OBVIOUS
<1>1. 0 \in 0..Cardinality(Pairs)
  BY SignalsAssumption, FS_CardinalityType
<1> QED BY <1>1 DEF Init, SignalsInv, TypeOK, IndexConsistent, NoSubscriptionLeak

\* Both maps change together, and a goroutine gives up its subscription on
\* each of its ways out; neither touches what the other keeps.
LEMMA SignalsStep == SignalsInv /\ [Next]_vars => SignalsInv'
<1> SUFFICES ASSUME SignalsInv, [Next]_vars PROVE SignalsInv'
  OBVIOUS
<1> USE DEF SignalsInv, TypeOK, IndexConsistent, NoSubscriptionLeak
<1>1. CASE Cancel
  BY <1>1 DEF Cancel, registry, feedVars, mintVars
<1>2. ASSUME NEW p \in Pairs, Expire(p) \/ PairCreated(p) PROVE SignalsInv'
  BY <1>2 DEF Expire, PairCreated, feedVars, mintVars
<1>3. CASE Feed
  <2> USE DEF FeedFrame, mintVars, registry, feedVars
  <2>1. CASE FeedSubscribes
    BY <2>1 DEF FeedSubscribes
  <2>2. CASE FeedSeesError \/ FeedBackoffOver
    BY <2>2 DEF FeedSeesError, FeedBackoffOver
  <2>3. CASE FeedLeaves
    BY <2>3 DEF FeedLeaves
  <2>4. CASE GC
    BY <2>4 DEF GC, Forget
  <2> QED BY <1>3, <2>1, <2>2, <2>3, <2>4 DEF Feed
<1>4. CASE FeedDrops
  BY <1>4 DEF FeedDrops, FeedFrame, registry, mintVars
<1>5. CASE Mint
  <2> USE DEF MintFrame, registry, feedVars
  <2>1. CASE MintLeaves
    BY <2>1 DEF MintLeaves
  <2>2. CASE MintTicks
    BY <2>2 DEF MintTicks
  <2>3. CASE MintSeesError \/ MintBackoffOver
    BY <2>3 DEF MintSeesError, MintBackoffOver
  <2>4. CASE MintSubscribes
    <3>1. Size \in 0..Cardinality(Pairs)
      BY SizeType
    <3>2. CASE /\ mint' = "listening" /\ haveSub' = TRUE /\ mintSub' = TRUE
               /\ filter' = pairs /\ lastN' = Size
      BY <2>4, <3>1, <3>2 DEF MintSubscribes
    <3>3. CASE mintSub' = FALSE /\ UNCHANGED <<mint, haveSub, filter, lastN>>
      BY <2>4, <3>3 DEF MintSubscribes
    <3> QED BY <2>4, <3>2, <3>3 DEF MintSubscribes
  <2> QED BY <1>5, <2>1, <2>2, <2>3, <2>4 DEF Mint
<1>6. CASE MintDrops
  BY <1>6 DEF MintDrops, MintFrame, registry, feedVars
<1>7. CASE UNCHANGED vars
  BY <1>7 DEF vars, registry, feedVars, mintVars
<1> QED BY <1>1, <1>2, <1>3, <1>4, <1>5, <1>6, <1>7 DEF Next

LEMMA SignalsInvariant == Spec => []SignalsInv
BY SignalsInit, SignalsStep, PTL DEF Spec

\* The state has its type: the size the mint watcher remembers is one the
\* registry can have, and its filter asks for pairs only.
THEOREM TypeCorrect == Spec => []TypeOK
<1>1. SignalsInv => TypeOK
  BY DEF SignalsInv
<1> QED BY SignalsInvariant, <1>1, PTL

\* The analyzer and the mint watcher see the same pairs: both maps agree after
\* any event, expiry and reconnect.
THEOREM RegistryIsSound == Spec => []IndexConsistent
<1>1. SignalsInv => IndexConsistent
  BY DEF SignalsInv
<1> QED BY SignalsInvariant, <1>1, PTL

\* A goroutine that has left holds no subscription, whatever drops, expires or
\* is cancelled.
THEOREM SubscriptionsEnd == Spec => []NoSubscriptionLeak
<1>1. SignalsInv => NoSubscriptionLeak
  BY DEF SignalsInv
<1> QED BY SignalsInvariant, <1>1, PTL
=============================================================================
