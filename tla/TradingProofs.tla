---------------------------- MODULE TradingProofs ----------------------------
(***************************************************************************)
(* Proofs that no honeypot is bought unasked, that no buy is sent two ways, *)
(* that what is bought is listed, that the nonces stay in their bounds, and *)
(* that a lone buyer's transactions are never displaced, for any tokens,   *)
(* any number of auto-buys, and any number of transactions.                *)
(***************************************************************************)
EXTENDS Trading, WellFoundedInduction, TLAPS

Allowed(token, vet) == token \in Honeypots => vet \in {"off", "forced"}
Committed == {"building", "sending", "bundling", "tracking"}

\* A buyer's record has the fields the steps below change.
IsBuy(r) ==
  r = [pc |-> r.pc, token |-> r.token, vet |-> r.vet, tx |-> r.tx,
       bundle |-> r.bundle, by |-> r.by, bribe |-> r.bribe]

BuyShape == buy = [b \in Buyers |-> buy[b]] /\ \A b \in Buyers : IsBuy(buy[b])

\* The vetting goes with the token through the buy, into the transaction, and
\* to whoever takes it.
BuyerAllowed(r) ==
  /\ r.pc \in Committed => Allowed(r.token, r.vet)
  /\ r.pc \in {"sending", "bundling"} => Allowed(r.tx.token, r.tx.vet)

VettingInv ==
  /\ BuyShape
  /\ \A b \in Buyers : BuyerAllowed(buy[b])
  /\ \A x \in submitted : Allowed(x.token, x.vet)

-----------------------------------------------------------------------------
\* A step that gives one buyer an allowed record, and submits nothing but that
\* buyer's transaction, keeps the invariant.
LEMMA OneBuyer ==
  VettingInv =>
    \A b \in Buyers : \A r :
      /\ IsBuy(r) /\ BuyerAllowed(r) /\ buy' = [buy EXCEPT ![b] = r]
      /\ \/ submitted' = submitted
         \/ submitted' = submitted \cup {buy[b].tx} /\ buy[b].pc \in {"sending", "bundling"}
      => VettingInv'
<1> SUFFICES ASSUME VettingInv, NEW b \in Buyers, NEW r,
                    IsBuy(r), BuyerAllowed(r), buy' = [buy EXCEPT ![b] = r],
                    \/ submitted' = submitted
                    \/ /\ submitted' = submitted \cup {buy[b].tx}
                       /\ buy[b].pc \in {"sending", "bundling"}
             PROVE  VettingInv'
  OBVIOUS
<1>1. BuyShape'
  BY DEF VettingInv, BuyShape
<1>2. ASSUME NEW c \in Buyers PROVE BuyerAllowed(buy[c])'
  BY DEF VettingInv, BuyShape, BuyerAllowed
<1>3. ASSUME NEW x \in submitted' PROVE Allowed(x.token, x.vet)
  BY <1>3 DEF VettingInv, BuyerAllowed
<1> QED BY <1>1, <1>2, <1>3 DEF VettingInv

\* A buyer that is idle, or has begun and is not vetted, or is forced.
LEMMA BeginAllowed ==
  ASSUME VettingInv, NEW b \in Buyers, NEW t,
         \/ Begin(b, t, "vetting", "none")
         \/ Begin(b, t, "building", "forced")
         \/ Return(b),
         submitted' = submitted
  PROVE  VettingInv'
<1>1. CASE Begin(b, t, "vetting", "none")
  <2>1. PICK r : /\ r = [Idle EXCEPT !.pc = "vetting", !.token = t, !.vet = "none",
                                     !.bundle = useBundles /\ "vetting" = "building",
                                     !.by = IF "vetting" = "building" THEN generation ELSE 0]
                 /\ buy' = [buy EXCEPT ![b] = r]
    BY <1>1, Zenon DEF Begin
  <2>2. IsBuy(r) /\ BuyerAllowed(r)
    BY <2>1 DEF Idle, IsBuy, BuyerAllowed, Committed
  <2> QED BY <2>1, <2>2, OneBuyer
<1>2. CASE Begin(b, t, "building", "forced")
  <2>1. PICK r : /\ r = [Idle EXCEPT !.pc = "building", !.token = t, !.vet = "forced",
                                     !.bundle = useBundles /\ "building" = "building",
                                     !.by = IF "building" = "building" THEN generation ELSE 0]
                 /\ buy' = [buy EXCEPT ![b] = r]
    BY <1>2, Zenon DEF Begin
  <2>2. IsBuy(r) /\ BuyerAllowed(r)
    BY <2>1 DEF Idle, IsBuy, BuyerAllowed, Committed, Allowed
  <2> QED BY <2>1, <2>2, OneBuyer
<1>3. CASE Return(b)
  <2>1. IsBuy(Idle) /\ BuyerAllowed(Idle)
    BY DEF Idle, IsBuy, BuyerAllowed, Committed
  <2>2. buy' = [buy EXCEPT ![b] = Idle]
    BY <1>3 DEF Return
  <2> QED BY <2>1, <2>2, OneBuyer
<1> QED BY <1>1, <1>2, <1>3

\* A buyer moves on from a place where it is already committed, with its
\* token, its vetting and its transaction.
LEMMA MoveAllowed ==
  ASSUME VettingInv, NEW b \in Buyers, buy[b].pc \in {"sending", "bundling"},
         NEW place \in {"bundling", "tracking"}, NEW n,
         \/ Goto(b, place)
         \/ buy' = [buy EXCEPT ![b].pc = place, ![b].bribe = n],
         \/ submitted' = submitted
         \/ submitted' = submitted \cup {buy[b].tx}
  PROVE  VettingInv'
<1>1. PICK r : /\ \/ r = [buy[b] EXCEPT !.pc = place]
                  \/ r = [buy[b] EXCEPT !.pc = place, !.bribe = n]
               /\ buy' = [buy EXCEPT ![b] = r]
  BY DEF Goto
<1>2. IsBuy(r) /\ BuyerAllowed(r)
  BY <1>1 DEF VettingInv, BuyShape, IsBuy, BuyerAllowed, Committed
<1> QED BY <1>1, <1>2, OneBuyer

-----------------------------------------------------------------------------
LEMMA VettingInit == Init => VettingInv
<1> SUFFICES ASSUME Init PROVE VettingInv
  OBVIOUS
<1>1. buy = [b \in Buyers |-> Idle] /\ submitted = {}
  BY DEF Init
<1>2. IsBuy(Idle) /\ BuyerAllowed(Idle)
  BY DEF Idle, IsBuy, BuyerAllowed, Committed
<1> QED BY <1>1, <1>2 DEF VettingInv, BuyShape

\* A honeypot is refused by every buyer, for the check says nothing else of it.
LEMMA VetStep ==
  ASSUME VettingInv, NEW b \in Buyers, Vet(b)
  PROVE  VettingInv'
<1>1. submitted' = submitted
  BY DEF Vet, chain
<1>2. CASE Return(b)
  BY <1>1, <1>2, BeginAllowed
<1>3. ASSUME NEW v \in {"off", "passed"}, Vetted(b, v), Allowed(buy[b].token, v)
      PROVE  VettingInv'
  <2>1. PICK r : /\ r = [buy[b] EXCEPT !.pc = "building", !.vet = v, !.bundle = useBundles,
                                           !.by = generation]
                 /\ buy' = [buy EXCEPT ![b] = r]
    BY <1>3 DEF Vetted
  <2>2. IsBuy(buy[b])
    BY DEF VettingInv, BuyShape
  <2>3. r.pc = "building" /\ r.token = buy[b].token /\ r.vet = v /\ IsBuy(r)
    BY <2>1, <2>2 DEF IsBuy
  <2>4. BuyerAllowed(r)
    BY <2>3, <1>3 DEF BuyerAllowed
  <2> QED BY <1>1, <2>1, <2>3, <2>4, OneBuyer
<1>4. CASE Vetted(b, "off")
  BY <1>3, <1>4 DEF Allowed
<1>5. ASSUME NEW v \in Verdicts(buy[b].token), ~Refused(b, v), Vetted(b, "passed")
      PROVE  VettingInv'
  <2>1. buy[b].token \notin Honeypots
    BY <1>5 DEF Verdicts, Refused
  <2> QED BY <1>3, <1>5, <2>1 DEF Allowed
<1> QED BY <1>2, <1>4, <1>5 DEF Vet

\* One step of a buy: what is submitted is the buyer's own transaction, which
\* took token and vetting from the buy.
LEMMA BuyStep ==
  ASSUME VettingInv, NEW b \in Buyers, Buy(b)
  PROVE  VettingInv'
<1>1. CASE Vet(b)
  BY <1>1, VetStep
<1>2. CASE GiveUp(b)
  BY <1>2, BeginAllowed DEF GiveUp, chain
<1>3. CASE Build(b)
  <2>1. PICK x : /\ x.token = buy[b].token /\ x.vet = buy[b].vet
                 /\ buy' = [buy EXCEPT ![b].pc = "sending", ![b].tx = x]
    BY <1>3 DEF Build
  <2>2. PICK r : /\ r = [buy[b] EXCEPT !.pc = "sending", !.tx = x]
                 /\ buy' = [buy EXCEPT ![b] = r]
    BY <2>1
  <2>3. IsBuy(buy[b]) /\ Allowed(buy[b].token, buy[b].vet)
    BY <1>3 DEF Build, At, VettingInv, BuyShape, BuyerAllowed, Committed
  <2>4. r.pc = "sending" /\ r.token = buy[b].token /\ r.vet = buy[b].vet /\ r.tx = x /\ IsBuy(r)
    BY <2>2, <2>3 DEF IsBuy
  <2>5. BuyerAllowed(r)
    BY <2>1, <2>3, <2>4 DEF BuyerAllowed
  <2> QED BY <1>3, <2>2, <2>4, <2>5, OneBuyer DEF Build
<1>4. CASE SendPublic(b)
  <2>1. buy[b].pc \in {"sending", "bundling"}
    BY <1>4 DEF SendPublic, At
  <2>2. submitted' = submitted \/ submitted' = submitted \cup {buy[b].tx}
    BY <1>4 DEF SendPublic, Accept
  <2>3. CASE Goto(b, "tracking")
    BY <2>1, <2>2, <2>3, MoveAllowed
  <2>4. CASE Return(b)
    <3>1. IsBuy(Idle) /\ BuyerAllowed(Idle)
      BY DEF Idle, IsBuy, BuyerAllowed, Committed
    <3> QED BY <2>1, <2>2, <2>4, <3>1, OneBuyer DEF Return
  <2> QED BY <1>4, <2>3, <2>4 DEF SendPublic
<1>5. CASE MakeBundle(b)
  BY <1>5, MoveAllowed DEF MakeBundle, At, chain
<1>6. CASE SendBundle(b)
  BY <1>6, MoveAllowed DEF SendBundle, At
<1>7. CASE Track(b)
  BY <1>7, BeginAllowed DEF Track, chain
<1> QED BY <1>1, <1>2, <1>3, <1>4, <1>5, <1>6, <1>7 DEF Buy

LEMMA VettingStep == VettingInv /\ [Next]_vars => VettingInv'
<1> SUFFICES ASSUME VettingInv, [Next]_vars PROVE VettingInv'
  OBVIOUS
<1>1. ASSUME UNCHANGED <<buy, submitted>> PROVE VettingInv'
  BY <1>1 DEF VettingInv, BuyShape, IsBuy, BuyerAllowed, Committed, Allowed
<1>2. CASE TurnAutoBuy \/ TurnBundles \/ StopWatcher \/ StartWatcher
  BY <1>1, <1>2 DEF TurnAutoBuy, TurnBundles, StopWatcher, StartWatcher, chain
<1>3. ASSUME NEW t \in Tokens, NEW forced \in BOOLEAN, BuyCommand(t, forced) PROVE VettingInv'
  <2>1. submitted' = submitted /\ Loop \in Buyers
    BY <1>3 DEF BuyCommand, Buyers, chain
  <2>2. Begin(Loop, t, "building", "forced") \/ Begin(Loop, t, "vetting", "none")
    BY <1>3, Zenon DEF BuyCommand
  <2> QED BY <2>1, <2>2, BeginAllowed
<1>4. ASSUME NEW t \in Tokens, NEW b \in AutoBuys, Detect(b, t) PROVE VettingInv'
  <2>1. submitted' = submitted /\ b \in Buyers
    <3>1. UNCHANGED <<positions, chain>>
      BY <1>4, Zenon DEF Detect
    <3> QED BY <3>1 DEF chain, Buyers
  <2> QED BY <1>4, <2>1, BeginAllowed DEF Detect
<1>5. ASSUME NEW b \in Buyers, Buy(b) PROVE VettingInv'
  BY <1>5, BuyStep
<1>6. ASSUME NEW x \in pool, Mine(x) PROVE VettingInv'
  BY <1>1, <1>6 DEF Mine, ChainFrame
<1>7. ASSUME NEW u \in relay, Include(u) \/ Expire(u) PROVE VettingInv'
  BY <1>1, <1>7 DEF Include, Expire, ChainFrame
<1>8. CASE UNCHANGED vars
  BY <1>1, <1>8 DEF vars, chain
<1>9. CASE Next
  <2>1. CASE \E t \in Tokens : \/ \E forced \in BOOLEAN : BuyCommand(t, forced)
                              \/ \E b \in AutoBuys : Detect(b, t)
    BY <2>1, <1>3, <1>4
  <2>2. CASE \E b \in Buyers : Buy(b)
    BY <2>2, <1>5
  <2>3. CASE \E x \in pool : Mine(x)
    BY <2>3, <1>6
  <2>4. CASE \E u \in relay : Include(u) \/ Expire(u)
    BY <2>4, <1>7
  <2> QED BY <1>2, <1>9, <2>1, <2>2, <2>3, <2>4, Zenon DEF Next
<1> QED BY <1>8, <1>9

\* A transaction of a honeypot that the node or a relay has taken was forced by
\* the user, or made with the check turned off.
THEOREM HoneypotsStayOut == Spec => []HoneypotsNotBought
<1>1. VettingInv => HoneypotsNotBought
  BY DEF VettingInv, Allowed, HoneypotsNotBought
<1> QED BY VettingInit, VettingStep, <1>1, PTL DEF Spec
-----------------------------------------------------------------------------
\* What becomes of a transaction. It is known by its number, which no other
\* has, and is of the current executor or of one before it.
Carrying == {"sending", "bundling", "tracking"}
Unsent   == {"sending", "bundling"}
Known(x) == x.id \in Nat /\ x.id <= built /\ (generation = 0 => x.by = 0)

\* A buyer that has built a transaction holds one of its token, its own until
\* it is sent.
HoldsOwn ==
  /\ \A b \in Buyers : generation = 0 => buy[b].by = 0
  /\ \A b \in Buyers : buy[b].pc \in Carrying =>
       Known(buy[b].tx) /\ buy[b].tx.token = buy[b].token
  /\ \A b \in Buyers : buy[b].pc \in Unsent => buy[b].tx \notin submitted
  /\ \A b, c \in Buyers :
       b # c /\ buy[b].pc \in Unsent /\ buy[c].pc \in Unsent => buy[b].tx # buy[c].tx

\* What is pending, bundled or mined was submitted.
FromSubmitted ==
  /\ \A x \in submitted : Known(x)
  /\ pool \subseteq submitted /\ mined \subseteq submitted
  /\ \A u \in relay : u.swap \in submitted

Listed(x) ==
  \/ \E y \in positions : y.token = x.token
  \/ \E b \in Buyers : buy[b].pc = "tracking" /\ buy[b].tx = x

\* Not only what is mined is listed, but all that was submitted.
ListingInv ==
  \A x \in submitted : x.by = generation /\ x \notin unanswered => Listed(x)

SentInv ==
  /\ BuyShape /\ built \in Nat /\ generation \in {0, 1}
  /\ HoldsOwn /\ FromSubmitted /\ OneWayOnly /\ ListingInv

LEMMA SentInit == Init => SentInv
<1> SUFFICES ASSUME Init PROVE SentInv
  OBVIOUS
<1>1. buy = [b \in Buyers |-> Idle] /\ \A b \in Buyers : buy[b] = Idle
  BY DEF Init
<1>2. BuyShape
  BY <1>1 DEF BuyShape, IsBuy, Idle
<1>3. HoldsOwn
  BY <1>1 DEF HoldsOwn, Carrying, Unsent, Idle
<1> QED BY <1>2, <1>3 DEF Init, SentInv, FromSubmitted, OneWayOnly, ListingInv

\* A buyer changes its record without sending anything, and is not about to
\* list: it keeps its transaction, or has none afterwards.
LEMMA Unsending ==
  ASSUME SentInv, NEW b \in Buyers, NEW r, IsBuy(r), buy' = [buy EXCEPT ![b] = r],
         buy[b].pc # "tracking", generation = 0 => r.by = 0,
         \/ r.pc \notin Carrying
         \/ /\ r.pc \in Unsent /\ buy[b].pc \in Unsent
            /\ r.tx = buy[b].tx /\ r.token = buy[b].token,
         UNCHANGED <<positions, generation, built, submitted, unanswered, pool, relay, mined>>
  PROVE  SentInv'
<1>1. \A c \in Buyers : buy'[c] = IF c = b THEN r ELSE buy[c]
  BY DEF SentInv, BuyShape
<1>2. BuyShape'
  BY <1>1 DEF SentInv, BuyShape
<1>3. HoldsOwn'
  BY <1>1 DEF SentInv, HoldsOwn, Known, Carrying, Unsent
<1>4. FromSubmitted' /\ OneWayOnly'
  BY DEF SentInv, FromSubmitted, Known, OneWayOnly
<1>5. ListingInv'
  BY <1>1 DEF SentInv, ListingInv, Listed
<1> QED BY <1>2, <1>3, <1>4, <1>5 DEF SentInv

\* A buyer's own transaction is sent one way, and the buyer goes on to list it
\* unless the answer is lost.
LEMMA Sending ==
  ASSUME SentInv, NEW b \in Buyers, NEW r, IsBuy(r), buy' = [buy EXCEPT ![b] = r],
         buy[b].pc \in Unsent, generation = 0 => r.by = 0,
         submitted' = submitted \cup {buy[b].tx},
         \/ r.pc = "tracking" /\ r.tx = buy[b].tx /\ r.token = buy[b].token
            /\ unanswered' = unanswered
         \/ r.pc = "idle" /\ unanswered' = unanswered \cup {buy[b].tx},
         \/ pool' \subseteq pool \cup {buy[b].tx} /\ relay' = relay
         \/ pool' = pool /\ \A u \in relay' : u \in relay \/ u.swap = buy[b].tx,
         UNCHANGED <<positions, generation, built, mined>>
  PROVE  SentInv'
<1> DEFINE own == buy[b].tx
<1>1. \A c \in Buyers : buy'[c] = IF c = b THEN r ELSE buy[c]
  BY DEF SentInv, BuyShape
<1>2. own \notin submitted /\ Known(own) /\ own.token = buy[b].token
  BY DEF SentInv, HoldsOwn, Carrying, Unsent
<1>3. BuyShape'
  BY <1>1 DEF SentInv, BuyShape
<1>4. HoldsOwn'
  <2>1. \A c \in Buyers : c # b /\ buy[c].pc \in Unsent => buy[c].tx \notin submitted'
    BY DEF SentInv, HoldsOwn
  <2> QED BY <1>1, <1>2, <2>1 DEF SentInv, HoldsOwn, Known, Carrying, Unsent
<1>5. FromSubmitted'
  <2>1. \A x \in submitted' : Known(x)'
    BY <1>2 DEF SentInv, FromSubmitted, Known
  <2> QED BY <2>1 DEF SentInv, FromSubmitted
<1>6. OneWayOnly'
  <2>1. own \notin pool /\ \A u \in relay : u.swap # own
    BY <1>2 DEF SentInv, FromSubmitted
  <2> QED BY <2>1 DEF SentInv, OneWayOnly
<1>7. ListingInv'
  <2>1. \A x \in submitted : Listed(x) => Listed(x)'
    BY <1>1 DEF Listed, Unsent
  <2>2. own \notin unanswered' => Listed(own)'
    BY <1>1 DEF Listed
  <2> QED BY <2>1, <2>2 DEF SentInv, ListingInv
<1> QED BY <1>3, <1>4, <1>5, <1>6, <1>7 DEF SentInv

LEMMA BuyListed ==
  ASSUME SentInv, NEW b \in Buyers, Buy(b)
  PROVE  SentInv'
<1> DEFINE own == buy[b].tx
<1>0. /\ IsBuy(buy[b]) /\ IsBuy(Idle) /\ Idle.pc = "idle" /\ Idle.by = 0
      /\ generation = 0 => buy[b].by = 0
  BY DEF SentInv, HoldsOwn, BuyShape, IsBuy, Idle
<1>1. CASE Return(b) /\ buy[b].pc # "tracking"
           /\ UNCHANGED <<positions, generation, built, submitted, unanswered, pool, relay, mined>>
  BY <1>0, <1>1, Unsending DEF Return, Carrying
<1>2. CASE Vet(b)
  <2>1. /\ UNCHANGED <<positions, generation, built, submitted, unanswered, pool, relay, mined>>
        /\ buy[b].pc = "vetting"
    BY <1>2 DEF Vet, Control, chain, At
  <2>2. ASSUME NEW v, Vetted(b, v) PROVE SentInv'
    <3>1. PICK r : /\ r = [buy[b] EXCEPT !.pc = "building", !.vet = v, !.bundle = useBundles,
                                           !.by = generation]
                   /\ buy' = [buy EXCEPT ![b] = r]
      BY <2>2 DEF Vetted
    <3>2. IsBuy(r) /\ r.pc \notin Carrying /\ r.by = generation
      BY <1>0, <3>1 DEF IsBuy, Carrying
    <3> QED BY <2>1, <3>1, <3>2, Unsending
  <2> QED BY <1>1, <1>2, <2>1, <2>2 DEF Vet
<1>3. CASE GiveUp(b)
  BY <1>1, <1>3 DEF GiveUp, At, Control, chain
<1>4. CASE Build(b)
  <2>1. PICK x : /\ x.id = built + 1 /\ x.token = buy[b].token /\ x.by = buy[b].by
                 /\ buy' = [buy EXCEPT ![b].pc = "sending", ![b].tx = x]
    BY <1>4 DEF Build
  <2>2. PICK r : /\ r = [buy[b] EXCEPT !.pc = "sending", !.tx = x]
                 /\ buy' = [buy EXCEPT ![b] = r]
    BY <2>1
  <2>3. r.pc = "sending" /\ r.token = buy[b].token /\ r.tx = x /\ r.by = buy[b].by /\ IsBuy(r)
    BY <1>0, <2>2 DEF IsBuy
  <2>4. \A c \in Buyers : buy'[c] = IF c = b THEN r ELSE buy[c]
    BY <2>2 DEF SentInv, BuyShape
  <2>5. /\ built' = built + 1 /\ built \in Nat /\ buy[b].pc = "building"
        /\ UNCHANGED <<positions, generation, submitted, unanswered, pool, relay, mined>>
    BY <1>4 DEF Build, At, Control, SentInv
  <2>6. BuyShape'
    BY <2>2, <2>3, <2>4 DEF SentInv, BuyShape
  <2>7. \A y : Known(y) => y # x /\ Known(y)'
    BY <2>1, <2>5 DEF Known
  <2>8. HoldsOwn'
    <3>1. Known(x)'
      BY <1>0, <2>1, <2>5 DEF Known, SentInv
    <3>2. x \notin submitted
      BY <2>7 DEF SentInv, FromSubmitted
    <3>3. \A c \in Buyers : c # b /\ buy[c].pc \in Unsent => buy[c].tx # x
      BY <2>7 DEF SentInv, HoldsOwn, Carrying, Unsent
    <3>4. ASSUME NEW c \in Buyers, buy'[c].pc \in Carrying
          PROVE  (Known(buy[c].tx) /\ buy[c].tx.token = buy[c].token)'
      <4>1. CASE c = b
        BY <2>1, <2>3, <2>4, <3>1, <4>1 DEF Known
      <4>2. CASE c # b
        BY <2>4, <2>7, <3>4, <4>2 DEF SentInv, HoldsOwn, Known
      <4> QED BY <4>1, <4>2
    <3>5. ASSUME NEW c \in Buyers, buy'[c].pc \in Unsent PROVE buy'[c].tx \notin submitted'
      BY <2>3, <2>4, <2>5, <3>2, <3>5 DEF SentInv, HoldsOwn
    <3>6. ASSUME NEW c \in Buyers, NEW d \in Buyers, c # d,
                 buy'[c].pc \in Unsent, buy'[d].pc \in Unsent
          PROVE  buy'[c].tx # buy'[d].tx
      BY <2>3, <2>4, <3>3, <3>6 DEF SentInv, HoldsOwn
    <3>7. ASSUME NEW c \in Buyers, generation' = 0 PROVE buy'[c].by = 0
      BY <1>0, <2>3, <2>4, <2>5, <3>7 DEF SentInv, HoldsOwn
    <3> QED BY <3>4, <3>5, <3>6, <3>7 DEF HoldsOwn
  <2>9. FromSubmitted' /\ OneWayOnly'
    BY <2>5, <2>7 DEF SentInv, FromSubmitted, OneWayOnly
  <2>10. ListingInv'
    BY <2>4, <2>5 DEF SentInv, ListingInv, Listed
  <2> QED BY <2>5, <2>6, <2>8, <2>9, <2>10 DEF SentInv
<1>5. CASE SendPublic(b)
  <2>1. buy[b].pc \in Unsent /\ UNCHANGED <<positions, generation, built, relay, mined>>
    BY <1>5 DEF SendPublic, At, Unsent, Control
  <2>2. CASE Accept(own) /\ Goto(b, "tracking") /\ UNCHANGED unanswered
    <3>1. PICK r : r = [buy[b] EXCEPT !.pc = "tracking"] /\ buy' = [buy EXCEPT ![b] = r]
      BY <2>2 DEF Goto
    <3>2. /\ IsBuy(r) /\ r.pc = "tracking" /\ r.tx = buy[b].tx /\ r.token = buy[b].token
          /\ r.by = buy[b].by
      BY <1>0, <3>1 DEF IsBuy
    <3> QED BY <1>0, <2>1, <2>2, <3>1, <3>2, Sending DEF Accept
  <2>3. CASE UNCHANGED <<pool, submitted, unanswered>> /\ Return(b)
    BY <1>1, <2>1, <2>3 DEF Unsent
  <2>4. CASE Accept(own) /\ Return(b) /\ unanswered' = unanswered \cup {own}
    BY <1>0, <2>1, <2>4, Sending DEF Accept, Return
  <2> QED BY <1>5, <2>2, <2>3, <2>4 DEF SendPublic
<1>6. CASE MakeBundle(b)
  <2>1. PICK n : buy' = [buy EXCEPT ![b].pc = "bundling", ![b].bribe = n]
    BY <1>6 DEF MakeBundle
  <2>2. PICK r : /\ r = [buy[b] EXCEPT !.pc = "bundling", !.bribe = n]
                 /\ buy' = [buy EXCEPT ![b] = r]
    BY <2>1
  <2>3. /\ IsBuy(r) /\ r.pc = "bundling" /\ r.tx = buy[b].tx /\ r.token = buy[b].token
        /\ r.by = buy[b].by
    BY <1>0, <2>2 DEF IsBuy
  <2>4. /\ buy[b].pc = "sending"
        /\ UNCHANGED <<positions, generation, built, submitted, unanswered, pool, relay, mined>>
    BY <1>6 DEF MakeBundle, At, Control, chain
  <2> QED BY <1>0, <2>2, <2>3, <2>4, Unsending DEF Unsent
<1>7. CASE SendBundle(b)
  <2>1. PICK r : r = [buy[b] EXCEPT !.pc = "tracking"] /\ buy' = [buy EXCEPT ![b] = r]
    BY <1>7 DEF SendBundle, Goto
  <2>2. /\ IsBuy(r) /\ r.pc = "tracking" /\ r.tx = buy[b].tx /\ r.token = buy[b].token
        /\ r.by = buy[b].by
    BY <1>0, <2>1 DEF IsBuy
  <2>3. /\ buy[b].pc \in Unsent
        /\ UNCHANGED <<positions, generation, built, unanswered, pool, mined>>
    BY <1>7 DEF SendBundle, At, Unsent, Control
  <2>4. CASE /\ relay' = relay \cup {[swap |-> own, bribe |-> buy[b].bribe]}
             /\ submitted' = submitted \cup {own}
    <3>1. \A u \in relay' : u \in relay \/ u.swap = own
      BY <2>4
    <3> QED BY <1>0, <2>1, <2>2, <2>3, <2>4, <3>1, Sending
  <2>5. CASE UNCHANGED <<relay, submitted>>
    <3>1. \A c \in Buyers : buy'[c] = IF c = b THEN r ELSE buy[c]
      BY <2>1 DEF SentInv, BuyShape
    <3>2. BuyShape'
      BY <2>1, <2>2, <3>1 DEF SentInv, BuyShape
    <3>3. HoldsOwn'
      BY <2>2, <2>3, <2>5, <3>1 DEF SentInv, HoldsOwn, Known, Carrying, Unsent
    <3>4. FromSubmitted' /\ OneWayOnly'
      BY <2>3, <2>5 DEF SentInv, FromSubmitted, Known, OneWayOnly
    <3>5. ListingInv'
      BY <2>3, <2>5, <3>1 DEF SentInv, ListingInv, Listed, Unsent
    <3> QED BY <2>3, <3>2, <3>3, <3>4, <3>5 DEF SentInv
  <2> QED BY <1>7, <2>4, <2>5 DEF SendBundle
<1>8. CASE Track(b)
  <2>1. /\ buy' = [buy EXCEPT ![b] = Idle] /\ buy[b].pc = "tracking"
        /\ UNCHANGED <<generation, built, submitted, unanswered, pool, relay, mined>>
    BY <1>8 DEF Track, Return, At, Control, chain
  <2>2. \A c \in Buyers : buy'[c] = IF c = b THEN Idle ELSE buy[c]
    BY <2>1 DEF SentInv, BuyShape
  <2>3. BuyShape'
    BY <1>0, <2>1, <2>2 DEF SentInv, BuyShape
  <2>4. HoldsOwn'
    BY <1>0, <2>1, <2>2 DEF SentInv, HoldsOwn, Known, Carrying, Unsent
  <2>5. FromSubmitted' /\ OneWayOnly'
    BY <2>1 DEF SentInv, FromSubmitted, Known, OneWayOnly
  <2>6. ListingInv'
    <3>1. own.token = buy[b].token
      BY <2>1 DEF SentInv, HoldsOwn, Carrying
    <3>2. ASSUME NEW x \in submitted, x.by = generation, Listed(x) PROVE Listed(x)'
      <4>1. CASE own.by = generation
        <5>1. positions' = {y \in positions : y.token # buy[b].token} \cup {own}
          BY <1>8, <4>1 DEF Track
        <5>2. ASSUME NEW y \in positions PROVE \E z \in positions' : z.token = y.token
          BY <3>1, <5>1
        <5> QED BY <2>1, <2>2, <3>2, <5>1, <5>2 DEF Listed
      <4>2. CASE own.by # generation
        <5>1. positions' = positions
          BY <1>8, <4>2 DEF Track
        <5> QED BY <2>2, <3>2, <4>2, <5>1 DEF Listed
      <4> QED BY <4>1, <4>2
    <3> QED BY <2>1, <3>2 DEF SentInv, ListingInv
  <2> QED BY <2>1, <2>3, <2>4, <2>5, <2>6 DEF SentInv
<1> QED BY <1>2, <1>3, <1>4, <1>5, <1>6, <1>7, <1>8 DEF Buy

\* A buyer that was idle begins with a record that carries no transaction.
LEMMA BeginListed ==
  ASSUME SentInv, NEW b \in Buyers, NEW t, NEW place \in {"vetting", "building"}, NEW v,
         At(b, "idle"), Begin(b, t, place, v),
         UNCHANGED <<positions, generation, built, submitted, unanswered, pool, relay, mined>>
  PROVE  SentInv'
<1>1. PICK r : /\ r = [Idle EXCEPT !.pc = place, !.token = t, !.vet = v,
                                   !.bundle = useBundles /\ place = "building",
                                   !.by = IF place = "building" THEN generation ELSE 0]
               /\ buy' = [buy EXCEPT ![b] = r]
  BY Zenon DEF Begin
<1>2. IsBuy(r) /\ r.pc \notin Carrying /\ (generation = 0 => r.by = 0)
  BY <1>1 DEF Idle, IsBuy, Carrying
<1> QED BY <1>1, <1>2, Unsending DEF At

LEMMA SentStep == SentInv /\ [Next]_vars => SentInv'
<1> SUFFICES ASSUME SentInv, [Next]_vars PROVE SentInv'
  OBVIOUS
<1>1. ASSUME UNCHANGED <<buy, positions, generation, built, submitted, unanswered, mined, pool, relay>>
      PROVE  SentInv'
  BY <1>1 DEF SentInv, BuyShape, IsBuy, HoldsOwn, FromSubmitted, Known, OneWayOnly, ListingInv, Listed
<1>2. CASE TurnAutoBuy \/ TurnBundles \/ StopWatcher
  BY <1>1, <1>2 DEF TurnAutoBuy, TurnBundles, StopWatcher, chain
<1>3. CASE StartWatcher
  <2>1. /\ generation = 0 /\ generation' = 1 /\ positions' = {}
        /\ UNCHANGED <<buy, built, submitted, unanswered, mined, pool, relay>>
    BY <1>3 DEF StartWatcher, chain
  <2>2. BuyShape' /\ HoldsOwn' /\ FromSubmitted' /\ OneWayOnly'
    BY <2>1 DEF SentInv, BuyShape, IsBuy, HoldsOwn, FromSubmitted, Known, OneWayOnly
  <2>3. ListingInv'
    BY <2>1 DEF SentInv, FromSubmitted, Known, ListingInv
  <2> QED BY <2>1, <2>2, <2>3 DEF SentInv
<1>4. ASSUME NEW t \in Tokens, NEW forced \in BOOLEAN, BuyCommand(t, forced) PROVE SentInv'
  <2>1. /\ UNCHANGED <<positions, generation, built, submitted, unanswered, pool, relay, mined>>
        /\ At(Loop, "idle") /\ Loop \in Buyers
    BY <1>4 DEF BuyCommand, Control, chain, Buyers
  <2>2. Begin(Loop, t, "building", "forced") \/ Begin(Loop, t, "vetting", "none")
    BY <1>4, Zenon DEF BuyCommand
  <2> QED BY <2>1, <2>2, BeginListed
<1>5. ASSUME NEW t \in Tokens, NEW b \in AutoBuys, Detect(b, t) PROVE SentInv'
  <2>1. UNCHANGED <<positions, chain>> /\ Control /\ At(b, "idle") /\ Begin(b, t, "vetting", "none")
    BY <1>5, Zenon DEF Detect
  <2>2. /\ UNCHANGED <<positions, generation, built, submitted, unanswered, pool, relay, mined>>
        /\ b \in Buyers
    BY <2>1 DEF Control, chain, Buyers
  <2> QED BY <2>1, <2>2, BeginListed
<1>6. ASSUME NEW b \in Buyers, Buy(b) PROVE SentInv'
  BY <1>6, BuyListed
<1>7. ASSUME pool' \subseteq pool, relay' \subseteq relay, mined' \subseteq submitted,
             UNCHANGED <<buy, positions, generation, built, submitted, unanswered>>
      PROVE  SentInv'
  BY <1>7 DEF SentInv, BuyShape, IsBuy, HoldsOwn, FromSubmitted, Known, OneWayOnly, ListingInv, Listed
<1>8. ASSUME NEW x \in pool, Mine(x) PROVE SentInv'
  <2>1. mined' = mined \cup {x} /\ mined \subseteq submitted /\ x \in submitted
    BY <1>8 DEF Mine, SentInv, FromSubmitted
  <2> QED BY <1>7, <1>8, <2>1 DEF Mine, ChainFrame, Control
<1>9. ASSUME NEW u \in relay, Include(u) PROVE SentInv'
  <2>1. mined' = mined \cup {u.swap} /\ mined \subseteq submitted /\ u.swap \in submitted
    BY <1>9 DEF Include, SentInv, FromSubmitted
  <2> QED BY <1>7, <1>9, <2>1 DEF Include, ChainFrame, Control
<1>10. ASSUME NEW u \in relay, Expire(u) PROVE SentInv'
  <2>1. mined' \subseteq submitted
    BY <1>10 DEF Expire, SentInv, FromSubmitted
  <2> QED BY <1>7, <1>10, <2>1 DEF Expire, ChainFrame, Control
<1>11. CASE UNCHANGED vars
  BY <1>1, <1>11 DEF vars, chain
<1>12. CASE Next
  <2>1. CASE \E t \in Tokens : \/ \E forced \in BOOLEAN : BuyCommand(t, forced)
                              \/ \E b \in AutoBuys : Detect(b, t)
    BY <2>1, <1>4, <1>5
  <2>2. CASE \E b \in Buyers : Buy(b)
    BY <2>2, <1>6
  <2>3. CASE \E x \in pool : Mine(x)
    BY <2>3, <1>8
  <2>4. CASE \E u \in relay : Include(u) \/ Expire(u)
    BY <2>4, <1>9, <1>10
  <2> QED BY <1>2, <1>3, <1>12, <2>1, <2>2, <2>3, <2>4, Zenon DEF Next
<1> QED BY <1>11, <1>12

LEMMA SentInvariant == Spec => []SentInv
BY SentInit, SentStep, PTL DEF Spec

\* A buy goes to the relay or to the pool and never to both, whichever step of
\* the bundle fails and whether or not an answer is lost.
THEOREM SentOneWay == Spec => []OneWayOnly
<1>1. SentInv => OneWayOnly
  BY DEF SentInv
<1> QED BY SentInvariant, <1>1, PTL

\* What reaches the chain is listed or about to be, however the buyers' steps
\* interleave and whichever step of theirs fails.
THEOREM SentIsListed == Spec => []BoughtIsListed
<1>1. SentInv => BoughtIsListed
  BY DEF SentInv, FromSubmitted, ListingInv, Listed, BoughtIsListed, At
<1> QED BY SentInvariant, <1>1, PTL
-----------------------------------------------------------------------------
\* Type correctness. What needs an argument are the numbers: each transaction
\* takes at most two nonces, so that the next free one never runs past twice
\* the transactions built.
Records == [pc : Places, token : Tokens \cup {NoTx}, vet : Vets, tx : Txs \cup {NoTx},
            bundle : BOOLEAN, by : {0, 1}, bribe : 0..(MaxNonce + 1)]

Numbered(x) == x \in Txs /\ x.id <= built /\ x.nonce <= 2 * (x.id - 1)

NonceInv ==
  /\ nonce <= 2 * built
  /\ \A x \in submitted : Numbered(x)
  /\ \A b \in Buyers : /\ buy[b].pc # "idle" => buy[b].token \in Tokens
                       /\ buy[b].pc \in Carrying => Numbered(buy[b].tx)

TypeInv == TypeOK /\ NonceInv

\* Of numbers there is a least one: Min is what its name says.
LEMMA LeastNumber ==
  ASSUME NEW S, S \subseteq Nat, S # {}
  PROVE  Min(S) \in S /\ \A n \in S : Min(S) <= n
<1> DEFINE R == OpToRel(<, Nat)
<1>1. IsWellFoundedOn(R, Nat)
  BY NatLessThanWellFounded
<1>2. \A m, n \in Nat : m < n => <<m, n>> \in R
  BY DEF OpToRel
<1> HIDE DEF R
<1>3. PICK m \in S : \A n \in S : <<n, m>> \notin R
  BY <1>1, WFMin, Zenon
<1>4. ASSUME NEW n \in S PROVE m <= n
  <2>1. m \in Nat /\ n \in Nat
    OBVIOUS
  <2>2. ~(n < m)
    BY <1>2, <1>3, <2>1, Zenon
  <2> QED BY <2>1, <2>2
<1> QED BY <1>4 DEF Min

\* The next free nonce exists and is at most twice the transactions built: no
\* pending transaction has that number.
LEMMA FreeNonce ==
  ASSUME TypeInv, FromSubmitted
  PROVE  PendingNonce \in 0..(2 * built) /\ \A x \in pool : x.nonce # PendingNonce
<1> DEFINE S == (nonce..(MaxNonce + 1)) \ {x.nonce : x \in pool}
<1>1. built \in Nat /\ built <= MaxBuys /\ nonce \in Nat /\ nonce <= 2 * built /\ MaxBuys \in Nat
  BY TradingAssumption DEF TypeInv, TypeOK, NonceInv
<1>2. 2 * built \in nonce..(MaxNonce + 1)
  BY <1>1 DEF MaxNonce
<1>3. ASSUME NEW x \in pool PROVE x.nonce # 2 * built
  <2>1. x.id \in Nat /\ x.id <= built /\ x.nonce \in Nat /\ x.nonce <= 2 * (x.id - 1)
    BY TradingAssumption DEF TypeInv, NonceInv, FromSubmitted, Numbered, Txs, MaxNonce
  <2> QED BY <1>1, <2>1
<1>4. 2 * built \in S
  BY <1>2, <1>3
<1>5. S \subseteq Nat
  BY <1>1 DEF MaxNonce
<1>6. PendingNonce = Min(S)
  BY DEF PendingNonce
<1>7. \A x \in pool : x.nonce \notin S
  OBVIOUS
<1> HIDE DEF S
<1>8. Min(S) \in S /\ Min(S) \in Nat /\ Min(S) <= 2 * built
  BY <1>4, <1>5, LeastNumber
<1> QED BY <1>1, <1>6, <1>7, <1>8

\* A buyer's step gives it a record of its type, and a numbered transaction if
\* it carries one.
LEMMA BuyerTyped ==
  ASSUME TypeInv, NEW b \in Buyers, NEW r \in Records, buy' = [buy EXCEPT ![b] = r],
         r.pc # "idle" => r.token \in Tokens,
         built' \in Nat, built <= built', r.pc \in Carrying => Numbered(r.tx)'
  PROVE  /\ buy' \in [Buyers -> Records]
         /\ \A c \in Buyers : /\ buy'[c].pc # "idle" => buy'[c].token \in Tokens
                              /\ buy'[c].pc \in Carrying => Numbered(buy[c].tx)'
<1>1. buy \in [Buyers -> Records] /\ built \in Nat
  BY DEF TypeInv, TypeOK, Records
<1>2. \A c \in Buyers : buy'[c] = IF c = b THEN r ELSE buy[c]
  BY <1>1
<1>3. ASSUME NEW x, Numbered(x) PROVE Numbered(x)'
  <2>1. x.id \in Int
    BY <1>3 DEF Numbered, Txs
  <2> QED BY <1>1, <1>3, <2>1 DEF Numbered, Txs
<1> QED BY <1>1, <1>2, <1>3 DEF TypeInv, NonceInv

LEMMA TypeInit == Init => TypeInv
<1> SUFFICES ASSUME Init PROVE TypeInv
  OBVIOUS
<1>1. 0 \in 0..MaxBuys /\ 0 \in 0..(MaxNonce + 1)
  BY TradingAssumption DEF MaxNonce
<1>2. Idle \in Records /\ Idle.pc = "idle"
  BY <1>1 DEF Idle, Records, Places, Vets
<1>3. buy = [b \in Buyers |-> Idle] /\ \A b \in Buyers : buy[b] = Idle
  BY DEF Init
<1>4. buy \in [Buyers -> Records]
  BY <1>2, <1>3
<1>5. TypeOK
  BY <1>1, <1>4 DEF Init, TypeOK, Records
<1>6. NonceInv
  BY <1>2, <1>3 DEF Init, NonceInv, Carrying
<1> QED BY <1>5, <1>6 DEF TypeInv

\* The part of the type that is not about the buyers.
AccountType ==
  /\ live \in BOOLEAN /\ autoBuy \in BOOLEAN /\ checkOn \in BOOLEAN /\ useBundles \in BOOLEAN
  /\ generation \in {0, 1}
  /\ positions \subseteq Txs /\ \A x, y \in positions : x.token = y.token => x = y
  /\ built \in 0..MaxBuys /\ nonce \in 0..(MaxNonce + 1) /\ pool \subseteq Txs /\ mined \subseteq Txs
  /\ submitted \subseteq Txs /\ unanswered \subseteq submitted
  /\ relay \subseteq [swap : Txs, bribe : 0..(MaxNonce + 1)]

\* Buying steps that neither build nor send.
LEMMA QuietlyTyped ==
  ASSUME TypeInv, NEW b \in Buyers, NEW r \in Records, buy' = [buy EXCEPT ![b] = r],
         r.pc # "idle" => r.token \in Tokens,
         r.pc \in Carrying => r.tx = buy[b].tx /\ buy[b].pc \in Carrying,
         AccountType', UNCHANGED <<built, nonce, submitted>>
  PROVE  TypeInv'
<1>1. built \in Nat /\ \A x : Numbered(x) => Numbered(x)'
  BY DEF TypeInv, TypeOK, Numbered
<1>2. r.pc \in Carrying => Numbered(r.tx)'
  BY <1>1 DEF TypeInv, NonceInv
<1>3. built' \in Nat /\ built <= built'
  BY <1>1
<1>4. /\ buy' \in [Buyers -> Records]
      /\ \A c \in Buyers : /\ buy'[c].pc # "idle" => buy'[c].token \in Tokens
                           /\ buy'[c].pc \in Carrying => Numbered(buy[c].tx)'
  BY <1>2, <1>3, BuyerTyped
<1>5. NonceInv'
  BY <1>1, <1>4 DEF TypeInv, NonceInv
<1>6. TypeOK'
  BY <1>4 DEF AccountType, TypeOK, Records
<1> QED BY <1>5, <1>6 DEF TypeInv

\* A buyer sends its own transaction, one way or the other.
LEMMA SendingTyped ==
  ASSUME TypeInv, NEW b \in Buyers, buy[b].pc \in Carrying, Goto(b, "tracking") \/ Return(b),
         submitted' \subseteq submitted \cup {buy[b].tx},
         AccountType', UNCHANGED <<built, nonce>>
  PROVE  TypeInv'
<1>1. PICK r : (r = [buy[b] EXCEPT !.pc = "tracking"] \/ r = Idle) /\ buy' = [buy EXCEPT ![b] = r]
  BY DEF Goto, Return
<1>2. buy[b] \in Records /\ buy[b].token \in Tokens /\ Numbered(buy[b].tx)
  BY DEF TypeInv, TypeOK, Records, NonceInv, Carrying
<1>3. r \in Records
  <2>1. 0 \in 0..(MaxNonce + 1)
    BY TradingAssumption DEF MaxNonce
  <2>2. Idle \in Records
    BY <2>1 DEF Records, Places, Vets, Idle
  <2>3. r = [buy[b] EXCEPT !.pc = "tracking"] => r \in Records
    BY <1>2 DEF Records, Places
  <2> QED BY <1>1, <2>2, <2>3
<1>4. (r.pc = "tracking" /\ r.token \in Tokens /\ r.tx = buy[b].tx) \/ r.pc = "idle"
  BY <1>1, <1>2 DEF Records, Idle
<1>5. built' \in Nat /\ built <= built' /\ \A x : Numbered(x) => Numbered(x)'
  BY DEF TypeInv, TypeOK, Numbered
<1>6. (r.pc # "idle" => r.token \in Tokens) /\ (r.pc \in Carrying => Numbered(r.tx)')
  BY <1>2, <1>4, <1>5 DEF Carrying
<1>7. /\ buy' \in [Buyers -> Records]
      /\ \A c \in Buyers : /\ buy'[c].pc # "idle" => buy'[c].token \in Tokens
                           /\ buy'[c].pc \in Carrying => Numbered(buy[c].tx)'
  BY <1>1, <1>3, <1>5, <1>6, BuyerTyped
<1>8. \A x \in submitted' : Numbered(x)'
  BY <1>2, <1>5 DEF TypeInv, NonceInv
<1>9. NonceInv'
  BY <1>7, <1>8 DEF TypeInv, NonceInv
<1>10. TypeOK'
  BY <1>7 DEF AccountType, TypeOK, Records
<1> QED BY <1>9, <1>10 DEF TypeInv

LEMMA BuyTyped ==
  ASSUME TypeInv, SentInv, NEW b \in Buyers, Buy(b)
  PROVE  TypeInv'
<1> USE DEF Control, chain
<1>1. buy[b] \in Records /\ AccountType
  BY DEF TypeInv, TypeOK, Records, AccountType
<1>2. Idle \in Records /\ Idle.pc = "idle"
  <2>1. 0 \in 0..(MaxNonce + 1)
    BY TradingAssumption DEF MaxNonce
  <2> QED BY <2>1 DEF Records, Places, Vets, Idle
<1>3. buy[b].pc # "idle" => buy[b].token \in Tokens
  BY DEF TypeInv, NonceInv
<1>4. buy[b].pc \in Carrying => Numbered(buy[b].tx) /\ buy[b].tx \in Txs
  BY DEF TypeInv, NonceInv, Numbered
<1>5. CASE Return(b) /\ UNCHANGED <<live, autoBuy, checkOn, useBundles, generation, positions, chain>>
  BY <1>1, <1>2, <1>5, QuietlyTyped DEF Return, AccountType, Carrying
<1>6. CASE Vet(b)
  <2>1. UNCHANGED <<live, autoBuy, checkOn, useBundles, generation, positions, chain>> /\ buy[b].pc = "vetting"
    BY <1>6 DEF Vet, At
  <2>2. ASSUME NEW v \in {"off", "passed"}, Vetted(b, v) PROVE TypeInv'
    <3>1. PICK r : /\ r = [buy[b] EXCEPT !.pc = "building", !.vet = v, !.bundle = useBundles,
                                           !.by = generation]
                   /\ buy' = [buy EXCEPT ![b] = r]
      BY <2>2 DEF Vetted
    <3>2. r \in Records
      BY <1>1, <3>1 DEF Records, Places, Vets, AccountType
    <3>3. r.pc = "building" /\ r.token = buy[b].token
      BY <1>1, <3>1 DEF Records
    <3>4. AccountType'
      BY <1>1, <2>1 DEF AccountType
    <3> QED BY <1>3, <2>1, <3>1, <3>2, <3>3, <3>4, QuietlyTyped DEF Carrying
  <2> QED BY <1>5, <1>6, <2>1, <2>2 DEF Vet
<1>7. CASE GiveUp(b)
  BY <1>5, <1>7 DEF GiveUp
<1>8. CASE Build(b)
  <2>1. PICK x : /\ x = [id |-> built + 1, nonce |-> PendingNonce, by |-> buy[b].by,
                         token |-> buy[b].token, vet |-> buy[b].vet]
                 /\ buy' = [buy EXCEPT ![b].pc = "sending", ![b].tx = x]
    BY <1>8 DEF Build
  <2>2. PICK r : r = [buy[b] EXCEPT !.pc = "sending", !.tx = x] /\ buy' = [buy EXCEPT ![b] = r]
    BY <2>1
  <2>3. /\ built' = built + 1 /\ built \in Nat /\ built < MaxBuys /\ MaxBuys \in Nat
        /\ buy[b].pc = "building"
        /\ UNCHANGED <<live, autoBuy, checkOn, useBundles, generation, positions, nonce, pool,
                       relay, mined, submitted, unanswered>>
    BY <1>1, <1>8, TradingAssumption DEF Build, At, AccountType
  <2>4. PendingNonce \in 0..(2 * built)
    BY FreeNonce DEF SentInv
  <2>5. Numbered(x)'
    <3>1. x.id \in 1..MaxBuys /\ x.nonce \in 0..MaxNonce /\ x.by \in {0, 1} /\ x.token \in Tokens /\ x.vet \in Vets
      BY <1>1, <1>3, <2>1, <2>3, <2>4 DEF AccountType, MaxNonce, Records
    <3>2. x \in Txs
      BY <2>1, <3>1 DEF Txs
    <3>3. x.id <= built' /\ x.nonce <= 2 * (x.id - 1)
      BY <2>1, <2>3, <2>4
    <3> QED BY <3>2, <3>3 DEF Numbered, Txs
  <2>6. x \in Txs
    BY <2>5 DEF Numbered, Txs
  <2>7. r \in Records /\ r.pc = "sending" /\ r.tx = x /\ r.token = buy[b].token
    BY <1>1, <2>2, <2>6 DEF Records, Places
  <2>8. /\ buy' \in [Buyers -> Records]
        /\ \A c \in Buyers : /\ buy'[c].pc # "idle" => buy'[c].token \in Tokens
                             /\ buy'[c].pc \in Carrying => Numbered(buy[c].tx)'
    <3>1. r.pc \in Carrying => Numbered(r.tx)'
      BY <2>5, <2>7 DEF Numbered
    <3>2. built' \in Nat /\ built <= built' /\ r.token \in Tokens
      BY <1>3, <2>3, <2>7
    <3> QED BY <2>2, <2>7, <3>1, <3>2, BuyerTyped
  <2>9. \A y : Numbered(y) => Numbered(y)'
    BY <2>3 DEF Numbered, Txs
  <2>10. NonceInv'
    <3>1. nonce' <= 2 * built'
      BY <1>1, <2>3 DEF TypeInv, NonceInv, AccountType, MaxNonce
    <3> QED BY <2>3, <2>8, <2>9, <3>1 DEF TypeInv, NonceInv
  <2>11. AccountType'
    BY <1>1, <2>3 DEF AccountType
  <2>12. TypeOK'
    BY <2>8, <2>11 DEF AccountType, TypeOK, Records
  <2> QED BY <2>10, <2>12 DEF TypeInv
<1>9. CASE SendPublic(b)
  <2>1. buy[b].pc \in Carrying /\ buy[b].tx \in Txs
    BY <1>4, <1>9 DEF SendPublic, At, Carrying
  <2>2. /\ UNCHANGED <<live, autoBuy, checkOn, useBundles, generation, positions, built, nonce, relay, mined>>
        /\ Goto(b, "tracking") \/ Return(b)
        /\ \/ UNCHANGED <<pool, submitted, unanswered>>
           \/ Accept(buy[b].tx) /\ (UNCHANGED unanswered \/ unanswered' = unanswered \cup {buy[b].tx})
    BY <1>9 DEF SendPublic
  <2>3. /\ pool' \subseteq pool \cup {buy[b].tx} /\ submitted \subseteq submitted'
        /\ submitted' \subseteq submitted \cup {buy[b].tx}
        /\ unanswered' \subseteq unanswered \cup submitted'
    BY <2>2 DEF Accept
  <2>4. AccountType'
    BY <1>1, <2>1, <2>2, <2>3 DEF AccountType
  <2> QED BY <2>1, <2>2, <2>3, <2>4, SendingTyped
<1>10. CASE MakeBundle(b)
  <2>1. PICK n \in {0, PendingNonce + 1} : buy' = [buy EXCEPT ![b].pc = "bundling", ![b].bribe = n]
    BY <1>10 DEF MakeBundle
  <2>2. PICK r : /\ r = [buy[b] EXCEPT !.pc = "bundling", !.bribe = n]
                 /\ buy' = [buy EXCEPT ![b] = r]
    BY <2>1
  <2>3. n \in 0..(MaxNonce + 1)
    <3>1. PendingNonce \in 0..(2 * built) /\ built \in 0..MaxBuys /\ MaxBuys \in Nat
      BY <1>1, FreeNonce, TradingAssumption DEF SentInv, AccountType
    <3> QED BY <2>1, <3>1 DEF MaxNonce
  <2>4. r \in Records /\ r.pc = "bundling" /\ r.tx = buy[b].tx /\ r.token = buy[b].token
    BY <1>1, <2>2, <2>3 DEF Records, Places
  <2>5. /\ buy[b].pc = "sending"
        /\ UNCHANGED <<live, autoBuy, checkOn, useBundles, generation, positions, chain>>
    BY <1>10 DEF MakeBundle, At
  <2>6. AccountType'
    BY <1>1, <2>5 DEF AccountType
  <2> QED BY <1>3, <2>2, <2>4, <2>5, <2>6, QuietlyTyped DEF Carrying
<1>11. CASE SendBundle(b)
  <2>1. buy[b].pc \in Carrying /\ buy[b].tx \in Txs
    BY <1>4, <1>11 DEF SendBundle, At, Carrying
  <2>2. /\ Goto(b, "tracking")
        /\ UNCHANGED <<live, autoBuy, checkOn, useBundles, generation, positions, built, nonce,
                       pool, mined, unanswered>>
        /\ \/ UNCHANGED <<relay, submitted>>
           \/ /\ relay' = relay \cup {[swap |-> buy[b].tx, bribe |-> buy[b].bribe]}
              /\ submitted' = submitted \cup {buy[b].tx}
    BY <1>11 DEF SendBundle
  <2>3. [swap |-> buy[b].tx, bribe |-> buy[b].bribe] \in [swap : Txs, bribe : 0..(MaxNonce + 1)]
    BY <1>1, <2>1 DEF Records
  <2>4. AccountType'
    BY <1>1, <2>1, <2>2, <2>3 DEF AccountType
  <2> QED BY <2>1, <2>2, <2>4, SendingTyped
<1>12. CASE Track(b)
  <2>1. /\ buy[b].pc \in Carrying /\ buy[b].tx \in Txs /\ Return(b)
        /\ UNCHANGED <<live, autoBuy, checkOn, useBundles, generation, chain>>
    BY <1>4, <1>12 DEF Track, At, Carrying
  <2>2. \/ positions' = positions
        \/ positions' = {x \in positions : x.token # buy[b].token} \cup {buy[b].tx}
    BY <1>12 DEF Track
  <2>3. buy[b].tx.token = buy[b].token
    BY <2>1 DEF SentInv, HoldsOwn
  <2>4. positions' \subseteq Txs /\ \A x, y \in positions' : x.token = y.token => x = y
    BY <1>1, <2>1, <2>2, <2>3 DEF AccountType
  <2>5. AccountType'
    BY <1>1, <2>1, <2>4 DEF AccountType
  <2> QED BY <1>2, <2>1, <2>5, QuietlyTyped DEF Return, Carrying
<1> QED BY <1>6, <1>7, <1>8, <1>9, <1>10, <1>11, <1>12 DEF Buy

LEMMA BeginTyped ==
  ASSUME TypeInv, NEW b \in Buyers, NEW t \in Tokens, NEW place \in {"vetting", "building"},
         NEW v \in Vets, Begin(b, t, place, v), AccountType', UNCHANGED <<built, nonce, submitted>>
  PROVE  TypeInv'
<1>1. PICK r : /\ r = [Idle EXCEPT !.pc = place, !.token = t, !.vet = v,
                                   !.bundle = useBundles /\ place = "building",
                                   !.by = IF place = "building" THEN generation ELSE 0]
               /\ buy' = [buy EXCEPT ![b] = r]
  BY Zenon DEF Begin
<1>2. 0 \in 0..(MaxNonce + 1)
  BY TradingAssumption DEF MaxNonce
<1>3. /\ (useBundles /\ place = "building") \in BOOLEAN
      /\ (IF place = "building" THEN generation ELSE 0) \in {0, 1}
  BY DEF TypeInv, TypeOK
<1>4. r \in Records /\ r.pc = place /\ r.token = t
  BY <1>1, <1>2, <1>3 DEF Records, Places, Idle
<1> QED BY <1>1, <1>4, QuietlyTyped DEF Carrying

LEMMA TypeStep == TypeInv /\ SentInv /\ [Next]_vars => TypeInv'
<1> SUFFICES ASSUME TypeInv, SentInv, [Next]_vars PROVE TypeInv'
  OBVIOUS
<1>1. AccountType /\ buy \in [Buyers -> Records]
  BY DEF TypeInv, TypeOK, Records, AccountType
<1>2. ASSUME AccountType', nonce' <= 2 * built', UNCHANGED <<buy, built, submitted>> PROVE TypeInv'
  <2>1. TypeOK'
    BY <1>1, <1>2 DEF AccountType, TypeOK, Records
  <2>2. NonceInv'
    BY <1>2 DEF TypeInv, NonceInv, Numbered
  <2> QED BY <2>1, <2>2 DEF TypeInv
<1>3. nonce <= 2 * built
  BY DEF TypeInv, NonceInv
<1>4. CASE TurnAutoBuy \/ TurnBundles \/ StopWatcher \/ StartWatcher
  <2>1. AccountType'
    BY <1>1, <1>4 DEF TurnAutoBuy, TurnBundles, StopWatcher, StartWatcher, AccountType, chain
  <2>2. UNCHANGED <<buy, built, nonce, submitted>>
    BY <1>4 DEF TurnAutoBuy, TurnBundles, StopWatcher, StartWatcher, chain
  <2> QED BY <1>2, <1>3, <2>1, <2>2
<1>5. ASSUME NEW t \in Tokens, NEW forced \in BOOLEAN, BuyCommand(t, forced) PROVE TypeInv'
  <2>1. AccountType' /\ UNCHANGED <<built, nonce, submitted>> /\ Loop \in Buyers
    BY <1>1, <1>5 DEF BuyCommand, Control, chain, Buyers, AccountType
  <2>2. Begin(Loop, t, "building", "forced") \/ Begin(Loop, t, "vetting", "none")
    BY <1>5, Zenon DEF BuyCommand
  <2> QED BY <2>1, <2>2, BeginTyped DEF Vets
<1>6. ASSUME NEW t \in Tokens, NEW b \in AutoBuys, Detect(b, t) PROVE TypeInv'
  <2>1. UNCHANGED <<positions, chain>> /\ Control /\ Begin(b, t, "vetting", "none")
    BY <1>6, Zenon DEF Detect
  <2>2. AccountType' /\ UNCHANGED <<built, nonce, submitted>> /\ b \in Buyers
    BY <1>1, <2>1 DEF Control, chain, Buyers, AccountType
  <2> QED BY <2>1, <2>2, BeginTyped DEF Vets
<1>7. ASSUME NEW b \in Buyers, Buy(b) PROVE TypeInv'
  BY <1>7, BuyTyped
<1>8. ASSUME NEW x \in submitted
      PROVE  /\ x \in Txs /\ x.id \in Nat /\ x.nonce \in Nat /\ x.id <= built
             /\ x.nonce <= 2 * (x.id - 1) /\ built \in Nat /\ built <= MaxBuys /\ MaxBuys \in Nat
  BY <1>1, TradingAssumption DEF TypeInv, NonceInv, Numbered, Txs, AccountType, MaxNonce
<1>9. ASSUME NEW x \in pool, Mine(x) PROVE TypeInv'
  <2>1. x \in submitted
    BY DEF SentInv, FromSubmitted
  <2>2. nonce' = x.nonce + 1 /\ UNCHANGED <<buy, built, submitted>>
    BY <1>9 DEF Mine, ChainFrame
  <2>3. nonce' \in 0..(MaxNonce + 1) /\ nonce' <= 2 * built'
    BY <1>8, <2>1, <2>2 DEF MaxNonce
  <2>4. AccountType'
    BY <1>1, <1>8, <1>9, <2>1, <2>3 DEF Mine, Outdated, ChainFrame, Control, AccountType
  <2> QED BY <1>2, <2>2, <2>3, <2>4
<1>10. ASSUME NEW u \in relay, Include(u) PROVE TypeInv'
  <2>1. u.swap \in submitted
    BY DEF SentInv, FromSubmitted
  <2>2. /\ nonce' = u.swap.nonce + 1 \/ nonce' = u.swap.nonce + 2
        /\ UNCHANGED <<buy, built, submitted>>
    BY <1>10 DEF Include, ChainFrame
  <2>3. nonce' \in 0..(MaxNonce + 1) /\ nonce' <= 2 * built'
    BY <1>8, <2>1, <2>2 DEF MaxNonce
  <2>4. AccountType'
    BY <1>1, <1>8, <1>10, <2>1, <2>3 DEF Include, Outdated, ChainFrame, Control, AccountType
  <2> QED BY <1>2, <2>2, <2>3, <2>4
<1>11. ASSUME NEW u \in relay, Expire(u) PROVE TypeInv'
  BY <1>1, <1>2, <1>3, <1>11 DEF Expire, ChainFrame, Control, AccountType
<1>12. CASE UNCHANGED vars
  BY <1>1, <1>2, <1>3, <1>12 DEF vars, chain, AccountType
<1>13. CASE Next
  <2>1. CASE \E t \in Tokens : \/ \E forced \in BOOLEAN : BuyCommand(t, forced)
                              \/ \E b \in AutoBuys : Detect(b, t)
    BY <2>1, <1>5, <1>6
  <2>2. CASE \E b \in Buyers : Buy(b)
    BY <2>2, <1>7
  <2>3. CASE \E x \in pool : Mine(x)
    BY <2>3, <1>9
  <2>4. CASE \E u \in relay : Include(u) \/ Expire(u)
    BY <2>4, <1>10, <1>11
  <2> QED BY <1>4, <1>13, <2>1, <2>2, <2>3, <2>4, Zenon DEF Next
<1> QED BY <1>12, <1>13

\* The state has its type: one transaction of a token in the list of positions,
\* whoever buys it and how often, and nonces that never run past two for each
\* transaction built, whatever is mined, replaced or included.
THEOREM TypeCorrect == Spec => []TypeOK
<1>1. TypeInv => TypeOK
  BY DEF TypeInv
<1> QED BY SentInit, SentStep, TypeInit, TypeStep, <1>1, PTL DEF Spec
-----------------------------------------------------------------------------
\* Without auto-buys and bundles there is one buyer, and its nonces are free.
Alone == AutoBuys = {} /\ ~Bundler

\* A pending transaction has a nonce of its own that is not used up; the one
\* the loop is about to send has a nonce that is not pending; and what it has
\* sent and not listed yet is there, like all that is listed.
AloneInv ==
  /\ relay = {} /\ positions \subseteq pool \cup mined
  /\ \A x \in pool : x.nonce >= nonce
  /\ \A x, y \in pool : x.nonce = y.nonce => x = y
  /\ buy[Loop].pc # "bundling"
  /\ buy[Loop].pc = "sending" => \A x \in pool : x.nonce # buy[Loop].tx.nonce
  /\ buy[Loop].pc = "tracking" => buy[Loop].tx \in pool \cup mined

LEMMA AloneInit == Init => AloneInv
<1> SUFFICES ASSUME Init PROVE AloneInv
  OBVIOUS
<1>1. buy[Loop] = Idle
  BY DEF Init, Buyers
<1> QED BY <1>1 DEF Init, Idle, AloneInv

\* The loop takes a step that neither sends nor lists.
LEMMA AloneQuietly ==
  ASSUME AloneInv, NEW r, buy[Loop] \in Records, buy' = [buy EXCEPT ![Loop] = r], Loop \in DOMAIN buy,
         r.pc \notin Carrying, UNCHANGED <<positions, pool, relay, mined, nonce>>
  PROVE  AloneInv'
BY DEF AloneInv, Carrying

LEMMA AloneBuy ==
  ASSUME Alone, AloneInv, TypeInv, SentInv, Buy(Loop)
  PROVE  AloneInv'
<1> USE DEF Control, chain
<1> DEFINE own == buy[Loop].tx
<1>1. buy[Loop] \in Records /\ Loop \in DOMAIN buy
  BY DEF TypeInv, TypeOK, Records, Buyers
<1>2. CASE Return(Loop) /\ UNCHANGED <<positions, chain>>
  <2>1. Idle.pc \notin Carrying
    BY DEF Idle, Carrying
  <2> QED BY <1>1, <1>2, <2>1, AloneQuietly DEF Return
<1>3. CASE Vet(Loop)
  <2>1. ASSUME NEW v, Vetted(Loop, v), UNCHANGED <<positions, chain>> PROVE AloneInv'
    <3>1. PICK r : /\ r = [buy[Loop] EXCEPT !.pc = "building", !.vet = v, !.bundle = useBundles,
                                           !.by = generation]
                   /\ buy' = [buy EXCEPT ![Loop] = r]
      BY <2>1 DEF Vetted
    <3>2. r.pc = "building"
      BY <1>1, <3>1 DEF Records
    <3> QED BY <1>1, <2>1, <3>1, <3>2, AloneQuietly DEF Carrying
  <2> QED BY <1>2, <1>3, <2>1 DEF Vet
<1>4. CASE GiveUp(Loop)
  BY <1>2, <1>4 DEF GiveUp
<1>5. CASE Build(Loop)
  <2>1. PICK x : x.nonce = PendingNonce /\ buy' = [buy EXCEPT ![Loop].pc = "sending", ![Loop].tx = x]
    BY <1>5 DEF Build
  <2>2. buy'[Loop].pc = "sending" /\ buy'[Loop].tx = x
    BY <1>1, <2>1 DEF Records
  <2>3. UNCHANGED <<positions, pool, relay, mined, nonce>>
    BY <1>5 DEF Build
  <2>4. \A y \in pool : y.nonce # PendingNonce
    BY FreeNonce DEF SentInv
  <2> QED BY <2>1, <2>2, <2>3, <2>4 DEF AloneInv
<1>6. CASE SendPublic(Loop)
  <2>1. /\ buy[Loop].pc = "sending" /\ \A x \in pool : x.nonce # own.nonce
        /\ UNCHANGED <<positions, nonce, relay, mined>>
    BY <1>6 DEF SendPublic, At, AloneInv
  <2>2. CASE Accept(own) /\ (Goto(Loop, "tracking") \/ Return(Loop))
    <3>1. pool' = pool \cup {own} /\ own.nonce >= nonce
      BY <2>1, <2>2 DEF Accept
    <3>2. \/ buy'[Loop].pc = "tracking" /\ buy'[Loop].tx = own
          \/ buy'[Loop].pc = "idle"
      BY <1>1, <2>2 DEF Goto, Return, Idle, Records
    <3> QED BY <2>1, <3>1, <3>2 DEF AloneInv
  <2>3. CASE UNCHANGED pool /\ Return(Loop)
    <3>1. buy'[Loop].pc = "idle"
      BY <1>1, <2>3 DEF Return, Idle
    <3> QED BY <2>1, <2>3, <3>1 DEF AloneInv
  <2> QED BY <1>6, <2>2, <2>3 DEF SendPublic
<1>7. ~MakeBundle(Loop) /\ ~SendBundle(Loop)
  BY DEF Alone, AloneInv, MakeBundle, SendBundle, At
<1>8. CASE Track(Loop)
  <2>1. own \in pool \cup mined
    BY <1>8 DEF Track, At, AloneInv
  <2>2. positions' \subseteq positions \cup {own} /\ UNCHANGED <<pool, relay, mined, nonce>>
    BY <1>8 DEF Track
  <2>3. buy'[Loop].pc = "idle"
    BY <1>1, <1>8 DEF Track, Return, Idle
  <2> QED BY <2>1, <2>2, <2>3 DEF AloneInv
<1> QED BY <1>3, <1>4, <1>5, <1>6, <1>7, <1>8 DEF Buy

LEMMA AloneStep ==
  ASSUME Alone, AloneInv, TypeInv, SentInv, [Next]_vars
  PROVE  AloneInv'
<1>1. ASSUME UNCHANGED <<buy, pool, relay, mined, nonce>>, positions' \subseteq positions PROVE AloneInv'
  BY <1>1 DEF AloneInv
<1>2. CASE TurnAutoBuy \/ TurnBundles \/ StopWatcher \/ StartWatcher \/ UNCHANGED vars
  BY <1>1, <1>2 DEF TurnAutoBuy, TurnBundles, StopWatcher, StartWatcher, vars, chain
<1>3. ASSUME NEW t \in Tokens, NEW forced \in BOOLEAN, BuyCommand(t, forced) PROVE AloneInv'
  <2>1. UNCHANGED <<positions, pool, relay, mined, nonce>>
    BY <1>3 DEF BuyCommand, chain
  <2>2. PICK place \in {"building", "vetting"}, v \in {"forced", "none"} : Begin(Loop, t, place, v)
    BY <1>3, Zenon DEF BuyCommand
  <2>3. PICK r : /\ r = [Idle EXCEPT !.pc = place, !.token = t, !.vet = v,
                                     !.bundle = useBundles /\ place = "building",
                                   !.by = IF place = "building" THEN generation ELSE 0]
                 /\ buy' = [buy EXCEPT ![Loop] = r]
    BY <2>2, Zenon DEF Begin
  <2>4. r.pc \notin Carrying
    BY <2>3 DEF Idle, Carrying
  <2>5. buy[Loop] \in Records /\ Loop \in DOMAIN buy
    BY DEF TypeInv, TypeOK, Records, Buyers
  <2> QED BY <2>1, <2>3, <2>4, <2>5, AloneQuietly
<1>4. ASSUME NEW b \in Buyers, Buy(b) PROVE AloneInv'
  BY <1>4, AloneBuy DEF Alone, Buyers
<1>5. ASSUME NEW x \in pool, Mine(x) PROVE AloneInv'
  <2>1. /\ x.nonce = nonce /\ nonce' = nonce + 1 /\ mined' = mined \cup {x}
        /\ pool' = pool \ Outdated(nonce + 1) /\ UNCHANGED <<relay, positions, buy>>
    BY <1>5 DEF Mine, ChainFrame
  <2>2. nonce \in Int /\ \A y \in pool : y.nonce \in Int
    BY DEF TypeInv, TypeOK, Txs
  <2>3. \A y \in pool : y.nonce = nonce => y = x
    BY <2>1 DEF AloneInv
  <2>4. pool \subseteq pool' \cup {x}
    BY <2>1, <2>2, <2>3 DEF AloneInv, Outdated
  <2>5. \A y \in pool' : y.nonce >= nonce'
    BY <2>1, <2>2 DEF Outdated
  <2> QED BY <2>1, <2>4, <2>5 DEF AloneInv
<1>6. ASSUME NEW t \in Tokens, NEW b \in AutoBuys, Detect(b, t) PROVE AloneInv'
  BY DEF Alone
<1>7. \A u \in relay : FALSE
  BY DEF AloneInv
<1>8. CASE \E t \in Tokens : \/ \E forced \in BOOLEAN : BuyCommand(t, forced)
                            \/ \E b \in AutoBuys : Detect(b, t)
  BY <1>3, <1>6, <1>8
<1> QED BY <1>2, <1>4, <1>5, <1>7, <1>8, Zenon DEF Next

\* With auto-buy and bundles out of the way a buy that is listed is pending or
\* on the chain, whatever is refused, lost or restarted: that "success" can be
\* displaced (MCTrading_race) takes a second buyer, or a bundle the relay drops.
THEOREM AloneNothingIsDisplaced == Alone => (Spec => []ListedNotDisplaced)
<1> SUFFICES ASSUME Alone PROVE Spec => []ListedNotDisplaced
  OBVIOUS
<1>1. AloneInv /\ TypeInv /\ SentInv /\ [Next]_vars => AloneInv'
  BY AloneStep
<1>2. AloneInv => ListedNotDisplaced
  BY DEF AloneInv, ListedNotDisplaced
<1> QED BY SentInit, SentStep, TypeInit, TypeStep, AloneInit, <1>1, <1>2, PTL DEF Spec
=============================================================================
