---------------------------- MODULE LogRingProofs ----------------------------
(***************************************************************************)
(* Theorems about the log ring, for a ring, a channel and a number of      *)
(* entries of any size.                                                    *)
(***************************************************************************)
EXTENDS LogRing, WellFoundedInduction, TLAPS

\* The slot written i entries ago, without the remainder.
Back(i) == IF i < rbNext THEN rbNext - 1 - i ELSE rbNext + RbSize - 1 - i

\* The write position and the flag follow from the number of entries until the
\* first wrap.
Wraps ==
  /\ rbWrapped <=> stored >= RbSize
  /\ ~rbWrapped => rbNext = stored

\* What has not been written is empty.
Unwritten == ~rbWrapped => \A s \in Slots : s >= rbNext => rbData[s] = 0

RingInv ==
  /\ TypeOK /\ Wraps /\ Unwritten
  /\ \A i \in 0..(Available - 1) : rbData[Back(i)] = stored - i

-----------------------------------------------------------------------------
\* The remainder of the code takes one step up, or some steps back, on a ring.
LEMMA StepUp ==
  ASSUME NEW N \in Nat \ {0}, NEW m \in 0..(N - 1)
  PROVE  (m + 1) % N = IF m = N - 1 THEN 0 ELSE m + 1
OBVIOUS

LEMMA StepsBack ==
  ASSUME NEW N \in Nat \ {0}, NEW m \in 0..(N - 1), NEW i \in 0..(N - 1)
  PROVE  (m + N - 1 - i) % N = IF i < m THEN m - 1 - i ELSE m + N - 1 - i
OBVIOUS

LEMMA TypeStep == TypeOK /\ [Next]_vars => TypeOK'
<1> SUFFICES ASSUME TypeOK, [Next]_vars PROVE TypeOK'
  OBVIOUS
<1> USE LogRingAssumption DEF TypeOK, ring, Slots
<1>1. CASE Start \/ Stop \/ Exit
  BY <1>1 DEF Start, Stop, Exit
<1>2. CASE Enqueue
  BY <1>2 DEF Enqueue, Saturated
<1>3. CASE Consume
  <2>1. rbNext' \in Slots
    BY <1>3, StepUp DEF Consume
  <2> QED BY <1>3, <2>1 DEF Consume, EntryReady
<1>4. ASSUME NEW n \in 1..MaxTail, ReadTail(n) PROVE TypeOK'
  BY <1>4 DEF ReadTail
<1>5. CASE UNCHANGED vars
  BY <1>5 DEF vars
<1> QED BY <1>1, <1>2, <1>3, <1>4, <1>5 DEF Next

\* Only Consume touches the ring. The new entry is one step back; every other
\* slot is one further back than before, except the one it has overwritten.
LEMMA RingStep == RingInv /\ [Next]_vars => RingInv'
<1> SUFFICES ASSUME RingInv, [Next]_vars PROVE RingInv'
  OBVIOUS
<1>1. TypeOK'
  BY TypeStep DEF RingInv
<1>2. CASE UNCHANGED <<stored, ring>>
  BY <1>1, <1>2 DEF RingInv, Wraps, Unwritten, Available, Back, ring
<1>3. CASE Consume
  <2>4. /\ RbSize \in Nat \ {0} /\ rbNext \in 0..(RbSize - 1) /\ stored \in Nat
        /\ rbData \in [0..(RbSize - 1) -> 0..MaxEntries] /\ rbWrapped \in BOOLEAN
    BY LogRingAssumption DEF RingInv, TypeOK, Slots
  <2>5. /\ stored' = stored + 1 /\ rbData' = [rbData EXCEPT ![rbNext] = stored + 1]
        /\ rbNext' = (rbNext + 1) % RbSize /\ rbWrapped' = (rbWrapped \/ rbNext' = 0)
    BY <1>3 DEF Consume
  <2>1. rbNext' = IF rbNext = RbSize - 1 THEN 0 ELSE rbNext + 1
    <3>1. (rbNext + 1) % RbSize = IF rbNext = RbSize - 1 THEN 0 ELSE rbNext + 1
      BY <2>4, StepUp
    <3> QED BY <2>5, <3>1
  <2>2. Wraps'
    <3>1. Wraps
      BY DEF RingInv
    <3>2. CASE rbWrapped
      <4>1. stored >= RbSize /\ rbWrapped' = TRUE
        BY <2>5, <3>1, <3>2 DEF Wraps
      <4> QED BY <2>4, <2>5, <4>1 DEF Wraps
    <3>3. CASE ~rbWrapped
      <4>1. rbNext = stored /\ stored < RbSize
        BY <2>4, <3>1, <3>3 DEF Wraps
      <4>2. rbWrapped' <=> rbNext' = 0
        BY <2>5, <3>3
      <4> QED BY <2>4, <2>1, <2>5, <4>1, <4>2 DEF Wraps
    <3> QED BY <3>2, <3>3
  <2>3. ASSUME NEW i \in 0..(Available' - 1) PROVE rbData'[Back(i)'] = stored' - i
    <3>1. CASE i = 0
      <4>1. Back(i)' = rbNext
        BY <2>4, <2>1, <3>1 DEF Back
      <4> QED BY <2>4, <2>5, <3>1, <4>1
    <3>2. CASE i > 0
      <4>1. i - 1 \in 0..(Available - 1) /\ i <= RbSize - 1
        <5>1. i \in Int /\ i <= RbSize - 1
          BY <2>4, <2>1, <2>3 DEF Available
        <5>2. i - 1 <= Available - 1
          BY <2>4, <2>1, <2>2, <2>3, <2>5, <5>1 DEF Available, Wraps, RingInv
        <5> QED BY <2>4, <3>2, <5>1, <5>2 DEF Available
      <4>2. Back(i)' = Back(i - 1) /\ Back(i - 1) # rbNext
        <5>1. i - 1 < rbNext \/ i - 1 >= rbNext
          BY <2>4, <4>1
        <5> QED BY <2>4, <2>1, <3>2, <4>1, <5>1 DEF Back
      <4>3. rbData[Back(i - 1)] = stored - (i - 1)
        BY <4>1 DEF RingInv
      <4>4. Back(i - 1) \in 0..(RbSize - 1)
        BY <2>4, <4>1 DEF Back
      <4> QED BY <2>4, <2>5, <2>3, <4>1, <4>2, <4>3, <4>4
    <3> QED BY <3>1, <3>2, <2>4, <2>1, <2>3 DEF Available
  <2>6. Unwritten'
    <3>1. Unwritten /\ TypeOK
      BY DEF RingInv
    <3>2. ASSUME ~rbWrapped', NEW s \in Slots, s >= rbNext' PROVE rbData'[s] = 0
      <4>1. ~rbWrapped /\ rbNext' # 0
        BY <2>4, <2>5, <3>2
      <4>2. s \in Int /\ s > rbNext
        BY <2>1, <2>4, <3>2, <4>1 DEF Slots
      <4> QED BY <2>4, <2>5, <3>1, <4>1, <4>2 DEF Unwritten, Slots
    <3> QED BY <3>2 DEF Unwritten
  <2> QED BY <1>1, <2>2, <2>3, <2>6 DEF RingInv
<1>4. CASE Start \/ Stop \/ Enqueue \/ Exit
  BY <1>2, <1>4 DEF Start, Stop, Enqueue, Exit
<1>5. ASSUME NEW n \in 1..MaxTail, ReadTail(n) PROVE RingInv'
  BY <1>2, <1>5 DEF ReadTail
<1>6. CASE UNCHANGED vars
  BY <1>2, <1>6 DEF vars, ring
<1> QED BY <1>3, <1>4, <1>5, <1>6 DEF Next

LEMMA RingInvariant == Spec => []RingInv
<1>1. Init => RingInv
  <2> SUFFICES ASSUME Init PROVE RingInv
    OBVIOUS
  <2>1. TypeOK
    <3>1. 0 \in Slots /\ 0 \in 0..MaxEntries /\ 0 \in 0..0 /\ 0 - 0 <= ChanSize
      BY LogRingAssumption DEF Slots
    <3> QED BY <3>1 DEF Init, TypeOK
  <2>2. Wraps /\ Unwritten /\ Available = 0
    BY LogRingAssumption DEF Init, Wraps, Unwritten, Available
  <2> QED BY <2>1, <2>2 DEF RingInv
<1> QED BY <1>1, RingStep, PTL DEF Spec

LEMMA Window == RingInv => RingIsWindow
<1> SUFFICES ASSUME RingInv PROVE RingIsWindow
  OBVIOUS
<1> USE LogRingAssumption DEF RingInv, TypeOK, Slots
<1>1. Available = IF stored < RbSize THEN stored ELSE RbSize
  BY DEF Available, Wraps
<1>2. ASSUME NEW i \in 0..(Available - 1)
      PROVE  (rbNext + RbSize - 1 - i) % RbSize = Back(i)
  <2>1. /\ RbSize \in Nat \ {0} /\ rbNext \in 0..(RbSize - 1) /\ i \in 0..(RbSize - 1)
    BY <1>1
  <2> QED BY <2>1, StepsBack DEF Back
<1> QED BY <1>1, <1>2 DEF RingIsWindow

\* Any slot, whichever way it was found, is empty or has a recent entry.
Recent == (stored - Available + 1)..stored

LEMMA SlotsAreRecent ==
  ASSUME RingInv, NEW s \in Slots, rbData[s] # 0
  PROVE  rbData[s] \in Recent
<1> USE LogRingAssumption DEF Slots
<1>1. /\ RbSize \in Nat \ {0} /\ rbNext \in 0..(RbSize - 1) /\ stored \in Nat /\ s \in 0..(RbSize - 1)
  BY DEF RingInv, TypeOK
<1>2. rbWrapped \/ s < rbNext
  BY <1>1 DEF RingInv, Unwritten
<1>3. PICK i \in 0..(Available - 1) : Back(i) = s
  <2>1. CASE s < rbNext
    <3>1. rbNext - 1 - s \in 0..(Available - 1) /\ Back(rbNext - 1 - s) = s
      BY <1>1, <2>1 DEF Available, Back
    <3> QED BY <3>1
  <2>2. CASE ~(s < rbNext)
    <3>1. rbNext + RbSize - 1 - s \in 0..(Available - 1) /\ Back(rbNext + RbSize - 1 - s) = s
      BY <1>1, <1>2, <2>2 DEF Available, Back
    <3> QED BY <3>1
  <2> QED BY <2>1, <2>2
<1>4. rbData[s] = stored - i
  BY <1>3 DEF RingInv
<1>5. Available \in Nat
  BY <1>1 DEF Available
<1> QED BY <1>1, <1>3, <1>4, <1>5 DEF Recent

-----------------------------------------------------------------------------
\* The loop of Tail

Loop(n, g) ==
  g = [i \in 0..n |-> IF i = 0 THEN << >>
                      ELSE IF rbData[Index(i - 1)] = 0 THEN g[i - 1]
                           ELSE Append(g[i - 1], rbData[Index(i - 1)])]
Out(n) == CHOOSE g : Loop(n, g)

LEMMA TailIsLoop == ASSUME NEW n PROVE Tail_(n) = Reverse(Out(Lines(n))[Lines(n)])
BY DEF Tail_, Out, Loop

LEMMA LeastNumber ==
  ASSUME NEW S, S \subseteq Nat, S # {}
  PROVE  \E m \in S : \A n \in S : m <= n
<1> DEFINE R == OpToRel(<, Nat)
<1>1. IsWellFoundedOn(R, Nat)
  BY NatLessThanWellFounded
<1>2. \A m, n \in Nat : m < n => <<m, n>> \in R
  BY DEF OpToRel
<1> HIDE DEF R
<1>3. PICK m \in S : \A n \in S : <<n, m>> \notin R
  BY <1>1, WFMin, Zenon
<1>4. ASSUME NEW n \in S PROVE m <= n
  <2>1. m \in Nat /\ n \in Nat
    OBVIOUS
  <2>2. ~(n < m)
    BY <1>2, <1>3, <2>1, Zenon
  <2> QED BY <2>1, <2>2
<1> QED BY <1>4

LEMMA LoopExists == \A n \in Nat : Loop(n, Out(n))
<1> DEFINE S == {n \in Nat : ~\E g : Loop(n, g)}
<1>1. ASSUME S # {} PROVE FALSE
  <2>1. PICK m \in S : \A n \in S : m <= n
    <3> HIDE DEF S
    <3>1. S \subseteq Nat
      BY DEF S
    <3> QED BY <1>1, <3>1, LeastNumber
  <2>2. m # 0
    <3>1. Loop(0, [i \in 0..0 |-> << >>])
      BY DEF Loop
    <3> QED BY <2>1, <3>1
  <2>3. PICK g : Loop(m - 1, g)
    <3>1. m - 1 \in Nat /\ ~(m <= m - 1)
      BY <2>1, <2>2
    <3> QED BY <2>1, <3>1
  <2> DEFINE e == rbData[Index(m - 1)]
             h == [i \in 0..m |-> IF i < m THEN g[i] ELSE IF e = 0 THEN g[m - 1] ELSE Append(g[m - 1], e)]
  <2>4. Loop(m, h)
    <3>1. ASSUME NEW i \in 0..m
          PROVE  h[i] = IF i = 0 THEN << >>
                        ELSE IF rbData[Index(i - 1)] = 0 THEN h[i - 1]
                             ELSE Append(h[i - 1], rbData[Index(i - 1)])
      <4>1. CASE i = m
        <5>1. m - 1 \in 0..m /\ m - 1 < m
          BY <2>1, <2>2
        <5> QED BY <2>2, <4>1, <5>1
      <4>2. CASE i # m
        <5>1. i \in 0..(m - 1) /\ i < m /\ h[i] = g[i]
          BY <2>1, <4>2
        <5>2. i # 0 => i - 1 \in 0..m /\ i - 1 < m
          BY <2>1, <5>1
        <5> QED BY <2>3, <5>1, <5>2 DEF Loop
      <4> QED BY <4>1, <4>2
    <3> HIDE DEF e
    <3> QED BY <3>1 DEF Loop
  <2> HIDE DEF h
  <2> QED BY <2>1, <2>4
<1> QED BY <1>1 DEF Out

\* What the loop collects is what it has found in the slots.
LEMMA LoopCollects ==
  ASSUME NEW n \in Nat, NEW W,
         \A i \in 0..(n - 1) : rbData[Index(i)] # 0 => rbData[Index(i)] \in W
  PROVE  Out(n)[n] \in Seq(W)
<1> DEFINE S == {i \in 0..n : Out(n)[i] \notin Seq(W)}
<1>1. ASSUME S # {} PROVE FALSE
  <2>1. PICK m \in S : \A i \in S : m <= i
    <3> HIDE DEF S
    <3>1. S \subseteq Nat
      BY DEF S
    <3> QED BY <1>1, <3>1, LeastNumber
  <2>2. Loop(n, Out(n))
    BY LoopExists
  <2>3. m # 0
    <3>1. Out(n)[0] = << >>
      BY <2>2 DEF Loop
    <3>2. << >> \in Seq(W)
      OBVIOUS
    <3> QED BY <2>1, <3>1, <3>2
  <2>4. m - 1 \in 0..n /\ m - 1 \in 0..(n - 1) /\ ~(m <= m - 1)
    BY <2>1, <2>3
  <2>5. Out(n)[m - 1] \in Seq(W)
    BY <2>1, <2>4
  <2>6. Out(n)[m] = IF rbData[Index(m - 1)] = 0 THEN Out(n)[m - 1]
                    ELSE Append(Out(n)[m - 1], rbData[Index(m - 1)])
    BY <2>1, <2>2, <2>3 DEF Loop
  <2>7. Out(n)[m] \in Seq(W)
    <3> DEFINE o == Out(n)[m - 1]
               e == rbData[Index(m - 1)]
    <3>1. e # 0 => e \in W
      BY <2>4
    <3>2. o \in Seq(W) /\ Out(n)[m] = IF e = 0 THEN o ELSE Append(o, e)
      BY <2>5, <2>6
    <3> HIDE DEF o, e
    <3> QED BY <3>1, <3>2
  <2> QED BY <2>1, <2>7
<1> QED BY <1>1

\* Whatever slots a Tail that does not panic reads, its lines are recent.
LEMMA TailIsRecent ==
  ASSUME RingInv, NEW n \in 1..MaxTail, InBounds(n), NEW k \in DOMAIN Tail_(n)
  PROVE  Tail_(n)[k] \in Recent
<1>1. Lines(n) \in Nat
  BY LogRingAssumption DEF RingInv, TypeOK, Slots, Available, Lines
<1>2. \A i \in 0..(Lines(n) - 1) : rbData[Index(i)] # 0 => rbData[Index(i)] \in Recent
  BY SlotsAreRecent DEF InBounds
<1> DEFINE out == Out(Lines(n))[Lines(n)]
<1>3. out \in Seq(Recent)
  BY <1>1, <1>2, LoopCollects
<1>4. Tail_(n) = Reverse(out)
  BY TailIsLoop
<1> HIDE DEF out
<1>5. /\ k \in 1..Len(out) /\ Tail_(n)[k] = out[(Len(out) - k) + 1]
      /\ (Len(out) - k) + 1 \in 1..Len(out)
  BY <1>3, <1>4 DEF Reverse
<1> QED BY <1>3, <1>5

\* The channel never holds more than its capacity, and no slot outside the ring
\* is written, however often it wraps.
THEOREM TypeCorrect == Spec => []TypeOK
<1>1. RingInv => TypeOK
  BY DEF RingInv
<1> QED BY <1>1, RingInvariant, PTL

\* The ring is the window of the most recent entries, however often it wraps,
\* and a Tail shows none that the window has not.
THEOREM RingIsRecent == Spec => []RingHoldsRecent
<1>1. RingInv => RingHoldsRecent
  BY Window, TailIsRecent DEF RingHoldsRecent, Recent
<1> QED BY <1>1, RingInvariant, PTL
=============================================================================
