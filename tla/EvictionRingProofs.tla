------------------------- MODULE EvictionRingProofs -------------------------
(***************************************************************************)
(* For a ring of any size and any number of accesses: the eviction thread  *)
(* stays inside the ring, leaves an accessed page a whole round of the     *)
(* hand, and overlooks no page before it gives up.                         *)
(***************************************************************************)
EXTENDS EvictionRing, TLAPS

\* The hand never leaves the ring.
LEMMA AdvanceInRing ==
  ASSUME NEW i \in Pages
  PROVE  Advance(i) \in Pages
  BY CountAssumption DEF Advance, Pages

\* The ring is not empty, so the hand starts inside it.
LEMMA TypeInit == Init => TypeOK
<1> SUFFICES ASSUME Init PROVE TypeOK
  OBVIOUS
<1>1. 0 \in Pages /\ 0 \in 0..Limit /\ count \in 0..count
  BY CountAssumption DEF Pages, Limit
<1> QED
  BY <1>1 DEF Init, TypeOK

\* Every step keeps the types.
LEMMA TypeStep == TypeOK /\ [Next]_vars => TypeOK'
<1> SUFFICES ASSUME TypeOK, [Next]_vars PROVE TypeOK'
  OBVIOUS
<1> USE CountAssumption DEF TypeOK
<1>1. ASSUME NEW i \in Pages, dsm_mark_accessed(i) PROVE TypeOK'
  BY <1>1 DEF dsm_mark_accessed, Pages
<1>2. CASE Call
  BY <1>2 DEF Call, ringVars, Limit
<1>3. CASE Inspect
  <2>1. clock_hand' \in Pages
    BY <1>3, AdvanceInRing DEF Inspect
  <2>2. iterations' \in 0..Limit
    BY <1>3 DEF Inspect, Limit
  <2>3. a_bit' \in {0, 1}
    BY <1>3 DEF Inspect
  <2>4. moved' \in [Pages -> 0..count]
    BY <1>3 DEF Inspect
  <2> QED
    BY <1>3, <2>1, <2>2, <2>3, <2>4 DEF Inspect, ringVars
<1>4. CASE Clear
  BY <1>4 DEF Clear, markVars
<1>5. CASE Skip
  BY <1>5 DEF Skip, ringVars, markVars
<1>6. CASE Evict
  BY <1>6 DEF Evict, markVars
<1>7. CASE NoVictim
  BY <1>7 DEF NoVictim, ringVars, markVars
<1>8. CASE UNCHANGED vars
  BY <1>8 DEF vars
<1> QED
  BY <1>1, <1>2, <1>3, <1>4, <1>5, <1>6, <1>7, <1>8 DEF Next, Evictor

\* The indices of dsm_execute_eviction stay inside the ring.
THEOREM RingTypeCorrect == Spec => []TypeOK
  BY TypeInit, TypeStep, PTL DEF Spec

----------------------------------------------------------------------------
(* Where the hand has been. *)

\* How many entries the hand has moved on since it was at i, one round at most.
Back(i) == IF i < clock_hand THEN clock_hand - i ELSE clock_hand + count - i

LEMMA BackBounds ==
  ASSUME TypeOK, NEW i \in Pages
  PROVE  /\ Back(i) \in 1..count
         /\ i = clock_hand => Back(i) = count
  BY CountAssumption DEF TypeOK, Pages, Back

LEMMA AdvanceIs ==
  ASSUME NEW i \in Pages
  PROVE  Advance(i) = IF i = count - 1 THEN 0 ELSE i + 1
  BY CountAssumption DEF Advance, Pages

\* Moving on leaves the entry behind by one, and every other one by one more.
LEMMA BackMoves ==
  ASSUME TypeOK, clock_hand' = Advance(clock_hand), NEW i \in Pages
  PROVE  Back(i)' = IF i = clock_hand THEN 1 ELSE Back(i) + 1
<1>1. clock_hand \in Pages /\ clock_hand' = IF clock_hand = count - 1 THEN 0
                                            ELSE clock_hand + 1
  BY AdvanceIs DEF TypeOK
<1> QED
  BY <1>1, CountAssumption DEF Pages, Back

\* The entry that was loaded is the one just behind the hand.
LEMMA LoadedIsBehind ==
  ASSUME TypeOK, clock_hand = Advance(inspect_idx)
  PROVE  Back(inspect_idx) = 1
<1>1. inspect_idx \in Pages /\ clock_hand = IF inspect_idx = count - 1 THEN 0
                                            ELSE inspect_idx + 1
  BY AdvanceIs DEF TypeOK
<1> QED
  BY <1>1, CountAssumption DEF Pages, Back

----------------------------------------------------------------------------
(* The second chance. *)

\* A mark made after the hand had moved on from an entry is still in its bit.
\* One made before that may have been cleared, but then it is as old as the
\* hand's visit, and the next visit is a whole round later.
ChanceInv ==
  /\ TypeOK
  /\ \A i \in Pages : moved[i] + 1 < Back(i) => access_bit[i] = 1
  /\ pc = "loaded" =>
       /\ clock_hand = Advance(inspect_idx)
       /\ a_bit = 0 => moved[inspect_idx] \in {0, count}

LEMMA ChanceStep == ChanceInv /\ [Next]_vars => ChanceInv'
<1> SUFFICES ASSUME ChanceInv, [Next]_vars PROVE ChanceInv'
  OBVIOUS
<1>1. TypeOK /\ TypeOK'
  BY TypeStep DEF ChanceInv
<1>2. ASSUME NEW p \in Pages, dsm_mark_accessed(p) PROVE ChanceInv'
  <2>1. /\ UNCHANGED <<clock_hand, pc, inspect_idx, a_bit>>
        /\ inspect_idx \in Pages
        /\ \A i \in Pages : /\ Back(i)' = Back(i)
                             /\ \/ moved'[i] = moved[i] /\ access_bit'[i] = access_bit[i]
                                \/ moved'[i] = 0 /\ access_bit'[i] = 1
    BY <1>1, <1>2 DEF dsm_mark_accessed, TypeOK, Back
  <2> QED
    BY <1>1, <2>1 DEF ChanceInv, Advance
<1>3. CASE Inspect
  <2>1. /\ pc' = "loaded" /\ clock_hand \in Pages /\ inspect_idx' = clock_hand
        /\ clock_hand' = Advance(clock_hand) /\ a_bit' = access_bit[clock_hand]
        /\ UNCHANGED access_bit
    BY <1>1, <1>3 DEF Inspect, ringVars, TypeOK
  <2>2. \A i \in Pages : /\ moved[i] \in 0..count
                         /\ moved'[i] = IF moved[i] < count THEN moved[i] + 1 ELSE count
    BY <1>1, <1>3 DEF Inspect, TypeOK
  <2>3. ASSUME NEW i \in Pages, moved'[i] + 1 < Back(i)' PROVE access_bit'[i] = 1
    <3>1. Back(i)' = IF i = clock_hand THEN 1 ELSE Back(i) + 1
      BY <1>1, <2>1, BackMoves
    <3>2. Back(i) \in 1..count
      BY <1>1, BackBounds
    <3>3. moved[i] + 1 < Back(i)
      BY <2>2, <2>3, <3>1, <3>2, CountAssumption
    <3> QED
      BY <2>1, <3>3 DEF ChanceInv
  <2>4. a_bit' = 0 => moved'[clock_hand] = count
    <3>1. Back(clock_hand) = count
      BY <1>1, <2>1, BackBounds
    <3>2. moved[clock_hand] + 1 < Back(clock_hand) => access_bit[clock_hand] = 1
      BY <2>1 DEF ChanceInv
    <3>3. a_bit' = 0 => access_bit[clock_hand] # 1
      BY <2>1
    <3> QED
      BY <2>1, <2>2, <3>1, <3>2, <3>3, CountAssumption
  <2> QED
    BY <1>1, <2>1, <2>3, <2>4 DEF ChanceInv, Advance
<1>4. CASE Clear
  <2>1. /\ pc = "loaded" /\ pc' = "sweep" /\ inspect_idx \in Pages
        /\ UNCHANGED <<clock_hand, moved>>
        /\ \A i \in Pages : i # inspect_idx => access_bit'[i] = access_bit[i]
    BY <1>1, <1>4 DEF Clear, markVars, TypeOK
  <2>2. \A i \in Pages : Back(i)' = Back(i) /\ moved[i] \in Nat
    BY <1>1, <2>1 DEF Back, TypeOK
  <2>3. ~(moved[inspect_idx] + 1 < Back(inspect_idx))
    BY <1>1, <2>1, <2>2, LoadedIsBehind DEF ChanceInv
  <2>4. \A i \in Pages : moved'[i] + 1 < Back(i)' => access_bit'[i] = 1
    BY <2>1, <2>2, <2>3 DEF ChanceInv
  <2> QED
    BY <1>1, <2>1, <2>4 DEF ChanceInv
<1>5. CASE Call \/ Skip \/ Evict \/ NoVictim
  <2>1. pc' # "loaded" /\ UNCHANGED <<clock_hand, access_bit, moved>>
    BY <1>5 DEF Call, Skip, Evict, NoVictim, ringVars, markVars
  <2> QED
    BY <1>1, <2>1 DEF ChanceInv, Back
<1>6. CASE UNCHANGED vars
  BY <1>1, <1>6 DEF vars, ChanceInv, Back, Advance
<1> QED
  BY <1>2, <1>3, <1>4, <1>5, <1>6 DEF Next, Evictor

\* dsm_execute_eviction leaves a page a whole round of the hand after its last
\* mark, lost or not, unless the mark came after this visit's load.
THEOREM SecondChanceGiven == Spec => SecondChance
<1>1. Init => ChanceInv
  <2> SUFFICES ASSUME Init PROVE ChanceInv
    OBVIOUS
  <2>1. TypeOK
    BY TypeInit
  <2>2. \A i \in Pages : Back(i) \in 1..count /\ moved[i] = count
    BY <2>1, BackBounds DEF Init
  <2> QED
    BY <2>1, <2>2, CountAssumption DEF Init, ChanceInv
<1>2. ChanceInv /\ [Next]_vars =>
        [\A i \in Pages : status'[i] # status[i] => moved[i] \in {0, count}]_vars
  <2> SUFFICES ASSUME ChanceInv, Next, NEW i \in Pages, status'[i] # status[i]
               PROVE  moved[i] \in {0, count}
    OBVIOUS
  <2>1. Evict
    BY DEF Next, Evictor, dsm_mark_accessed, Call, Inspect, Clear, Skip,
           NoVictim, ringVars
  <2>2. i = inspect_idx
    BY <2>1 DEF Evict, ChanceInv, TypeOK
  <2> QED
    BY <2>1, <2>2 DEF Evict, ChanceInv
<1> QED
  BY <1>1, <1>2, ChanceStep, PTL DEF Spec, SecondChance

----------------------------------------------------------------------------
(* Two rounds are enough. *)

Excused(i) == status[i] = 0 \/ i \in inCall

\* The visit of i, if any, is over.
VisitOver(i) == pc = "loaded" => i # inspect_idx

\* A page the call has visited is excused or has a clear access bit, so that a
\* second visit finds a reason.
SweepInv ==
  /\ TypeOK
  /\ pc = "loaded" =>
       /\ clock_hand = Advance(inspect_idx)
       /\ iterations > count /\ a_bit = 1 => Excused(inspect_idx)
  /\ pc # "sleep" =>
       \A i \in Pages : VisitOver(i) =>
         /\ Back(i) <= iterations => Excused(i) \/ access_bit[i] = 0
         /\ Back(i) + count <= iterations => Excused(i)

LEMMA SweepStep == SweepInv /\ [Next]_vars => SweepInv'
<1> SUFFICES ASSUME SweepInv, [Next]_vars PROVE SweepInv'
  OBVIOUS
<1>1. TypeOK /\ TypeOK'
  BY TypeStep DEF SweepInv
<1>2. iterations \in Nat /\ count \in Nat /\ Limit = 2 * count
  BY <1>1, CountAssumption DEF TypeOK, Limit
<1>3. \A i \in Pages : Back(i) \in Nat /\ Back(i) >= 1
  BY <1>1, <1>2, BackBounds
<1>4. ASSUME NEW p \in Pages, dsm_mark_accessed(p) PROVE SweepInv'
  <2>1. UNCHANGED <<clock_hand, status, iterations, pc, inspect_idx, a_bit>>
    BY <1>4 DEF dsm_mark_accessed
  <2>2. \A i \in Pages : /\ Back(i)' = Back(i)
                         /\ VisitOver(i)' <=> VisitOver(i)
                         /\ Excused(i) => Excused(i)'
                         /\ access_bit'[i] # access_bit[i] => Excused(i)'
    BY <1>1, <1>4, <2>1 DEF Back, VisitOver, Excused, dsm_mark_accessed, TypeOK
  <2>3. inspect_idx \in Pages
    BY <1>1 DEF TypeOK
  <2> QED
    BY <1>1, <2>1, <2>2, <2>3 DEF SweepInv, Excused
<1>5. CASE Call
  <2>1. pc' = "sweep" /\ iterations' = 0 /\ UNCHANGED clock_hand
    BY <1>5 DEF Call
  <2>2. \A i \in Pages : Back(i)' \in Nat /\ Back(i)' >= 1
    BY <1>3, <2>1 DEF Back
  <2>3. \A i \in Pages : ~(Back(i)' <= iterations') /\ ~(Back(i)' + count <= iterations')
    BY <1>2, <2>1, <2>2
  <2> QED
    BY <1>1, <2>1, <2>3 DEF SweepInv
<1>6. CASE Inspect
  <2>1. /\ pc = "sweep" /\ pc' = "loaded"
        /\ inspect_idx' = clock_hand /\ clock_hand \in Pages
        /\ clock_hand' = Advance(clock_hand) /\ iterations' = iterations + 1
        /\ a_bit' = access_bit[clock_hand]
        /\ UNCHANGED <<status, access_bit, inCall>>
    BY <1>1, <1>6 DEF Inspect, ringVars, TypeOK
  <2>2. \A i \in Pages : /\ Back(i) <= iterations => Excused(i) \/ access_bit[i] = 0
                         /\ Back(i) + count <= iterations => Excused(i)
    BY <2>1 DEF SweepInv, VisitOver
  <2>3. \A i \in Pages : Excused(i)' <=> Excused(i)
    BY <2>1 DEF Excused
  <2>4. iterations' > count /\ a_bit' = 1 => Excused(inspect_idx)'
    <3>1. Back(clock_hand) = count
      BY <1>1, <2>1, BackBounds
    <3>2. iterations' > count => Back(clock_hand) <= iterations
      BY <1>2, <2>1, <3>1
    <3>3. a_bit' = 1 => access_bit[clock_hand] # 0
      BY <2>1
    <3>4. iterations' > count /\ a_bit' = 1 => Excused(clock_hand)
      BY <2>1, <2>2, <3>2, <3>3, Zenon
    <3> QED
      BY <2>1, <3>4 DEF Excused
  <2>5. ASSUME NEW i \in Pages, VisitOver(i)'
        PROVE  /\ Back(i)' <= iterations' => Excused(i)' \/ access_bit'[i] = 0
               /\ Back(i)' + count <= iterations' => Excused(i)'
    <3>1. Back(i)' = Back(i) + 1
      BY <1>1, <2>1, <2>5, BackMoves DEF VisitOver
    <3>2. /\ Back(i)' <= iterations' => Back(i) <= iterations
          /\ Back(i)' + count <= iterations' => Back(i) + count <= iterations
      BY <1>2, <1>3, <2>1, <3>1
    <3> QED
      BY <2>1, <2>2, <2>3, <3>2
  <2>6. clock_hand' = Advance(inspect_idx')
    BY <2>1
  <2> QED
    BY <1>1, <2>1, <2>4, <2>5, <2>6 DEF SweepInv, Advance
<1>7. ASSUME Clear \/ Skip PROVE SweepInv'
  <2>1. /\ pc = "loaded" /\ pc' = "sweep" /\ inspect_idx \in Pages
        /\ UNCHANGED <<clock_hand, status, iterations, inCall>>
    BY <1>1, <1>7 DEF Clear, Skip, ringVars, markVars, TypeOK
  <2>2. \A i \in Pages : /\ Back(i)' = Back(i) /\ (Excused(i)' <=> Excused(i))
                         /\ i # inspect_idx => VisitOver(i)
                         /\ i # inspect_idx => access_bit'[i] = access_bit[i]
    BY <1>1, <1>7, <2>1 DEF Back, Excused, VisitOver, Clear, Skip, ringVars, TypeOK
  <2>3. Back(inspect_idx) = 1
    BY <1>1, <2>1, LoadedIsBehind DEF SweepInv
  <2>4. Excused(inspect_idx) \/ (access_bit'[inspect_idx] = 0 /\ a_bit = 1)
    BY <1>1, <1>7, <2>1 DEF Excused, Clear, Skip, TypeOK
  <2>5. Back(inspect_idx) + count <= iterations => Excused(inspect_idx)
    <3>1. Back(inspect_idx) + count <= iterations => iterations > count
      BY <1>2, <2>3
    <3> QED
      BY <2>1, <2>4, <3>1 DEF SweepInv
  <2>6. \A i \in Pages :
          /\ Back(i)' <= iterations' => Excused(i)' \/ access_bit'[i] = 0
          /\ Back(i)' + count <= iterations' => Excused(i)'
    BY <2>1, <2>2, <2>4, <2>5 DEF SweepInv
  <2> QED
    BY <1>1, <2>1, <2>6 DEF SweepInv
<1>8. CASE Evict \/ NoVictim
  <2>1. pc' = "sleep"
    BY <1>8 DEF Evict, NoVictim
  <2> QED
    BY <1>1, <2>1 DEF SweepInv
<1>9. CASE UNCHANGED vars
  BY <1>1, <1>9 DEF vars, SweepInv, Back, Excused, VisitOver, Advance
<1> QED
  BY <1>4, <1>5, <1>6, <1>7, <1>8, <1>9 DEF Next, Evictor

\* A call of dsm_execute_eviction that returns -1 has gone over the ring
\* twice, and every page was evicted before or accessed during the call.
THEOREM SweepThorough == Spec => []SweepIsThorough
<1>1. Init => SweepInv
  BY TypeInit DEF Init, SweepInv
<1>2. SweepInv => SweepIsThorough
  <2> SUFFICES ASSUME SweepInv, pc = "sweep", iterations >= Limit, NEW i \in Pages
               PROVE  Excused(i)
    BY DEF SweepIsThorough, Excused
  <2>1. iterations \in Nat /\ count \in Nat /\ Back(i) \in 1..count
    BY BackBounds, CountAssumption DEF SweepInv, TypeOK, Limit
  <2>2. Back(i) + count <= iterations
    BY <2>1 DEF Limit
  <2> QED
    BY <2>2 DEF SweepInv, VisitOver
<1> QED
  BY <1>1, <1>2, SweepStep, PTL DEF Spec
=============================================================================
