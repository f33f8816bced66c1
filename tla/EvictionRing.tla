---------------------------- MODULE EvictionRing ----------------------------
(***************************************************************************)
(* The clock algorithm of eviction.c on a worker, over all pages of the    *)
(* ring: the eviction thread calls dsm_execute_eviction again and again,   *)
(* the network engine marks pages as accessed while a call is under way.   *)
(*                                                                         *)
(* Only the eviction thread takes page_mutex and clock_hand_mutex, so the  *)
(* trylock succeeds.  What eviction does to the page itself is EvictVisit  *)
(* of TeleportDSM; here a page is its ring entry.                          *)
(***************************************************************************)
EXTENDS Integers

CONSTANTS
  count,      \* global_tracked_page_count, 4 in the program
  MaxMarks    \* bound: calls of dsm_mark_accessed

ASSUME CountAssumption == count \in Nat \ {0}
ASSUME MarksAssumption == MaxMarks \in Nat

VARIABLES
  clock_hand,
  status, access_bit,   \* of the entries of the ring
  iterations,           \* of the call under way
  pc,            \* "sleep", "sweep" or "loaded": a_bit is known
  inspect_idx, a_bit,   \* the entry under the hand, the bit loaded from it
  marks,         \* calls of dsm_mark_accessed
  inCall,        \* pages marked since the call began
  moved          \* page: entries the hand has moved on since the page was last
                 \* marked, counted up to one round

ringVars == <<status, access_bit>>
markVars == <<marks, inCall, moved>>
vars == <<clock_hand, status, access_bit, iterations, pc, inspect_idx, a_bit,
          marks, inCall, moved>>

Pages == 0..(count - 1)

\* dsm_mark_accessed, by the engine when it has resolved a fault on page i.
dsm_mark_accessed(i) ==
  /\ marks < MaxMarks
  /\ access_bit' = [access_bit EXCEPT ![i] = 1]
  /\ marks' = marks + 1
  /\ inCall' = inCall \cup {i}
  /\ moved' = [moved EXCEPT ![i] = 0]
  /\ UNCHANGED <<clock_hand, status, iterations, pc, inspect_idx, a_bit>>

\* background_eviction_thread calls dsm_execute_eviction after 200 ms.
Call ==
  /\ pc = "sleep"
  /\ pc' = "sweep"
  /\ iterations' = 0
  /\ inCall' = {}
  /\ UNCHANGED <<clock_hand, ringVars, inspect_idx, a_bit, marks, moved>>

\* Mutant: one round.
Limit_one_round == count

\* The hand goes over the ring at most twice.
Limit == count * 2

\* Mutant: the hand runs off the ring.
Advance_no_wrap(i) == i + 1

Advance(i) == (i + 1) % count

\* The next entry: the hand moves on, the entry's access bit is loaded.
Inspect ==
  /\ pc = "sweep" /\ iterations < Limit
  /\ inspect_idx' = clock_hand
  /\ clock_hand' = Advance(clock_hand)
  /\ iterations' = iterations + 1
  /\ a_bit' = access_bit[clock_hand]
  /\ pc' = "loaded"
  /\ moved' = [i \in Pages |-> IF moved[i] < count THEN moved[i] + 1 ELSE count]
  /\ UNCHANGED <<ringVars, marks, inCall>>

\* Mutant: the bit of the entry the hand is at now is cleared.
Clear_at_hand ==
  /\ pc = "loaded" /\ a_bit = 1
  /\ access_bit' = [access_bit EXCEPT ![clock_hand] = 0]
  /\ pc' = "sweep"
  /\ UNCHANGED <<clock_hand, status, iterations, inspect_idx, a_bit, markVars>>

\* The bit was set: it is cleared, with whatever mark came in between.
Clear ==
  /\ pc = "loaded" /\ a_bit = 1
  /\ access_bit' = [access_bit EXCEPT ![inspect_idx] = 0]
  /\ pc' = "sweep"
  /\ UNCHANGED <<clock_hand, status, iterations, inspect_idx, a_bit, markVars>>

\* The page was evicted before: nothing to do.
Skip ==
  /\ pc = "loaded" /\ a_bit = 0 /\ status[inspect_idx] = 0
  /\ pc' = "sweep"
  /\ UNCHANGED <<clock_hand, ringVars, iterations, inspect_idx, a_bit,
                 markVars>>

\* The victim, whatever mark came in since the load.  The call returns 0.
Evict ==
  /\ pc = "loaded" /\ a_bit = 0 /\ status[inspect_idx] = 1
  /\ status' = [status EXCEPT ![inspect_idx] = 0]
  /\ pc' = "sleep"
  /\ UNCHANGED <<clock_hand, access_bit, iterations, inspect_idx, a_bit,
                 markVars>>

\* No victim: the call returns -1.
NoVictim ==
  /\ pc = "sweep" /\ iterations >= Limit
  /\ pc' = "sleep"
  /\ UNCHANGED <<clock_hand, ringVars, iterations, inspect_idx, a_bit,
                 markVars>>

\* The ring as main sets it up: every page may be evicted.
Init ==
  /\ clock_hand = 0
  /\ status = [i \in Pages |-> 1]
  /\ access_bit = [i \in Pages |-> 0]
  /\ iterations = 0 /\ pc = "sleep"
  /\ inspect_idx = 0 /\ a_bit = 0
  /\ marks = 0 /\ inCall = {}
  /\ moved = [i \in Pages |-> count]

Evictor == Call \/ Inspect \/ Clear \/ Skip \/ Evict \/ NoVictim

Next == Evictor \/ \E i \in Pages : dsm_mark_accessed(i)

Spec == Init /\ [][Next]_vars

----------------------------------------------------------------------------
(* Properties. *)

\* Indices stay inside the ring, bits are bits.
TypeOK ==
  /\ clock_hand \in Pages /\ inspect_idx \in Pages
  /\ status \in [Pages -> {0, 1}] /\ access_bit \in [Pages -> {0, 1}]
  /\ a_bit \in {0, 1}
  /\ iterations \in 0..Limit
  /\ pc \in {"sleep", "sweep", "loaded"}
  /\ marks \in Nat /\ inCall \subseteq Pages
  /\ moved \in [Pages -> 0..count]

\* The second chance: a page is evicted only after the hand has gone a whole
\* round since the page was last marked.  That holds for the mark that falls
\* between the load of the bit and its clearing too, although it is lost.
\* The exception is a mark that comes after the load of the very visit that
\* evicts the page: its chance is not given.
SecondChance ==
  [][\A i \in Pages : status'[i] # status[i] => moved[i] \in {0, count}]_vars

\* A call that finds no victim has a reason for every page: it was evicted
\* before, or accessed during the call.
SweepIsThorough ==
  pc = "sweep" /\ iterations >= Limit =>
    \A i \in Pages : status[i] = 0 \/ i \in inCall
=============================================================================
