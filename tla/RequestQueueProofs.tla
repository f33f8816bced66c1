------------------------- MODULE RequestQueueProofs -------------------------
(***************************************************************************)
(* For a ring of any capacity and any number of requests: the queue of     *)
(* queue.c stays inside its ring, implements a bounded FIFO, and never     *)
(* leaves the engine asleep on a request nobody will tell it about.        *)
(***************************************************************************)
EXTENDS RequestQueue, SequenceTheorems, TLAPS

(* Positions in the ring. *)

\* A position less than two rounds on is reduced by at most one round.
LEMMA ModRound ==
  ASSUME NEW a \in Nat, a < 2 * QUEUE_CAPACITY
  PROVE  a % QUEUE_CAPACITY =
           IF a < QUEUE_CAPACITY THEN a ELSE a - QUEUE_CAPACITY
  BY CapacityAssumption

\* Moving on by one slot stays inside the ring.
LEMMA NextSlot ==
  ASSUME NEW i \in Slots
  PROVE  /\ (i + 1) % QUEUE_CAPACITY \in Slots
         /\ (i + 1) % QUEUE_CAPACITY =
              IF i + 1 < QUEUE_CAPACITY THEN i + 1 ELSE 0
  BY CapacityAssumption, ModRound DEF Slots

----------------------------------------------------------------------------
(* The inductive invariant. *)

\* The tail is size slots after the head; a woken engine has a counter to
\* read, so it goes on to pop.
Inv ==
  /\ TypeOK
  /\ tail = (head + size) % QUEUE_CAPACITY
  /\ engine = "read" => counter > 0
  /\ NoLostWakeup

LEMMA InvInit == Init => Inv
<1> SUFFICES ASSUME Init PROVE Inv
  OBVIOUS
<1>1. 0 \in Slots /\ 0 % QUEUE_CAPACITY = 0
  BY CapacityAssumption, ModRound DEF Slots
<1>2. data \in [Slots -> Requests]
  BY RequestsAssumption DEF Init
<1>3. size \in 0..QUEUE_CAPACITY
  BY CapacityAssumption DEF Init
<1>4. TypeOK
  BY <1>1, <1>2, <1>3 DEF Init, TypeOK
<1> QED
  BY <1>1, <1>4 DEF Init, Inv, NoLostWakeup

\* Pushing keeps the tail size slots after the head.
LEMMA TailMoves ==
  ASSUME Inv, size < QUEUE_CAPACITY
  PROVE  (tail + 1) % QUEUE_CAPACITY = (head + size + 1) % QUEUE_CAPACITY
<1>1. head \in Nat /\ size \in Nat /\ head < QUEUE_CAPACITY /\ tail \in Slots
  BY CapacityAssumption DEF Inv, TypeOK, Slots
<1>2. tail = IF head + size < QUEUE_CAPACITY THEN head + size
                                             ELSE head + size - QUEUE_CAPACITY
  BY <1>1, ModRound, CapacityAssumption DEF Inv
<1>3. (head + size + 1) % QUEUE_CAPACITY =
        IF head + size + 1 < QUEUE_CAPACITY THEN head + size + 1
                                   ELSE head + size + 1 - QUEUE_CAPACITY
  BY <1>1, ModRound, CapacityAssumption
<1> QED
  BY <1>1, <1>2, <1>3, NextSlot, CapacityAssumption

\* So does popping.
LEMMA HeadMoves ==
  ASSUME Inv, size > 0
  PROVE  tail = (((head + 1) % QUEUE_CAPACITY) + (size - 1)) % QUEUE_CAPACITY
<1>1. head \in Slots /\ head \in Nat /\ size \in Nat /\ head < QUEUE_CAPACITY
      /\ size <= QUEUE_CAPACITY
  BY CapacityAssumption DEF Inv, TypeOK, Slots
<1>2. tail = IF head + size < QUEUE_CAPACITY THEN head + size
                                             ELSE head + size - QUEUE_CAPACITY
  BY <1>1, ModRound, CapacityAssumption DEF Inv
<1>3. CASE head + 1 < QUEUE_CAPACITY
  <2>1. (head + 1) % QUEUE_CAPACITY = head + 1
    BY <1>1, <1>3, NextSlot
  <2>2. head + 1 + (size - 1) = head + size
    BY <1>1
  <2> QED
    BY <2>1, <2>2 DEF Inv
<1>4. CASE head + 1 >= QUEUE_CAPACITY
  <2>1. (head + 1) % QUEUE_CAPACITY = 0 /\ head = QUEUE_CAPACITY - 1
    BY <1>1, <1>4, NextSlot, CapacityAssumption
  <2>2. tail = size - 1
    BY <1>1, <1>2, <2>1, CapacityAssumption
  <2>3. (size - 1) % QUEUE_CAPACITY = size - 1
    BY <1>1, ModRound, CapacityAssumption
  <2> QED
    BY <1>1, <2>1, <2>2, <2>3
<1> QED
  BY <1>1, <1>3, <1>4, CapacityAssumption

LEMMA InvStep == Inv /\ [Next]_vars => Inv'
<1> SUFFICES ASSUME Inv, [Next]_vars PROVE Inv'
  OBVIOUS
<1> USE CapacityAssumption DEF Inv, TypeOK, NoLostWakeup
<1>1. ASSUME NEW req \in Requests, queue_push(req) PROVE Inv'
  <2>1. tail' \in Slots /\ tail' = (head' + size') % QUEUE_CAPACITY
    BY <1>1, TailMoves, NextSlot DEF queue_push
  <2>2. size' \in 0..QUEUE_CAPACITY /\ pushed' \in Nat
    BY <1>1 DEF queue_push
  <2>3. data' \in [Slots -> Requests]
    BY <1>1 DEF queue_push
  <2>4. TypeOK'
    BY <1>1, <2>1, <2>2, <2>3 DEF queue_push
  <2>5. NoLostWakeup' /\ (engine' = "read" => counter' > 0)
    BY <1>1 DEF queue_push
  <2> QED
    BY ONLY <2>1, <2>4, <2>5 DEF Inv
<1>2. CASE Notify
  <2>1. counter' \in Nat /\ counter' > 0
    BY <1>2 DEF Notify
  <2>2. TypeOK'
    BY <1>2, <2>1 DEF Notify, ring
  <2>3. NoLostWakeup'
    BY <1>2, <2>1 DEF Notify
  <2>4. tail' = (head' + size') % QUEUE_CAPACITY
    BY <1>2 DEF Notify, ring
  <2> QED
    BY ONLY <2>1, <2>2, <2>3, <2>4 DEF Inv
<1>3. CASE Wakeup
  BY <1>3 DEF Wakeup, ring
<1>4. CASE ReadCounter
  BY <1>4 DEF ReadCounter, ring
<1>5. CASE queue_pop
  <2>1. head' \in Slots /\ tail' = (head' + size') % QUEUE_CAPACITY
    BY <1>5, HeadMoves, NextSlot DEF queue_pop
  <2>2. size' \in 0..QUEUE_CAPACITY /\ popped' \in Nat
    BY <1>5 DEF queue_pop
  <2>3. out' \in Requests
    BY <1>5 DEF queue_pop
  <2> QED
    BY <1>5, <2>1, <2>2, <2>3 DEF queue_pop
<1>6. CASE queue_pop_empty
  BY <1>6 DEF queue_pop_empty, ring
<1>7. CASE UNCHANGED vars
  BY <1>7 DEF vars
<1> QED
  BY <1>1, <1>2, <1>3, <1>4, <1>5, <1>6, <1>7 DEF Next, Engine

----------------------------------------------------------------------------
(* The refinement: one lemma for each operation. *)

\* A push appends to the queue and moves nothing that is in it.
LEMMA PushAppends ==
  ASSUME Inv, NEW req \in Requests, queue_push(req)
  PROVE  Queued' = Append(Queued, req)
<1> USE CapacityAssumption
<1>1. head \in Nat /\ size \in Nat /\ head < QUEUE_CAPACITY
      /\ size < QUEUE_CAPACITY
  BY DEF Inv, TypeOK, Slots, queue_push
<1>2. size' = size + 1 /\ head' = head
  BY <1>1 DEF queue_push
<1>3. ASSUME NEW i \in 1..size
      PROVE  /\ (head + i - 1) % QUEUE_CAPACITY \in Slots
             /\ (head + i - 1) % QUEUE_CAPACITY # tail
  <2> DEFINE a == head + i - 1
  <2>1. a \in Nat /\ a < 2 * QUEUE_CAPACITY
    BY <1>1
  <2> HIDE DEF a
  <2>2. a % QUEUE_CAPACITY =
          IF a < QUEUE_CAPACITY THEN a ELSE a - QUEUE_CAPACITY
    BY <2>1, ModRound
  <2>3. tail = IF head + size < QUEUE_CAPACITY THEN head + size
                                        ELSE head + size - QUEUE_CAPACITY
    BY <1>1, ModRound DEF Inv
  <2> QED
    BY <1>1, <2>1, <2>2, <2>3 DEF Slots, a
<1>4. ASSUME NEW i \in 1..size
      PROVE  data'[(head + i - 1) % QUEUE_CAPACITY] =
               data[(head + i - 1) % QUEUE_CAPACITY]
  BY <1>3 DEF queue_push, Inv, TypeOK
<1>5. data'[(head + (size + 1) - 1) % QUEUE_CAPACITY] = req
  <2>1. head + (size + 1) - 1 = head + size
    BY <1>1
  <2> QED
    BY <2>1 DEF queue_push, Inv, TypeOK
<1>6. Queued' = [i \in 1..(size + 1) |->
                   data'[(head + i - 1) % QUEUE_CAPACITY]]
  BY <1>2 DEF Queued
<1>7. Queued \in Seq(Requests) /\ Len(Queued) = size
  <2>1. \A i \in 1..size : data[(head + i - 1) % QUEUE_CAPACITY] \in Requests
    BY <1>3 DEF Inv, TypeOK
  <2> QED
    BY <1>1, <2>1 DEF Queued
<1>8. Append(Queued, req) = [i \in 1..(size + 1) |->
                               IF i = size + 1 THEN req ELSE Queued[i]]
  <2>1. Append(Queued, req) \in Seq(Requests)
        /\ Len(Append(Queued, req)) = size + 1
        /\ (\A i \in 1..size : Append(Queued, req)[i] = Queued[i])
        /\ Append(Queued, req)[size + 1] = req
    BY <1>7, AppendProperties
  <2>2. Append(Queued, req) \in [1..(size + 1) -> Requests]
    BY <2>1, LenProperties
  <2>3. \A i \in 1..(size + 1) : i = size + 1 \/ i \in 1..size
    BY <1>1
  <2> QED
    BY <2>1, <2>2, <2>3
<1>9. ASSUME NEW i \in 1..(size + 1)
      PROVE  data'[(head + i - 1) % QUEUE_CAPACITY] =
               IF i = size + 1 THEN req ELSE Queued[i]
  <2>1. CASE i = size + 1
    BY <1>5, <2>1
  <2>2. CASE i # size + 1
    <3>1. i \in 1..size
      BY <1>1, <2>2
    <3> QED
      BY <1>4, <2>2, <3>1 DEF Queued
  <2> QED
    BY <2>1, <2>2
<1> QED
  BY <1>6, <1>8, <1>9

\* A pop takes the first of the queue and leaves the others in order.
LEMMA PopTakesHead ==
  ASSUME Inv, queue_pop
  PROVE  /\ Queued # << >>
         /\ out' = Head(Queued)
         /\ Queued' = Tail(Queued)
<1> USE CapacityAssumption
<1>1. head \in Slots /\ head \in Nat /\ size \in Nat /\ head < QUEUE_CAPACITY
      /\ size <= QUEUE_CAPACITY /\ size > 0
  BY DEF Inv, TypeOK, Slots, queue_pop
<1>2. size' = size - 1 /\ head' = (head + 1) % QUEUE_CAPACITY /\ data' = data
  BY DEF queue_pop
<1>3. \A i \in 1..size : (head + i - 1) % QUEUE_CAPACITY \in Slots
  <2> TAKE i \in 1..size
  <2>1. head + i - 1 \in Nat /\ head + i - 1 < 2 * QUEUE_CAPACITY
    BY <1>1
  <2> QED
    BY <2>1, ModRound DEF Slots
<1>4. Queued \in Seq(Requests) /\ Len(Queued) = size
  <2>1. \A i \in 1..size : data[(head + i - 1) % QUEUE_CAPACITY] \in Requests
    BY <1>3 DEF Inv, TypeOK
  <2> QED
    BY <1>1, <2>1 DEF Queued
<1>5. head % QUEUE_CAPACITY = head /\ head + 1 - 1 = head
  BY <1>1, ModRound
<1>6. Queued[1] = data[head]
  BY <1>1, <1>5 DEF Queued
<1>7. ASSUME NEW i \in 1..(size - 1)
      PROVE  (head' + i - 1) % QUEUE_CAPACITY =
               (head + (i + 1) - 1) % QUEUE_CAPACITY
  <2> DEFINE a == head + (i + 1) - 1
             b == head' + i - 1
  <2>1. head' = IF head + 1 < QUEUE_CAPACITY THEN head + 1 ELSE 0
    BY <1>1, <1>2, NextSlot
  <2>2. a \in Nat /\ a < 2 * QUEUE_CAPACITY
    BY <1>1
  <2>3. b \in Nat /\ b < 2 * QUEUE_CAPACITY
    BY <1>1, <2>1
  <2>4. b = IF head + 1 < QUEUE_CAPACITY THEN a ELSE a - QUEUE_CAPACITY
    BY <1>1, <2>1
  <2>5. a < QUEUE_CAPACITY => head + 1 < QUEUE_CAPACITY
    BY <1>1
  <2> HIDE DEF a, b
  <2>6. /\ a % QUEUE_CAPACITY =
             IF a < QUEUE_CAPACITY THEN a ELSE a - QUEUE_CAPACITY
        /\ b % QUEUE_CAPACITY =
             IF b < QUEUE_CAPACITY THEN b ELSE b - QUEUE_CAPACITY
    BY <2>2, <2>3, ModRound
  <2>7. a % QUEUE_CAPACITY = b % QUEUE_CAPACITY
    BY <2>2, <2>3, <2>4, <2>5, <2>6
  <2> QED
    BY <2>7 DEF a, b
<1>8. Tail(Queued) = [i \in 1..(size - 1) |-> Queued[i + 1]]
  <2>1. Queued # << >>
    BY <1>1, <1>4
  <2>2. Tail(Queued) \in Seq(Requests)
        /\ Len(Tail(Queued)) = size - 1
        /\ (\A i \in 1..(size - 1) : Tail(Queued)[i] = Queued[i + 1])
    BY <1>4, <2>1, HeadTailProperties
  <2>3. Tail(Queued) \in [1..(size - 1) -> Requests]
    BY <2>2, LenProperties
  <2> QED
    BY <2>2, <2>3
<1>9. ASSUME NEW i \in 1..(size - 1)
      PROVE  data'[(head' + i - 1) % QUEUE_CAPACITY] = Queued[i + 1]
  <2>1. i + 1 \in 1..size
    BY <1>1
  <2> QED
    BY <1>2, <1>7, <2>1 DEF Queued
<1>10. Queued' = [i \in 1..(size - 1) |->
                    data'[(head' + i - 1) % QUEUE_CAPACITY]]
  BY <1>2 DEF Queued
<1>11. Queued' = Tail(Queued)
  BY <1>8, <1>9, <1>10
<1> QED
  BY <1>1, <1>4, <1>6, <1>11 DEF queue_pop

----------------------------------------------------------------------------

\* queue_push and queue_pop keep head, tail and size inside the ring.
THEOREM RingCorrect == Spec => []TypeOK
<1>1. Inv => TypeOK
  BY DEF Inv
<1> QED
  BY InvInit, InvStep, <1>1, PTL DEF Spec

\* The edge-triggered engine never sleeps on a request without an eventfd
\* write or an edge still to come.
THEOREM WakeupsKept == Spec => []NoLostWakeup
<1>1. Inv => NoLostWakeup
  BY DEF Inv
<1> QED
  BY InvInit, InvStep, <1>1, PTL DEF Spec

\* The ring buffer of queue.c implements the bounded FIFO queue.
THEOREM QueueIsFIFO == Spec => ImplementsFIFO
<1>1. Init => Abstract!Init
  <2> SUFFICES ASSUME Init PROVE Queued = << >> /\ out \in Requests
    BY DEF Abstract!Init
  <2> QED
    BY DEF Init, Queued
<1>2. Inv /\ [Next]_vars => [Abstract!Next]_<<Queued, out>>
  <2> SUFFICES ASSUME Inv, [Next]_vars
               PROVE  Abstract!Next \/ UNCHANGED <<Queued, out>>
    OBVIOUS
  <2>1. ASSUME NEW req \in Requests, queue_push(req) PROVE Abstract!Next
    <3>1. Queued' = Append(Queued, req)
      BY <2>1, PushAppends
    <3>2. Len(Queued) < QUEUE_CAPACITY
      <4>1. size \in Nat /\ size < QUEUE_CAPACITY
        BY <2>1 DEF Inv, TypeOK, queue_push
      <4> QED
        BY <4>1 DEF Queued
    <3> QED
      BY <2>1, <3>1, <3>2 DEF Abstract!Next, Abstract!Push, queue_push
  <2>2. CASE queue_pop
    BY <2>2, PopTakesHead DEF Abstract!Next, Abstract!Pop
  <2>3. ASSUME UNCHANGED <<data, head, size, out>>
        PROVE  UNCHANGED <<Queued, out>>
    BY <2>3 DEF Queued
  <2>4. CASE Notify \/ Wakeup \/ ReadCounter \/ queue_pop_empty
    BY <2>3, <2>4 DEF Notify, Wakeup, ReadCounter, queue_pop_empty, ring
  <2>5. CASE UNCHANGED vars
    BY <2>3, <2>5 DEF vars
  <2> QED
    BY <2>1, <2>2, <2>4, <2>5 DEF Next, Engine
<1> QED
  BY <1>1, <1>2, InvInit, InvStep, PTL DEF Spec, ImplementsFIFO, Abstract!Spec
=============================================================================
