---------------------------- MODULE RequestQueue ----------------------------
(***************************************************************************)
(* The page request queue of queue.c: a ring buffer under a lock, and the  *)
(* eventfd that tells the network engine about new requests.  The producer *)
(* is the fault handler thread, the consumer the engine, which watches the *)
(* eventfd with an edge-triggered epoll and, woken, reads it once and pops *)
(* until the queue is empty.                                               *)
(***************************************************************************)
EXTENDS Integers, Sequences

CONSTANTS
  Requests,         \* page_request_t values
  ZeroRequest,      \* the value of a slot that was never written
  QUEUE_CAPACITY,   \* slots of the ring
  MaxPushes         \* bound: calls of queue_push that find room

ASSUME CapacityAssumption == QUEUE_CAPACITY \in Nat \ {0}
ASSUME PushesAssumption == MaxPushes \in Nat
ASSUME RequestsAssumption == ZeroRequest \in Requests

VARIABLES
  data, head, tail, size,   \* request_queue_t
  notifying,   \* queue_push holds the lock and has still to write the eventfd
  counter,     \* the eventfd's counter
  edge,        \* epoll has an event for the eventfd that was not returned yet
  engine,      \* "wait": in epoll_wait; "read": woken; "pop": popping
  out,         \* the engine's out_req
  pushed, popped   \* how many requests went in and came out

ring == <<data, head, tail, size>>
vars == <<data, head, tail, size, notifying, counter, edge, engine, out,
          pushed, popped>>

Slots == 0..(QUEUE_CAPACITY - 1)

\* The lock is free.
Unlocked == ~notifying

----------------------------------------------------------------------------
(* queue_push, called by the fault handler. *)

\* Mutants: room for one too many; the tail moves before the slot is written;
\* the eventfd is not written (line 29 has the write commented out).
queue_push_overfull(req) ==
  /\ Unlocked
  /\ size <= QUEUE_CAPACITY
  /\ pushed < MaxPushes
  /\ data' = [data EXCEPT ![tail] = req]
  /\ tail' = (tail + 1) % QUEUE_CAPACITY
  /\ size' = size + 1
  /\ notifying' = TRUE
  /\ pushed' = pushed + 1
  /\ UNCHANGED <<head, counter, edge, engine, out, popped>>
queue_push_moves_first(req) ==
  /\ Unlocked
  /\ size < QUEUE_CAPACITY
  /\ pushed < MaxPushes
  /\ data' = [data EXCEPT ![(tail + 1) % QUEUE_CAPACITY] = req]
  /\ tail' = (tail + 1) % QUEUE_CAPACITY
  /\ size' = size + 1
  /\ notifying' = TRUE
  /\ pushed' = pushed + 1
  /\ UNCHANGED <<head, counter, edge, engine, out, popped>>
queue_push_silent(req) ==
  /\ Unlocked
  /\ size < QUEUE_CAPACITY
  /\ pushed < MaxPushes
  /\ data' = [data EXCEPT ![tail] = req]
  /\ tail' = (tail + 1) % QUEUE_CAPACITY
  /\ size' = size + 1
  /\ notifying' = FALSE
  /\ pushed' = pushed + 1
  /\ UNCHANGED <<head, counter, edge, engine, out, popped>>

\* The new request goes to the tail.  A full queue is left as it is (-1).
queue_push(req) ==
  /\ Unlocked
  /\ size < QUEUE_CAPACITY
  /\ pushed < MaxPushes
  /\ data' = [data EXCEPT ![tail] = req]
  /\ tail' = (tail + 1) % QUEUE_CAPACITY
  /\ size' = size + 1
  /\ notifying' = TRUE
  /\ pushed' = pushed + 1
  /\ UNCHANGED <<head, counter, edge, engine, out, popped>>

\* write(q->notify_fd, 1), still under the lock: an edge for epoll.
Notify ==
  /\ notifying
  /\ counter' = counter + 1
  /\ edge' = TRUE
  /\ notifying' = FALSE
  /\ UNCHANGED <<ring, engine, out, pushed, popped>>

----------------------------------------------------------------------------
(* The engine's SESSION_QUEUE event. *)

\* epoll_wait returns the event once per edge, if the eventfd is readable.
Wakeup ==
  /\ engine = "wait"
  /\ edge
  /\ edge' = FALSE
  /\ engine' = IF counter > 0 THEN "read" ELSE "wait"
  /\ UNCHANGED <<ring, notifying, counter, out, pushed, popped>>

\* read(fd, &finished_faults): resets the counter; the requests it counts
\* are not counted by the engine.
ReadCounter ==
  /\ engine = "read"
  /\ engine' = IF counter > 0 THEN "pop" ELSE "wait"
  /\ counter' = 0
  /\ UNCHANGED <<ring, notifying, edge, out, pushed, popped>>

\* Mutant: one request per event instead of all there are.
queue_pop_once ==
  /\ engine = "pop"
  /\ Unlocked
  /\ size > 0
  /\ out' = data[head]
  /\ head' = (head + 1) % QUEUE_CAPACITY
  /\ size' = size - 1
  /\ popped' = popped + 1
  /\ engine' = "wait"
  /\ UNCHANGED <<data, tail, notifying, counter, edge, pushed>>

\* queue_pop returns a request.
queue_pop ==
  /\ engine = "pop"
  /\ Unlocked
  /\ size > 0
  /\ out' = data[head]
  /\ head' = (head + 1) % QUEUE_CAPACITY
  /\ size' = size - 1
  /\ popped' = popped + 1
  /\ UNCHANGED <<data, tail, notifying, counter, edge, engine, pushed>>

\* queue_pop returns -1: back to epoll_wait.
queue_pop_empty ==
  /\ engine = "pop"
  /\ Unlocked
  /\ size = 0
  /\ engine' = "wait"
  /\ UNCHANGED <<ring, notifying, counter, edge, out, pushed, popped>>

----------------------------------------------------------------------------

Init ==
  /\ data = [i \in Slots |-> ZeroRequest]
  /\ head = 0 /\ tail = 0 /\ size = 0
  /\ notifying = FALSE
  /\ counter = 0 /\ edge = FALSE
  /\ engine = "wait"
  /\ out \in Requests
  /\ pushed = 0 /\ popped = 0

Engine == Wakeup \/ ReadCounter \/ queue_pop \/ queue_pop_empty
Next == Notify \/ Engine \/ \E req \in Requests : queue_push(req)

Spec == Init /\ [][Next]_vars

\* The thread inside queue_push and the engine keep running.
FairSpec == Spec /\ WF_vars(Notify) /\ WF_vars(Engine)

----------------------------------------------------------------------------
(* Properties. *)

\* The indices stay inside the ring and the size never exceeds it.
TypeOK ==
  /\ data \in [Slots -> Requests]
  /\ head \in Slots /\ tail \in Slots
  /\ size \in 0..QUEUE_CAPACITY
  /\ notifying \in BOOLEAN /\ edge \in BOOLEAN
  /\ counter \in Nat
  /\ engine \in {"wait", "read", "pop"}
  /\ out \in Requests
  /\ pushed \in Nat /\ popped \in Nat

\* No wakeup is lost: when the engine sleeps and requests are in the queue,
\* either the push is still going to write the eventfd or epoll has an edge
\* to deliver on a readable eventfd.  Several pushes may share one edge.
NoLostWakeup ==
  engine = "wait" /\ size > 0 => notifying \/ (edge /\ counter > 0)

\* Every request that was accepted is handed to the engine.
EveryRequestPopped ==
  \A k \in 1..MaxPushes : pushed >= k ~> popped >= k

\* The queue as a sequence, oldest request first.
Queued == [i \in 1..size |-> data[(head + i - 1) % QUEUE_CAPACITY]]

\* The ring implements the abstract queue: what comes out is what went in,
\* in order, whatever the positions of head and tail.
Abstract == INSTANCE FIFO WITH q <- Queued, Capacity <- QUEUE_CAPACITY
ImplementsFIFO == Abstract!Spec
=============================================================================
