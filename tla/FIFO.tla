-------------------------------- MODULE FIFO --------------------------------
(***************************************************************************)
(* What the page request queue promises: a bounded first-in first-out      *)
(* queue.  out is the request queue_pop returned last.                     *)
(***************************************************************************)
EXTENDS Naturals, Sequences

CONSTANTS Requests, Capacity

VARIABLES q, out

Push(r) == Len(q) < Capacity /\ q' = Append(q, r) /\ UNCHANGED out
Pop == q # << >> /\ out' = Head(q) /\ q' = Tail(q)

Init == q = << >> /\ out \in Requests
Next == Pop \/ \E r \in Requests : Push(r)
Spec == Init /\ [][Next]_<<q, out>>
=============================================================================
