-------------------------------- MODULE MSI --------------------------------
(***************************************************************************)
(* What the coherence protocol promises about one page: at any moment one  *)
(* node has a writable copy and nobody else any copy, or any number of     *)
(* nodes have read-only copies.                                            *)
(***************************************************************************)
CONSTANT Nodes
VARIABLE copy   \* node: "MODIFIED", "SHARED" or "INVALID"

Others(n) == Nodes \ {n}

Init == copy = [n \in Nodes |-> "INVALID"]

\* A node gets a copy to read when nobody may write.
Share(n) ==
  /\ \A m \in Others(n) : copy[m] # "MODIFIED"
  /\ copy' = [copy EXCEPT ![n] = "SHARED"]

\* A node gets a copy to write when nobody else has one.
Own(n) ==
  /\ \A m \in Others(n) : copy[m] = "INVALID"
  /\ copy' = [copy EXCEPT ![n] = "MODIFIED"]

Drop(n) == copy' = [copy EXCEPT ![n] = "INVALID"]

Next == \E n \in Nodes : Share(n) \/ Own(n) \/ Drop(n)

Spec == Init /\ [][Next]_copy
=============================================================================
