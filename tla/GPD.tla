-------------------------------- MODULE GPD --------------------------------
(***************************************************************************)
(* The Global Page Directory of gpd.c, one entry of it: the MSI state, the *)
(* owner and the bitmap of sharers of one page.  Every node of the cluster *)
(* has a directory (all nodes run the same binary); the coordinator's is   *)
(* the authoritative one.                                                  *)
(*                                                                         *)
(* Each transition of gpd.c runs under entry->transaction_lock, so a call  *)
(* is one operator from the old entry to the new one.  The 64-bit bitmap   *)
(* is the set of the node ids whose bit is 1; bit 0 is NoNode.             *)
(***************************************************************************)
EXTENDS FiniteSets

CONSTANTS
  Nodes,    \* ids of the nodes, 1..63 in the code
  NoNode    \* id 0: "unowned"

ASSUME NoNodeAssumption == NoNode \notin Nodes
ASSUME NodesAssumption == IsFiniteSet(Nodes)

MsiState == {"MODIFIED", "SHARED", "INVALID"}

\* gpd_entry_t
Entry == [state : MsiState, owner : Nodes \cup {NoNode},
          sharers : SUBSET Nodes]

\* gpd_init: the entry every page starts with.
gpd_init == [state |-> "INVALID", owner |-> NoNode, sharers |-> {}]

\* Mutant: the old owner is kept as a sharer whatever the state was.
gpd_transition_to_shared_always_old_owner(e, reading_node) ==
  [state   |-> "SHARED",
   owner   |-> NoNode,
   sharers |-> e.sharers \cup {e.owner, reading_node}]

\* gpd_transition_to_shared: the owner, if the page was MODIFIED, becomes
\* a sharer along with the reader.
gpd_transition_to_shared(e, reading_node) ==
  [state   |-> "SHARED",
   owner   |-> NoNode,
   sharers |-> IF e.state = "MODIFIED"
               THEN {e.owner, reading_node}
               ELSE e.sharers \cup {reading_node}]

\* holders_mask of gpd_transition_to_modified: who has a copy, according
\* to the entry.
holders_mask(e) ==
  IF e.state = "MODIFIED" THEN {e.owner} \ {NoNode}
  ELSE IF e.state = "SHARED" THEN e.sharers
  ELSE {}

\* *out_invalidate_mask of gpd_transition_to_modified.
invalidate_mask(e, writing_node) == holders_mask(e) \ {writing_node}

\* Mutant: the bitmap of sharers is not cleared.
gpd_transition_to_modified_keeps_bitmap(e, writing_node) ==
  [e EXCEPT !.state = "MODIFIED", !.owner = writing_node]

\* gpd_transition_to_modified: the entry it leaves behind.
gpd_transition_to_modified(e, writing_node) ==
  [state |-> "MODIFIED", owner |-> writing_node, sharers |-> {}]

\* get_local_msi_state (eviction.c): node n's own view of the page.
get_local_msi_state(e, n) ==
  IF e.state = "MODIFIED" /\ e.owner = n THEN "MODIFIED"
  ELSE IF e.state = "SHARED" /\ n \in e.sharers THEN "SHARED"
  ELSE "INVALID"

\* set_local_msi_state(idx, STATE_INVALID) (eviction.c), its only call.
\* The state of the whole entry becomes INVALID, whoever else shares it.
set_local_msi_state_invalid(e, n) ==
  [state   |-> "INVALID",
   owner   |-> IF e.owner = n THEN NoNode ELSE e.owner,
   sharers |-> e.sharers \ {n}]

=============================================================================
