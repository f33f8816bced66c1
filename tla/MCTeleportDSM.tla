--------------------------- MODULE MCTeleportDSM ---------------------------
(***************************************************************************)
(* Instances of TeleportDSM: NodeCount nodes, node 1 the coordinator, and  *)
(* ThreadCount application threads dealt to the nodes in turn, from the    *)
(* coordinator on.                                                         *)
(***************************************************************************)
EXTENDS TeleportDSM

CONSTANTS NodeCount, ThreadCount

MCNodes == 1..NodeCount
MCThreads == 1..ThreadCount
MCNodeOf == [t \in MCThreads |-> 1 + ((t - 1) % NodeCount)]

\* Loads and stores, or stores only.
MCOps == [t \in MCThreads |-> {"R", "W"}]
MCStores == [t \in MCThreads |-> {"W"}]
=============================================================================
