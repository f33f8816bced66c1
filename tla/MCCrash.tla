------------------------------ MODULE MCCrash ------------------------------
(***************************************************************************)
(* Crash with NodeCount nodes, node 1 the coordinator, and ThreadCount     *)
(* threads dealt to the nodes in turn.                                     *)
(***************************************************************************)
EXTENDS Crash

CONSTANTS NodeCount, ThreadCount

MCNodes == 1..NodeCount
MCThreads == 1..ThreadCount
MCNodeOf == [t \in MCThreads |-> 1 + ((t - 1) % NodeCount)]
\* Thread 3 only loads.
MCOps == [t \in MCThreads |-> IF t = 3 THEN {"R"} ELSE {"R", "W"}]
=============================================================================
