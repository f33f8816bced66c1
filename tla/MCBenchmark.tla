---------------------------- MODULE MCBenchmark ----------------------------
(***************************************************************************)
(* Benchmark on NodeCount nodes, node 1 the coordinator; the thread of a   *)
(* node has the id of the node.                                            *)
(***************************************************************************)
EXTENDS Benchmark

CONSTANT NodeCount

MCNodes == 1..NodeCount
MCNodeOf == [t \in MCNodes |-> t]
MCOps == [t \in MCNodes |-> {"R", "W"}]
=============================================================================
