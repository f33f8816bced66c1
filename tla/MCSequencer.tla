---------------------------- MODULE MCSequencer ----------------------------
(***************************************************************************)
(* Sequencer with the nodes 1 to NodeCount.                                *)
(***************************************************************************)
EXTENDS Sequencer

CONSTANT NodeCount

MCNodes == 1..NodeCount
=============================================================================
