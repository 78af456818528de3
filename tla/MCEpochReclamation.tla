-------------------------- MODULE MCEpochReclamation --------------------------
(* Instances of EpochReclamation for TLC.                                   *)
EXTENDS EpochReclamation, TLC

NodeSymmetry == Permutations(Nodes)
FullSymmetry == Permutations(Nodes) \cup Permutations(Threads)
=============================================================================
