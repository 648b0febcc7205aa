------------------------ MODULE MCPartitionOwnership ------------------------
(* Instances of PartitionOwnership for TLC. *)
EXTENDS PartitionOwnership, TLC

\* Engines and DB workers are interchangeable.
Symmetry == Permutations(Engines) \cup Permutations(DbWorkers)
=============================================================================
