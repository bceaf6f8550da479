---------------------------- MODULE MCWarehouse ----------------------------
(* Instances of Warehouse for TLC.                                         *)
EXTENDS Warehouse, TLC

\* Runs, mappings and partitions are interchangeable: nothing, the order in
\* which a run processes its mappings included, tells them apart.
StoreSymmetry == Permutations(Runs) \cup Permutations(Mappings) \cup Permutations(Parts)
===========================================================================
