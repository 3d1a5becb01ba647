---------------------------- MODULE MCKafkaCommit ----------------------------
(* Instances of KafkaCommit for TLC. *)
EXTENDS KafkaCommit, TLC

CONSTANTS p1, p2

Symmetry == Permutations(Parts)
=============================================================================
