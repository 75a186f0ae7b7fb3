--------------------------- MODULE MCKeyRotation ---------------------------
(* Small instances of KeyRotation for TLC. *)
EXTENDS KeyRotation, TLC

\* Replicas differ only by name.
ReplicaSymmetry == Permutations(Replicas)
=============================================================================
