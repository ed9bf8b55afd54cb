---------------------------- MODULE MCGeneration ----------------------------
(* Small instances of Generation for TLC. *)
EXTENDS Generation, TLC

Symmetry == Permutations(Artifact) \cup Permutations(Job)
                \cup Permutations(Worker) \cup Permutations(Session)
=============================================================================
