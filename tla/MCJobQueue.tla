---------------------------- MODULE MCJobQueue ------------------------------
(* JobQueue on small instances. *)
EXTENDS JobQueue, TLC

Symmetry == Permutations(Jobs) \cup Permutations(Workers)
            \cup Permutations(Handlers) \cup Permutations(Flavors)
=============================================================================
