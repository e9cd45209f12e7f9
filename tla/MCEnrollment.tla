---------------------------- MODULE MCEnrollment ----------------------------
(* Enrollment on small instances. *)
EXTENDS Enrollment, TLC

Symmetry == Permutations(Tokens) \cup Permutations(CNs) \cup Permutations(Flavors \ Configured)
            \cup Permutations(Configured) \cup Permutations(Certs) \cup Permutations(Requests)
=============================================================================
