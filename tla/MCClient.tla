------------------------------ MODULE MCClient ------------------------------
(* The instance of Client that TLC checks. *)
EXTENDS Client

CONSTANTS f1, f2, u1, u2, u3

Foreign(name) == [name |-> name, uri |-> Other, verify |-> FALSE, extra |-> FALSE]
MCFirstRepos  == {<<>>, <<Foreign(Other), Foreign(f1)>>}
MCSymmetry    == Permutations({u1, u2})

\* The two halves share the identity only: uploads begin once the machine is
\* registered and nothing else has happened on it, and nothing else happens then.
OneHalf ==
    \/ \A u \in Uploads : upc[u] = "idle"
    \/ commands = 1 /\ pc = "idle" /\ settings /\ keyring = <<>> /\ orphans = {}
         /\ signing = 1 /\ edits = 0 /\ repos = <<>> /\ tracked = f1
=============================================================================
