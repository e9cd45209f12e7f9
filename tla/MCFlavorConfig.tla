--------------------------- MODULE MCFlavorConfig ---------------------------
(* The instances of FlavorConfig that TLC checks. *)
EXTENDS FlavorConfig, TLC

CONSTANTS m1, m2, a1, a2, r1, r2, make_conf, package_use

MCHolds   == [c \in {a1, a2} |-> {make_conf, package_use}]
MCLayers  == {{make_conf}}
MCByName1 == <<m1>>
MCByName  == <<m1, m2>>

\* After a failure or a restart in a flavor with a layer, no job goes on and the
\* machine has not moved.
FaultBound ==
    faults = 0 \/ layer = {} \/ (~busy /\ \A cn \in CNs : entry[cn] # "elsewhere")

Symmetry  == Permutations({r1, r2}) \cup Permutations({a1, a2})
=============================================================================
