--------------------------- MODULE MCChrootBuild ---------------------------
(* The instance of ChrootBuild that TLC checks. *)
EXTENDS ChrootBuild

CONSTANTS x, y, z

MCMounts   == <<"dev", "proc">>
MCRequests == {{x}, {y}, {x, z}, {y, z}}
MCSymmetry == Permutations({x, y})
=============================================================================
