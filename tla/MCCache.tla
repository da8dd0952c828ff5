------------------------------ MODULE MCCache ------------------------------
(* Two jobs, one of which needs an entry of the other's. *)
EXTENDS Cache

CONSTANTS k1, k2, j1, j2

MCKeys  == {k1, k2}
MCJobs  == {j1, j2}
MCWants == [j \in MCJobs |-> IF j = j1 THEN {k1, k2} ELSE {k2}]

=============================================================================
