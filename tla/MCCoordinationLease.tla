------------------------ MODULE MCCoordinationLease ------------------------
(* Small instances of CoordinationLease for TLC.                            *)
EXTENDS CoordinationLease, TLC

Symmetry == Permutations(Client)
=============================================================================
