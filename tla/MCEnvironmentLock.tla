------------------------- MODULE MCEnvironmentLock -------------------------
(* Small instances of EnvironmentLock for TLC.                             *)
EXTENDS EnvironmentLock, TLC

(* Threads are interchangeable, and so are process identifiers.            *)
Symmetry == Permutations(Actor) \cup Permutations(Pid)
=============================================================================
