-------------------------- MODULE MCRemoteBackups --------------------------
(* A small instance of RemoteBackups for TLC.                              *)
EXTENDS RemoteBackups, TLC

(* One tier, configured to zero: nothing but the newest is kept.  Any other*)
(* tier keeps more.                                                        *)
MCTiers == {[keep |-> 0, period |-> [b \in Backup |-> 1]]}

Symmetry == Permutations(Host)
============================================================================
