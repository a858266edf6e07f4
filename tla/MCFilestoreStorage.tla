------------------------- MODULE MCFilestoreStorage -------------------------
(* Small instances of FilestoreStorage for TLC.                             *)
EXTENDS FilestoreStorage, TLC

Interchangeable == Permutations(Host) \cup Permutations(Object) \cup Permutations(Migration)
=============================================================================
