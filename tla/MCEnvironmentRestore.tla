------------------------ MODULE MCEnvironmentRestore ------------------------
(* Small instances of EnvironmentRestore for TLC.                           *)
EXTENDS EnvironmentRestore
=============================================================================
