------------------------- MODULE MCDatabaseCutover -------------------------
(* A small instance of DatabaseCutover for TLC.                            *)
EXTENDS DatabaseCutover
=============================================================================
