--------------------------- MODULE MCPitrArchive ---------------------------
(* A small instance of PitrArchive for TLC.                                *)
EXTENDS PitrArchive, TLC

CONSTANTS h1, h2, p1, b1, b2

(* Plan and first base are made on one host, the second base on another.   *)
MCHomeOf == (p1 :> h1) @@ (b1 :> h1) @@ (b2 :> h2)

(* One interrupt, but no crashes: PitrRecovery has them on a shorter log.  *)
CrashFreeSpec == Init /\ [][Step]_vars
=============================================================================
