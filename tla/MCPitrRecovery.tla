--------------------------- MODULE MCPitrRecovery ---------------------------
(* A small instance of PitrRecovery for TLC.                               *)
EXTENDS PitrRecovery, TLC

CONSTANTS h1, h2, p1, b1, b2

(* The plan is made on one host, the bases on another.                     *)
MCHomeOf == [x \in Plan \cup Base |-> IF x \in Plan THEN h1 ELSE h2]

(* Bound: with one base and one segment, where retention has nothing to    *)
(* delete, whatever happens to the plan, on either host,                   *)
Short == stamp[2] = 0 /\ endWal[b2] = 0 /\ job[h2] # b2

(* and with both bases and segments, its first execution, without a crash, *)
(* while the host that knows of the plan by its pin only retains.          *)
FirstExecution ==
  /\ crashes = 0 /\ earlier = {} /\ plan[p1] # "failed"
  /\ restore[p1] \notin {"cutover", "finalized"}
  /\ pc[h1] \notin {"retentionLease", "finalize"}

BoundedSpec == RecoveryInit /\ [][RecoveryNext /\ (Short \/ FirstExecution)']_recoveryVars
=============================================================================
