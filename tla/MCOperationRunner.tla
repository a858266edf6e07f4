------------------------ MODULE MCOperationRunner ------------------------
(* A small instance of OperationRunner for TLC.                            *)
EXTENDS OperationRunner, TLC

CONSTANTS o1, o2, c1, e1, t1

(* Every operation works on one environment.                               *)
MCEnvOf == [o \in {o1, o2, c1} |-> e1]

(* Both entries carry the same leaked token.                               *)
MCSharedToken == [o \in {o1, o2} |-> t1]

RunnerSymmetry == Permutations(Runner)
=============================================================================
