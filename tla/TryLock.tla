------------------------------ MODULE TryLock ------------------------------
(***************************************************************************)
(* What a caller of odooctl's per-environment lock relies on: a non-       *)
(* blocking lock.  A thread either takes the free lock or is refused at    *)
(* once (a refusal changes nothing, so it is a stuttering step), and only  *)
(* the thread that holds the lock gives it back.                           *)
(***************************************************************************)

CONSTANTS Actor,     \* threads that may take the lock
          NoActor    \* the lock is free

VARIABLE holder

Init == holder = NoActor

Take(a) == holder = NoActor /\ holder' = a

Give(a) == holder = a /\ holder' = NoActor

Next == \E a \in Actor : Take(a) \/ Give(a)

Spec == Init /\ [][Next]_holder
=============================================================================
