---------------------------- MODULE Locks_proofs ----------------------------
(***************************************************************************)
(* Proofs about the two locks, for any number of threads or clients, of    *)
(* processes, late and repeated requests, and crashes: the lock file of an *)
(* environment (EnvironmentLock) excludes until a removal race and is up to*)
(* that race the abstract lock of TryLock; the S3 lease of an archive      *)
(* (CoordinationLease) always is.                                          *)
(***************************************************************************)
EXTENDS EnvironmentLock, CoordinationLease, TLAPS

(* A thread inside __enter__ or in the lock belongs to a running process.  *)
BusyRuns == \A a \in Actor : pc[a] # "idle" => Running(a)

(* A file with a live owner was created by a thread that is writing its    *)
(* payload or holds the lock.                                              *)
OwnerHolds == file.owner \in Actor => pc[file.owner] \in {"write", "inside"}

(* The creator that has not finished os.write still owns an empty file.    *)
WriterOwnsFile ==
  ~raced => \A a \in Actor : pc[a] = "write" => file = [owner |-> a, data |-> Empty]

IInv ==
  /\ TypeOK
  /\ BusyRuns
  /\ OwnerHolds
  /\ WriterOwnsFile
  /\ HolderOwnsFile

-----------------------------------------------------------------------------
(* Every step of the lock code keeps the state well typed; the payload is  *)
(* a PID because the thread that writes it is running.                     *)
LEMMA TypeStep == TypeOK /\ BusyRuns /\ [Next]_vars => TypeOK'
<1> SUFFICES ASSUME TypeOK, BusyRuns, [Next]_vars PROVE TypeOK'
  OBVIOUS
<1> USE LockAssumption DEF TypeOK, LockFile, NoFile, Location, GoTo, Refuse, CreateExclusive
<1>1. ASSUME NEW a \in Actor, Start(a) PROVE TypeOK'
  BY <1>1 DEF Start
<1>2. ASSUME NEW a \in Actor, Stop(a) PROVE TypeOK'
  BY <1>2 DEF Stop
<1>3. ASSUME NEW p \in Pid, Crash(p) PROVE TypeOK'
  BY <1>3 DEF Crash
<1>4. ASSUME NEW a \in Actor, Enter(a) PROVE TypeOK'
  BY <1>4 DEF Enter
<1>5. ASSUME NEW a \in Actor, EnterReentrant(a) PROVE TypeOK'
  BY <1>5 DEF EnterReentrant
<1>6. ASSUME NEW a \in Actor, Attempt(a) PROVE TypeOK'
  <2>1. CASE Open(a)
    BY <2>1 DEF Open
  <2>2. CASE WritePayload(a)
    <3>1. CASE file.owner = a
      <4>1. file \in LockFile
        BY <3>1
      <4>2. file' = [owner |-> file.owner, data |-> pid[a]] /\ pid[a] \in Pid
        BY <2>2, <3>1, <4>1 DEF WritePayload, BusyRuns, Running
      <4> QED
        BY <2>2, <4>1, <4>2 DEF WritePayload
    <3>2. CASE file.owner # a
      BY <2>2, <3>2 DEF WritePayload
    <3> QED
      BY <3>1, <3>2
  <2>3. CASE ReadExisting(a)
    BY <2>3 DEF ReadExisting
  <2>4. CASE Probe(a)
    BY <2>4 DEF Probe
  <2>5. CASE UnlinkStale(a)
    BY <2>5 DEF UnlinkStale
  <2>6. CASE Reopen(a)
    BY <2>6 DEF Reopen
  <2> QED
    BY <1>6, <2>1, <2>2, <2>3, <2>4, <2>5, <2>6 DEF Attempt
<1>7. ASSUME NEW a \in Actor, WriteFails(a) PROVE TypeOK'
  BY <1>7 DEF WriteFails
<1>8. ASSUME NEW a \in Actor, ExitReentrant(a) PROVE TypeOK'
  BY <1>8 DEF ExitReentrant
<1>9. ASSUME NEW a \in Actor, Exit(a) PROVE TypeOK'
  BY <1>9 DEF Exit
<1>10. CASE UNCHANGED vars
  BY <1>10 DEF vars
<1> QED
  BY <1>1, <1>2, <1>3, <1>4, <1>5, <1>6, <1>7, <1>8, <1>9, <1>10 DEF Next

(* The ownership facts are inductive: each step re-establishes them for    *)
(* the thread that moved and for the threads it may have disturbed.        *)
LEMMA OwnershipStep == IInv /\ [Next]_vars => IInv'
<1> SUFFICES ASSUME IInv, [Next]_vars PROVE IInv'
  OBVIOUS
<1>0. TypeOK'
  BY TypeStep DEF IInv
<1> USE LockAssumption, <1>0
    DEF IInv, TypeOK, BusyRuns, OwnerHolds, WriterOwnsFile, HolderOwnsFile, LockFile,
        NoFile, Location, GoTo, Refuse, CreateExclusive, Running, Inside
<1>1. ASSUME NEW a \in Actor, Start(a) PROVE IInv'
  BY <1>1 DEF Start
<1>2. ASSUME NEW a \in Actor, Stop(a) PROVE IInv'
  BY <1>2 DEF Stop
<1>3. ASSUME NEW p \in Pid, Crash(p) PROVE IInv'
  <2>1. BusyRuns'
    BY <1>3 DEF Crash
  <2>2. OwnerHolds'
    BY <1>3 DEF Crash
  <2>3. WriterOwnsFile' /\ HolderOwnsFile'
    BY <1>3 DEF Crash
  <2> QED
    BY <2>1, <2>2, <2>3
<1>4. ASSUME NEW a \in Actor, Enter(a) PROVE IInv'
  BY <1>4 DEF Enter
<1>5. ASSUME NEW a \in Actor, EnterReentrant(a) PROVE IInv'
  BY <1>5 DEF EnterReentrant
<1>6. ASSUME NEW a \in Actor, Open(a) PROVE IInv'
  BY <1>6 DEF Open
<1>7. ASSUME NEW a \in Actor, WritePayload(a) PROVE IInv'
  BY <1>7 DEF WritePayload
<1>8. ASSUME NEW a \in Actor, WriteFails(a) PROVE IInv'
  BY <1>8 DEF WriteFails
<1>9. ASSUME NEW a \in Actor, ReadExisting(a) PROVE IInv'
  BY <1>9 DEF ReadExisting
<1>10. ASSUME NEW a \in Actor, Probe(a) PROVE IInv'
  BY <1>10 DEF Probe
<1>11. ASSUME NEW a \in Actor, UnlinkStale(a) PROVE IInv'
  <2>1. BusyRuns' /\ OwnerHolds'
    BY <1>11 DEF UnlinkStale
  <2>2. WriterOwnsFile' /\ HolderOwnsFile'
    <3> SUFFICES ASSUME ~raced' PROVE WriterOwnsFile' /\ HolderOwnsFile'
      OBVIOUS
    <3>1. ~raced /\ file.owner = NoActor
      BY <1>11 DEF UnlinkStale
    <3>2. \A b \in Actor : pc[b] \notin {"write", "inside"}
      BY <3>1
    <3> QED
      BY <1>11, <3>2 DEF UnlinkStale
  <2> QED
    BY <2>1, <2>2
<1>12. ASSUME NEW a \in Actor, Reopen(a) PROVE IInv'
  BY <1>12 DEF Reopen
<1>13. ASSUME NEW a \in Actor, ExitReentrant(a) PROVE IInv'
  BY <1>13 DEF ExitReentrant
<1>14. ASSUME NEW a \in Actor, Exit(a) PROVE IInv'
  BY <1>14 DEF Exit
<1>15. CASE UNCHANGED vars
  BY <1>15 DEF vars
<1> QED
  BY <1>1, <1>2, <1>3, <1>4, <1>5, <1>6, <1>7, <1>8, <1>9, <1>10, <1>11, <1>12,
     <1>13, <1>14, <1>15 DEF Next, Attempt

(* No thread holds anything when the state directory is empty.             *)
LEMMA InitOwnership == Init => IInv
<1> SUFFICES ASSUME Init PROVE IInv
  OBVIOUS
<1>1. TypeOK
  <2>1. 0 \in 0..MaxNest /\ 0 \in 0..MaxCrashes
    BY LockAssumption
  <2>2. nest \in [Actor -> 0..MaxNest]
    BY <2>1 DEF Init
  <2> QED
    BY <2>1, <2>2 DEF Init, TypeOK, Location
<1>2. BusyRuns /\ OwnerHolds /\ WriterOwnsFile /\ HolderOwnsFile
  BY LockAssumption
     DEF Init, BusyRuns, OwnerHolds, WriterOwnsFile, HolderOwnsFile, NoFile, Inside
<1> QED
  BY <1>1, <1>2 DEF IInv

(* The inductive invariant holds in every reachable state.                 *)
THEOREM Ownership == Spec => []IInv
BY InitOwnership, OwnershipStep, PTL DEF Spec

(* Type correctness of the lock model.                                     *)
THEOREM TypeCorrect == Spec => []TypeOK
BY Ownership, PTL DEF IInv

(* The thread inside the lock owns the file on disk and the file names its *)
(* live process, for as long as no live lock was removed as stale          *)
(* (EnvironmentLock.__enter__ and __exit__).                               *)
THEOREM HolderOwnership == Spec => []HolderOwnsFile
BY Ownership, PTL DEF IInv

(* Two threads owning the file would be one thread.                        *)
LEMMA OwnershipExcludes == HolderOwnsFile => ExclusiveUnlessRaced
BY DEF HolderOwnsFile, ExclusiveUnlessRaced, MutualExclusion

(* Mutual exclusion of the environment lock, up to the stale-removal race  *)
(* between _handle_existing's os.kill and its unlink.                      *)
THEOREM Exclusion == Spec => []ExclusiveUnlessRaced
BY HolderOwnership, OwnershipExcludes, PTL
-----------------------------------------------------------------------------
(* A file leaves its owner only in the owner's own exit or failed write.   *)
LEMMA RemovalStep ==
  IInv /\ [Next]_vars =>
    [\A a \in Actor :
       (file.owner = a /\ file'.owner # a /\ ~raced')
         => pc[a] \in {"inside", "write"} /\ pc'[a] = "idle"]_vars
<1> SUFFICES ASSUME IInv, Next, NEW a \in Actor,
                    file.owner = a, file'.owner # a, ~raced'
             PROVE  pc[a] \in {"inside", "write"} /\ pc'[a] = "idle"
  BY DEF vars
<1>1. pc[a] \in {"inside", "write"}
  BY DEF IInv, OwnerHolds
<1>2. IInv'
  BY OwnershipStep
<1>3. pc'[a] \notin {"inside", "write"}
  BY <1>2 DEF IInv, HolderOwnsFile, WriterOwnsFile, Inside
<1>4. pc'[a] \in {"inside", "write", "idle"}
  BY <1>1 DEF Next, Attempt, Start, Stop, Crash, Enter, EnterReentrant, Open, WritePayload,
       WriteFails, ReadExisting, Probe, UnlinkStale, Reopen, ExitReentrant, Exit,
       GoTo, Refuse, CreateExclusive, Inside, IInv, TypeOK
<1> QED
  BY <1>1, <1>3, <1>4

(* The lock file of a running thread disappears only by that thread's own  *)
(* exit: no refused attempt, reentrant exit or other thread removes it.    *)
THEOREM OwnerRemoval == Spec => OnlyOwnerRemoves
BY Ownership, RemovalStep, PTL DEF Spec, OnlyOwnerRemoves

-----------------------------------------------------------------------------
(* Holder is the one thread inside, if any.                                *)
HolderIsInside ==
  /\ \A a \in Actor : Inside(a) => Holder = a
  /\ (\A a \in Actor : ~Inside(a)) => Holder = NoActor

LEMMA HolderValue == IInv /\ ~raced => HolderIsInside
<1> SUFFICES ASSUME IInv, ~raced PROVE HolderIsInside
  OBVIOUS
<1>1. \A a, b \in Actor : Inside(a) /\ Inside(b) => a = b
  BY DEF IInv, HolderOwnsFile
<1> QED
  BY <1>1 DEF Holder, HolderIsInside

(* A step of the lock code takes the lock, gives it back or leaves it with *)
(* the thread that has it.                                                 *)
LEMMA RaceFreeStep ==
  IInv /\ ~raced /\ [Next /\ ~raced']_vars => [Lock!Next]_Holder
<1> SUFFICES ASSUME IInv, ~raced, [Next /\ ~raced']_vars
             PROVE  [Lock!Next]_Holder
  OBVIOUS
<1>1. IInv' /\ ~raced'
  BY OwnershipStep DEF vars
<1>2. HolderIsInside /\ HolderIsInside'
  BY <1>1, HolderValue, PTL
<1>3. ASSUME \A b \in Actor : Inside(b)' <=> Inside(b)
      PROVE  Holder' = Holder
  BY <1>2, <1>3 DEF HolderIsInside
<1>4. ASSUME NEW a \in Actor, ~Inside(a), Inside(a)',
             \A b \in Actor : b # a => (Inside(b)' <=> Inside(b))
      PROVE  Lock!Next
  <2>1. \A b \in Actor : ~Inside(b)
    BY <1>1, <1>4 DEF IInv, HolderOwnsFile
  <2>2. Holder = NoActor /\ Holder' = a
    BY <1>2, <1>4, <2>1 DEF HolderIsInside
  <2> QED
    BY <2>2 DEF Lock!Next, Lock!Take
<1>5. ASSUME NEW a \in Actor, Inside(a), ~Inside(a)',
             \A b \in Actor : Inside(b)' => Inside(b)
      PROVE  Lock!Next
  <2>1. \A b \in Actor : ~Inside(b)'
    BY <1>5 DEF IInv, HolderOwnsFile
  <2>2. Holder = a /\ Holder' = NoActor
    BY <1>2, <1>5, <2>1 DEF HolderIsInside
  <2> QED
    BY <2>2 DEF Lock!Next, Lock!Give
<1> USE DEF IInv, TypeOK, GoTo, Refuse, CreateExclusive, Inside
<1>6. ASSUME NEW a \in Actor, WritePayload(a) PROVE Lock!Next
  BY <1>4, <1>6 DEF WritePayload
<1>7. ASSUME NEW a \in Actor, Exit(a) PROVE Lock!Next
  BY <1>5, <1>7 DEF Exit
<1>8. ASSUME NEW p \in Pid, Crash(p) PROVE [Lock!Next]_Holder
  <2>1. \A b \in Actor : Inside(b)' => Inside(b)
    BY <1>8 DEF Crash
  <2> QED
    BY <1>3, <1>5, <2>1
<1>9. ASSUME NEW a \in Actor,
             \/ Start(a) \/ Stop(a) \/ Enter(a) \/ EnterReentrant(a) \/ Open(a)
             \/ ReadExisting(a) \/ Probe(a) \/ UnlinkStale(a) \/ Reopen(a)
             \/ WriteFails(a) \/ ExitReentrant(a)
      PROVE  Holder' = Holder
  <2>1. \A b \in Actor : Inside(b)' <=> Inside(b)
    BY <1>9 DEF Start, Stop, Enter, EnterReentrant, Open, ReadExisting, Probe,
                UnlinkStale, Reopen, WriteFails, ExitReentrant
  <2> QED
    BY <1>3, <2>1
<1>10. CASE UNCHANGED vars
  BY <1>3, <1>10 DEF vars
<1> QED
  BY <1>6, <1>7, <1>8, <1>9, <1>10 DEF Next, Attempt

(* Removing a lock that is not stale frees the abstract lock for good.     *)
LEMMA LockStep == IInv /\ [Next]_vars => [Lock!Next]_Holder
<1> SUFFICES ASSUME IInv, [Next]_vars PROVE [Lock!Next]_Holder
  OBVIOUS
<1>1. CASE ~raced /\ ~raced'
  BY <1>1, RaceFreeStep DEF vars
<1>2. ASSUME ~raced, raced' PROVE [Lock!Next]_Holder
  <2>1. Holder' = NoActor
    BY <1>2 DEF Holder
  <2>2. HolderIsInside
    BY <1>2, HolderValue
  <2>3. Holder = NoActor \/ Holder \in Actor
    BY <2>2 DEF HolderIsInside
  <2> QED
    BY <2>1, <2>3 DEF Lock!Next, Lock!Give
<1>3. CASE raced
  <2>1. raced \in BOOLEAN
    BY DEF IInv, TypeOK
  <2>2. raced'
    BY <1>3, <2>1 DEF Next, Attempt, vars, Start, Stop, Crash, Enter, EnterReentrant, Open,
         WritePayload, WriteFails, ReadExisting, Probe, UnlinkStale, Reopen, ExitReentrant, Exit
  <2> QED
    BY <1>3, <2>2 DEF Holder
<1> QED
  BY <1>1, <1>2, <1>3

(* Until a live lock is removed as stale, the protocol of os.open, os.kill *)
(* and unlink is, crashes included, the non-blocking lock that             *)
(* operations/engine.py and runner/worker.py are written against.          *)
THEOREM Refinement == Spec => ImplementsTryLock
<1>1. Init => Lock!Init
  BY DEF Init, Lock!Init, Holder, Inside
<1> QED
  BY Ownership, LockStep, <1>1, PTL DEF Spec, ImplementsTryLock, Lock!Spec
-----------------------------------------------------------------------------
(* The lease of a point-in-time-recovery archive                           *)


(* Deletions are requested only by those who have left the guard or by an  *)
(* operator for those who have stopped: the strengthening that makes the   *)
(* ownership of the guarded client inductive.                              *)
StoppedBeforeDelete ==
  /\ \A r \in requests : r.op = "delete" => at[r.etag.owner] \in {"deleted", "done"}
  /\ recovering # NoETag => at[recovering.owner] = "done"

(* A renewal is requested only below the bound on generations.             *)
RenewBounded ==
  /\ \A c \in Client : at[c] = "renew" => lease[c] < MaxGeneration
  /\ \A r \in requests : r.op = "renew" => r.etag.generation < MaxGeneration

LeaseTyped == LeaseTypeOK /\ RenewBounded

LeaseInv == LeaseTyped /\ GuardedOwnsObject /\ StoppedBeforeDelete

USE LeaseAssumption
USE DEF NoLease, LeaseObject, Generation, ETag, NoETag, Request, LeaseLocation, MyETag, Mine, ETagOf

(* What S3 makes of a request is a lease object or none.                   *)
LEMMA ServeTyped ==
  ASSUME LeaseTyped, NEW r \in requests
  PROVE  Serve(r) \in LeaseObject \cup {NoLease}
  BY DEF LeaseTyped, LeaseTypeOK, RenewBounded, Serve, NoneMatches, NextGeneration, Issued

(* One action of a client, S3 or the operator keeps the types and bounds.  *)
LEMMA LeaseStepTyped ==
  ASSUME LeaseTyped, [LeaseNext]_leaseVars
  PROVE  LeaseTyped'
<1> USE DEF LeaseTyped, LeaseTypeOK, RenewBounded, MoveTo
<1>1. CASE UNCHANGED leaseVars
  BY <1>1 DEF leaseVars
<1>2. ASSUME NEW c \in Client, Step(c) PROVE LeaseTyped'
  <2>1. CASE LookFirst(c) BY <2>1 DEF LookFirst
  <2>2. CASE Create(c) BY <2>2 DEF Create, Send
  <2>3. CASE ReadCreated(c) BY <2>3 DEF ReadCreated
  <2>4. CASE AssertLease(c) BY <2>4 DEF AssertLease
  <2>5. CASE Renew(c) BY <2>5 DEF Renew, Send
  <2>6. CASE ReadRenewed(c) BY <2>6 DEF ReadRenewed
  <2>7. CASE CheckRelease(c) BY <2>7 DEF CheckRelease
  <2>8. CASE Delete(c) BY <2>8 DEF Delete, Send
  <2>9. CASE LookDeleted(c) BY <2>9 DEF LookDeleted
  <2> QED BY <1>2, <2>1, <2>2, <2>3, <2>4, <2>5, <2>6, <2>7, <2>8, <2>9 DEF Step
<1>3. ASSUME NEW c \in Client, CrashClient(c) PROVE LeaseTyped'
  BY <1>3 DEF CrashClient
<1>4. ASSUME NEW r \in requests, Served(r) PROVE LeaseTyped'
  BY <1>4, ServeTyped DEF Served
<1>5. CASE Expire
  BY <1>5 DEF Expire
<1>6. CASE Confirm
  BY <1>6 DEF Confirm, Recoverable
<1>7. CASE Recover
  BY <1>7 DEF Recover, Send
<1> QED BY <1>1, <1>2, <1>3, <1>4, <1>5, <1>6, <1>7 DEF LeaseNext

(* The lease object, the requests and the operator's ETag stay well-formed *)
(* (wal_s3.py:1636-2126).                                                  *)
THEOREM LeaseTypeCorrect == LeaseSpec => []LeaseTypeOK
<1>1. LeaseInit => LeaseTyped
  BY DEF LeaseInit, LeaseTyped, LeaseTypeOK, RenewBounded
<1>2. LeaseTyped /\ [LeaseNext]_leaseVars => LeaseTyped'
  BY LeaseStepTyped
<1>3. LeaseTyped => LeaseTypeOK
  BY DEF LeaseTyped
<1> QED BY <1>1, <1>2, <1>3, PTL DEF LeaseSpec

(* One action keeps the guarded client's object and the order of deletions.*)
LEMMA LeaseStepOwned ==
  ASSUME LeaseInv, [LeaseNext]_leaseVars
  PROVE  GuardedOwnsObject' /\ StoppedBeforeDelete'
<1> USE DEF LeaseInv, LeaseTyped, LeaseTypeOK, GuardedOwnsObject, StoppedBeforeDelete, Guarded,
    MoveTo
<1>1. CASE UNCHANGED leaseVars
  BY <1>1 DEF leaseVars
<1>2. ASSUME NEW c \in Client, Step(c) PROVE GuardedOwnsObject' /\ StoppedBeforeDelete'
  <2>1. CASE LookFirst(c) BY <2>1 DEF LookFirst
  <2>2. CASE Create(c) BY <2>2 DEF Create, Send
  <2>3. CASE ReadCreated(c) BY <2>3 DEF ReadCreated
  <2>4. CASE AssertLease(c) BY <2>4 DEF AssertLease
  <2>5. CASE Renew(c) BY <2>5 DEF Renew, Send
  <2>6. CASE ReadRenewed(c) BY <2>6 DEF ReadRenewed
  <2>7. CASE CheckRelease(c) BY <2>7 DEF CheckRelease
  <2>8. CASE Delete(c) BY <2>8 DEF Delete, Send
  <2>9. CASE LookDeleted(c) BY <2>9 DEF LookDeleted
  <2> QED BY <1>2, <2>1, <2>2, <2>3, <2>4, <2>5, <2>6, <2>7, <2>8, <2>9 DEF Step
<1>3. ASSUME NEW c \in Client, CrashClient(c) PROVE GuardedOwnsObject' /\ StoppedBeforeDelete'
  BY <1>3 DEF CrashClient
(* A deletion of a guarded client's lease would be its own, and it is not  *)
(* guarded any more; a creation finds the guarded client's object.         *)
<1>4. ASSUME NEW r \in requests, Served(r) PROVE GuardedOwnsObject' /\ StoppedBeforeDelete'
  <2>1. ASSUME NEW c \in Client, Guarded(c) PROVE Serve(r).owner = c
    <3>1. object.owner = c /\ object # NoLease
      BY <2>1
    <3>2. ~(r.op = "delete" /\ r.etag = ETagOf(object))
      BY <2>1, <3>1
    <3> QED BY <3>1, <3>2 DEF Serve, NoneMatches, Issued
  <2> QED BY <1>4, <2>1 DEF Served
<1>5. CASE Expire
  BY <1>5 DEF Expire
<1>6. CASE Confirm
  BY <1>6 DEF Confirm, Recoverable, OwnerStopped
<1>7. CASE Recover
  BY <1>7 DEF Recover, Send
<1> QED BY <1>1, <1>2, <1>3, <1>4, <1>5, <1>6, <1>7 DEF LeaseNext

(* Whoever is inside the guard has its lease on S3 (services/pitr.py:85).  *)
LEMMA LeaseInvariance == LeaseSpec => []LeaseInv
<1>1. LeaseInit => LeaseInv
  BY DEF LeaseInit, LeaseInv, LeaseTyped, LeaseTypeOK, RenewBounded, GuardedOwnsObject,
      StoppedBeforeDelete, Guarded
<1>2. LeaseInv /\ [LeaseNext]_leaseVars => LeaseInv'
  BY LeaseStepTyped, LeaseStepOwned DEF LeaseInv
<1> QED BY <1>1, <1>2, PTL DEF LeaseSpec

(* No guarded operation loses its lease object to anybody, for any number  *)
(* of clients, crashes, late and repeated requests (wal_s3.py:2022-2126).  *)
THEOREM LeaseOwnership == LeaseSpec => []GuardedOwnsObject
<1>1. LeaseInv => GuardedOwnsObject
  BY DEF LeaseInv
<1> QED BY LeaseInvariance, <1>1, PTL

(* A step moves one client at most.                                        *)
LEMMA OneMoves ==
  ASSUME LeaseTyped, [LeaseNext]_leaseVars
  PROVE  \A c, d \in Client : at'[c] # at[c] /\ at'[d] # at[d] => c = d
<1> USE DEF LeaseTyped, LeaseTypeOK, MoveTo
<1>1. ASSUME NEW c \in Client, Step(c) \/ CrashClient(c)
      PROVE \E l \in LeaseLocation : at' = [at EXCEPT ![c] = l]
  BY <1>1 DEF Step, CrashClient, LookFirst, Create, ReadCreated, AssertLease, Renew, ReadRenewed,
              CheckRelease, Delete, LookDeleted
<1>2. ASSUME NEW r \in requests, Served(r) PROVE at' = at
  BY <1>2 DEF Served
<1>3. CASE Expire \/ Confirm \/ Recover \/ UNCHANGED leaseVars
  BY <1>3 DEF Expire, Confirm, Recover, leaseVars
<1> QED BY <1>1, <1>2, <1>3 DEF LeaseNext

(* The lease is a non-blocking lock: every step of the S3 protocol is a    *)
(* step of TryLock or changes no holder (services/pitr.py:85-121).         *)
THEOREM LeaseRefinement == LeaseSpec => LeaseImplementsTryLock
<1>1. ASSUME LeaseInv, NEW c \in Client, Guarded(c) PROVE LeaseHolder = c
  BY <1>1 DEF LeaseHolder, LeaseInv, GuardedOwnsObject
<1>2. ASSUME LeaseInv, \A c \in Client : ~Guarded(c) PROVE LeaseHolder = NoClient
  BY <1>2 DEF LeaseHolder
<1>3. ASSUME LeaseInv, LeaseInv', NEW c \in Client, Guarded(c)' PROVE LeaseHolder' = c
  BY <1>3 DEF LeaseHolder, LeaseInv, GuardedOwnsObject
<1>4. ASSUME LeaseInv', \A c \in Client : ~Guarded(c)' PROVE LeaseHolder' = NoClient
  BY <1>4 DEF LeaseHolder
<1>5. LeaseInit => LeaseLock!Init
  BY DEF LeaseInit, LeaseLock!Init, LeaseHolder, Guarded
<1>6. ASSUME LeaseInv, LeaseInv', [LeaseNext]_leaseVars PROVE [LeaseLock!Next]_LeaseHolder
  <2>1. CASE \A c \in Client : Guarded(c)' <=> Guarded(c)
    BY <1>1, <1>2, <1>3, <1>4, <1>6, <2>1
  <2>2. ASSUME NEW c \in Client, Guarded(c), ~Guarded(c)' PROVE LeaseLock!Next
    <3>1. \A d \in Client : ~Guarded(d)'
      BY <1>6, <2>2, OneMoves DEF LeaseInv, GuardedOwnsObject, Guarded
    <3>2. LeaseHolder = c /\ LeaseHolder' = NoClient
      BY <1>1, <1>4, <1>6, <2>2, <3>1
    <3> QED BY <3>2 DEF LeaseLock!Next, LeaseLock!Give
  <2>3. ASSUME NEW c \in Client, ~Guarded(c), Guarded(c)' PROVE LeaseLock!Next
    <3>1. \A d \in Client : ~Guarded(d)
      BY <1>6, <2>3, OneMoves DEF LeaseInv, GuardedOwnsObject, Guarded
    <3>2. LeaseHolder = NoClient /\ LeaseHolder' = c
      BY <1>2, <1>3, <1>6, <2>3, <3>1
    <3> QED BY <3>2 DEF LeaseLock!Next, LeaseLock!Take
  <2> QED BY <2>1, <2>2, <2>3
<1> QED BY <1>5, <1>6, LeaseInvariance, PTL DEF LeaseSpec, LeaseImplementsTryLock, LeaseLock!Spec
=============================================================================
