-------------------------- MODULE EnvironmentLock --------------------------
(***************************************************************************)
(* odooctl/operations/locks.py: the lock file of one environment, taken by *)
(* every mutating operation, from CLI processes (operations/engine.py) and *)
(* from runner processes (runner/worker.py).                               *)
(*                                                                         *)
(* The lock is a file created with O_CREAT|O_EXCL that holds the creator's *)
(* PID.  Every system call of an attempt is a step of its own: open, write *)
(* of the payload, read of an existing file, the kill(pid, 0) probe, the   *)
(* unlink of a stale file, the second open.  Processes start, crash and    *)
(* reuse PIDs between any two of them.                                     *)
(***************************************************************************)
EXTENDS Naturals

CONSTANTS
  Actor,        \* OS threads that run operations
  NoActor,      \* no live thread owns the file
  Pid,          \* process identifiers the kernel hands out
  NoPid,        \* the thread's process is not running
  Empty,        \* a lock file whose payload is not written (yet)
  MaxNest,      \* bound: reentrant contexts a thread opens inside the outer one
  MaxCrashes    \* bound: process crashes in a behaviour

ASSUME LockAssumption ==
  /\ NoActor \notin Actor
  /\ NoPid \notin Pid
  /\ Empty \notin Pid
  /\ MaxNest \in Nat
  /\ MaxCrashes \in Nat

VARIABLES
  file,      \* the lock file: [owner, data], or NoFile
  pid,       \* the process each thread runs in
  pc,        \* where each thread is inside __enter__ / __exit__
  nest,      \* reentrant contexts the thread has open (self._reentrant)
  seen,      \* the PID _handle_existing parsed out of the file
  crashes,   \* crashes so far
  raced      \* history: a stale-lock removal hit a lock that was not stale

vars == <<file, pid, pc, nest, seen, crashes, raced>>

NoFile == [owner |-> NoActor, data |-> NoPid]

(* "inside" is the state in which the path is in the thread's held set.    *)
Location == {"idle", "open", "write", "read", "probe", "unlink", "reopen", "inside"}

LockFile == [owner : Actor \cup {NoActor}, data : Pid \cup {Empty}]

TypeOK ==
  /\ file \in LockFile \cup {NoFile}
  /\ pid \in [Actor -> Pid \cup {NoPid}]
  /\ pc \in [Actor -> Location]
  /\ nest \in [Actor -> 0..MaxNest]
  /\ seen \in [Actor -> Pid \cup {NoPid}]
  /\ crashes \in 0..MaxCrashes
  /\ raced \in BOOLEAN

Init ==
  /\ file = NoFile
  /\ pid = [a \in Actor |-> NoPid]
  /\ pc = [a \in Actor |-> "idle"]
  /\ nest = [a \in Actor |-> 0]
  /\ seen = [a \in Actor |-> NoPid]
  /\ crashes = 0
  /\ raced = FALSE

-----------------------------------------------------------------------------
Running(a) == pid[a] # NoPid

(* os.kill(p, 0) succeeds (or is refused with EPERM): p is some process.   *)
Alive(p) == \E b \in Actor : pid[b] = p

Inside(a) == pc[a] = "inside"

GoTo(a, to) == pc' = [pc EXCEPT ![a] = to]

(* LockAcquisitionError: the attempt ends and its caller gives up.         *)
Refuse(a) == GoTo(a, "idle") /\ seen' = [seen EXCEPT ![a] = NoPid]

(* The kernel gives the starting process any PID; one that is alive means  *)
(* that the thread starts inside that process.                             *)
Start(a) ==
  /\ ~Running(a)
  /\ \E p \in Pid : pid' = [pid EXCEPT ![a] = p]
  /\ UNCHANGED <<file, pc, nest, seen, crashes, raced>>

Stop(a) ==
  /\ Running(a)
  /\ pc[a] = "idle"
  /\ pid' = [pid EXCEPT ![a] = NoPid]
  /\ UNCHANGED <<file, pc, nest, seen, crashes, raced>>

(* A process dies with all its threads, at any point; a file it created    *)
(* stays behind.                                                           *)
Crash(p) ==
  /\ crashes < MaxCrashes
  /\ Alive(p)
  /\ crashes' = crashes + 1
  /\ pid' = [a \in Actor |-> IF pid[a] = p THEN NoPid ELSE pid[a]]
  /\ pc' = [a \in Actor |-> IF pid[a] = p THEN "idle" ELSE pc[a]]
  /\ nest' = [a \in Actor |-> IF pid[a] = p THEN 0 ELSE nest[a]]
  /\ seen' = [a \in Actor |-> IF pid[a] = p THEN NoPid ELSE seen[a]]
  /\ file' = IF file.owner # NoActor /\ pid[file.owner] = p
             THEN [file EXCEPT !.owner = NoActor] ELSE file
  /\ UNCHANGED raced

-----------------------------------------------------------------------------
(* __enter__                                                               *)

Enter(a) ==
  /\ Running(a)
  /\ pc[a] = "idle"
  /\ GoTo(a, "open")
  /\ UNCHANGED <<file, pid, nest, seen, crashes, raced>>

EnterReentrant(a) ==
  /\ Inside(a)
  /\ nest[a] < MaxNest
  /\ nest' = [nest EXCEPT ![a] = @ + 1]
  /\ UNCHANGED <<file, pid, pc, seen, crashes, raced>>

(* Mutant: O_EXCL is missing, an existing file is opened and overwritten.  *)
Mutant_CreateShared(a) ==
  /\ file' = [owner |-> a, data |-> Empty]
  /\ GoTo(a, "write")

(* os.open(O_WRONLY | O_CREAT | O_EXCL)                                    *)
CreateExclusive(a) ==
  /\ file = NoFile
  /\ file' = [owner |-> a, data |-> Empty]
  /\ GoTo(a, "write")

Open(a) ==
  /\ pc[a] = "open"
  /\ \/ CreateExclusive(a)
     \/ /\ file # NoFile
        /\ GoTo(a, "read")
        /\ UNCHANGED file
  /\ UNCHANGED <<pid, nest, seen, crashes, raced>>

(* os.write of the payload.  The write reaches the inode the thread opened *)
(* even when somebody has unlinked its name meanwhile.                     *)
WritePayload(a) ==
  /\ pc[a] = "write"
  /\ file' = IF file.owner = a THEN [file EXCEPT !.data = pid[a]] ELSE file
  /\ GoTo(a, "inside")
  /\ seen' = [seen EXCEPT ![a] = NoPid]
  /\ UNCHANGED <<pid, nest, crashes, raced>>

(* os.write raises (disk full): the exception leaves __enter__ before the  *)
(* path joins the held set, and the empty file stays.                      *)
WriteFails(a) ==
  /\ pc[a] = "write"
  /\ file' = IF file.owner = a THEN [file EXCEPT !.owner = NoActor] ELSE file
  /\ Refuse(a)
  /\ UNCHANGED <<pid, nest, crashes, raced>>

(* Mutant: an unreadable lock file is taken for a corrupt one and removed. *)
Mutant_ReadRemovesUnreadable(a) ==
  /\ pc[a] = "read"
  /\ \/ /\ file.data \in Pid
        /\ seen' = [seen EXCEPT ![a] = file.data]
        /\ GoTo(a, "probe")
        /\ UNCHANGED file
     \/ file.data \notin Pid /\ file' = NoFile /\ Refuse(a)
  /\ UNCHANGED <<pid, nest, crashes, raced>>

(* _handle_existing: read_text and json.loads.  A file that is gone or has *)
(* no payload raises LockAcquisitionError.                                 *)
ReadExisting(a) ==
  /\ pc[a] = "read"
  /\ \/ /\ file.data \in Pid
        /\ seen' = [seen EXCEPT ![a] = file.data]
        /\ GoTo(a, "probe")
     \/ file.data \notin Pid /\ Refuse(a)
  /\ UNCHANGED <<file, pid, nest, crashes, raced>>

Probe(a) ==
  /\ pc[a] = "probe"
  /\ \/ Alive(seen[a]) /\ Refuse(a)
     \/ ~Alive(seen[a]) /\ GoTo(a, "unlink") /\ UNCHANGED seen
  /\ UNCHANGED <<file, pid, nest, crashes, raced>>

(* self._path.unlink(missing_ok=True): whatever file has the name now.     *)
UnlinkStale(a) ==
  /\ pc[a] = "unlink"
  /\ file' = NoFile
  /\ raced' = (raced \/ file.owner # NoActor)
  /\ GoTo(a, "reopen")
  /\ UNCHANGED <<pid, nest, seen, crashes>>

(* Mutant: the retry is not marked as one and starts over.                 *)
Mutant_ReopenRetries(a) ==
  /\ pc[a] = "reopen"
  /\ \/ CreateExclusive(a) /\ UNCHANGED seen
     \/ file # NoFile /\ GoTo(a, "read") /\ UNCHANGED <<file, seen>>
  /\ UNCHANGED <<pid, nest, crashes, raced>>

(* _try_create(retried=True): a second FileExistsError is final.           *)
Reopen(a) ==
  /\ pc[a] = "reopen"
  /\ \/ CreateExclusive(a) /\ UNCHANGED seen
     \/ file # NoFile /\ Refuse(a) /\ UNCHANGED file
  /\ UNCHANGED <<pid, nest, crashes, raced>>

-----------------------------------------------------------------------------
(* __exit__                                                                *)

(* Mutant: a reentrant exit releases the file its outer context relies on. *)
Mutant_ReentrantExitUnlinks(a) ==
  /\ Inside(a)
  /\ nest[a] > 0
  /\ nest' = [nest EXCEPT ![a] = @ - 1]
  /\ file' = NoFile
  /\ UNCHANGED <<pid, pc, seen, crashes, raced>>

ExitReentrant(a) ==
  /\ Inside(a)
  /\ nest[a] > 0
  /\ nest' = [nest EXCEPT ![a] = @ - 1]
  /\ UNCHANGED <<file, pid, pc, seen, crashes, raced>>

(* The outer context: discard from the held set, unlink(missing_ok=True).  *)
Exit(a) ==
  /\ Inside(a)
  /\ nest[a] = 0
  /\ file' = NoFile
  /\ GoTo(a, "idle")
  /\ UNCHANGED <<pid, nest, seen, crashes, raced>>

-----------------------------------------------------------------------------
Attempt(a) ==
  \/ Open(a) \/ WritePayload(a) \/ ReadExisting(a) \/ Probe(a)
  \/ UnlinkStale(a) \/ Reopen(a)

Next ==
  \/ \E a \in Actor :
       \/ Start(a) \/ Stop(a)
       \/ Enter(a) \/ EnterReentrant(a)
       \/ Attempt(a) \/ WriteFails(a)
       \/ ExitReentrant(a) \/ Exit(a)
  \/ \E p \in Pid : Crash(p)

Spec == Init /\ [][Next]_vars

(* A thread inside __enter__ keeps running (the operating system schedules *)
(* it); nothing says that an operation ever starts or ends.                *)
FairSpec == Spec /\ \A a \in Actor : WF_vars(Attempt(a))

-----------------------------------------------------------------------------
(* Two threads are never inside the lock of one environment at once: the   *)
(* per-environment exclusion every destructive operation relies on         *)
(* (locks.py:25-29).                                                       *)
MutualExclusion == \A a, b \in Actor : Inside(a) /\ Inside(b) => a = b

(* Exclusion is lost in one way only: a thread that probed a dead PID      *)
(* unlinks a lock that somebody created after the probe.                   *)
ExclusiveUnlessRaced == ~raced => MutualExclusion

(* Until such a race, the thread inside the lock owns the file on disk and *)
(* the file names its process, so a probe finds it alive; neither a        *)
(* reentrant exit nor a refused attempt removes it.                        *)
HolderOwnsFile ==
  ~raced => \A a \in Actor :
              Inside(a) => Running(a) /\ file = [owner |-> a, data |-> pid[a]]

(* The file of a running thread disappears only by that thread's own exit, *)
(* crash or failed write (or by the race above): a reentrant exit and an   *)
(* attempt by anybody else leave it alone.                                 *)
OnlyOwnerRemoves ==
  [][\A a \in Actor :
       (file.owner = a /\ file'.owner # a /\ ~raced')
         => pc[a] \in {"inside", "write"} /\ pc'[a] = "idle"]_vars

(* Every attempt ends: a single retry, so two threads removing stale files *)
(* cannot chase each other for ever.                                       *)
AttemptEnds ==
  \A a \in Actor :
    (pc[a] \in Location \ {"idle", "inside"}) ~> (pc[a] \in {"idle", "inside"})

(* Refinement: until an attempt removes a lock that is not stale, the file *)
(* protocol, crashes included, is the lock its callers rely on.  Such a    *)
(* removal frees the abstract lock, and from then on nothing is claimed.   *)
Holder == IF ~raced /\ \E a \in Actor : Inside(a)
          THEN CHOOSE a \in Actor : Inside(a) ELSE NoActor

Lock == INSTANCE TryLock WITH holder <- Holder

ImplementsTryLock == Lock!Spec
=============================================================================
