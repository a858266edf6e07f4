-------------------------- MODULE OperationRunner --------------------------
(***************************************************************************)
(* The durable operation pipeline of odooctl: the API submits and cancels  *)
(* operations (api/routes_operations.py), the file-backed queue hands them *)
(* to privileged runners (api/queue.py, runner/worker.py), and CLI         *)
(* processes run operations in place (operations/engine.py).  Both kinds   *)
(* of process share the operation records (operations/store.py), the       *)
(* environment locks and the audit trail.                                  *)
(*                                                                         *)
(* Every access to a shared file is a step of its own.  A record is saved  *)
(* by truncating and then writing its file, so a reader may find it torn.  *)
(* The environment lock is the abstract non-blocking lock of TryLock, which*)
(* may refuse at any time; EnvironmentLock shows when the lock file is one.*)
(***************************************************************************)
EXTENDS Naturals, FiniteSets, Sequences

CONSTANTS
  ApiOp,        \* operations submitted through the API
  CliOp,        \* operations run by a CLI process, which the op names too
  Runner,       \* runner processes
  Token,        \* capability tokens, each with its nonce
  EnvOf,        \* [Op -> environment]
  TokenOf,      \* [ApiOp -> Token]: a leaked token may sit in two entries
  Cancellable,  \* operations somebody asks the API to cancel
  NoOp, NoOne,
  Ttl,          \* a token's lifetime
  Retention,    \* NONCE_RETENTION_SECONDS
  MaxTime,      \* bound: the clock
  MaxCrashes    \* bound: process crashes in a behaviour

Op == ApiOp \cup CliOp
Proc == Runner \cup CliOp
Env == {EnvOf[o] : o \in Op}

ASSUME PipelineAssumption ==
  /\ ApiOp \cap CliOp = {}
  /\ Runner \cap Op = {}
  /\ NoOp \notin Op /\ NoOne \notin Proc
  /\ TokenOf \in [ApiOp -> Token]
  /\ Cancellable \subseteq Op
  /\ Ttl \in Nat \ {0} /\ Retention \in Nat /\ MaxTime \in Nat
  /\ MaxCrashes \in Nat

VARIABLES
  record,     \* operation.json of each operation: its status, or torn
  entry,      \* the queue file of each API operation, by its suffix
  now,        \* the clock, read where tokens and nonces are
  expiry,     \* the exp of each token; 0 before it is minted
  nonces,     \* consumed_nonces.json: until when each nonce is kept, 0 if it is not there
  holder,     \* the process inside each environment's lock
  pc,         \* where each process is
  job,        \* the operation a runner has claimed
  writing,    \* the status a process is about to save
  outcome,    \* what became of a process's operation
  cancel,     \* where the cancel request of each operation is
  ran,        \* history: times each operation's body was started
  audited,    \* audit entries of each operation: their outcomes
  orphaned,   \* history: operations whose process died
  seenOff,    \* history: operations CANCELLED on record when claimed
  late,       \* history: tokens consumed when they had expired
  crashes

store == <<record, entry, audited>>
process == <<pc, job, writing, outcome>>
spent == <<now, expiry, nonces, late>>
history == <<ran, orphaned, seenOff, crashes>>
vars == <<store, spent, holder, process, cancel, history>>

Terminal == {"succeeded", "failed", "cancelled"}
Status == {"queued", "running"} \cup Terminal
Outcome == {"none", "rejected", "refused", "failed", "succeeded"}
Location == {"idle", "down", "new", "recheck", "verify", "consume", "load", "truncate",
             "fill", "start", "lock", "body", "unlock", "end", "settle", "audit", "done"}

TypeOK ==
  /\ record \in [Op -> Status \cup {"missing", "torn"}]
  /\ entry \in [ApiOp -> {"none", "pending", "running", "failed", "gone"}]
  /\ now \in 0..MaxTime
  /\ expiry \in [Token -> Nat] /\ nonces \in [Token -> Nat] /\ late \subseteq Token
  /\ holder \in [Env -> Proc \cup {NoOne}]
  /\ pc \in [Proc -> Location]
  /\ job \in [Runner -> ApiOp \cup {NoOp}]
  /\ writing \in [Proc -> Status]
  /\ outcome \in [Proc -> Outcome]
  /\ cancel \in [Op -> {"idle", "checked", "unlinked", "loaded", "truncated", "ok", "refused"}]
  /\ ran \in [Op -> Nat]
  /\ audited \in [Op -> Seq({"failed", "succeeded"})]
  /\ orphaned \subseteq Op /\ seenOff \subseteq ApiOp
  /\ crashes \in 0..MaxCrashes

Init ==
  /\ record = [o \in Op |-> "missing"]
  /\ entry = [o \in ApiOp |-> "none"]
  /\ now = 0 /\ late = {}
  /\ expiry = [t \in Token |-> 0] /\ nonces = [t \in Token |-> 0]
  /\ holder = [e \in Env |-> NoOne]
  /\ pc = [p \in Proc |-> IF p \in Runner THEN "idle" ELSE "new"]
  /\ job = [r \in Runner |-> NoOp]
  /\ writing = [p \in Proc |-> "queued"]
  /\ outcome = [p \in Proc |-> "none"]
  /\ cancel = [o \in Op |-> "idle"]
  /\ ran = [o \in Op |-> 0]
  /\ audited = [o \in Op |-> <<>>]
  /\ orphaned = {} /\ seenOff = {}
  /\ crashes = 0

-----------------------------------------------------------------------------
(* Shared steps                                                            *)

OpOf(p) == IF p \in Runner THEN job[p] ELSE p
GoTo(p, to) == pc' = [pc EXCEPT ![p] = to]
Busy(p) == pc[p] \notin {"idle", "down", "new", "done"}

(* Path.write_text on a file that somebody else wrote since this writer    *)
(* truncated it leaves the longer text's tail behind the shorter one.      *)
Filled(o, v) == IF record[o] = "torn" THEN {v} ELSE {v, "torn"}

Saved(p) == Filled(OpOf(p), writing[p])

(* An exception nobody catches, or a crash: the process is gone, its lock  *)
(* file names a dead PID and is free to the next attempt, its queue entry  *)
(* stays .running and nothing ever picks it up again.                      *)
Die(p) ==
  /\ pc' = [pc EXCEPT ![p] = IF p \in Runner THEN "down" ELSE "done"]
  /\ orphaned' = IF Busy(p) THEN orphaned \cup {OpOf(p)} ELSE orphaned
  /\ holder' = [e \in Env |-> IF holder[e] = p THEN NoOne ELSE holder[e]]
  /\ job' = [r \in Runner |-> IF r = p THEN NoOp ELSE job[r]]
  /\ outcome' = [outcome EXCEPT ![p] = "none"]
  /\ writing' = [writing EXCEPT ![p] = "queued"]

Crash(p) ==
  /\ crashes < MaxCrashes
  /\ pc[p] \notin {"down", "new", "done"}
  /\ crashes' = crashes + 1
  /\ Die(p)
  /\ UNCHANGED <<store, spent, cancel, ran, seenOff>>

(* The service manager starts a fresh runner.                              *)
Restart(r) ==
  /\ pc[r] = "down"
  /\ GoTo(r, "idle")
  /\ UNCHANGED <<store, spent, holder, job, writing, outcome, cancel, history>>

(* OperationStore.update_status: load, then save.  A torn record raises.   *)
LoadRecord(p) ==
  /\ pc[p] = "load"
  /\ \/ /\ record[OpOf(p)] = "torn"
        /\ Die(p)
     \/ /\ record[OpOf(p)] # "torn"
        /\ GoTo(p, "truncate")
        /\ UNCHANGED <<job, writing, outcome, holder, orphaned>>
  /\ UNCHANGED <<store, spent, cancel, ran, seenOff, crashes>>

Truncate(p) ==
  /\ pc[p] = "truncate"
  /\ record' = [record EXCEPT ![OpOf(p)] = "torn"]
  /\ GoTo(p, "fill")
  /\ UNCHANGED <<entry, audited, spent, holder, job, writing, outcome, cancel, history>>

(* After RUNNING comes the start event; a final status is settled; the     *)
(* engine's refused operation still owes its end event.                    *)
AfterFill(p) ==
  CASE writing[p] = "running" -> "start"
    [] outcome[p] = "refused" -> "end"
    [] OTHER -> "settle"

Fill(p) ==
  /\ pc[p] = "fill"
  /\ \E v \in Saved(p) : record' = [record EXCEPT ![OpOf(p)] = v]
  /\ GoTo(p, AfterFill(p))
  /\ UNCHANGED <<entry, audited, spent, holder, job, writing, outcome, cancel, history>>

-----------------------------------------------------------------------------
(* The API                                                                 *)

(* enqueue_operation saves the record before it writes the queue entry.    *)
Submit(o) ==
  /\ record[o] = "missing"
  /\ record' = [record EXCEPT ![o] = "queued"]
  /\ UNCHANGED <<entry, audited, spent, holder, process, cancel, history>>

(* tokens.mint: it expires a lifetime from now.                            *)
Mint(t) == expiry' = IF expiry[t] = 0 THEN [expiry EXCEPT ![t] = now + Ttl] ELSE expiry

Enqueue(o) ==
  /\ record[o] # "missing"
  /\ entry[o] = "none"
  /\ Mint(TokenOf[o])
  /\ entry' = [entry EXCEPT ![o] = "pending"]
  /\ UNCHANGED <<record, audited, now, nonces, late, holder, process, cancel, history>>

CancelTo(o, to) == cancel' = [cancel EXCEPT ![o] = to]

(* cancel_operation: only a QUEUED operation passes the check (409); a     *)
(* torn record is a 500.                                                   *)
CancelCheck(o) ==
  /\ cancel[o] = "idle"
  /\ record[o] # "missing"
  /\ CancelTo(o, IF record[o] = "queued" THEN "checked" ELSE "refused")
  /\ UNCHANGED <<store, spent, holder, process, history>>

CancelUnlink(o) ==
  /\ cancel[o] = "checked"
  /\ entry' = IF o \in ApiOp /\ entry[o] = "pending" THEN [entry EXCEPT ![o] = "gone"] ELSE entry
  /\ CancelTo(o, "unlinked")
  /\ UNCHANGED <<record, audited, spent, holder, process, history>>

CancelLoad(o) ==
  /\ cancel[o] = "unlinked"
  /\ CancelTo(o, IF record[o] = "torn" THEN "refused" ELSE "loaded")
  /\ UNCHANGED <<store, spent, holder, process, history>>

CancelTruncate(o) ==
  /\ cancel[o] = "loaded"
  /\ record' = [record EXCEPT ![o] = "torn"]
  /\ CancelTo(o, "truncated")
  /\ UNCHANGED <<entry, audited, spent, holder, process, history>>

CancelFill(o) ==
  /\ cancel[o] = "truncated"
  /\ \E v \in Filled(o, "cancelled") : record' = [record EXCEPT ![o] = v]
  /\ CancelTo(o, "ok")
  /\ UNCHANGED <<entry, audited, spent, holder, process, history>>

-----------------------------------------------------------------------------
(* The runner: RunnerWorker.claim_and_run and _execute_entry               *)

(* OperationQueue.claim_next: rename .json to .running.                    *)
Claim(r) ==
  /\ pc[r] = "idle"
  /\ \E o \in ApiOp :
       /\ entry[o] = "pending"
       /\ entry' = [entry EXCEPT ![o] = "running"]
       /\ job' = [job EXCEPT ![r] = o]
       /\ seenOff' = IF record[o] = "cancelled" THEN seenOff \cup {o} ELSE seenOff
  /\ outcome' = [outcome EXCEPT ![r] = "none"]
  /\ GoTo(r, "recheck")
  /\ UNCHANGED <<record, audited, spent, holder, writing, cancel, ran, orphaned, crashes>>

Withdrawn(r) == record[job[r]] = "cancelled"

Complete(r) == entry' = [entry EXCEPT ![job[r]] = "gone"]

(* An operation cancelled after the claim is dropped.                      *)
Recheck(r) ==
  /\ pc[r] = "recheck"
  /\ \/ /\ record[job[r]] = "torn"
        /\ Die(r)
        /\ UNCHANGED entry
     \/ /\ Withdrawn(r)
        /\ Complete(r)
        /\ job' = [job EXCEPT ![r] = NoOp]
        /\ GoTo(r, "idle")
        /\ UNCHANGED <<writing, outcome, holder, orphaned>>
     \/ /\ record[job[r]] # "torn" /\ ~Withdrawn(r)
        /\ GoTo(r, "verify")
        /\ UNCHANGED <<entry, job, writing, outcome, holder, orphaned>>
  /\ UNCHANGED <<record, audited, spent, cancel, ran, seenOff, crashes>>

Reject(r) ==
  /\ outcome' = [outcome EXCEPT ![r] = "rejected"]
  /\ writing' = [writing EXCEPT ![r] = "failed"]
  /\ GoTo(r, "load")

Expired(t) == now' >= expiry[t]

(* tokens.verify, then the RBAC floor: the role may have changed since the *)
(* API checked it.  What is verified later could have been verified now.   *)
Verify(r) ==
  /\ pc[r] = "verify"
  /\ UNCHANGED now
  /\ \/ Reject(r)
     \/ ~Expired(TokenOf[job[r]]) /\ GoTo(r, "consume") /\ UNCHANGED <<outcome, writing>>
  /\ UNCHANGED <<store, expiry, nonces, late, holder, job, cancel, history>>

(* _purge: what was kept until before now is forgotten.                    *)
Purged == [t \in Token |-> IF nonces[t] >= now' THEN nonces[t] ELSE 0]

(* Mutant: a nonce is kept for the retention, however long its token lives.*)
Mutant_KeptUntil(t) == now' + Retention
KeptUntil(t) == IF now' + Retention >= expiry[t] THEN now' + Retention ELSE expiry[t]

Consumed(t) == Purged[t] # 0

(* NonceStore.consume: purge, check and mark under one flock; any time has *)
(* passed by then.                                                         *)
Consume(r) ==
  LET t == TokenOf[job[r]] IN
  /\ pc[r] = "consume"
  /\ now' \in now..MaxTime
  /\ \/ /\ Consumed(t)
        /\ Reject(r)
        /\ nonces' = Purged
        /\ UNCHANGED late
     \/ /\ ~Consumed(t)
        /\ nonces' = [Purged EXCEPT ![t] = KeptUntil(t)]
        /\ late' = IF Expired(t) THEN late \cup {t} ELSE late
        /\ writing' = [writing EXCEPT ![r] = "running"]
        /\ GoTo(r, "load")
        /\ UNCHANGED outcome
  /\ UNCHANGED <<store, expiry, holder, job, cancel, history>>

-----------------------------------------------------------------------------
(* The engine: run_operation                                               *)

Create(o) ==
  /\ pc[o] = "new"
  /\ record' = [record EXCEPT ![o] = "queued"]
  /\ GoTo(o, "lock")
  /\ UNCHANGED <<entry, audited, spent, holder, job, writing, outcome, cancel, history>>

-----------------------------------------------------------------------------
(* Execution, by runners (which mark RUNNING before they try the lock) and *)
(* by the engine (which marks it after)                                    *)

(* The runner loads the record again, the engine keeps it in memory; then  *)
(* the start event.                                                        *)
Start(p) ==
  /\ pc[p] = "start"
  /\ \/ /\ p \in Runner /\ record[OpOf(p)] = "torn"
        /\ Die(p)
     \/ /\ p \in Runner => record[OpOf(p)] # "torn"
        /\ GoTo(p, IF p \in Runner THEN "lock" ELSE "body")
        /\ UNCHANGED <<job, writing, outcome, holder, orphaned>>
  /\ UNCHANGED <<store, spent, cancel, ran, seenOff, crashes>>

(* Mutant: the lock file is opened without O_EXCL.                         *)
Mutant_LockFree(p) == TRUE
LockFree(p) == holder[EnvOf[OpOf(p)]] = NoOne

SetHolder(p, to) == holder' = [holder EXCEPT ![EnvOf[OpOf(p)]] = to]

TakeLock(p) ==
  /\ pc[p] = "lock"
  /\ LockFree(p)
  /\ SetHolder(p, p)
  /\ writing' = [writing EXCEPT ![p] = "running"]
  /\ GoTo(p, IF p \in Runner THEN "body" ELSE "truncate")
  /\ UNCHANGED <<store, spent, job, outcome, cancel, history>>

(* Mutant: the engine saves the refused operation without its new status.  *)
Mutant_RefusedStatus(p) == writing[p]
RefusedStatus(p) == "failed"

(* LockAcquisitionError: the runner goes on to its end event, the engine   *)
(* saves FAILED first.                                                     *)
LockRefused(p) ==
  /\ pc[p] = "lock"
  /\ outcome' = [outcome EXCEPT ![p] = IF p \in Runner THEN "failed" ELSE "refused"]
  /\ writing' = [writing EXCEPT ![p] = RefusedStatus(p)]
  /\ GoTo(p, IF p \in Runner THEN "end" ELSE "truncate")
  /\ UNCHANGED <<store, spent, holder, job, cancel, history>>

(* _dispatch, or the engine's with-body: it succeeds or raises.            *)
Body(p) ==
  /\ pc[p] = "body"
  /\ ran' = [ran EXCEPT ![OpOf(p)] = @ + 1]
  /\ \E v \in {"succeeded", "failed"} :
       /\ outcome' = [outcome EXCEPT ![p] = v]
       /\ writing' = [writing EXCEPT ![p] = v]
  /\ GoTo(p, "unlock")
  /\ UNCHANGED <<store, spent, holder, job, cancel, orphaned, seenOff, crashes>>

(* Mutant: the lock is given back only after a success.                    *)
Mutant_GiveBack(p) == IF outcome[p] = "succeeded" THEN SetHolder(p, NoOne) ELSE UNCHANGED holder
GiveBack(p) == SetHolder(p, NoOne)

Unlock(p) ==
  /\ pc[p] = "unlock"
  /\ GiveBack(p)
  /\ GoTo(p, "end")
  /\ UNCHANGED <<store, spent, job, writing, outcome, cancel, history>>

(* The end event.                                                          *)
End(p) ==
  /\ pc[p] = "end"
  /\ GoTo(p, IF outcome[p] = "refused" THEN "audit" ELSE "load")
  /\ UNCHANGED <<store, spent, holder, job, writing, outcome, cancel, history>>

(* A runner goes on to the next entry, a CLI process is done.              *)
LetGo(p) ==
  IF p \in Runner
  THEN GoTo(p, "idle") /\ job' = [job EXCEPT ![p] = NoOp]
  ELSE GoTo(p, "done") /\ UNCHANGED job

(* Mutant: a rejected entry is never renamed to .failed.                   *)
Mutant_SettledAs(p) ==
  CASE outcome[p] = "succeeded" -> "gone"
    [] outcome[p] = "rejected" -> "running"
    [] OTHER -> "failed"
SettledAs(p) == IF outcome[p] = "succeeded" THEN "gone" ELSE "failed"

(* Mutant: only what succeeded is audited.                                 *)
Mutant_IsAudited(p) == outcome[p] = "succeeded"
IsAudited(p) == outcome[p] # "rejected"

(* queue.complete or queue.fail; the engine has no entry.  A rejected      *)
(* entry is not audited.                                                   *)
Settle(p) ==
  /\ pc[p] = "settle"
  /\ entry' = IF p \in Runner
              THEN [entry EXCEPT ![job[p]] = SettledAs(p)]
              ELSE entry
  /\ IF IsAudited(p)
     THEN GoTo(p, "audit") /\ UNCHANGED job
     ELSE LetGo(p)
  /\ UNCHANGED <<record, audited, spent, holder, writing, outcome, cancel, history>>

AuditOutcome(p) == IF outcome[p] = "succeeded" THEN "succeeded" ELSE "failed"

Audit(p) ==
  /\ pc[p] = "audit"
  /\ audited' = [audited EXCEPT ![OpOf(p)] = Append(@, AuditOutcome(p))]
  /\ LetGo(p)
  /\ UNCHANGED <<record, entry, spent, holder, writing, outcome, cancel, history>>

-----------------------------------------------------------------------------
Step(p) ==
  \/ LoadRecord(p) \/ Truncate(p) \/ Fill(p)
  \/ Start(p) \/ TakeLock(p) \/ LockRefused(p) \/ Body(p) \/ Unlock(p)
  \/ End(p) \/ Settle(p) \/ Audit(p)

RunnerStep(r) == Claim(r) \/ Recheck(r) \/ Verify(r) \/ Consume(r) \/ Step(r)

CancelStep(o) == CancelUnlink(o) \/ CancelLoad(o) \/ CancelTruncate(o) \/ CancelFill(o)

Next ==
  \/ \E o \in ApiOp : Submit(o) \/ Enqueue(o)
  \/ \E o \in Cancellable : CancelCheck(o) \/ CancelStep(o)
  \/ \E r \in Runner : RunnerStep(r) \/ Restart(r)
  \/ \E o \in CliOp : Create(o) \/ Step(o)
  \/ \E p \in Proc : Crash(p)

Spec == Init /\ [][Next]_vars

-----------------------------------------------------------------------------
(* Two processes never execute operations of one environment at the same   *)
(* time (worker.py:320-336, engine.py:71-75).                              *)
InBody(p) == pc[p] \in {"body", "unlock"}
ExclusiveExecution ==
  \A p, q \in Proc : InBody(p) /\ InBody(q) /\ EnvOf[OpOf(p)] = EnvOf[OpOf(q)] => p = q

(* A queue entry is in one runner's hands, and a .running file without a   *)
(* runner is left by a dead one: every other entry is settled when its     *)
(* runner lets it go (api/queue.py:105-123).                               *)
ClaimHasOneOwner ==
  /\ \A r, s \in Runner : job[r] # NoOp /\ job[r] = job[s] => r = s
  /\ \A o \in ApiOp : entry[o] = "running" => o \in orphaned \/ \E r \in Runner : job[r] = o

(* A lock is held by a process that is at work on its environment, so no   *)
(* outcome leaves the environment closed (worker.py:320-337).              *)
HeldAtWork ==
  \A e \in Env : holder[e] # NoOne =>
    EnvOf[OpOf(holder[e])] = e /\ pc[holder[e]] \in {"body", "unlock", "truncate", "fill", "start"}

(* One token authorises one execution, however many entries, runners and   *)
(* crashes there are and however long it lives: its nonce is never forgotten*)
(* while it is valid.  Only a runner that is held up between verifying a   *)
(* token and consuming its nonce until the token has expired may find the  *)
(* nonce gone (NonceStore.consume, worker.py:294-309).                     *)
TokenRunsOnce ==
  \A o1, o2 \in ApiOp :
    TokenOf[o1] = TokenOf[o2] /\ TokenOf[o1] \notin late /\ ran[o1] > 0
    => ran[o1] = 1 /\ (ran[o2] > 0 => o1 = o2)

(* An operation that was CANCELLED on record when it was claimed is never  *)
(* executed (worker.py:251-256).                                           *)
CancelledAtClaimNeverRuns == \A o \in seenOff : ran[o] = 0

(* An operation that nobody will touch again, but for its cancellation.    *)
Over(o) ==
  IF o \in CliOp THEN pc[o] = "done"
  ELSE entry[o] \in {"gone", "failed"} /\ \A r \in Runner : job[r] # o

(* The audit trail has one entry of every operation that a CLI process     *)
(* began and of every entry that a runner executed, once they are over and *)
(* whatever came of them, unless their process died before it wrote one    *)
(* (see DiesOnlyOfCancelOrCrash).  It has the outcome the record shows; a  *)
(* cancellation that was let through before may hide that outcome, but not *)
(* turn it into the other (engine.py:65-66, worker.py:339-360).            *)
AuditMatchesRecord ==
  \A o \in Op :
    /\ Over(o) /\ (o \in CliOp \/ ran[o] > 0) => (audited[o] # <<>> <=> o \notin orphaned)
    /\ audited[o] # <<>> =>
         /\ Over(o) /\ Len(audited[o]) = 1
         /\ \/ record[o] = audited[o][1]
            \/ cancel[o] \in {"truncated", "ok"} /\ record[o] \in {"torn", "cancelled"}

(* A record that was read whole stays whole for its owner: a process dies  *)
(* of a torn record only when a cancel request writes the same record.     *)
DiesOnlyOfCancelOrCrash ==
  crashes = 0 => \A o \in orphaned : cancel[o] \in {"truncated", "ok"}

(* Values have their types, locks are given back, what is cancelled before *)
(* its claim never runs, and records kill nobody but by a cancellation.    *)
PipelineInv == TypeOK /\ HeldAtWork /\ CancelledAtClaimNeverRuns /\ DiesOnlyOfCancelOrCrash
=============================================================================
