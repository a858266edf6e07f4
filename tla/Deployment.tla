----------------------------- MODULE Deployment -----------------------------
(***************************************************************************)
(* Deploy, promote and code rollback (services/deploy.py,                  *)
(* services/promote.py, commands/rollback.py) over the two runtimes        *)
(* (adapters/docker_compose.py, adapters/kubernetes.py).                   *)
(*                                                                         *)
(* Environments are locked one by one, but share one git worktree.  The    *)
(* history is linear, and a commit is its position.  A Compose service     *)
(* either mounts the code of the worktree, which a process loads when it   *)
(* starts, or runs the image that the compose file of the commit names.    *)
(* Kubernetes workloads run the image of odooctl.yml, which is read when   *)
(* the command starts, from the commit the worktree is at.  Only the       *)
(* schema of a database is kept: the code that last updated its modules.   *)
(***************************************************************************)
EXTENDS KubernetesRollout, Sequences

CONSTANTS
  Env, Protected,   \* environments, and those that are protected
  Source, Target,   \* the environment that promotes_to the other
  Detached,         \* HEAD is not on a branch
  MaxCommit,        \* bound: commits
  MaxRuns,          \* bound: commands started
  MaxFaults,        \* bound: steps that fail
  MaxCrashes        \* bound: commands killed or interrupted

ASSUME DeploymentAssumption ==
  /\ Protected \subseteq Env /\ Source \in Env /\ Target \in Env /\ Detached \notin Env
  /\ MaxCommit \in Nat \ {0} /\ {MaxRuns, MaxFaults, MaxCrashes} \subseteq Nat

VARIABLES
  runtime, strategy, autoRollback,   \* configuration
  origin,     \* [Env -> tip of its branch at the remote]
  local,      \* [Env -> tip of its branch in the worktree]
  branch, detached,   \* HEAD: an environment's branch, or a commit
  work,       \* [Env -> its workload]
  schema,     \* [Env -> code that last updated its database; Mixed when that failed]
  records,    \* [Env -> its deployment records, oldest first]
  op,         \* [Env -> the command that holds its lock]
  runs, faults, crashes

configuration == <<runtime, strategy, autoRollback>>
git == <<local, branch, detached>>
vars == <<configuration, origin, git, work, schema, records, op, runs, faults, crashes>>

-----------------------------------------------------------------------------
Commit == 1..MaxCommit
None == 0
Mixed == 0
Kind == {"none", "deploy", "promote", "rollback"}
Location == {"idle", "backup", "checkout", "pull", "merge", "begin", "update", "promote", "verify",
             "finalize", "cleanup", "undo", "restore", "restart", "reset", "redeploy", "record"}

Mounted == runtime = "compose_mount"
Compose == runtime \in {"compose_mount", "compose_image"}
Rolling == strategy = "rolling"
Progressive == strategy \in {"blue_green", "canary"}

(* supports_rollout of the two adapters.                                   *)
Supported == {"compose_mount", "compose_image"} \X {"recreate"}
  \cup {"kubernetes"} \X {"recreate", "rolling", "blue_green", "canary"}

Idle == [at |-> "idle", kind |-> "none", image |-> None, label |-> None, target |-> None, base |-> None,
         saved |-> None, was |-> {}, prev |-> Stable, revision |-> None, state |-> FALSE,
         promoted |-> FALSE, db |-> FALSE, service |-> FALSE, attempted |-> FALSE, undone |-> FALSE, ok |-> FALSE,
         changed |-> FALSE, missed |-> "no", moved |-> FALSE]

TypeOK ==
  /\ <<runtime, strategy>> \in Supported /\ autoRollback \in BOOLEAN
  /\ origin \in [Env -> Commit] /\ local \in [Env -> Commit]
  /\ branch \in Env \cup {Detached} /\ detached \in Commit
  /\ work \in [Env -> Workload(Commit)]
  /\ schema \in [Env -> Commit \cup {Mixed}]
  /\ \A e \in Env : \A i \in 1..Len(records[e]) :
       records[e][i] \in [commit : Commit, image : Commit, status : {"success", "failed"}]
  /\ \A e \in Env :
       /\ op[e].at \in Location /\ op[e].kind \in Kind
       /\ op[e].state => op[e].revision \in Commit
       /\ op[e].at \in {"promote", "verify", "finalize", "cleanup"} /\ op[e].kind # "rollback" => op[e].db
       /\ op[e].kind = "promote" /\ op[e].at \notin {"idle", "backup"} => op[e].saved # None
  /\ runs \in 0..MaxRuns /\ faults \in 0..MaxFaults /\ crashes \in 0..MaxCrashes

Init ==
  /\ \E s \in Supported : runtime = s[1] /\ strategy = s[2]
  /\ autoRollback \in BOOLEAN
  /\ origin = [e \in Env |-> 1] /\ local = [e \in Env |-> 1]
  /\ branch \in Env /\ detached = 1
  /\ work = [e \in Env |-> [template |-> 1, past |-> NoImage, selector |-> Stable, candidates |-> {}]]
  /\ schema = [e \in Env |-> 1]
  /\ records = [e \in Env |-> <<[commit |-> 1, image |-> 1, status |-> "success"]>>]
  /\ op = [e \in Env |-> Idle]
  /\ runs = 0 /\ faults = 0 /\ crashes = 0

-----------------------------------------------------------------------------
At(e, pc) == op[e].at = pc
Is(e, kind) == op[e].kind = kind
HeadCommit == IF branch = Detached THEN detached ELSE local[branch]
HeadAt(c) ==
  IF branch = Detached THEN detached' = c /\ UNCHANGED <<branch, local>>
  ELSE local' = [local EXCEPT ![branch] = c] /\ UNCHANGED <<branch, detached>>
Later(c, d) == IF c > d THEN c ELSE d

Set(e, new) == op' = [op EXCEPT ![e] = new]
Goto(e, pc) == Set(e, [op[e] EXCEPT !.at = pc])

(* A step that moves the worktree disturbs the commands of the others.     *)
Move(e, new) ==
  op' = [f \in Env |-> IF f = e THEN new
                       ELSE IF op[f].at # "idle" THEN [op[f] EXCEPT !.moved = TRUE] ELSE op[f]]

(* A step fails: deploy and promote recover, a rollback is only recorded.  *)
Recovery(e, o) == [o EXCEPT !.at = IF o.kind = "rollback" THEN "record" ELSE "undo"]
Faulty == faults < MaxFaults /\ faults' = faults + 1

(* What up makes the workload run: a container whose definition is the     *)
(* same is left running.                                                   *)
Brought(e) ==
  IF Compose THEN IF Mounted THEN work[e] ELSE [work[e] EXCEPT !.template = HeadCommit]
  ELSE Up(work[e], op[e].image)

(* restart: a new process of the same container, or of the same image.     *)
RestartedService(e) ==
  IF Compose THEN IF Mounted THEN [work[e] EXCEPT !.template = HeadCommit] ELSE work[e]
  ELSE Restarted(work[e])

(* previous_successful_deployment: the record of the current deployment is *)
(* left aside, whatever its status.                                        *)
PreviousSuccesses(e) == {i \in 1..Len(records[e]) - 1 : records[e][i].status = "success"}
PreviousSuccess(e) ==
  records[e][CHOOSE i \in PreviousSuccesses(e) : \A j \in PreviousSuccesses(e) : j <= i]

-----------------------------------------------------------------------------
(* The image to be recorded is the configured one; that of the deployment  *)
(* it goes back to, for a rollback.                                        *)
Start(e, kind, pc, target, label) ==
  /\ At(e, "idle") /\ runs < MaxRuns
  /\ runs' = runs + 1
  /\ Set(e, [Idle EXCEPT !.at = pc, !.kind = kind, !.image = HeadCommit, !.label = label,
                         !.target = target, !.was = Serving(work[e])])
  /\ UNCHANGED <<configuration, origin, git, work, schema, records, faults, crashes>>

StartDeploy(e) == Start(e, "deploy", IF e \in Protected THEN "backup" ELSE "checkout", None, HeadCommit)

(* check_sync classifies before the command takes the lock: the remote is  *)
(* ahead of the last record, whatever its status.                          *)
Behind(e) == origin[e] > records[e][Len(records[e])].commit
StartSync(e) == Behind(e) /\ StartDeploy(e)

StartPromote == Serving(work[Source]) # {} /\ Start(Target, "promote", "backup", None, HeadCommit)
StartRollback(e) ==
  /\ PreviousSuccesses(e) # {}
  /\ Start(e, "rollback", "checkout", PreviousSuccess(e).commit, PreviousSuccess(e).image)

(* The backup of deploy is inside its try; a promote whose backup fails    *)
(* ends without a record.                                                  *)
Backup(e) ==
  /\ At(e, "backup")
  /\ \/ /\ Set(e, [op[e] EXCEPT !.at = "checkout", !.saved = IF schema[e] = Mixed THEN MaxCommit + 1
                                                              ELSE schema[e]])
        /\ UNCHANGED faults
     \/ /\ Faulty
        /\ IF Is(e, "promote") THEN Set(e, Idle) ELSE Set(e, Recovery(e, op[e]))
  /\ UNCHANGED <<configuration, origin, git, work, schema, records, runs, crashes>>

(* git checkout of the branch, or of the commit to roll back to.           *)
Checkout(e) ==
  /\ At(e, "checkout")
  /\ \/ /\ IF Is(e, "rollback") THEN branch' = Detached /\ detached' = op[e].target
           ELSE branch' = e /\ UNCHANGED detached
        /\ Move(e, [op[e] EXCEPT !.at = CASE Is(e, "deploy") -> "pull"
                                          [] Is(e, "promote") -> "merge"
                                          [] OTHER -> "begin",
                                 !.base = IF Is(e, "promote") THEN local[e] ELSE None])
        /\ UNCHANGED <<local, faults>>
     \/ Faulty /\ Set(e, Recovery(e, op[e])) /\ UNCHANGED git
  /\ UNCHANGED <<configuration, origin, work, schema, records, runs, crashes>>

(* git pull and git merge act on whatever HEAD is on by now; without a     *)
(* branch there is nothing to pull.                                        *)
Pull(e) ==
  /\ At(e, "pull")
  /\ \/ /\ branch # Detached
        /\ HeadAt(Later(HeadCommit, origin[branch]))
        /\ Move(e, [op[e] EXCEPT !.at = "begin", !.service = TRUE])
        /\ UNCHANGED faults
     \/ /\ IF branch = Detached THEN UNCHANGED faults ELSE Faulty
        /\ Set(e, Recovery(e, op[e])) /\ UNCHANGED git
  /\ UNCHANGED <<configuration, origin, work, schema, records, runs, crashes>>

Merge(e) ==
  /\ At(e, "merge")
  /\ \/ HeadAt(Later(HeadCommit, local[Source])) /\ Move(e, [op[e] EXCEPT !.at = "begin"]) /\ UNCHANGED faults
     \/ Faulty /\ Set(e, Recovery(e, op[e])) /\ UNCHANGED git
  /\ UNCHANGED <<configuration, origin, work, schema, records, runs, crashes>>

(* The rollout the adapter returns, or carries in RolloutFailed.           *)
Rollout(e) == [op[e] EXCEPT !.revision = HeadCommit, !.prev = work[e].selector, !.state = TRUE]

(* begin_rollout; up for a rollback.  Without a candidate it is up; a      *)
(* Kubernetes failure carries the state, before anything was applied or    *)
(* after, unless the selector of the Service could not be read.            *)
(* Mutant: a progressive rollout applies the canonical resources as well.  *)
Mutant_Begun(e) ==
  IF Progressive /\ ~Is(e, "rollback") THEN Candidate(Brought(e), HeadCommit, op[e].image) ELSE Brought(e)
Begun(e) ==
  IF Progressive /\ ~Is(e, "rollback") THEN Candidate(work[e], HeadCommit, op[e].image) ELSE Brought(e)

Begin(e) ==
  /\ At(e, "begin")
  /\ \/ /\ work' = [work EXCEPT ![e] = Begun(e)]
        /\ Set(e, IF Is(e, "rollback") THEN [op[e] EXCEPT !.at = "verify"]
                  ELSE [Rollout(e) EXCEPT !.at = "update", !.changed = Begun(e).template # work[e].template])
        /\ UNCHANGED faults
     \/ /\ Faulty
        /\ \E after \in {work[e], Begun(e)} :
             /\ work' = [work EXCEPT ![e] = after]
             /\ Set(e, IF Compose \/ Is(e, "rollback") THEN Recovery(e, op[e])
                       ELSE Recovery(e, [Rollout(e) EXCEPT !.changed = after.template # work[e].template]))
     \/ /\ Progressive /\ ~Is(e, "rollback")
        /\ Faulty /\ Set(e, Recovery(e, op[e])) /\ UNCHANGED work
  /\ UNCHANGED <<configuration, origin, git, schema, records, runs, crashes>>

(* update_modules_compose in the command workload.  From before the update *)
(* the database counts as changed.                                         *)
(* Mutant: it never does.                                                  *)
Mutant_Mutating(o) == o
Mutating(o) == [o EXCEPT !.db = TRUE]

(* Mutant: the canonical workload is the one that runs the update.         *)
Mutant_CommandImage(e) == IF Mounted THEN HeadCommit ELSE work[e].template
CommandImage(e) ==
  IF Mounted THEN HeadCommit ELSE IF Progressive THEN op[e].image ELSE work[e].template

Update(e) ==
  /\ At(e, "update")
  /\ \/ /\ schema' = [schema EXCEPT ![e] = CommandImage(e)]
        /\ Set(e, [Mutating(op[e]) EXCEPT !.at = "promote"])
        /\ UNCHANGED faults
     \/ /\ Faulty
        /\ schema' \in {schema, [schema EXCEPT ![e] = Mixed]}
        /\ Set(e, Recovery(e, Mutating(op[e])))
  /\ UNCHANGED <<configuration, origin, git, work, records, runs, crashes>>

(* promote_rollout, after the check of a canary, which the stable Service  *)
(* may answer.  The answer to a patch may be lost.                         *)
Promoted(e) ==
  IF Progressive THEN Selecting(work[e], CandidateSelector(op[e].revision)) ELSE work[e]

Promote(e) ==
  /\ At(e, "promote")
  /\ \/ /\ work' = [work EXCEPT ![e] = Promoted(e)]
        /\ Set(e, [op[e] EXCEPT !.at = "verify", !.promoted = TRUE])
        /\ UNCHANGED faults
     \/ /\ \/ Faulty /\ work' \in {work, [work EXCEPT ![e] = Promoted(e)]}
           \/ strategy = "canary" /\ Serving(work[e]) = {} /\ UNCHANGED <<work, faults>>
        /\ Set(e, Recovery(e, op[e]))
  /\ UNCHANGED <<configuration, origin, git, schema, records, runs, crashes>>

(* check_url                                                               *)
Verify(e) ==
  /\ At(e, "verify")
  /\ \/ /\ Serving(work[e]) # {}
        /\ IF Is(e, "rollback") \/ ~Progressive THEN Set(e, [op[e] EXCEPT !.at = "record", !.ok = TRUE])
           ELSE Goto(e, "finalize")
        /\ UNCHANGED faults
     \/ /\ IF Serving(work[e]) = {} THEN UNCHANGED faults ELSE Faulty
        /\ Set(e, Recovery(e, op[e]))
  /\ UNCHANGED <<configuration, origin, git, work, schema, records, runs, crashes>>

(* finalize_rollout: the canonical workload converges, then the candidate  *)
(* is deleted.  A failure is recovered from like any other.                *)
Finalize(e) ==
  /\ At(e, "finalize")
  /\ \/ /\ work' = [work EXCEPT ![e] = Brought(e)]
        /\ Set(e, [op[e] EXCEPT !.at = "cleanup", !.changed = TRUE])
        /\ UNCHANGED faults
     \/ /\ Faulty
        /\ \E after \in {work[e], Brought(e)} :
             /\ work' = [work EXCEPT ![e] = after]
             /\ Set(e, Recovery(e, [op[e] EXCEPT !.changed = after # work[e]]))
  /\ UNCHANGED <<configuration, origin, git, schema, records, runs, crashes>>

Cleanup(e) ==
  /\ At(e, "cleanup")
  /\ \/ /\ work' = [work EXCEPT ![e] = Deleted(@, op[e].revision)]
        /\ Set(e, [op[e] EXCEPT !.at = "record", !.ok = TRUE])
        /\ UNCHANGED faults
     \/ Faulty /\ Set(e, Recovery(e, op[e])) /\ UNCHANGED work
  /\ UNCHANGED <<configuration, origin, git, schema, records, runs, crashes>>

-----------------------------------------------------------------------------
(* rollback_rollout                                                        *)
Unselected(e) == IF op[e].promoted THEN Selecting(work[e], op[e].prev) ELSE work[e]

(* Mutant: a rolling rollout is restarted like a recreated one.            *)
Mutant_RolledBack(e) ==
  IF Progressive THEN Deleted(Unselected(e), op[e].revision) ELSE RestartedService(e)
RolledBack(e) ==
  IF Rolling THEN Undone(work[e])
  ELSE IF Progressive THEN Deleted(Unselected(e), op[e].revision)
  ELSE RestartedService(e)

Undo(e) ==
  /\ At(e, "undo")
  /\ IF op[e].state /\ autoRollback
     THEN \/ /\ Rolling => CanUndo(work[e])
             /\ work' = [work EXCEPT ![e] = RolledBack(e)]
             /\ Set(e, [op[e] EXCEPT !.at = "restore", !.attempted = TRUE, !.undone = TRUE])
             /\ UNCHANGED faults
          \/ /\ IF Rolling /\ ~CanUndo(work[e]) THEN UNCHANGED faults ELSE Faulty
             /\ work' \in {work, [work EXCEPT ![e] = IF Progressive THEN Unselected(e) ELSE @]}
             /\ Set(e, [op[e] EXCEPT !.at = "restore", !.attempted = TRUE])
     ELSE Goto(e, "restore") /\ UNCHANGED <<work, faults>>
  /\ UNCHANGED <<configuration, origin, git, schema, records, runs, crashes>>

Decoded(saved) == IF saved > MaxCommit THEN Mixed ELSE saved

(* The backup taken before is restored: by deploy when the database may    *)
(* have changed, by promote in any case.                                   *)
RestoreData(e) ==
  /\ At(e, "restore")
  /\ IF op[e].saved # None /\ (Is(e, "promote") \/ op[e].db)
     THEN \/ /\ schema' = [schema EXCEPT ![e] = Decoded(op[e].saved)]
             /\ Goto(e, "restart") /\ UNCHANGED faults
          \/ Faulty /\ Set(e, [op[e] EXCEPT !.at = "restart", !.missed = "failed"]) /\ UNCHANGED schema
     ELSE Goto(e, "restart") /\ UNCHANGED <<schema, faults>>
  /\ UNCHANGED <<configuration, origin, git, work, records, runs, crashes>>

(* deploy restarts a protected service it may have touched, unless the     *)
(* rollout was rolled back.                                                *)
RestartService(e) ==
  /\ At(e, "restart") /\ Is(e, "deploy")
  /\ IF e \in Protected /\ op[e].service /\ ~op[e].attempted
     THEN \/ work' = [work EXCEPT ![e] = RestartedService(e)] /\ UNCHANGED faults
          \/ Faulty /\ UNCHANGED work
     ELSE UNCHANGED <<work, faults>>
  /\ Goto(e, "record")
  /\ UNCHANGED <<configuration, origin, git, schema, records, runs, crashes>>

(* promote checks the branch out again, resets what HEAD is on by then and *)
(* brings the service up; what fails ends the code rollback.               *)
ResetCheckout(e) ==
  /\ At(e, "restart") /\ Is(e, "promote")
  /\ \/ /\ op[e].base # None
        /\ branch' = e /\ Move(e, [op[e] EXCEPT !.at = "reset"])
        /\ UNCHANGED <<local, detached, faults>>
     \/ /\ IF op[e].base = None THEN UNCHANGED faults ELSE Faulty
        /\ Goto(e, "record") /\ UNCHANGED git
  /\ UNCHANGED <<configuration, origin, work, schema, records, runs, crashes>>

ResetCode(e) ==
  /\ At(e, "reset")
  /\ \/ HeadAt(op[e].base) /\ Move(e, [op[e] EXCEPT !.at = "redeploy"]) /\ UNCHANGED faults
     \/ Faulty /\ Goto(e, "record") /\ UNCHANGED git
  /\ UNCHANGED <<configuration, origin, work, schema, records, runs, crashes>>

Redeploy(e) ==
  /\ At(e, "redeploy")
  /\ \/ work' = [work EXCEPT ![e] = Brought(e)] /\ UNCHANGED faults
     \/ Faulty /\ work' \in {work, [work EXCEPT ![e] = Brought(e)]}
  /\ Goto(e, "record")
  /\ UNCHANGED <<configuration, origin, git, schema, records, runs, crashes>>

(* save_deployment, in the finally of each command: deploy and promote     *)
(* record what HEAD is at by then, a rollback its target.                  *)
Recorded(e) == IF Is(e, "rollback") THEN op[e].target ELSE HeadCommit

Record(e) ==
  /\ At(e, "record")
  /\ records' = [records EXCEPT ![e] =
       Append(@, [commit |-> Recorded(e), image |-> op[e].label,
                  status |-> IF op[e].ok THEN "success" ELSE "failed"])]
  /\ Set(e, Idle)
  /\ UNCHANGED <<configuration, origin, git, work, schema, runs, faults, crashes>>

-----------------------------------------------------------------------------
Push(e) ==
  /\ origin[e] < MaxCommit
  /\ origin' = [origin EXCEPT ![e] = @ + 1]
  /\ UNCHANGED <<configuration, git, work, schema, records, op, runs, faults, crashes>>

(* A KeyboardInterrupt is no Exception: nothing is recovered, but finally  *)
(* still records a failure.  One in the middle of a step is a step that    *)
(* failed and an interrupt before its recovery.                            *)
Interrupt(e) ==
  /\ op[e].at \notin {"idle", "record"} /\ ~(Is(e, "promote") /\ At(e, "backup"))
  /\ crashes < MaxCrashes /\ crashes' = crashes + 1
  /\ Set(e, [op[e] EXCEPT !.at = "record",
                          !.missed = IF op[e].db /\ op[e].at \notin {"restart", "reset", "redeploy"}
                                     THEN "interrupted" ELSE @])
  /\ UNCHANGED <<configuration, origin, git, work, schema, records, runs, faults>>

Crash(e) ==
  /\ ~At(e, "idle") /\ crashes < MaxCrashes
  /\ crashes' = crashes + 1
  /\ Set(e, Idle)
  /\ UNCHANGED <<configuration, origin, git, work, schema, records, runs, faults>>

Next ==
  \/ StartPromote
  \/ \E e \in Env :
       \/ StartDeploy(e) \/ StartSync(e) \/ StartRollback(e)
       \/ Backup(e) \/ Checkout(e) \/ Pull(e) \/ Merge(e)
       \/ Begin(e) \/ Update(e) \/ Promote(e) \/ Verify(e) \/ Finalize(e) \/ Cleanup(e)
       \/ Undo(e) \/ RestoreData(e) \/ RestartService(e) \/ ResetCheckout(e) \/ ResetCode(e) \/ Redeploy(e)
       \/ Record(e) \/ Push(e) \/ Interrupt(e) \/ Crash(e)

Spec == Init /\ [][Next]_vars

-----------------------------------------------------------------------------
Finishing(e) == At(e, "record") /\ op'[e].at = "idle" /\ records'[e] # records[e]

(* A deploy or promote that failed with a backup of its own at hand leaves *)
(* the schema it found, unless the restore failed or an interrupt kept it  *)
(* from being tried.                                                       *)
DataKept == [][\A e \in Env :
  Finishing(e) /\ ~op[e].ok /\ op[e].saved # None /\ op[e].missed = "no"
    => schema[e] = Decoded(op[e].saved)]_vars

(* What is recorded as a success tells what was deployed: the database was *)
(* updated by, and the workload runs, the image recorded on Kubernetes and *)
(* the commit recorded on Compose, unless the command of another           *)
(* environment moved the worktree meanwhile.  A service that mounts the    *)
(* worktree may still run what it loaded before.                           *)
RecordedRuns == [][\A e \in Env :
  Finishing(e) /\ op[e].ok /\ (Compose => ~op[e].moved)
    => LET record == records'[e][Len(records'[e])]
           deployed == IF Compose THEN record.commit ELSE record.image
       IN /\ ~Is(e, "rollback") => schema[e] = deployed
          /\ ~Mounted /\ (Compose \/ ~Is(e, "rollback")) => work[e].template = deployed]_vars

(* A progressive rollout leaves what the Service serves alone until it is  *)
(* promoted, unless it updates the very candidate the Service selects.     *)
Fresh(e) == op[e].prev.revision # op[e].revision
StableUntilPromoted ==
  \A e \in Env : Progressive /\ op[e].state /\ Fresh(e) /\ op[e].at \in {"update", "promote"}
    => Serving(work[e]) = op[e].was

(* What is served after a successful automatic rollback: what was served   *)
(* when the command began, by a rolling rollout that changed the workload, *)
(* which is taken one revision back, and by a progressive one before it    *)
(* switched the Service, or after if that had a revision label before.  A  *)
(* Service without one, whose switch got no answer, or that selected the   *)
(* same candidate, is left without pods; a recreated one is only restarted.*)
Switched(e) == work[e].selector # op[e].prev
Restorable(e) ==
  Fresh(e) /\ (Switched(e) => op[e].promoted /\ op[e].prev.revision # NoRevision)
Returned(e) ==
  CASE Rolling -> IF op[e].changed THEN op[e].was ELSE {work[e].past}
    [] Progressive -> IF Restorable(e) THEN op[e].was ELSE {}
    [] OTHER -> IF Mounted THEN {HeadCommit} ELSE {work[e].template}
RollbackRestores == [][\A e \in Env :
  At(e, "undo") /\ op'[e].undone => Serving(work'[e]) = Returned(e)]_vars

(* What is served is not touched before its time, and every value has its  *)
(* type (deploy_environment).                                              *)
DeploymentInv == TypeOK /\ StableUntilPromoted
=============================================================================
