---------------------------- MODULE PitrRecovery ----------------------------
(***************************************************************************)
(* How execute_restore (services/pitr.py) recovers a database: it downloads*)
(* the base and its WAL, recovers them in a scratch PostgreSQL container   *)
(* without a network (adapters/pitr_runtime.py), dumps the database, takes *)
(* the scratch resources away, and imports the dump into the new database  *)
(* that the plan names.  PitrArchive has all this as one step, Download.   *)
(*                                                                         *)
(* Scratch names are drawn for each execution, the new database is named   *)
(* by the plan: an execution meets what another left under that name.  Any *)
(* call may fail, or be served and its answer lost, a crash leaves what    *)
(* there is, and an interrupt may undo an execution that is verified.      *)
(***************************************************************************)
EXTENDS PitrArchive

VARIABLES
  stage,      \* each host: where in the recovery its execution is
  created,    \* each host: created_database
  scratch,    \* docker: what there is of the latest recovery of each plan
  database,   \* PostgreSQL: the new database of each plan
  interrupted \* history: plans whose last execution was interrupted when it was verified

recovery == <<stage, created, scratch, database, interrupted>>
recoveryVars == <<vars, recovery>>

Stage == {"base", "wal", "download", "validate", "prepare", "fill", "start", "wait", "dump", "cleanup", "abandon", "create", "import", "verify"}
Resource == {"volumes", "container"}

(* What the scratch server may report by its last poll.                    *)
Report == {"paused", "replaying", "promoted", "otherTimeline", "pastTarget", "unreadable"}

RecoveryTypeOK ==
  /\ TypeOK
  /\ stage \in [Host -> Stage]
  /\ \A h \in Host : stage[h] # "base" => pc[h] = "download"
  /\ created \in [Host -> BOOLEAN]
  /\ scratch \in [Plan -> SUBSET Resource]
  /\ database \in [Plan -> {"none", "partial", "recovered", "live"}]
  /\ interrupted \subseteq Plan

RecoveryInit ==
  /\ Init
  /\ stage = [h \in Host |-> "base"]
  /\ created = [h \in Host |-> FALSE]
  /\ scratch = [p \in Plan |-> {}]
  /\ database = [p \in Plan |-> "none"]
  /\ interrupted = {}

-----------------------------------------------------------------------------
Recovering(h, at) == At(h, "download") /\ stage[h] = at
Set(f, x, value) == [f EXCEPT ![x] = value]

(* The execution goes on, or raises.                                       *)
Proceed(h, to) == stage' = Set(stage, h, to) /\ UNCHANGED vars

Raise(h) ==
  /\ stage' = Set(stage, h, "base")
  /\ Go(h, "fail")
  /\ UNCHANGED <<remote, holder, cutoff, local, prompt, crashes>>

FetchBase(h) ==
  /\ Recovering(h, "base")
  /\ created' = Set(created, h, FALSE)
  /\ interrupted' = interrupted \ {job[h]}
  /\ \/ graph[job[h]].base \in bases /\ Proceed(h, "wal")
     \/ Raise(h)
  /\ UNCHANGED <<scratch, database>>

(* Each segment as its receipt has it.                                     *)
FetchWal(h) ==
  /\ Recovering(h, "wal")
  /\ \/ Needed(graph[job[h]].base, graph[job[h]].last) \subseteq wal /\ Proceed(h, "download")
     \/ Raise(h)
  /\ UNCHANGED <<created, scratch, database, interrupted>>

(* The files are those of the base's manifest; "recovering" is saved.      *)
CheckDownload(h) ==
  /\ Recovering(h, "download")
  /\ Proceed(h, "validate") \/ Raise(h)
  /\ UNCHANGED <<created, scratch, database, interrupted>>

-----------------------------------------------------------------------------
(* recover_and_dump: names are drawn for what was validated; whatever      *)
(* raises after this, _cleanup follows.                                    *)
ValidateSpec(h) ==
  /\ Recovering(h, "validate")
  /\ \/ scratch' = Set(scratch, job[h], {}) /\ Proceed(h, "prepare")
     \/ UNCHANGED scratch /\ Raise(h)
  /\ UNCHANGED <<created, database, interrupted>>

(* The image is of the base's major version.                               *)
CreateVolumes(h) ==
  /\ Recovering(h, "prepare")
  /\ \/ scratch' = Set(scratch, job[h], {"volumes"}) /\ Proceed(h, "fill")
     \/ scratch' \in {scratch, Set(scratch, job[h], {"volumes"})} /\ Proceed(h, "abandon")
  /\ UNCHANGED <<created, database, interrupted>>

(* Base and tablespaces; recovery is to pause at the target.               *)
FillVolumes(h) ==
  /\ Recovering(h, "fill")
  /\ Proceed(h, "start") \/ Proceed(h, "abandon")
  /\ UNCHANGED <<created, scratch, database, interrupted>>

StartServer(h) ==
  /\ Recovering(h, "start")
  /\ \/ scratch' = Set(scratch, job[h], Resource) /\ Proceed(h, "wait")
     \/ scratch' \in {scratch, Set(scratch, job[h], Resource)} /\ Proceed(h, "abandon")
  /\ UNCHANGED <<created, database, interrupted>>

WaitForTarget(h) ==
  /\ Recovering(h, "wait")
  /\ \E report \in Report : Proceed(h, IF report = "paused" THEN "dump" ELSE "abandon")
  /\ UNCHANGED <<created, scratch, database, interrupted>>

Dump(h) ==
  /\ Recovering(h, "dump")
  /\ Proceed(h, "cleanup") \/ Proceed(h, "abandon")
  /\ UNCHANGED <<created, scratch, database, interrupted>>

(* Both are tried; volumes in use are not removed.                         *)
Left(resources) == {left \in SUBSET resources : "container" \in left => left = resources}

Clean(left) == left = {}

Cleanup(h) ==
  /\ stage[h] \in {"cleanup", "abandon"}
  /\ \E left \in Left(scratch[job[h]]) :
       /\ scratch' = Set(scratch, job[h], left)
       /\ IF stage[h] = "cleanup" /\ Clean(left) THEN Proceed(h, "create") ELSE Raise(h)
  /\ UNCHANGED <<created, database, interrupted>>

-----------------------------------------------------------------------------
(* Only a database that was not there is created, and only a database that *)
(* this execution knows it created is dropped when it fails.               *)
CreateDatabase(h) ==
  /\ Recovering(h, "create")
  /\ \/ /\ database[job[h]] = "none"
        /\ database' = Set(database, job[h], "partial")
        /\ created' = Set(created, h, TRUE)
        /\ Proceed(h, "import")
     \/ /\ \/ UNCHANGED database
           \/ database[job[h]] = "none" /\ database' = Set(database, job[h], "partial")
        /\ Raise(h)
        /\ UNCHANGED created
  /\ UNCHANGED <<scratch, interrupted>>

(* Mutant: a failed import goes unnoticed.                                 *)
Mutant_Import(h) ==
  /\ Recovering(h, "import")
  /\ database' \in {database, Set(database, job[h], "recovered")} /\ Proceed(h, "verify")
  /\ UNCHANGED <<created, scratch, interrupted>>
Import(h) ==
  /\ Recovering(h, "import")
  /\ \/ database' = Set(database, job[h], "recovered") /\ Proceed(h, "verify")
     \/ UNCHANGED database /\ Raise(h)
  /\ UNCHANGED <<created, scratch, interrupted>>

(* _verify_recovered_database: it answers and has the table of Odoo's      *)
(* modules, which a database imported in part may have.                    *)
Answers(p) == database[p] \in {"partial", "recovered"}

(* The archive's Download ends here.                                       *)
VerifyDatabase(h) ==
  /\ Recovering(h, "verify")
  /\ \/ /\ Answers(job[h])
        /\ stage' = Set(stage, h, "base")
        /\ Go(h, "handoffLease")
        /\ UNCHANGED <<remote, holder, cutoff, local, prompt, crashes>>
     \/ Raise(h)
  /\ UNCHANGED <<created, scratch, database, interrupted>>

(* The drop is tried before the failure is saved.                          *)
DropDatabase(h) ==
  /\ At(h, "fail") /\ created[h]
  /\ database' \in {database, Set(database, job[h], "none")}
  /\ created' = Set(created, h, FALSE)
  /\ UNCHANGED <<vars, stage, scratch, interrupted>>

SaveFailed(h) == Fail(h) /\ ~created[h] /\ UNCHANGED recovery

(* The database of a plan that says "verified" is dropped like any other.  *)
InterruptRecovery(h) ==
  /\ InterruptRelease(h)
  /\ interrupted' = interrupted \cup {job[h]}
  /\ UNCHANGED <<stage, created, scratch, database>>

CutoverDatabase(p) ==
  /\ Cutover(p)
  /\ IF restore[p] = "verified" THEN Answers(p) /\ database' = Set(database, p, "live")
     ELSE UNCHANGED database
  /\ UNCHANGED <<stage, created, scratch, interrupted>>

RecoveryCrash(x) ==
  /\ Crash(x)
  /\ stage' = [h \in Host |-> IF h = x THEN "base" ELSE stage[h]]
  /\ UNCHANGED <<created, scratch, database, interrupted>>

-----------------------------------------------------------------------------
RecoveryStep(h) ==
  \/ FetchBase(h) \/ FetchWal(h) \/ CheckDownload(h)
  \/ ValidateSpec(h) \/ CreateVolumes(h) \/ FillVolumes(h) \/ StartServer(h) \/ WaitForTarget(h) \/ Dump(h) \/ Cleanup(h)
  \/ CreateDatabase(h) \/ Import(h) \/ VerifyDatabase(h)
  \/ DropDatabase(h) \/ SaveFailed(h) \/ InterruptRecovery(h)

RecoveryNext ==
  \/ ArchiveStep /\ UNCHANGED recovery
  \/ \E h \in Host : RecoveryStep(h)
  \/ \E p \in Plan : CutoverDatabase(p)
  \/ \E x \in Process : RecoveryCrash(x)

RecoverySpec == RecoveryInit /\ [][RecoveryNext]_recoveryVars

-----------------------------------------------------------------------------
(* What is fetched, recovered and imported step by step is what the archive*)
(* promised: base and WAL are still there when the recovery is over        *)
(* (execute_restore).                                                      *)
ImplementsArchive == Spec

(* A verified restore left no scratch container or volume behind and its   *)
(* database is complete or gone.  A verified plan has its database, until  *)
(* and after it is live: unless its execution was interrupted, no failure  *)
(* takes it away once the plan says so (recover_and_dump, execute_restore).*)
VerifiedMeansRecovered ==
  \A p \in Plan :
    /\ restore[p] \in {"verified", "cutover", "finalized"} => scratch[p] = {}
    /\ restore[p] = "verified" => database[p] \in {"recovered", "none"}
    /\ plan[p] = "verified" /\ p \notin interrupted =>
         database[p] = IF restore[p] \in {"cutover", "finalized"} THEN "live" ELSE "recovered"

(* Nothing but a completely recovered database is cut over, however many   *)
(* executions failed, were interrupted or crashed, and though the check    *)
(* before it does not tell a part from the whole (cutover_restore).        *)
OnlyRecoveredServed ==
  [][\A p \in Plan : restore'[p] = "cutover" /\ restore[p] # "cutover" => database[p] = "recovered"]_recoveryVars

(* Pins, scratch resources and databases are as the metadata says, and     *)
(* every value has its type (execute_restore).                             *)
RecoveryInv == RecoveryTypeOK /\ RecoveryStatePinned /\ VerifiedMeansRecovered
=============================================================================
