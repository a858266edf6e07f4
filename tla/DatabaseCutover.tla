-------------------------- MODULE DatabaseCutover --------------------------
(***************************************************************************)
(* The crash-reconcilable cutover of odoo/db_swap.py as services/pitr.py   *)
(* (cutover_restore) drives it: an OID plan is made durable, the target is *)
(* moved aside, the incoming database takes its name, the success is made  *)
(* durable, and only then is the old database dropped.                     *)
(*                                                                         *)
(* A statement may be refused, may fail, or may be executed and its answer *)
(* lost; the process may crash between any two steps; a retry starts from  *)
(* the durable metadata.  An alien client may create a database under the  *)
(* target name while nobody bears it, as an Odoo server does that finds    *)
(* its database missing.                                                   *)
(***************************************************************************)
EXTENDS PostgresCatalog, Naturals

CONSTANTS
  Incoming,     \* OID of the recovered database
  Old,          \* OID of the database being replaced
  Alien,        \* OID of a database somebody else creates
  MaxErrors     \* bound: failed statements, lost answers and crashes

Unplanned == "unplanned"

ASSUME CutoverAssumption ==
  /\ Unplanned \notin {Absent, Incoming, Old, Alien}
  /\ Absent \notin {Incoming, Old, Alien}
  /\ Incoming # Old /\ Incoming # Alien /\ Old # Alien
  /\ MaxErrors \in Nat

VARIABLES
  plan,       \* durable: the target's OID when the cutover was planned
  recorded,   \* durable: metadata.cutover
  finalized,  \* durable: metadata.cutover_finalized
  memo,       \* the plan a process has made and not saved yet
  stage,      \* where cutover_restore is
  errors

cutoverVars == <<db, plan, recorded, finalized, memo, stage, errors>>
durable == <<plan, recorded, finalized>>

PlanOids == {Absent, Old, Alien}
State == {"ready", "aside", "promoted", "finalized", "conflict", "unknown"}
Resting == {"resting", "restored"}
CutoverLocation == Resting \cup {
  "start", "plan", "savePlan", "promote", "terminate", "terminateFailed", "recheck",
  "moveAside", "moveAsideFailed", "moved", "swap", "swapFailed", "rollback",
  "rollbackFailed", "rolledBack", "swapped", "saveCutover", "finalize",
  "terminateAside", "checkAside", "drop", "dropFailed", "dropped", "saveFinalized"}

CutoverTypeOK ==
  /\ db \in [{"incoming", "target", "aside"} -> {Absent, Incoming, Old, Alien}]
  /\ plan \in PlanOids \cup {Unplanned}
  /\ memo \in PlanOids \cup {Unplanned}
  /\ recorded \in BOOLEAN /\ finalized \in BOOLEAN
  /\ stage \in CutoverLocation
  /\ errors \in 0..MaxErrors

(* A verified restore under its new name; the target may not exist.        *)
CutoverInit ==
  /\ \E t \in {Old, Absent} :
       db = [n \in {"incoming", "target", "aside"} |->
               CASE n = "incoming" -> Incoming [] n = "target" -> t [] OTHER -> Absent]
  /\ plan = Unplanned /\ memo = Unplanned
  /\ recorded = FALSE /\ finalized = FALSE
  /\ stage = "resting"
  /\ errors = 0

-----------------------------------------------------------------------------
GoTo(to) == stage' = to /\ UNCHANGED errors
Fault(to) == errors < MaxErrors /\ errors' = errors + 1 /\ stage' = to

(* Mutant: a target that was moved aside is not recognised.                *)
Mutant_Classify ==
  CASE db = [incoming |-> Incoming, target |-> plan, aside |-> Absent] -> "ready"
    [] db = [incoming |-> Absent, target |-> Incoming, aside |-> plan] -> "promoted"
    [] plan # Absent /\ db = [incoming |-> Absent, target |-> Incoming, aside |-> Absent] -> "finalized"
    [] OTHER -> "conflict"

(* reconcile_database_cutover: the state follows from the three OIDs.      *)
Classify ==
  CASE db = [incoming |-> Incoming, target |-> plan, aside |-> Absent] -> "ready"
    [] plan # Absent /\ db = [incoming |-> Incoming, target |-> Absent, aside |-> plan] -> "aside"
    [] db = [incoming |-> Absent, target |-> Incoming, aside |-> plan] -> "promoted"
    [] plan # Absent /\ db = [incoming |-> Absent, target |-> Incoming, aside |-> Absent] -> "finalized"
    [] OTHER -> "conflict"

(* The three OID queries of a reconciliation at "at": "next" gives the next*)
(* location for each state it handles, every other state raises.           *)
Observe(at, next) ==
  /\ stage = at
  /\ \/ GoTo(IF Classify \in DOMAIN next THEN next[Classify] ELSE "resting")
     \/ Fault("resting")
  /\ UNCHANGED <<db, durable, memo>>

(* A statement at "at": done and answered, done with the answer lost,      *)
(* failed, or refused by the server.                                       *)
RenameDatabase(at, from, to, done, failed) ==
  /\ stage = at
  /\ \/ /\ CanRename(from, to)
        /\ db' = Renamed(from, to)
        /\ GoTo(done) \/ Fault(failed)
     \/ /\ UNCHANGED db
        /\ (~CanRename(from, to) /\ GoTo(failed)) \/ Fault(failed)
  /\ UNCHANGED <<durable, memo>>

(* Any exception ends in last_error; so does a crash.                      *)
CrashCutover ==
  /\ stage \notin Resting
  /\ Fault("resting")
  /\ memo' = Unplanned
  /\ UNCHANGED <<db, durable>>

AlienCreates ==
  /\ ~Exists("target")
  /\ Alien \notin Databases
  /\ db' = [db EXCEPT !["target"] = Alien]
  /\ UNCHANGED <<durable, memo, stage, errors>>

-----------------------------------------------------------------------------
(* cutover_restore                                                         *)

BeginCutover ==
  /\ stage \in Resting
  /\ ~finalized
  /\ GoTo("start")
  /\ memo' = Unplanned
  /\ UNCHANGED <<db, durable>>

Resume ==
  /\ stage = "start"
  /\ GoTo(CASE plan = Unplanned -> "plan" [] recorded -> "finalize" [] OTHER -> "promote")
  /\ UNCHANGED <<db, durable, memo>>

TargetOid == db["target"]

(* plan_database_cutover: the OIDs, with the aside name free.              *)
Plan ==
  /\ stage = "plan"
  /\ \/ /\ Exists("incoming") /\ ~Exists("aside")
        /\ memo' = TargetOid
        /\ GoTo("savePlan")
     \/ ~(Exists("incoming") /\ ~Exists("aside")) /\ GoTo("resting") /\ UNCHANGED memo
     \/ Fault("resting") /\ UNCHANGED memo
  /\ UNCHANGED <<db, durable>>

SavePlan ==
  /\ stage = "savePlan"
  /\ plan' = memo
  /\ GoTo("promote")
  /\ UNCHANGED <<db, recorded, finalized, memo>>

SaveCutover ==
  /\ stage = "saveCutover"
  /\ recorded' = TRUE
  /\ GoTo("finalize")
  /\ UNCHANGED <<db, plan, finalized, memo>>

SaveFinalized ==
  /\ stage = "saveFinalized"
  /\ finalized' = TRUE
  /\ GoTo("resting")
  /\ UNCHANGED <<db, plan, recorded, memo>>

-----------------------------------------------------------------------------
(* promote_database_cutover                                                *)

(* Mutant: the old database is dropped before the success is recorded.     *)
Mutant_Done == [promoted |-> "finalize", finalized |-> "finalize"]
Done == [promoted |-> "saveCutover", finalized |-> "saveCutover"]

(* Either of these states is a success, whatever else is handled.          *)
OrDone(next) ==
  [s \in DOMAIN next \cup DOMAIN Done |-> IF s \in DOMAIN next THEN next[s] ELSE Done[s]]

Promote == Observe("promote",
  OrDone([ready |-> IF plan = Absent THEN "swap" ELSE "terminate", aside |-> "swap"]))

Terminate ==
  /\ stage = "terminate"
  /\ GoTo("recheck") \/ Fault("terminateFailed")
  /\ UNCHANGED <<db, durable, memo>>

TerminateFailed == Observe("terminateFailed", Done)

Recheck == Observe("recheck", OrDone([ready |-> "moveAside", aside |-> "swap"]))

MoveTargetAside == RenameDatabase("moveAside", "target", "aside", "moved", "moveAsideFailed")

(* The statement raised; it may have been executed all the same.           *)
MoveAsideFailed == Observe("moveAsideFailed", OrDone([aside |-> "swap"]))

Moved == Observe("moved", OrDone([ready |-> "swap", aside |-> "swap"]))

SwapIncoming == RenameDatabase("swap", "incoming", "target", "swapped", "swapFailed")

(* Mutant: a failed rename with the target aside is taken for a success.   *)
Mutant_AfterSwapFailure == OrDone([aside |-> "saveCutover"])
AfterSwapFailure == OrDone([aside |-> "rollback"])

SwapFailed == Observe("swapFailed", AfterSwapFailure)

(* _restore_old_target_after_failed_promotion                              *)
Rollback == RenameDatabase("rollback", "aside", "target", "rolledBack", "rollbackFailed")

AfterRollbackFailure == OrDone([ready |-> "restored"])

RollbackFailed == Observe("rollbackFailed", AfterRollbackFailure)

RolledBack == Observe("rolledBack", [ready |-> "restored"])

Swapped == Observe("swapped", Done)

-----------------------------------------------------------------------------
(* finalize_database_cutover                                               *)

Finalize == Observe("finalize",
  [promoted |-> IF plan = Absent THEN "saveFinalized" ELSE "terminateAside",
   finalized |-> "saveFinalized"])

TerminateAside ==
  /\ stage = "terminateAside"
  /\ GoTo("checkAside") \/ Fault("resting")
  /\ UNCHANGED <<db, durable, memo>>

CheckAside == Observe("checkAside", [promoted |-> "drop", finalized |-> "saveFinalized"])

DropAside ==
  /\ stage = "drop"
  /\ \/ db' = Dropped("aside") /\ (GoTo("dropped") \/ Fault("dropFailed"))
     \/ UNCHANGED db /\ Fault("dropFailed")
  /\ UNCHANGED <<durable, memo>>

DropFailed == Observe("dropFailed", [finalized |-> "saveFinalized"])

DroppedAside == Observe("dropped", [finalized |-> "saveFinalized"])

-----------------------------------------------------------------------------
CutoverStep ==
  \/ BeginCutover \/ Resume \/ Plan \/ SavePlan \/ SaveCutover \/ SaveFinalized
  \/ Promote \/ Terminate \/ TerminateFailed \/ Recheck \/ MoveTargetAside \/ MoveAsideFailed \/ Moved
  \/ SwapIncoming \/ SwapFailed \/ Rollback \/ RollbackFailed \/ RolledBack \/ Swapped
  \/ Finalize \/ TerminateAside \/ CheckAside \/ DropAside \/ DropFailed \/ DroppedAside

CutoverNext == CutoverStep \/ CrashCutover \/ AlienCreates

CutoverSpec == CutoverInit /\ [][CutoverNext]_cutoverVars

(* The operator repeats the cutover until it is finalized.                 *)
CutoverFairSpec == CutoverSpec /\ WF_cutoverVars(CutoverStep)

-----------------------------------------------------------------------------
(* No database is ever dropped but the one the plan released, and that one *)
(* only after the success is durable: whatever fails, the original or its  *)
(* replacement can be brought back (finalize_database_cutover).            *)
OnlyReleasedDropped ==
  [][\A o \in {Incoming, Old, Alien} :
       o \in Databases /\ o \notin Databases' => o = plan /\ recorded]_cutoverVars

(* The metadata claims a cutover only when the recovered database bears    *)
(* the live name, and claims it finalized only when the old one is gone.   *)
RecordedMeansServing ==
  /\ recorded => db["target"] = Incoming
  /\ finalized => recorded /\ ~Exists("aside")

(* "the original target was restored" is said only of a target that bears  *)
(* its name again.                                                         *)
RestoredMeansServing == stage = "restored" => db["target"] = plan /\ plan # Absent

(* A planned cutover that is retried gets finalized, whatever was lost on  *)
(* the way, unless somebody else has taken the name.                       *)
RetryConverges == (plan # Unplanned) ~> (finalized \/ Alien \in Databases)

(* What the metadata or an error message says of the databases is true,    *)
(* and every value has its type (cutover_restore).                         *)
CutoverInv == CutoverTypeOK /\ RecordedMeansServing /\ RestoredMeansServing
=============================================================================
