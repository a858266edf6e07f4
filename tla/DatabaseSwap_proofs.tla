------------------------ MODULE DatabaseSwap_proofs ------------------------
(***************************************************************************)
(* Proofs about the two ways a database is replaced, for any number of     *)
(* runs, failed statements, lost answers and crashes: a run of clone or    *)
(* restore (EnvironmentRestore), and the durable cutover of a recovered    *)
(* database (DatabaseCutover).                                             *)
(***************************************************************************)
EXTENDS EnvironmentRestore, DatabaseCutover, TLAPS

(* Where a run fills its temporary database, and where that is ready and   *)
(* the environment is replaced by it.                                      *)
Filling == {"restoreDump", "native", "profile", "custom", "verify"}
Preparing == {"choose", "validate", "probe", "prepare"} \cup Filling
Swapping == {"existsAside", "dropStale", "existsTarget", "moveAside", "swap"}
Replacing == {"readArchive", "removeFilestore", "moveFilestore"} \cup Swapping
Dropping == {"existsForDrop", "drop"}
Restoring == {"existsForRestore", "restore"}

(* A database that may be served.                                          *)
Ready(n) == n \in prepared /\ live[n] \cap must[n] = {}

(* What is or was live is ready; a run fills a database of its own.        *)
DatabasesInv ==
  /\ \A n \in Name : Exists(n) => db[n] \in 0..run
  /\ \A n \in {"target", "aside"} : Exists(n) => Ready(db[n])
  /\ pc \in Preparing \cup Replacing =>
       run # Original /\ db["target"] # run /\ db["aside"] # run
  /\ pc \in Filling \cup Replacing => db["temp"] = run
  /\ pc \in Replacing => Ready(run)
  /\ filestore # Original => \E n \in 1..run : n \in prepared

(* What the run has promised for it, and what it has switched off.         *)
PromiseInv ==
  /\ pc \in Preparing =>
       must[run] = IF job.profile = "none" THEN {}
                   ELSE Promised(job.profile, job.switches, job.custom)
  /\ pc \in {"native", "profile", "custom", "verify"} => job.profile # "none"
  /\ pc = "custom" => job.custom
  /\ pc = "verify" /\ ~job.custom => live[run] \cap ProfileOff(job.profile, job.switches) = {}

(* The backup of a run is valid once it was validated.                     *)
Validated(j) ==
  j.kind \in {"restore", "restoreTo"} =>
    j.backup \in [project : {"ours"}, environment : {"named"} \cup
                   (IF j.kind = "restore" THEN {} ELSE {"other"}), whole : {TRUE}]
BackupInv == pc \notin {"choose", "validate"} => Validated(job)

(* What the catalog looks like inside swap_temp_database.                  *)
SwapInv ==
  /\ pc \in {"existsTarget", "moveAside"} => ~Exists("aside")
  /\ pc = "moveAside" => Exists("target") /\ existed
  /\ pc = "swap" => ~Exists("target")
  /\ pc \in {"swap"} \cup Dropping => (Exists("aside") <=> existed)
  /\ pc \in Dropping => db["target"] = run
  /\ pc \in Restoring => Exists("aside")

(* A run that has met no fault so far.                                     *)
CleanInv ==
  clean =>
    /\ pc \in Swapping \cup Dropping => filestore = run
    /\ pc \notin Restoring
    /\ pc = "resting" => db["target"] = run /\ filestore = run /\ ~Exists("aside")

(* With one failure at most, the target is away only during the swap.      *)
KeptInv ==
  OneFailure =>
    /\ pc \notin {"swap"} \cup Restoring => Exists("target")
    /\ pc = "swap" => existed
    /\ pc \in Restoring => failed = 1 /\ ~Exists("target")

(* The inductive invariant.                                                *)
IInv ==
  /\ TypeOK
  /\ DatabasesInv /\ PromiseInv /\ BackupInv
  /\ SwapInv /\ CleanInv /\ KeptInv

-----------------------------------------------------------------------------
(* Types                                                                   *)

(* Of one or two directories, one sorts last.                              *)
LEMMA Sorted ==
  ASSUME NEW S \in SUBSET {1, 2}, S # {}
  PROVE  Max(S) \in S
<1>1. \E x \in S : \A y \in S : x >= y
  <2>1. CASE 2 \in S
    BY <2>1
  <2>2. CASE 2 \notin S
    <3>1. S = {1}
      BY <2>2
    <3> QED BY <3>1
  <2> QED BY <2>1, <2>2
<1> QED BY <1>1 DEF Max

(* What is found is a backup directory.                                    *)
LEMMA Found ==
  ASSUME NEW dir \in Directories, NEW asked \in 0..2
  PROVE  Resolve(dir, asked, FALSE) \in Manifest \cup {NoBackup}
<1>1. PICK k \in 0..2 : dir \in [1..k -> Manifest]
  BY DEF Directories
<1>2. DOMAIN dir \subseteq {1, 2}
  BY <1>1
<1> DEFINE own == {i \in DOMAIN dir : ~FALSE \/ dir[i].project = "ours"}
<1>3. CASE asked \notin DOMAIN dir /\ own # {}
  <2>1. Max(own) \in DOMAIN dir
    BY <1>2, <1>3, Sorted
  <2>2. Resolve(dir, asked, FALSE) = dir[Max(own)]
    BY <1>3 DEF Resolve
  <2> QED BY <1>1, <2>1, <2>2
<1>4. CASE asked \in DOMAIN dir
  <2>1. Resolve(dir, asked, FALSE) = dir[asked]
    BY <1>4 DEF Resolve
  <2> QED BY <1>1, <1>4, <2>1
<1>5. CASE asked \notin DOMAIN dir /\ own = {}
  <2>1. Resolve(dir, asked, FALSE) = NoBackup
    BY <1>5 DEF Resolve
  <2> QED BY <2>1
<1> QED BY <1>3, <1>4, <1>5

(* The fields of a job take the values of their types.                     *)
LEMMA JobTypes ==
  ASSUME NEW j \in Job
  PROVE  /\ NoJob \in Job
         /\ [NoJob EXCEPT !.kind = j.kind, !.backup = j.backup] \in Job
         /\ \A v \in BOOLEAN : [j EXCEPT !.volume = v] \in Job
         /\ \A b \in Manifest : [j EXCEPT !.backup = b] \in Job
         /\ \A c \in {"supported", "unsupported", "disabled"} : [j EXCEPT !.capability = c] \in Job
BY DEF Job, NoJob, Manifest, NoBackup, Profile

(* Renaming and dropping move databases among the names.                   *)
LEMMA CatalogTypes ==
  ASSUME TypeOK, NEW m \in Name, NEW n \in Name
  PROVE  /\ Renamed(m, n) \in [Name -> 0..MaxRuns \cup {Absent}]
         /\ Dropped(n) \in [Name -> 0..MaxRuns \cup {Absent}]
BY DEF TypeOK, Renamed, Dropped

(* What a run that begins is asked for, and what it promises.              *)
Asked(kind, protected, custom, profile, switches) ==
  /\ kind \in {"restore", "restoreTo", "clone"} /\ protected \in BOOLEAN /\ custom \in BOOLEAN
  /\ profile \in Profile \cup {"none"} /\ switches \in SUBSET (Checked \cup Unchecked)
  /\ \/ pc' = "resting" /\ clean' = FALSE /\ job' = NoJob
     \/ /\ protected => profile # "none"
        /\ pc' = (IF kind = "clone" THEN AfterValidation(profile) ELSE "choose")
        /\ clean' = TRUE
        /\ job' = [NoJob EXCEPT !.kind = kind, !.profile = profile,
                                !.switches = IF profile = "none" THEN {} ELSE switches,
                                !.custom = custom]
  /\ must' = [n \in 0..MaxRuns |->
               IF n = run + 1 /\ (protected \/ profile # "none")
               THEN Promised(IF profile = "none" THEN "normal" ELSE profile, switches, custom)
               ELSE IF n \in Databases THEN must[n] ELSE {}]

LEMMA BeginAsked ==
  ASSUME Begin
  PROVE  \E kind, protected, custom, profile, switches :
           Asked(kind, protected, custom, profile, switches)
<1>1. PICK kind \in {"restore", "restoreTo", "clone"}, protected, custom \in BOOLEAN,
           profile \in Profile \cup {"none"}, switches \in SUBSET (Checked \cup Unchecked) :
        /\ kind = "restore" => (~protected /\ profile = "none")
        /\ kind = "restoreTo" => profile \in {"none"} \cup (IF protected THEN {"normal"} ELSE {})
        /\ profile = "none" => ~custom
        /\ IF Refused(kind, protected, profile)
           THEN pc' = "resting" /\ clean' = FALSE /\ job' = NoJob
           ELSE /\ pc' = IF kind = "clone" THEN AfterValidation(profile) ELSE "choose"
                /\ clean' = TRUE
                /\ job' = [NoJob EXCEPT !.kind = kind, !.profile = profile,
                                        !.switches = IF profile = "none" THEN {} ELSE switches,
                                        !.custom = custom]
        /\ must' = [n \in 0..MaxRuns |->
                      IF n = run + 1 /\ (protected \/ profile # "none")
                      THEN Promised(IF profile = "none" THEN "normal" ELSE profile, switches, custom)
                      ELSE IF n \in Databases THEN must[n] ELSE {}]
  BY DEF Begin
<1>2. Asked(kind, protected, custom, profile, switches)
  BY <1>1 DEF Asked, Refused
<1> QED BY <1>2

LEMMA BeginTyped ==
  ASSUME TypeOK, Begin
  PROVE  TypeOK'
<1>0. run \in Nat /\ run + 1 \in 0..MaxRuns /\ run' = run + 1 /\ existed' = FALSE
  BY RestoreAssumption DEF TypeOK, Begin
<1>1. PICK kind, protected, custom, profile, switches : Asked(kind, protected, custom, profile, switches)
  BY BeginAsked
<1>2. pc' \in Location /\ pc' \notin {"existsForRestore", "restore", "drop"} /\ clean' \in BOOLEAN
  BY <1>1 DEF Asked, Location, AfterValidation
<1>3. job' \in Job
  <2>1. NoJob.backup = NoBackup /\ NoJob.volume = FALSE /\ NoJob.capability = "none"
    BY DEF NoJob
  <2>2. NoJob \in Job
    BY JobTypes, <2>1 DEF Job, NoJob
  <2>3. [NoJob EXCEPT !.kind = kind, !.profile = profile,
                      !.switches = IF profile = "none" THEN {} ELSE switches,
                      !.custom = custom] \in Job
    BY <1>1, <2>2 DEF Asked, Job
  <2> QED BY <1>1, <2>2, <2>3 DEF Asked
<1>4. live' \in [0..MaxRuns -> SUBSET Channel]
  BY DEF Begin, TypeOK
<1>5. must' \in [0..MaxRuns -> SUBSET Channel]
  <2>1. \A p \in Profile : Promised(p, switches, custom) \subseteq Channel
    BY <1>1 DEF Asked, Promised, Verified, ProfileOff, Baseline, Aggressive, Channel
  <2> QED BY <1>1, <2>1 DEF Asked, TypeOK, Profile
<1> QED BY <1>0, <1>2, <1>3, <1>4, <1>5 DEF Begin, TypeOK

(* A step ends a run, or goes on; unless it changes no counter, it counts  *)
(* as a fault of this run.                                                 *)
Counted ==
  \/ UNCHANGED faults
  \/ /\ clean' = FALSE
     /\ \/ UNCHANGED <<failed, lost, crashed>>
        \/ failed < MaxFailed /\ failed' = failed + 1 /\ UNCHANGED <<lost, crashed>>
        \/ lost < MaxLost /\ lost' = lost + 1 /\ UNCHANGED <<failed, crashed>>
        \/ crashed < MaxCrashes /\ crashed' = crashed + 1 /\ UNCHANGED <<failed, lost>>

LEMMA StepCounted ==
  ASSUME Step \/ Crash
  PROVE  Counted /\ run' = run
<1> USE DEF Advance, Stop, Refuse, Faulty, Fail, Ok, Lose, contents, faults, Counted
<1>1. ResolveBackupDir \/ ValidateBackupDir \/ Probe => Counted /\ run' = run
  BY DEF ResolveBackupDir, ValidateBackupDir, Probe
<1>2. Prepare \/ RestoreDump \/ NativeNeutralize \/ ProfileSql \/ CustomSql \/ Verify => Counted /\ run' = run
  BY DEF Prepare, RestoreDump, NativeNeutralize, ProfileSql, CustomSql, Verify
<1>3. ReadArchive \/ RemoveFilestore \/ MoveFilestore => Counted /\ run' = run
  BY DEF ReadArchive, RemoveFilestore, MoveFilestore
<1>4. ExistsAside \/ ExistsTarget \/ ExistsForRestore \/ ExistsForDrop => Counted /\ run' = run
  BY DEF ExistsAside, ExistsTarget, ExistsForRestore, ExistsForDrop, Ask
<1>5. DropStale \/ Drop \/ MoveAside \/ Swap \/ Restore => Counted /\ run' = run
  BY DEF DropStale, Drop, DropDatabase, MoveAside, Swap, Restore, Rename
<1>6. Crash => Counted /\ run' = run
  BY DEF Crash
<1> QED BY <1>1, <1>2, <1>3, <1>4, <1>5, <1>6 DEF Step

(* The values a step may give to what is not counted.                      *)
LEMMA CountersTyped ==
  ASSUME TypeOK, Counted
  PROVE  /\ failed' \in 0..MaxFailed /\ lost' \in 0..MaxLost /\ crashed' \in 0..MaxCrashes
         /\ clean' \in BOOLEAN
<1>1. /\ failed \in 0..MaxFailed /\ lost \in 0..MaxLost /\ crashed \in 0..MaxCrashes
      /\ clean \in BOOLEAN
  BY DEF TypeOK
<1>2. MaxFailed \in Nat /\ MaxLost \in Nat /\ MaxCrashes \in Nat
  BY RestoreAssumption
<1>3. clean' = clean \/ clean' = FALSE
  BY DEF Counted, faults
<1>4. failed' \in 0..MaxFailed /\ lost' \in 0..MaxLost /\ crashed' \in 0..MaxCrashes
  BY <1>1, <1>2 DEF Counted, faults
<1> QED BY <1>1, <1>3, <1>4

LEMMA StepTyped ==
  ASSUME TypeOK, Step \/ Crash
  PROVE  TypeOK'
<1> USE DEF Advance, Stop, Refuse, Faulty, Fail, Ok, Lose, contents
<1>0. /\ run \in 0..MaxRuns /\ job \in Job /\ NoJob \in Job /\ pc \in Location
      /\ db \in [Name -> 0..MaxRuns \cup {Absent}] /\ existed \in BOOLEAN
      /\ live \in [0..MaxRuns -> SUBSET Channel] /\ must \in [0..MaxRuns -> SUBSET Channel]
      /\ prepared \subseteq 0..MaxRuns /\ filestore \in 0..MaxRuns \cup {Absent, Partial}
      /\ pc \in {"existsForRestore", "restore", "drop"} => existed
  BY JobTypes DEF TypeOK
<1> DEFINE Rest ==
      /\ db' \in [Name -> 0..MaxRuns \cup {Absent}]
      /\ pc' \in Location /\ job' \in Job /\ existed' \in BOOLEAN
      /\ pc' \in {"existsForRestore", "restore", "drop"} => existed'
      /\ filestore' \in 0..MaxRuns \cup {Absent, Partial}
      /\ live' \in [0..MaxRuns -> SUBSET Channel] /\ must' \in [0..MaxRuns -> SUBSET Channel]
      /\ prepared' \subseteq 0..MaxRuns
<1>1. ASSUME ResolveBackupDir PROVE Rest
  <2>1. \/ pc' = "resting" /\ job' = NoJob
        \/ \E b \in Manifest : pc' = "validate" /\ job' = [job EXCEPT !.backup = b]
    BY <1>1, Found DEF ResolveBackupDir
  <2>2. job' \in Job /\ pc' \in {"resting", "validate"}
    BY <1>0, <2>1, JobTypes
  <2> QED BY <1>0, <1>1, <2>2 DEF ResolveBackupDir, Location
<1>2. ASSUME ValidateBackupDir PROVE Rest
  BY <1>0, <1>2 DEF ValidateBackupDir, AfterValidation, Location
<1>3. ASSUME Probe PROVE Rest
  <2>1. \/ pc' = "resting" /\ job' = NoJob
        \/ \E c \in {"supported", "unsupported", "disabled"} :
             pc' = "prepare" /\ job' = [job EXCEPT !.capability = c]
    BY <1>3 DEF Probe, Capability
  <2>2. job' \in Job /\ pc' \in {"resting", "prepare"}
    BY <1>0, <2>1, JobTypes
  <2> QED BY <1>0, <1>3, <2>2 DEF Probe, Location
<1>4. ASSUME Prepare PROVE Rest
  BY <1>0, <1>4, CatalogTypes DEF Prepare, Location, Name, Dropped
<1>5. Neutralized \in Job
  BY <1>0, JobTypes DEF Neutralized
<1>6. ASSUME RestoreDump PROVE Rest
  <2>1. pc' \in Location /\ pc' \notin {"existsForRestore", "restore", "drop"} /\ job' \in Job
    BY <1>0, <1>5, <1>6 DEF RestoreDump, AfterDump, Location
  <2>2. live' \in [0..MaxRuns -> SUBSET Channel] /\ prepared' \subseteq 0..MaxRuns
    BY <1>0, <1>6 DEF RestoreDump
  <2> QED BY <1>0, <1>6, <2>1, <2>2 DEF RestoreDump
<1>7. ASSUME NativeNeutralize PROVE Rest
  BY <1>0, <1>7 DEF NativeNeutralize, Location
<1>8. ASSUME ProfileSql PROVE Rest
  <2>1. live' \in [0..MaxRuns -> SUBSET Channel]
    BY <1>0, <1>8 DEF ProfileSql
  <2>2. pc' \in {"custom", "verify", "resting"} /\ job' \in Job
    BY <1>0, <1>8 DEF ProfileSql
  <2> QED BY <1>0, <1>8, <2>1, <2>2 DEF ProfileSql, Location
<1>9. ASSUME CustomSql PROVE Rest
  BY <1>0, <1>9 DEF CustomSql, Location
<1>10. ASSUME Verify PROVE Rest
  BY <1>0, <1>5, <1>10 DEF Verify, Location
<1>11. ASSUME ReadArchive PROVE Rest
  <2>1. job' \in Job /\ pc' \in {"removeFilestore", "resting"}
    BY <1>0, <1>11, JobTypes DEF ReadArchive
  <2> QED BY <1>0, <1>11, <2>1 DEF ReadArchive, Location
<1>12. Stranded \subseteq 0..MaxRuns \cup {Absent, Partial}
  BY <1>0 DEF Stranded
<1>13. ASSUME RemoveFilestore \/ MoveFilestore \/ Crash PROVE Rest
  BY <1>0, <1>12, <1>13 DEF RemoveFilestore, MoveFilestore, Crash, Location
<1>14. ASSUME ExistsAside \/ ExistsTarget \/ ExistsForRestore \/ ExistsForDrop PROVE Rest
  <2>1. UNCHANGED <<db, run, filestore, contents>> /\ (job' = job \/ job' = NoJob)
    BY <1>14 DEF ExistsAside, ExistsTarget, ExistsForRestore, ExistsForDrop, Ask
  <2>6. pc' \in Location /\ existed' \in BOOLEAN /\ (pc' \in {"existsForRestore", "restore", "drop"} => existed')
    BY <1>0, <1>14 DEF ExistsAside, ExistsTarget, ExistsForRestore, ExistsForDrop, Ask,
      TargetExisted, Exists, AfterSwap, Location
  <2> QED BY <1>0, <2>1, <2>6
<1>15. ASSUME MoveAside \/ Swap \/ Restore PROVE Rest
  <2>1. UNCHANGED <<run, existed, filestore, contents>> /\ (job' = job \/ job' = NoJob)
    BY <1>15 DEF MoveAside, Swap, Restore, Rename
  <2>2. db' \in [Name -> 0..MaxRuns \cup {Absent}]
    BY <1>0, <1>15, CatalogTypes DEF MoveAside, Swap, Restore, Rename, Name
  <2>3. pc' \in {"swap", "resting", "existsForDrop"} \/ (pc' = "existsForRestore" /\ existed)
    BY <1>15 DEF MoveAside, Swap, Restore, Rename, OnPromotionFailure
  <2> QED BY <1>0, <2>1, <2>2, <2>3 DEF Location
<1>16. ASSUME DropStale \/ Drop PROVE Rest
  <2>1. UNCHANGED <<run, existed, filestore, contents>> /\ (job' = job \/ job' = NoJob)
        /\ pc' \in {"existsTarget", "resting"}
    BY <1>16 DEF DropStale, Drop, DropDatabase
  <2>2. db' \in [Name -> 0..MaxRuns \cup {Absent}]
    BY <1>0, <1>16, CatalogTypes DEF DropStale, Drop, DropDatabase, Name
  <2> QED BY <1>0, <2>1, <2>2 DEF Location
<1>17. Rest
  BY <1>1, <1>2, <1>3, <1>4, <1>6, <1>7, <1>8, <1>9, <1>10, <1>11, <1>13, <1>14, <1>15,
      <1>16 DEF Step
<1>18. run' = run /\ Counted
  BY StepCounted
<1>19. /\ failed' \in 0..MaxFailed /\ lost' \in 0..MaxLost /\ crashed' \in 0..MaxCrashes
       /\ clean' \in BOOLEAN
  BY <1>18, CountersTyped
<1> QED BY <1>0, <1>17, <1>18, <1>19 DEF TypeOK

-----------------------------------------------------------------------------
(* Databases                                                               *)

(* A step changes no contents but those of the database it fills.          *)
LEMMA ContentsMove ==
  ASSUME TypeOK, Step \/ Crash
  PROVE  /\ must' = must /\ prepared \subseteq prepared'
         /\ \A n \in 0..MaxRuns : n # run \/ pc \notin Filling => live'[n] = live[n]
<1> USE DEF contents, Filling
<1>0. live \in [0..MaxRuns -> SUBSET Channel] /\ run \in 0..MaxRuns
  BY DEF TypeOK
<1>1. CASE RestoreDump \/ NativeNeutralize \/ ProfileSql \/ CustomSql \/ Verify
  BY <1>0, <1>1 DEF RestoreDump, NativeNeutralize, ProfileSql, CustomSql, Verify
<1>2. CASE ResolveBackupDir \/ ValidateBackupDir \/ Probe \/ Prepare
  BY <1>2 DEF ResolveBackupDir, ValidateBackupDir, Probe, Prepare
<1>3. CASE ReadArchive \/ RemoveFilestore \/ MoveFilestore \/ Crash
  BY <1>3 DEF ReadArchive, RemoveFilestore, MoveFilestore, Crash
<1>4. CASE ExistsAside \/ ExistsTarget \/ ExistsForRestore \/ ExistsForDrop
  BY <1>4 DEF ExistsAside, ExistsTarget, ExistsForRestore, ExistsForDrop, Ask
<1>5. CASE DropStale \/ Drop \/ MoveAside \/ Swap \/ Restore
  BY <1>5 DEF DropStale, Drop, DropDatabase, MoveAside, Swap, Restore, Rename
<1> QED BY <1>1, <1>2, <1>3, <1>4, <1>5 DEF Step

(* What is live or aside stays ready: a run fills another database.        *)
LEMMA ReadyKept ==
  ASSUME TypeOK, DatabasesInv, Step \/ Crash, NEW n \in 0..MaxRuns, Ready(n), n # run \/ pc \notin Filling
  PROVE  Ready(n)'
BY ContentsMove DEF Ready, TypeOK

(* What a step does to the names of the databases.                         *)
CatalogMove ==
  \/ db' = db
  \/ pc = "prepare" /\ db' \in {[db EXCEPT !["temp"] = run], Dropped("temp")}
  \/ pc \in {"dropStale", "drop"} /\ db' = Dropped("aside")
  \/ pc = "moveAside" /\ CanRename("target", "aside") /\ db' = Renamed("target", "aside")
  \/ pc = "swap" /\ CanRename("temp", "target") /\ db' = Renamed("temp", "target")
  \/ pc = "restore" /\ CanRename("aside", "target") /\ db' = Renamed("aside", "target")

LEMMA CatalogMoves ==
  ASSUME Step \/ Crash
  PROVE  CatalogMove
<1>1. CASE ResolveBackupDir \/ ValidateBackupDir \/ Probe \/ ReadArchive \/ RemoveFilestore \/ MoveFilestore \/ Crash
  BY <1>1 DEF ResolveBackupDir, ValidateBackupDir, Probe, ReadArchive, RemoveFilestore,
      MoveFilestore, Crash, CatalogMove
<1>2. CASE RestoreDump \/ NativeNeutralize \/ ProfileSql \/ CustomSql \/ Verify
  BY <1>2 DEF RestoreDump, NativeNeutralize, ProfileSql, CustomSql, Verify, CatalogMove
<1>3. CASE Prepare
  BY <1>3 DEF Prepare, CatalogMove
<1>4. CASE ExistsAside \/ ExistsTarget \/ ExistsForRestore \/ ExistsForDrop
  BY <1>4 DEF ExistsAside, ExistsTarget, ExistsForRestore, ExistsForDrop, Ask, CatalogMove
<1>5. CASE DropStale \/ Drop
  BY <1>5 DEF DropStale, Drop, DropDatabase, CatalogMove
<1>6. CASE MoveAside \/ Swap \/ Restore
  BY <1>6 DEF MoveAside, Swap, Restore, Rename, CatalogMove
<1> QED BY <1>1, <1>2, <1>3, <1>4, <1>5, <1>6 DEF Step

(* What a step does to the phase of a run and to its filestore.            *)
PhaseMove ==
  /\ pc' \in Preparing => pc \in Preparing
  /\ pc' \in Filling => pc \in Filling \/ (pc = "prepare" /\ db' = [db EXCEPT !["temp"] = run])
  /\ pc' \in Replacing => pc \in Filling \/ (pc \in Replacing /\ pc # "swap")
  /\ filestore' # filestore => pc \in Replacing
  /\ pc' \in Replacing /\ pc \in Filling => RestoreDump \/ Verify

LEMMA PhaseMoves ==
  ASSUME Step \/ Crash
  PROVE  PhaseMove
<1> USE DEF Advance, Stop, Refuse, Faulty, Fail, Ok, Lose, PhaseMove, Preparing, Filling,
    Replacing, Swapping
<1>1. CASE ResolveBackupDir \/ ValidateBackupDir \/ Probe
  BY <1>1 DEF ResolveBackupDir, ValidateBackupDir, AfterValidation, Probe
<1>2. CASE RestoreDump \/ NativeNeutralize \/ ProfileSql \/ CustomSql \/ Verify
  BY <1>2 DEF RestoreDump, AfterDump, NativeNeutralize, ProfileSql, CustomSql, Verify
<1>3. CASE Prepare
  BY <1>3 DEF Prepare
<1>4. CASE ReadArchive \/ RemoveFilestore \/ MoveFilestore
  BY <1>4 DEF ReadArchive, RemoveFilestore, MoveFilestore
<1>5. CASE ExistsAside \/ ExistsTarget \/ ExistsForRestore \/ ExistsForDrop
  BY <1>5 DEF ExistsAside, ExistsTarget, ExistsForRestore, ExistsForDrop, AfterSwap, Ask
<1>6. CASE DropStale \/ Drop
  BY <1>6 DEF DropStale, Drop, DropDatabase
<1>7. CASE MoveAside \/ Swap \/ Restore
  BY <1>7 DEF MoveAside, Swap, Restore, Rename, OnPromotionFailure
<1>8. CASE Crash
  BY <1>8 DEF Crash
<1> QED BY <1>1, <1>2, <1>3, <1>4, <1>5, <1>6, <1>7, <1>8 DEF Step

(* The database that a run serves has kept the promises of the run.        *)
LEMMA Filled ==
  ASSUME TypeOK, DatabasesInv, PromiseInv, RestoreDump \/ Verify, pc' \in Replacing
  PROVE  Ready(run)'
<1>0. run \in 0..MaxRuns /\ run' = run /\ live \in [0..MaxRuns -> SUBSET Channel] /\ pc \in Preparing
  BY DEF TypeOK, RestoreDump, Verify, Preparing, Filling
<1>1. CASE RestoreDump
  <2>1. AfterDump = "readArchive"
    BY <1>1 DEF RestoreDump, Advance, Stop, Fail, Faulty, AfterDump, Replacing, Swapping
  <2>2. job.profile = "none" /\ prepared' = prepared \cup {run} /\ must' = must
    BY <1>1, <2>1 DEF RestoreDump, AfterDump, Stop, Fail, Faulty, Replacing, Swapping
  <2>3. must[run] = {}
    BY <1>0, <2>2 DEF PromiseInv
  <2> QED BY <1>0, <2>2, <2>3 DEF Ready
<1>2. CASE Verify
  <2>1. /\ live[run] \cap Verified(job.switches) = {} /\ UNCHANGED <<live, must>>
        /\ prepared' = prepared \cup {run} /\ pc = "verify"
    BY <1>2 DEF Verify, Refuse, Stop, Fail, Faulty, Replacing, Swapping
  <2>2. must[run] = Promised(job.profile, job.switches, job.custom)
    BY <1>0, <2>1 DEF PromiseInv
  <2>3. live[run] \cap must[run] = {}
    BY <2>1, <2>2 DEF PromiseInv, Promised
  <2> QED BY <1>0, <2>1, <2>3 DEF Ready
<1> QED BY <1>1, <1>2

LEMMA DatabasesStep ==
  ASSUME TypeOK, TypeOK', DatabasesInv, PromiseInv, Step \/ Crash
  PROVE  DatabasesInv'
<1>0. /\ db \in [Name -> 0..MaxRuns \cup {Absent}] /\ run \in 0..MaxRuns /\ run # Absent /\ run' = run
      /\ CatalogMove /\ PhaseMove /\ MaxRuns \in Nat
  BY RestoreAssumption, CatalogMoves, PhaseMoves, StepCounted DEF TypeOK
<1> USE DEF Exists, Name
<1>1. \A n \in Name : db'[n] \in {db["temp"], db["target"], db["aside"], run, Absent}
  BY <1>0 DEF CatalogMove, Dropped, Renamed
<1>2. \A n \in Name : Exists(n)' => db'[n] \in 0..run'
  BY <1>0, <1>1 DEF DatabasesInv
<1>3. \A n \in {"target", "aside"} :
        \/ db'[n] \in {db["target"], db["aside"], Absent}
        \/ pc = "swap" /\ db'[n] = db["temp"]
  BY <1>0 DEF CatalogMove, Dropped, Renamed
<1>4. ASSUME NEW n \in {"target", "aside"}, Exists(n)'
      PROVE  Ready(db[n])'
  <2>1. db'[n] \in 0..MaxRuns /\ Ready(db'[n]) /\ (db'[n] # run \/ pc \notin Filling)
    <3>1. CASE pc = "swap" /\ db'[n] = db["temp"]
      <4>1. db["temp"] = run /\ Ready(run)
        BY <3>1 DEF DatabasesInv, Replacing, Swapping
      <4> QED BY <1>0, <3>1, <4>1 DEF Filling
    <3>2. ASSUME NEW m \in {"target", "aside"}, db'[n] = db[m]
          PROVE  db[m] \in 0..MaxRuns /\ Ready(db[m]) /\ (db[m] # run \/ pc \notin Filling)
      <4>1. Exists(m) /\ db[m] \in 0..run
        BY <1>4, <3>2 DEF DatabasesInv
      <4>2. Ready(db[m])
        BY <4>1 DEF DatabasesInv
      <4>3. db[m] # run \/ pc \notin Filling
        BY DEF DatabasesInv, Preparing
      <4> QED BY <1>0, <4>1, <4>2, <4>3
    <3> QED BY <1>3, <1>4, <3>1, <3>2
  <2>2. PICK m \in 0..MaxRuns : m = db'[n]
    BY <2>1
  <2>3. Ready(m)'
    BY <2>1, <2>2, ReadyKept
  <2> QED BY <2>2, <2>3 DEF Ready
<1>5. ASSUME pc' \in Preparing \cup Replacing
      PROVE  run' # Original /\ db'["target"] # run' /\ db'["aside"] # run'
  <2>1. pc \in Preparing \cup Replacing /\ pc # "swap"
    BY <1>0, <1>5 DEF PhaseMove, Preparing, Filling, Replacing, Swapping
  <2> QED BY <1>0, <1>3, <2>1 DEF DatabasesInv
<1>6. ASSUME pc' \in Filling \cup Replacing
      PROVE  db'["temp"] = run'
  <2>1. CASE pc = "prepare"
    BY <1>0, <1>6, <2>1 DEF PhaseMove, Filling, Replacing, Swapping
  <2>2. CASE pc # "prepare"
    <3>1. pc \in Filling \cup Replacing /\ pc \notin {"swap", "restore", "drop", "prepare"}
      BY <1>0, <1>6, <2>2 DEF PhaseMove, Filling, Replacing, Swapping
    <3>2. db["temp"] = run
      BY <3>1 DEF DatabasesInv
    <3> QED BY <1>0, <3>1, <3>2 DEF CatalogMove, Dropped, Renamed
  <2> QED BY <2>1, <2>2
<1>7. ASSUME pc' \in Replacing
      PROVE  Ready(run)'
  <2>1. CASE pc \in Filling
    BY <1>0, <1>7, <2>1, Filled DEF PhaseMove
  <2>2. CASE pc \notin Filling
    BY <1>0, <1>7, <2>2, ReadyKept DEF PhaseMove, DatabasesInv
  <2> QED BY <2>1, <2>2
<1>8. ASSUME filestore' # Original
      PROVE  \E n \in 1..run' : n \in prepared'
  <2>1. prepared \subseteq prepared'
    BY ContentsMove
  <2>2. CASE filestore' = filestore
    BY <1>0, <1>8, <2>1, <2>2 DEF DatabasesInv
  <2>3. CASE filestore' # filestore
    <3>1. run # Original /\ run \in prepared
      BY <1>0, <2>3 DEF PhaseMove, DatabasesInv, Ready
    <3> QED BY <1>0, <2>1, <3>1 DEF Original
  <2> QED BY <2>2, <2>3
<1> QED BY <1>2, <1>4, <1>5, <1>6, <1>7, <1>8 DEF DatabasesInv

-----------------------------------------------------------------------------
(* A run that begins                                                       *)

LEMMA BeginKept ==
  ASSUME IInv, Begin
  PROVE  IInv'
<1>0. /\ run \in Nat /\ run + 1 \in 0..MaxRuns /\ run' = run + 1 /\ MaxRuns \in Nat
      /\ db \in [Name -> 0..MaxRuns \cup {Absent}] /\ db' = db /\ prepared' = prepared
      /\ filestore' = filestore /\ UNCHANGED <<failed, lost, crashed>> /\ pc = "resting"
  BY RestoreAssumption DEF IInv, TypeOK, Begin
<1>1. PICK kind, protected, custom, profile, switches : Asked(kind, protected, custom, profile, switches)
  BY BeginAsked
<1>2. pc' \in {"resting", "choose", "probe", "prepare"} /\ (clean' => pc' # "resting")
  BY <1>1 DEF Asked, AfterValidation
<1>3. \A n \in Name : Exists(n) => db[n] \in Databases /\ db[n] \in 0..run /\ db[n] # run + 1
  BY <1>0, RestoreAssumption DEF IInv, DatabasesInv, Databases, Range, Exists
<1>4. DatabasesInv'
  <2>1. ASSUME NEW n \in {"target", "aside"}, Exists(n)
        PROVE  Ready(db[n])'
    <3>1. db[n] \in Databases /\ db[n] \in 0..MaxRuns /\ db[n] # run + 1 /\ Ready(db[n])
      BY <1>0, <1>3, <2>1 DEF IInv, DatabasesInv, Name
    <3>2. live'[db[n]] = live[db[n]]
      BY <3>1 DEF Begin
    <3>3. must'[db[n]] = must[db[n]]
      BY <1>1, <3>1 DEF Asked
    <3> QED BY <1>0, <3>1, <3>2, <3>3 DEF Ready
  <2>2. run' # Original /\ db'["target"] # run' /\ db'["aside"] # run'
    <3>1. run + 1 # Absent /\ run + 1 # 0
      BY <1>0, RestoreAssumption
    <3> QED BY <1>0, <1>3, <3>1 DEF Exists, Name, Original
  <2>3. pc' \notin Filling /\ pc' \notin Replacing
    BY <1>2 DEF Filling, Replacing, Swapping
  <2>4. filestore' # Original => \E n \in 1..run' : n \in prepared'
    BY <1>0 DEF IInv, DatabasesInv
  <2>5. \A n \in Name : Exists(n)' => db'[n] \in 0..run'
    BY <1>0, <1>3 DEF Exists
  <2>6. \A n \in {"target", "aside"} : Exists(n)' => Ready(db[n])'
    BY <1>0, <2>1 DEF Exists
  <2> QED BY <2>2, <2>3, <2>4, <2>5, <2>6 DEF DatabasesInv
<1>5. PromiseInv'
  <2>1. ASSUME pc' # "resting"
        PROVE  must'[run'] = IF job'.profile = "none" THEN {}
                             ELSE Promised(job'.profile, job'.switches, job'.custom)
    <3>1. /\ protected => profile # "none"
          /\ job'.profile = profile /\ job'.custom = custom
          /\ profile # "none" => job'.switches = switches
      <4>1. /\ protected => profile # "none"
            /\ job' = [NoJob EXCEPT !.kind = kind, !.profile = profile,
                                    !.switches = IF profile = "none" THEN {} ELSE switches,
                                    !.custom = custom]
        BY <1>1, <2>1 DEF Asked
      <4>2. DOMAIN NoJob = {"kind", "profile", "switches", "custom", "volume", "capability", "backup"}
        BY DEF NoJob
      <4> QED BY <4>1, <4>2
    <3>2. run + 1 \notin Databases
      BY <1>0, <1>3 DEF Databases, Range, Exists
    <3>3. must'[run + 1] = IF profile = "none" THEN {} ELSE Promised(profile, switches, custom)
      BY <1>0, <1>1, <3>1, <3>2 DEF Asked
    <3> QED BY <1>0, <3>1, <3>3
  <2> QED BY <1>2, <2>1 DEF PromiseInv, Preparing, Filling
<1>6. BackupInv'
  <2>1. NoJob.kind = "none" /\ DOMAIN NoJob = {"kind", "profile", "switches", "custom", "volume", "capability", "backup"}
    BY DEF NoJob
  <2>2. pc' = "choose" \/ job'.kind \in {"none", "clone"}
    <3>1. CASE job' = NoJob
      BY <2>1, <3>1
    <3>2. CASE job' # NoJob
      BY <1>1, <2>1, <3>2 DEF Asked
    <3> QED BY <3>1, <3>2
  <2> QED BY <2>2 DEF BackupInv, Validated
<1>7. SwapInv' /\ CleanInv'
  BY <1>2 DEF SwapInv, CleanInv, Swapping, Dropping, Restoring
<1>8. KeptInv'
  BY <1>0, <1>2 DEF IInv, KeptInv, OneFailure, Exists, Restoring
<1>9. TypeOK'
  BY BeginTyped DEF IInv
<1> QED BY <1>4, <1>5, <1>6, <1>7, <1>8, <1>9 DEF IInv

-----------------------------------------------------------------------------
(* A run that goes on or ends                                              *)

LEMMA PromiseStep ==
  ASSUME TypeOK, PromiseInv, Step \/ Crash
  PROVE  PromiseInv'
<1> USE DEF Advance, Stop, Refuse, Faulty, Fail, Preparing, Filling
<1>0. /\ run \in 0..MaxRuns /\ run' = run /\ must' = must /\ job \in Job
      /\ live \in [0..MaxRuns -> SUBSET Channel] /\ PhaseMove
  BY ContentsMove, StepCounted, PhaseMoves DEF TypeOK
<1>1. CASE pc' \notin Preparing
  BY <1>1 DEF PromiseInv
<1>2. CASE ResolveBackupDir \/ ValidateBackupDir \/ Probe \/ Prepare
  <2>1. \/ pc' \notin Preparing
        \/ /\ pc \in Preparing /\ pc' \in {"validate", "probe", "prepare", "restoreDump"}
           /\ job'.profile = job.profile /\ job'.switches = job.switches /\ job'.custom = job.custom
    BY <1>0, <1>2 DEF ResolveBackupDir, ValidateBackupDir, Probe, Prepare, AfterValidation, Job
  <2> QED BY <1>0, <1>1, <2>1 DEF PromiseInv
<1>3. CASE RestoreDump
  <2>1. pc' \notin Preparing \/ (pc' \in {"native", "profile"} /\ job.profile # "none" /\ job' = job /\ pc \in Preparing)
    BY <1>3 DEF RestoreDump, AfterDump
  <2> QED BY <1>0, <1>1, <2>1 DEF PromiseInv
<1>4. CASE NativeNeutralize
  <2>1. pc' \notin Preparing \/ (pc' = "profile" /\ job' = job /\ pc = "native")
    BY <1>4 DEF NativeNeutralize
  <2> QED BY <1>0, <1>1, <2>1 DEF PromiseInv
<1>5. CASE ProfileSql
  <2>1. \/ pc' \notin Preparing
        \/ /\ pc' = (IF job.custom THEN "custom" ELSE "verify") /\ job' = job /\ pc = "profile"
           /\ live'[run] = live[run] \ ProfileOff(job.profile, job.switches)
    BY <1>0, <1>5 DEF ProfileSql
  <2> QED BY <1>0, <1>1, <2>1 DEF PromiseInv
<1>6. CASE CustomSql
  <2>1. pc' \notin Preparing \/ (pc' = "verify" /\ job' = job /\ pc = "custom")
    BY <1>6 DEF CustomSql
  <2> QED BY <1>0, <1>1, <2>1 DEF PromiseInv
<1>7. CASE Verify
  BY <1>1, <1>7 DEF Verify
<1>8. CASE ReadArchive \/ RemoveFilestore \/ MoveFilestore \/ Crash
  BY <1>1, <1>8 DEF ReadArchive, RemoveFilestore, MoveFilestore, Crash
<1>9. CASE pc \notin Preparing
  BY <1>0, <1>1, <1>9 DEF PhaseMove
<1>10. ExistsAside \/ ExistsTarget \/ ExistsForRestore \/ ExistsForDrop => pc \notin Preparing
  BY DEF ExistsAside, ExistsTarget, ExistsForRestore, ExistsForDrop, Ask
<1>11. DropStale \/ Drop \/ MoveAside \/ Swap \/ Restore => pc \notin Preparing
  BY DEF DropStale, Drop, DropDatabase, MoveAside, Swap, Restore, Rename
<1> QED BY <1>2, <1>3, <1>4, <1>5, <1>6, <1>7, <1>8, <1>9, <1>10, <1>11 DEF Step

(* A run keeps its kind and its validated backup until it ends.            *)
LEMMA BackupStep ==
  ASSUME TypeOK, BackupInv, Step \/ Crash
  PROVE  BackupInv'
<1> USE DEF Advance, Stop, Refuse, Faulty, Fail, Ok, Lose
<1>0. job \in Job
  BY DEF TypeOK
<1>1. Validated(NoJob)
  BY DEF Validated, NoJob
<1>2. CASE ResolveBackupDir
  BY <1>1, <1>2 DEF ResolveBackupDir, BackupInv
<1>3. CASE ValidateBackupDir
  <2>1. job' = NoJob \/ (job' = job /\ Valid(job.backup, job.kind = "restore"))
    BY <1>3 DEF ValidateBackupDir
  <2>2. ASSUME Valid(job.backup, job.kind = "restore")
        PROVE  Validated(job)
    <3>1. job.backup \in Manifest
      BY <1>0, <2>2 DEF Job, NoBackup, Valid
    <3> QED BY <2>2, <3>1 DEF Validated, Valid, Manifest
  <2> QED BY <1>1, <2>1, <2>2 DEF BackupInv
<1>4. ASSUME pc \notin {"choose", "validate"},
             \/ job' \in {job, NoJob}
             \/ job'.kind = job.kind /\ job'.backup = job.backup
      PROVE  BackupInv'
  BY <1>1, <1>4 DEF BackupInv, Validated
<1>5. Neutralized.kind = job.kind /\ Neutralized.backup = job.backup
  BY <1>0, JobTypes DEF Neutralized, NoJob
<1>6. CASE Probe \/ ReadArchive
  <2>1. job' = NoJob \/ (job'.kind = job.kind /\ job'.backup = job.backup)
    BY <1>0, <1>6 DEF Probe, ReadArchive, Job
  <2>2. pc \notin {"choose", "validate"}
    BY <1>6 DEF Probe, ReadArchive
  <2> QED BY <1>4, <2>1, <2>2
<1>7. CASE Prepare \/ RestoreDump \/ NativeNeutralize \/ ProfileSql \/ CustomSql \/ Verify
  BY <1>4, <1>5, <1>7 DEF Prepare, RestoreDump, NativeNeutralize, ProfileSql, CustomSql, Verify
<1>8. CASE RemoveFilestore \/ MoveFilestore
  BY <1>4, <1>8 DEF RemoveFilestore, MoveFilestore
<1>9. CASE ExistsAside \/ ExistsTarget \/ ExistsForRestore \/ ExistsForDrop
  BY <1>4, <1>9 DEF ExistsAside, ExistsTarget, ExistsForRestore, ExistsForDrop, Ask
<1>10. CASE DropStale \/ Drop \/ MoveAside \/ Swap \/ Restore
  BY <1>4, <1>10 DEF DropStale, Drop, DropDatabase, MoveAside, Swap, Restore, Rename
<1>11. CASE Crash
  BY <1>1, <1>11 DEF Crash, BackupInv
<1> QED BY <1>2, <1>3, <1>6, <1>7, <1>8, <1>9, <1>10, <1>11 DEF Step

(* What a step before swap_temp_database leads to.                         *)
LEMMA BeforeSwap ==
  ASSUME \/ ResolveBackupDir \/ ValidateBackupDir \/ Probe
         \/ Prepare \/ RestoreDump \/ NativeNeutralize \/ ProfileSql \/ CustomSql \/ Verify
         \/ ReadArchive \/ RemoveFilestore \/ MoveFilestore \/ Crash
  PROVE  /\ pc' \notin (Swapping \ {"existsAside"}) \cup Dropping \cup Restoring
         /\ pc' = "existsAside" => filestore' = run
         /\ pc' = "resting" => clean' = FALSE
         /\ db'["target"] = db["target"] \/ pc = "prepare"
<1> USE DEF Advance, Stop, Refuse, Faulty, Fail, Swapping, Dropping, Restoring
<1>1. CASE ResolveBackupDir \/ ValidateBackupDir \/ Probe
  BY <1>1 DEF ResolveBackupDir, ValidateBackupDir, AfterValidation, Probe
<1>2. CASE Prepare \/ RestoreDump
  BY <1>2 DEF Prepare, RestoreDump, AfterDump
<1>3. CASE NativeNeutralize \/ ProfileSql \/ CustomSql \/ Verify
  BY <1>3 DEF NativeNeutralize, ProfileSql, CustomSql, Verify
<1>4. CASE ReadArchive \/ RemoveFilestore \/ MoveFilestore
  BY <1>4 DEF ReadArchive, RemoveFilestore, MoveFilestore
<1>5. CASE Crash
  BY <1>5 DEF Crash
<1> QED BY <1>1, <1>2, <1>3, <1>4, <1>5

(* Inside of it the promotion is refused by nothing but a failure.         *)
LEMMA Renames ==
  ASSUME TypeOK, DatabasesInv, SwapInv
  PROVE  /\ pc = "moveAside" => CanRename("target", "aside")
         /\ pc = "swap" => CanRename("temp", "target") /\ db["temp"] = run
         /\ pc = "restore" /\ ~Exists("target") => CanRename("aside", "target")
<1>1. pc = "swap" => db["temp"] = run /\ run # Absent
  BY RestoreAssumption DEF DatabasesInv, Replacing, Swapping, TypeOK
<1> QED BY <1>1 DEF SwapInv, CanRename, Exists, Restoring

LEMMA SwapStep ==
  ASSUME TypeOK, DatabasesInv, SwapInv, Step \/ Crash
  PROVE  SwapInv'
<1> USE DEF Ok, Lose, Fail, Faulty, Dropping, Restoring, Exists, Name
<1>0. db \in [Name -> 0..MaxRuns \cup {Absent}] /\ run' = run /\ run # Absent
  BY RestoreAssumption, StepCounted DEF TypeOK
<1>1. CASE \/ ResolveBackupDir \/ ValidateBackupDir \/ Probe
           \/ Prepare \/ RestoreDump \/ NativeNeutralize \/ ProfileSql \/ CustomSql \/ Verify
           \/ ReadArchive \/ RemoveFilestore \/ MoveFilestore \/ Crash
  BY <1>1, BeforeSwap DEF SwapInv, Swapping
<1>2. CASE ExistsAside
  BY <1>2 DEF ExistsAside, Ask, SwapInv
<1>3. CASE DropStale
  BY <1>0, <1>3 DEF DropStale, DropDatabase, Dropped, SwapInv
<1>4. CASE ExistsTarget
  BY <1>0, <1>4 DEF ExistsTarget, TargetExisted, Ask, SwapInv
<1>5. CASE MoveAside
  <2>1. pc = "moveAside" /\ pc' \in {"swap", "resting"} /\ existed' = existed
    BY <1>5 DEF MoveAside, Rename
  <2>2. pc' = "swap" => db' = Renamed("target", "aside")
    BY <1>5 DEF MoveAside, Rename
  <2>3. pc' = "swap" => db'["target"] = Absent /\ db'["aside"] # Absent
    BY <1>0, <2>1, <2>2 DEF Renamed, SwapInv
  <2> QED BY <2>1, <2>3 DEF SwapInv
<1>6. CASE Swap
  <2>1. /\ pc = "swap" /\ existed' = existed
        /\ \/ pc' = "existsForDrop" /\ db' = Renamed("temp", "target")
           \/ pc' = OnPromotionFailure /\ db' \in {db, Renamed("temp", "target")}
    BY <1>6 DEF Swap, Rename
  <2>2. db'["aside"] = db["aside"] /\ (db' = Renamed("temp", "target") => db'["target"] = run)
    BY <1>0, <2>1, Renames DEF Renamed
  <2> QED BY <1>0, <2>1, <2>2 DEF SwapInv, OnPromotionFailure
<1>7. CASE ExistsForRestore
  BY <1>7 DEF ExistsForRestore, Ask, SwapInv
<1>8. CASE Restore
  BY <1>8 DEF Restore, Rename, SwapInv
<1>9. CASE ExistsForDrop
  BY <1>0, <1>9 DEF ExistsForDrop, AfterSwap, Ask, SwapInv
<1>10. CASE Drop
  BY <1>10 DEF Drop, DropDatabase, SwapInv
<1> QED BY <1>1, <1>2, <1>3, <1>4, <1>5, <1>6, <1>7, <1>8, <1>9, <1>10 DEF Step

LEMMA CleanStep ==
  ASSUME TypeOK, DatabasesInv, SwapInv, CleanInv, Step \/ Crash
  PROVE  CleanInv'
<1> USE DEF Ok, Lose, Fail, Faulty, Dropping, Restoring, Swapping, Exists, Name
<1>0. db \in [Name -> 0..MaxRuns \cup {Absent}] /\ run' = run /\ (clean' => clean)
  <2>1. clean' = FALSE \/ clean' = clean
    BY StepCounted DEF Counted, faults
  <2> QED BY <2>1, StepCounted DEF TypeOK
<1>1. CASE \/ ResolveBackupDir \/ ValidateBackupDir \/ Probe
           \/ Prepare \/ RestoreDump \/ NativeNeutralize \/ ProfileSql \/ CustomSql \/ Verify
           \/ ReadArchive \/ RemoveFilestore \/ MoveFilestore \/ Crash
  <2>1. pc' \notin (Swapping \ {"existsAside"}) \cup Dropping \cup Restoring
        /\ (pc' = "existsAside" => filestore' = run) /\ (pc' = "resting" => clean' = FALSE)
    BY <1>1, BeforeSwap
  <2> QED BY <1>0, <2>1 DEF CleanInv
<1>2. CASE ExistsAside \/ DropStale \/ ExistsTarget
  <2>1. pc \in Swapping /\ filestore' = filestore /\ (clean' => pc' \in Swapping)
    BY <1>2 DEF ExistsAside, DropStale, DropDatabase, ExistsTarget, Ask
  <2> QED BY <1>0, <2>1 DEF CleanInv
<1>3. CASE MoveAside
  <2>1. pc \in Swapping /\ filestore' = filestore /\ (clean' => pc' = "swap")
    BY <1>3, Renames DEF MoveAside, Rename
  <2> QED BY <1>0, <2>1 DEF CleanInv
<1>4. CASE Swap
  <2>1. pc \in Swapping /\ filestore' = filestore /\ (clean' => pc' = "existsForDrop")
    BY <1>4, Renames DEF Swap, Rename
  <2> QED BY <1>0, <2>1 DEF CleanInv
<1>5. CASE ExistsForRestore \/ Restore
  BY <1>0, <1>5 DEF ExistsForRestore, Ask, Restore, Rename, CleanInv
<1>6. CASE ExistsForDrop
  <2>1. /\ pc = "existsForDrop" /\ UNCHANGED <<db, filestore>>
        /\ clean' => pc' = "drop" \/ (pc' = "resting" /\ ~Exists("aside"))
    BY <1>6 DEF ExistsForDrop, AfterSwap, Ask, SwapInv
  <2> QED BY <1>0, <2>1 DEF CleanInv, SwapInv
<1>7. CASE Drop
  <2>1. /\ pc = "drop" /\ filestore' = filestore
        /\ pc' = "resting" /\ (clean' => db' = Dropped("aside"))
    BY <1>7 DEF Drop, DropDatabase
  <2> QED BY <1>0, <2>1 DEF CleanInv, SwapInv, Dropped
<1> QED BY <1>1, <1>2, <1>3, <1>4, <1>5, <1>6, <1>7 DEF Step

LEMMA KeptStep ==
  ASSUME TypeOK, DatabasesInv, SwapInv, KeptInv, Step \/ Crash, OneFailure'
  PROVE  /\ OneFailure
         /\ KeptInv'
<1> USE DEF Ok, Lose, Fail, Faulty, Restoring, Exists, Name
<1>0. /\ db \in [Name -> 0..MaxRuns \cup {Absent}] /\ run # Absent
      /\ failed \in Nat /\ lost \in Nat /\ crashed \in Nat
  BY RestoreAssumption DEF TypeOK
<1>1. OneFailure /\ lost' = lost /\ crashed' = crashed /\ (failed = 1 => failed' = failed)
  <2>1. \/ UNCHANGED <<failed, lost, crashed>>
        \/ failed' = failed + 1 /\ UNCHANGED <<lost, crashed>>
        \/ lost' = lost + 1
        \/ crashed' = crashed + 1
    BY StepCounted DEF Counted, faults
  <2> QED BY <1>0, <2>1 DEF OneFailure
<1>2. CASE \/ ResolveBackupDir \/ ValidateBackupDir \/ Probe
           \/ Prepare \/ RestoreDump \/ NativeNeutralize \/ ProfileSql \/ CustomSql \/ Verify
           \/ ReadArchive \/ RemoveFilestore \/ MoveFilestore \/ Crash
  <2>1. pc' \notin {"swap"} \cup Restoring
    BY <1>2, BeforeSwap DEF Swapping
  <2>2. db'["target"] = db["target"]
    BY <1>0, <1>2, BeforeSwap, CatalogMoves DEF CatalogMove, Dropped
  <2>3. pc \notin {"swap"} \cup Restoring
    <3>1. ~Crash
      BY <1>0, <1>1 DEF Crash
    <3> QED BY <1>2, <3>1 DEF ResolveBackupDir, ValidateBackupDir, Probe, Prepare, RestoreDump,
        NativeNeutralize,
      ProfileSql, CustomSql, Verify, ReadArchive, RemoveFilestore, MoveFilestore
  <2> QED BY <1>1, <2>1, <2>2, <2>3 DEF KeptInv
<1>3. CASE ExistsAside \/ DropStale \/ ExistsTarget \/ ExistsForDrop \/ Drop
  <2>1. pc \notin {"swap"} \cup Restoring /\ db'["target"] = db["target"]
    BY <1>0, <1>3 DEF ExistsAside, DropStale, DropDatabase, Dropped, ExistsTarget, Ask,
        ExistsForDrop, Drop
  <2>2. Exists("target")
    BY <1>1, <2>1 DEF KeptInv
  <2>3. pc' \notin {"swap"} \cup Restoring
    BY <1>3, <2>2 DEF ExistsAside, DropStale, DropDatabase, ExistsTarget, Ask, ExistsForDrop,
        AfterSwap, Drop
  <2> QED BY <1>1, <2>1, <2>2, <2>3 DEF KeptInv
<1>4. CASE MoveAside
  BY <1>0, <1>1, <1>4, Renames DEF MoveAside, Rename, SwapInv, KeptInv
<1>5. CASE Swap
  <2>1. /\ pc = "swap" /\ existed /\ ~Exists("target")
        /\ \/ db' = Renamed("temp", "target") /\ pc' = "existsForDrop"
           \/ db' = db /\ pc' = "existsForRestore" /\ failed' = failed + 1
    BY <1>0, <1>1, <1>5, Renames DEF Swap, Rename, OnPromotionFailure, SwapInv, KeptInv
  <2>2. failed' = failed + 1 => failed' = 1
    BY <1>0 DEF OneFailure
  <2>3. db' = Renamed("temp", "target") => Exists("target")'
    BY <1>0, <2>1, Renames DEF Renamed
  <2> QED BY <1>1, <2>1, <2>2, <2>3 DEF KeptInv
<1>6. CASE ExistsForRestore
  BY <1>0, <1>1, <1>6 DEF ExistsForRestore, Ask, SwapInv, KeptInv
<1>7. CASE Restore
  <2>1. pc = "restore" /\ ~Exists("target") /\ CanRename("aside", "target") /\ failed' = failed
    BY <1>0, <1>1, <1>7, Renames DEF Restore, Rename, KeptInv
  <2>2. pc' = "resting" /\ db' = Renamed("aside", "target")
    BY <1>0, <1>1, <1>7, <2>1 DEF Restore, Rename
  <2> QED BY <1>0, <1>1, <2>1, <2>2 DEF CanRename, Renamed, KeptInv
<1> QED BY <1>1, <1>2, <1>3, <1>4, <1>5, <1>6, <1>7 DEF Step

LEMMA StepKept ==
  ASSUME IInv, Step \/ Crash
  PROVE  IInv'
<1>1. TypeOK'
  BY StepTyped DEF IInv
<1>2. KeptInv'
  BY KeptStep DEF IInv, KeptInv
<1> QED BY <1>1, <1>2, DatabasesStep, PromiseStep, BackupStep, SwapStep, CleanStep DEF IInv

-----------------------------------------------------------------------------
(* Theorems                                                                *)

LEMMA Initial ==
  ASSUME Init
  PROVE  IInv
<1>1. TypeOK
  <2>1. NoJob \in Job
    BY DEF Job, NoJob, Profile
  <2>2. db \in [Name -> 0..MaxRuns \cup {Absent}]
    BY RestoreAssumption DEF Init, Original
  <2>3. 0 \in 0..MaxRuns /\ 0 \in 0..MaxFailed /\ 0 \in 0..MaxLost /\ 0 \in 0..MaxCrashes
    BY RestoreAssumption
  <2>4. live \in [0..MaxRuns -> SUBSET Channel] /\ must \in [0..MaxRuns -> SUBSET Channel]
    BY DEF Init
  <2>5. /\ run \in 0..MaxRuns /\ pc \in Location /\ job \in Job /\ existed \in BOOLEAN /\ clean \in BOOLEAN
        /\ filestore \in 0..MaxRuns \cup {Absent, Partial} /\ prepared \subseteq 0..MaxRuns
    BY <2>1, <2>3 DEF Init, Location, Original
  <2>6. failed \in 0..MaxFailed /\ lost \in 0..MaxLost /\ crashed \in 0..MaxCrashes
    BY <2>3 DEF Init
  <2>7. pc \notin {"existsForRestore", "restore", "drop"}
    BY DEF Init
  <2> QED BY <2>2, <2>4, <2>5, <2>6, <2>7 DEF TypeOK
<1>2. DatabasesInv
  <2>1. /\ db["target"] = 0 /\ db["aside"] = Absent /\ db["temp"] = Absent /\ run = 0
        /\ Ready(0) /\ filestore = Original /\ pc = "resting"
    BY RestoreAssumption DEF Init, Name, Original, Ready
  <2> QED BY <2>1 DEF DatabasesInv, Exists, Name, Preparing, Filling, Replacing, Swapping
<1>3. PromiseInv /\ BackupInv
  BY DEF Init, PromiseInv, Preparing, Filling, BackupInv, Validated, NoJob
<1>4. SwapInv /\ CleanInv
  BY DEF Init, SwapInv, CleanInv, Dropping, Restoring, Swapping
<1>5. KeptInv
  BY RestoreAssumption DEF Init, KeptInv, Exists, Name, Original, Restoring
<1> QED BY <1>1, <1>2, <1>3, <1>4, <1>5 DEF IInv

LEMMA Stuttered ==
  ASSUME IInv, UNCHANGED vars
  PROVE  IInv'
<1> USE DEF vars, contents, faults, Exists
<1>1. TypeOK'
  BY DEF IInv, TypeOK
<1>2. DatabasesInv'
  BY DEF IInv, DatabasesInv, Ready
<1>3. PromiseInv' /\ BackupInv'
  BY DEF IInv, PromiseInv, BackupInv, Validated
<1>4. SwapInv' /\ CleanInv' /\ KeptInv'
  BY DEF IInv, SwapInv, CleanInv, KeptInv, OneFailure
<1> QED BY <1>1, <1>2, <1>3, <1>4 DEF IInv

LEMMA Inductive == Spec => []IInv
<1>1. Init => IInv
  BY Initial
<1>2. IInv /\ [Next]_vars => IInv'
  BY BeginKept, StepKept, Stuttered DEF Next
<1> QED BY <1>1, <1>2, PTL DEF Spec

LEMMA RestoreInvFollows ==
  ASSUME IInv
  PROVE  RestoreInv
<1>1. OnlyNeutralizedServed
  <2>1. Exists("target") => Ready(db["target"])
    BY DEF IInv, DatabasesInv
  <2> QED BY <2>1 DEF OnlyNeutralizedServed, Ready, IInv, DatabasesInv
<1>2. OnlyValidRestored
  BY DEF IInv, BackupInv, Validated, OnlyValidRestored
<1>3. CleanRun
  BY DEF IInv, CleanInv, CleanRun
<1> QED BY <1>1, <1>2, <1>3 DEF RestoreInv, IInv

(* Whatever fails or crashes in run_restore, restore_to_env and run_clone, *)
(* the environment serves only a database that is completely restored and  *)
(* has off what neutralize_database promised of it, nothing is dropped for *)
(* a backup that validate_backup_dir does not accept, and a run without a  *)
(* fault leaves its own database and filestore and no aside copy.          *)
THEOREM RestoreCorrect == Spec => []RestoreInv
<1>1. IInv => RestoreInv
  BY RestoreInvFollows
<1> QED BY <1>1, Inductive, PTL

(* One failure, in this run of swap_temp_database or in an earlier one,    *)
(* does not leave the environment without a database.                      *)
THEOREM OneFailureSurvived == Spec => []TargetKept
<1>1. IInv => TargetKept
  BY DEF IInv, KeptInv, TargetKept, Restoring
<1> QED BY <1>1, Inductive, PTL

(* With no more than one failure swap_temp_database drops or renames the   *)
(* aside copy only when another database, or that copy itself, is live.    *)
THEOREM OriginalSurvives == Spec => OriginalKept
<1>1. ASSUME IInv, [Next]_vars, DropsOriginal, OneFailure'
      PROVE  Exists("target")'
  <2>0. db \in [Name -> 0..MaxRuns \cup {Absent}]
    BY <1>1 DEF IInv, TypeOK
  <2>1. Step \/ Crash
    BY <1>1 DEF DropsOriginal, Next, Begin, vars
  <2>2. OneFailure /\ CatalogMove
    BY <1>1, <2>1, KeptStep, CatalogMoves DEF IInv
  <2>3. CASE pc \in {"dropStale", "drop"} /\ db' = Dropped("aside")
    <3>1. Exists("target")
      BY <1>1, <2>2, <2>3 DEF IInv, KeptInv, Restoring
    <3> QED BY <2>0, <2>3, <3>1 DEF Dropped, Exists, Name
  <2>4. CASE db' = Renamed("aside", "target")
    BY <1>1, <2>0, <2>4 DEF DropsOriginal, Renamed, Exists, Name
  <2>5. CASE CanRename("target", "aside") /\ db' = Renamed("target", "aside")
    BY <1>1, <2>0, <2>5 DEF DropsOriginal, CanRename, Renamed, Exists, Name
  <2>6. CASE db' \in {db, [db EXCEPT !["temp"] = run], Dropped("temp"), Renamed("temp", "target")}
    BY <1>1, <2>0, <2>6 DEF DropsOriginal, Dropped, Renamed, Name
  <2> QED BY <2>2, <2>3, <2>4, <2>5, <2>6 DEF CatalogMove
<1>2. IInv /\ [Next]_vars => [DropsOriginal /\ OneFailure' => Exists("target")']_vars
  BY <1>1
<1> QED BY <1>2, Inductive, PTL DEF Spec, OriginalKept

-----------------------------------------------------------------------------
(* The durable cutover                                                     *)


Bears(i, t, a) == db["incoming"] = i /\ db["target"] = t /\ db["aside"] = a

(* The catalog of a planned cutover, in the order in which it moves,       *)
CutoverReady == Bears(Incoming, plan, Absent)
MovedAside == plan # Absent /\ Bears(Incoming, Absent, plan)
Promoted == Bears(Absent, Incoming, plan)
Finished == plan # Absent /\ Bears(Absent, Incoming, Absent)

(* unless somebody else has taken the name that was free.                  *)
Taken == plan # Alien /\ Bears(Incoming, Alien, plan)

(* Where the promotion is under way, where a target was found, and where   *)
(* the success is durable.                                                 *)
Promoting == {"promote", "terminate", "terminateFailed", "recheck", "moveAside",
  "moveAsideFailed", "moved", "swap", "swapFailed", "rollback", "rollbackFailed",
  "rolledBack", "swapped", "saveCutover"}
CutoverReplacing == {"terminate", "terminateFailed", "recheck", "moveAside", "moveAsideFailed",
  "moved", "rollback", "rollbackFailed", "rolledBack", "restored", "terminateAside",
  "checkAside", "drop", "dropFailed", "dropped"}
Finalizing == {"finalize", "terminateAside", "checkAside", "drop", "dropFailed",
  "dropped", "saveFinalized"}

(* Before the plan is durable nothing is renamed; afterwards the catalog is*)
(* one that reconciliation knows.                                          *)
Unmoved ==
  plan = Unplanned =>
    /\ Bears(Incoming, db["target"], Absent) /\ db["target"] \in PlanOids
    /\ ~recorded /\ ~finalized
    /\ stage \in {"resting", "start", "plan", "savePlan"}
    /\ stage = "savePlan" => memo = db["target"] \/ (memo = Absent /\ db["target"] = Alien)

Known ==
  plan # Unplanned =>
    /\ CutoverReady \/ MovedAside \/ Promoted \/ Finished \/ Taken
    /\ stage \notin {"plan", "savePlan"}

Recorded ==
  /\ recorded => Promoted \/ Finished
  /\ finalized => recorded /\ db["aside"] = Absent /\ stage = "resting"

(* What each step may rely on.                                             *)
Located ==
  /\ stage \in Promoting => ~recorded
  /\ stage \in Finalizing => recorded
  /\ stage \in CutoverReplacing => plan # Absent
  /\ stage \in {"moveAside", "restored"} => CutoverReady
  /\ stage = "saveCutover" => Promoted \/ Finished
  /\ stage = "drop" => Promoted
  /\ stage = "saveFinalized" => db["aside"] = Absent

CutoverIInv == CutoverTypeOK /\ Unmoved /\ Known /\ Recorded /\ Located

-----------------------------------------------------------------------------
(* A reconciliation sees the catalog as it is.                             *)
LEMMA ClassifyTrue ==
  ASSUME CutoverTypeOK
  PROVE  /\ Classify = "ready" => CutoverReady
         /\ Classify = "aside" => MovedAside
         /\ Classify = "promoted" => Promoted
         /\ Classify = "finalized" => Finished
         /\ Classify \in State
BY DEF CutoverTypeOK, Classify, State, CutoverReady, MovedAside, Promoted, Finished, Bears

LEMMA Observed ==
  ASSUME NEW at, NEW next, Observe(at, next)
  PROVE  /\ stage = at /\ UNCHANGED <<db, durable, memo>>
         /\ stage' = "resting" \/ (Classify \in DOMAIN next /\ stage' = next[Classify])
         /\ errors' \in {errors, errors + 1} /\ (errors' # errors => errors < MaxErrors)
BY DEF Observe, GoTo, Fault

(* Where a reconciliation of this module may go on, and on what ground.    *)
Sees(at, states) ==
  /\ stage = at
  /\ stage' \in {"resting"} \cup states
  /\ stage' \in {"moveAside", "restored"} => CutoverReady
  /\ stage' = "rollback" => MovedAside
  /\ stage' = "saveCutover" => Promoted \/ Finished
  /\ stage' = "drop" => Promoted
  /\ stage' = "terminate" \/ stage' = "terminateAside" => plan # Absent
  /\ stage' = "saveFinalized" => Finished \/ (Promoted /\ (plan = Absent))

Reconciles == UNCHANGED <<db, durable, memo>> /\ errors' \in 0..MaxErrors

LEMMA ReconciliationSees ==
  ASSUME CutoverTypeOK
  PROVE  /\ Promote => Sees("promote", {"swap", "terminate", "saveCutover"})
         /\ TerminateFailed => Sees("terminateFailed", {"saveCutover"})
         /\ Recheck => Sees("recheck", {"moveAside", "swap", "saveCutover"})
         /\ MoveAsideFailed => Sees("moveAsideFailed", {"swap", "saveCutover"})
         /\ Moved => Sees("moved", {"swap", "saveCutover"})
         /\ SwapFailed => Sees("swapFailed", {"rollback", "saveCutover"})
         /\ RollbackFailed => Sees("rollbackFailed", {"restored", "saveCutover"})
         /\ RolledBack => Sees("rolledBack", {"restored"})
         /\ Swapped => Sees("swapped", {"saveCutover"})
         /\ Finalize => Sees("finalize", {"saveFinalized", "terminateAside"})
         /\ CheckAside => Sees("checkAside", {"drop", "saveFinalized"})
         /\ DropFailed => Sees("dropFailed", {"saveFinalized"})
         /\ DroppedAside => Sees("dropped", {"saveFinalized"})
<1> USE ClassifyTrue, Observed DEF Sees
<1>1. Promote => Sees("promote", {"swap", "terminate", "saveCutover"})
  BY DEF Promote, OrDone, Done
<1>2. TerminateFailed => Sees("terminateFailed", {"saveCutover"})
  BY DEF TerminateFailed, Done
<1>3. Recheck => Sees("recheck", {"moveAside", "swap", "saveCutover"})
  BY DEF Recheck, OrDone, Done
<1>4. MoveAsideFailed => Sees("moveAsideFailed", {"swap", "saveCutover"})
  BY DEF MoveAsideFailed, OrDone, Done
<1>5. Moved => Sees("moved", {"swap", "saveCutover"})
  BY DEF Moved, OrDone, Done
<1>6. SwapFailed => Sees("swapFailed", {"rollback", "saveCutover"})
  BY DEF SwapFailed, AfterSwapFailure, OrDone, Done
<1>7. RollbackFailed => Sees("rollbackFailed", {"restored", "saveCutover"})
  BY DEF RollbackFailed, AfterRollbackFailure, OrDone, Done
<1>8. RolledBack => Sees("rolledBack", {"restored"})
  BY DEF RolledBack
<1>9. Swapped => Sees("swapped", {"saveCutover"})
  BY DEF Swapped, Done
<1>10. Finalize => Sees("finalize", {"saveFinalized", "terminateAside"})
  BY DEF Finalize
<1>11. CheckAside => Sees("checkAside", {"drop", "saveFinalized"})
  BY DEF CheckAside
<1>12. DropFailed => Sees("dropFailed", {"saveFinalized"})
  BY DEF DropFailed
<1>13. DroppedAside => Sees("dropped", {"saveFinalized"})
  BY DEF DroppedAside
<1> QED
  BY <1>1, <1>2, <1>3, <1>4, <1>5, <1>6, <1>7, <1>8, <1>9, <1>10, <1>11, <1>12, <1>13

(* A step that leaves the databases and the metadata keeps the invariant   *)
(* when its process is at a place that these allow.                        *)
LEMMA StaysTrue ==
  ASSUME CutoverIInv, UNCHANGED <<db, durable>>, stage' \in CutoverLocation, errors' \in 0..MaxErrors,
         memo' \in PlanOids \cup {Unplanned},
         Located', stage' = "savePlan" => memo' = db["target"],
         plan = Unplanned => stage' \in {"resting", "start", "plan", "savePlan"},
         plan # Unplanned => stage' \notin {"plan", "savePlan"},
         finalized => stage' = "resting"
  PROVE  CutoverIInv'
BY DEF CutoverIInv, CutoverTypeOK, Unmoved, Known, Recorded, CutoverReady, MovedAside, Promoted,
    Finished, Taken,
       Bears, durable

Reconciliation ==
  \/ Promote \/ TerminateFailed \/ Recheck \/ MoveAsideFailed \/ Moved \/ SwapFailed
  \/ RollbackFailed \/ RolledBack \/ Swapped \/ Finalize \/ CheckAside \/ DropFailed \/ DroppedAside

LEMMA ReconciliationChanges ==
  ASSUME CutoverTypeOK, Reconciliation PROVE Reconciles
<1>1. ASSUME NEW at, NEW next, Observe(at, next) PROVE Reconciles
  BY <1>1, Observed, CutoverAssumption DEF Reconciles, CutoverTypeOK
<1> QED
  BY <1>1 DEF Reconciliation, Promote, TerminateFailed, Recheck, MoveAsideFailed, Moved, SwapFailed,
    RollbackFailed, RolledBack, Swapped, Finalize, CheckAside, DropFailed, DroppedAside

LEMMA ReconciliationStep == ASSUME CutoverIInv, Reconciliation PROVE CutoverIInv'
<1>1. CutoverTypeOK /\ Reconciles /\ db' = db /\ UNCHANGED <<plan, recorded, finalized, memo>>
  BY ReconciliationChanges DEF CutoverIInv, Reconciles, durable
<1> USE ReconciliationSees, <1>1 DEF Reconciles, Sees
<1>2. stage' \in CutoverLocation /\ stage' \notin {"start", "plan", "savePlan"} /\ (finalized => stage' = "resting")
  BY DEF Reconciliation, CutoverLocation, Resting, CutoverIInv, Recorded
<1>3. plan # Unplanned /\ (stage' # "resting" => (recorded <=> stage' \in Finalizing))
  BY DEF Reconciliation, CutoverIInv, Located, Unmoved, Promoting, Finalizing
<1>4. Located'
  <2>1. stage' \in {"moveAside", "restored"} => CutoverReady'
    BY DEF Reconciliation, CutoverReady, Bears
  <2>2. stage' \in CutoverReplacing => plan # Absent
    BY DEF Reconciliation, CutoverReplacing, MovedAside, CutoverIInv, Located
  <2>3. /\ stage' = "saveCutover" => Promoted' \/ Finished'
        /\ stage' = "drop" => Promoted'
    BY DEF Reconciliation, Promoted, Finished, Bears
  <2>4. stage' = "saveFinalized" => db["aside"] = Absent
    BY DEF Reconciliation, Promoted, Finished, Bears
  <2> QED
    BY <1>3, <2>1, <2>2, <2>3, <2>4 DEF Located, Promoting, Finalizing
<1>5. memo' \in PlanOids \cup {Unplanned} /\ errors' \in 0..MaxErrors
  BY DEF CutoverTypeOK
<1> QED
  BY <1>2, <1>3, <1>4, <1>5, StaysTrue DEF durable

-----------------------------------------------------------------------------
(* The statements, of which each changes at most what it names.            *)
LEMMA MoveAsideStep == ASSUME CutoverIInv, MoveTargetAside PROVE CutoverIInv'
<1> USE CutoverAssumption DEF CutoverIInv, MoveTargetAside, RenameDatabase, GoTo, Fault, durable
<1>1. CutoverReady /\ plan # Absent /\ plan # Unplanned /\ ~recorded /\ ~finalized
  BY DEF Located, Promoting, CutoverReplacing, Unmoved, Recorded
<1>2. stage' \in {"moved", "moveAsideFailed"} /\ errors' \in 0..MaxErrors
  BY DEF CutoverTypeOK
<1>3. db' = db \/ MovedAside'
  BY <1>1 DEF Renamed, Bears, CutoverReady, MovedAside, CutoverTypeOK
<1>4. CutoverTypeOK'
  BY <1>2 DEF CutoverTypeOK, Renamed, CutoverLocation, Resting
<1> QED
  BY <1>1, <1>2, <1>3, <1>4
  DEF Unmoved, Known, Recorded, Located, CutoverReady, MovedAside, Bears, Promoting, Finalizing,
      CutoverReplacing

LEMMA CutoverSwapStep == ASSUME CutoverIInv, SwapIncoming PROVE CutoverIInv'
<1> USE CutoverAssumption DEF CutoverIInv, SwapIncoming, RenameDatabase, GoTo, Fault, durable
<1>1. plan # Unplanned /\ ~recorded /\ ~finalized
  BY DEF Located, Promoting, Unmoved, Recorded
<1>2. stage' \in {"swapped", "swapFailed"} /\ errors' \in 0..MaxErrors
  BY DEF CutoverTypeOK
<1>3. db' = db \/ Promoted'
  BY <1>1 DEF CanRename, Exists, Renamed, Known, Bears, CutoverReady, MovedAside, Promoted,
      Finished, Taken, CutoverTypeOK
<1>4. CutoverTypeOK'
  BY <1>2 DEF CutoverTypeOK, Renamed, CutoverLocation, Resting
<1> QED
  BY <1>1, <1>2, <1>3, <1>4
  DEF Unmoved, Known, Recorded, Located, CutoverReady, MovedAside, Promoted, Finished, Taken, Bears,
      Promoting, Finalizing, CutoverReplacing

LEMMA RollbackStep == ASSUME CutoverIInv, Rollback PROVE CutoverIInv'
<1> USE CutoverAssumption DEF CutoverIInv, Rollback, RenameDatabase, GoTo, Fault, durable
<1>1. plan # Unplanned /\ plan # Absent /\ ~recorded /\ ~finalized
  BY DEF Located, Promoting, CutoverReplacing, Unmoved, Recorded
<1>2. stage' \in {"rolledBack", "rollbackFailed"} /\ errors' \in 0..MaxErrors
  BY DEF CutoverTypeOK
<1>3. db' = db \/ CutoverReady'
  BY <1>1 DEF CanRename, Exists, Renamed, Known, Bears, CutoverReady, MovedAside, Promoted,
      Finished, Taken, CutoverTypeOK
<1>4. CutoverTypeOK'
  BY <1>2 DEF CutoverTypeOK, Renamed, CutoverLocation, Resting
<1> QED
  BY <1>1, <1>2, <1>3, <1>4
  DEF Unmoved, Known, Recorded, Located, CutoverReady, MovedAside, Promoted, Finished, Taken, Bears,
      Promoting, Finalizing, CutoverReplacing

LEMMA DropStep == ASSUME CutoverIInv, DropAside PROVE CutoverIInv'
<1> USE CutoverAssumption DEF CutoverIInv, DropAside, GoTo, Fault, durable
<1>1. Promoted /\ plan # Absent /\ plan # Unplanned /\ recorded /\ ~finalized
  BY DEF Located, Finalizing, CutoverReplacing, Unmoved, Recorded
<1>2. stage' \in {"dropped", "dropFailed"} /\ errors' \in 0..MaxErrors
  BY DEF CutoverTypeOK
<1>3. db' = db \/ Finished'
  BY <1>1 DEF Dropped, Bears, Promoted, Finished, CutoverTypeOK
<1>4. CutoverTypeOK'
  BY <1>2 DEF CutoverTypeOK, Dropped, CutoverLocation, Resting
<1> QED
  BY <1>1, <1>2, <1>3, <1>4
  DEF Unmoved, Known, Recorded, Located, Promoted, Finished, Bears, Promoting, Finalizing,
      CutoverReplacing

(* Somebody takes a free name: nothing at work then relies on it.          *)
LEMMA AlienStep == ASSUME CutoverIInv, AlienCreates PROVE CutoverIInv'
<1> USE CutoverAssumption DEF CutoverIInv, AlienCreates, durable
<1>1. CutoverTypeOK'
  BY DEF CutoverTypeOK
<1>2. /\ db["target"] = Absent /\ db'["target"] = Alien
      /\ db'["incoming"] = db["incoming"] /\ db'["aside"] = db["aside"]
      /\ db["aside"] # Alien
  BY DEF Exists, Databases, Range, CutoverTypeOK
<1>3. plan # Unplanned => (CutoverReady /\ plan = Absent) \/ MovedAside
  BY <1>2 DEF Known, CutoverReady, MovedAside, Promoted, Finished, Taken, Bears
<1>4. plan # Unplanned => Taken' /\ ~recorded /\ stage \notin {"moveAside", "restored", "saveCutover", "drop"}
  BY <1>2, <1>3 DEF CutoverReady, MovedAside, Promoted, Finished, Taken, Bears, Recorded, Located,
      CutoverReplacing
<1>5. Unmoved'
  BY <1>2 DEF Unmoved, Bears, PlanOids
<1>6. Located'
  BY <1>2, <1>4 DEF Unmoved, Located, Promoting, Finalizing, CutoverReplacing
<1> QED
  BY <1>1, <1>4, <1>5, <1>6 DEF Unmoved, Known, Recorded

-----------------------------------------------------------------------------
(* The other steps leave the databases as they are.                        *)
LEMMA ProcessStep ==
  ASSUME CutoverIInv, BeginCutover \/ Resume \/ Plan \/ Terminate \/ TerminateAside \/ CrashCutover
  PROVE  CutoverIInv'
<1> USE CutoverAssumption DEF CutoverIInv, GoTo, Fault, durable
<1>1. UNCHANGED <<db, durable>> /\ ~finalized
  BY DEF BeginCutover, Resume, Plan, Terminate, TerminateAside, CrashCutover, Recorded, Resting
<1>2. /\ stage' \in {"resting", "start", "plan", "finalize", "promote", "savePlan", "recheck",
                  "terminateFailed", "checkAside"}
      /\ errors' \in 0..MaxErrors /\ memo' \in PlanOids \cup {Unplanned}
  BY DEF BeginCutover, Resume, Plan, Terminate, TerminateAside, CrashCutover, CutoverTypeOK,
      Unmoved, Known, TargetOid
<1>3. /\ plan = Unplanned => stage' \in {"resting", "start", "plan", "savePlan"}
      /\ plan # Unplanned => stage' \notin {"plan", "savePlan"}
      /\ stage' = "savePlan" => memo' = db["target"]
  BY DEF BeginCutover, Resume, Plan, Terminate, TerminateAside, CrashCutover, Unmoved, Known,
      TargetOid
<1>4. Located'
  <2>1. CASE BeginCutover \/ Plan \/ CrashCutover
    BY <1>1, <2>1 DEF BeginCutover, Plan, CrashCutover, Located, Promoting, Finalizing,
        CutoverReplacing
  <2>2. CASE Resume \/ Terminate \/ TerminateAside
    BY <1>1, <2>2 DEF Resume, Terminate, TerminateAside, Located, Promoting, Finalizing,
        CutoverReplacing
  <2> QED
    BY <2>1, <2>2
<1>5. stage' \in CutoverLocation
  BY <1>2 DEF CutoverLocation, Resting
<1> QED
  BY <1>1, <1>2, <1>3, <1>4, <1>5, StaysTrue

(* The three saves.                                                        *)
LEMMA SaveStep ==
  ASSUME CutoverIInv, SavePlan \/ SaveCutover \/ SaveFinalized PROVE CutoverIInv'
<1> USE CutoverAssumption DEF CutoverIInv, GoTo
<1>1. CASE SavePlan
  <2>1. /\ plan = Unplanned /\ stage' = "promote"
        /\ plan' = db["target"] \/ (plan' = Absent /\ db["target"] = Alien)
        /\ ~recorded /\ ~finalized /\ Bears(Incoming, db["target"], Absent) /\ db["target"] \in PlanOids
        /\ UNCHANGED <<db, recorded, finalized>>
    BY <1>1 DEF SavePlan, Known, Unmoved
  <2>2. plan' # Unplanned /\ (CutoverReady' \/ Taken')
    BY <2>1 DEF PlanOids, CutoverReady, Taken, Bears
  <2> QED
    BY <1>1, <2>1
    DEF SavePlan, CutoverTypeOK, CutoverLocation, PlanOids, Unmoved, Known, Recorded, Located,
        CutoverReady, Taken,
        Bears, Promoting, Finalizing, CutoverReplacing
<1>2. CASE SaveCutover
  BY <1>2 DEF SaveCutover, CutoverTypeOK, CutoverLocation, Unmoved, Known, Recorded, Located,
      CutoverReady, MovedAside,
    Promoted, Finished, Taken, Bears, Promoting, Finalizing, CutoverReplacing
<1>3. CASE SaveFinalized
  BY <1>3 DEF SaveFinalized, CutoverTypeOK, CutoverLocation, Resting, Unmoved, Known, Recorded,
      Located, CutoverReady,
    MovedAside, Promoted, Finished, Taken, Bears, Promoting, Finalizing, CutoverReplacing
<1> QED
  BY <1>1, <1>2, <1>3

LEMMA CutoverInductive == CutoverIInv /\ [CutoverNext]_cutoverVars => CutoverIInv'
<1> SUFFICES ASSUME CutoverIInv, [CutoverNext]_cutoverVars PROVE CutoverIInv'
  OBVIOUS
<1>1. CASE UNCHANGED cutoverVars
  BY <1>1 DEF cutoverVars, CutoverIInv, CutoverTypeOK, Unmoved, Known, Recorded, Located,
      CutoverReady, MovedAside, Promoted,
    Finished, Taken, Bears
<1> QED
  BY <1>1, ReconciliationStep, MoveAsideStep, CutoverSwapStep, RollbackStep, DropStep, AlienStep,
     ProcessStep, SaveStep DEF CutoverNext, CutoverStep, Reconciliation

LEMMA CutoverInitially == CutoverInit => CutoverIInv
<1> SUFFICES ASSUME CutoverInit PROVE CutoverIInv
  OBVIOUS
<1>1. PICK t \in {Old, Absent} :
        db = [n \in {"incoming", "target", "aside"} |->
               CASE n = "incoming" -> Incoming [] n = "target" -> t [] OTHER -> Absent]
  BY DEF CutoverInit
<1>2. Bears(Incoming, t, Absent)
  BY <1>1 DEF Bears
<1>3. db \in [{"incoming", "target", "aside"} -> {Absent, Incoming, Old, Alien}]
  BY <1>1
<1>4. CutoverTypeOK
  <2>1. /\ plan = Unplanned /\ memo = Unplanned /\ stage = "resting" /\ errors = 0
        /\ recorded = FALSE /\ finalized = FALSE
    BY DEF CutoverInit
  <2>2. stage \in CutoverLocation
    BY <2>1 DEF CutoverLocation, Resting
  <2>3. errors \in 0..MaxErrors
    BY <2>1, CutoverAssumption
  <2> QED
    BY <1>3, <2>1, <2>2, <2>3, Zenon DEF CutoverTypeOK
<1> QED
  BY <1>2, <1>4 DEF CutoverIInv, CutoverInit, Unmoved, Known, Recorded, Located, Bears, PlanOids,
      Promoting,
    Finalizing, CutoverReplacing

LEMMA CutoverInvariance == CutoverSpec => []CutoverIInv
BY CutoverInitially, CutoverInductive, PTL DEF CutoverSpec

-----------------------------------------------------------------------------
(* Whatever statement fails, whatever answer is lost and wherever the      *)
(* process dies: metadata that records a cutover finds the recovered       *)
(* database under the live name, metadata that records it finalized finds  *)
(* the old one gone, and the error that says the original was restored is  *)
(* true (cutover_restore).                                                 *)
THEOREM MetadataTrue == CutoverSpec => []CutoverInv
<1>1. CutoverIInv => CutoverInv
  BY DEF CutoverIInv, Recorded, Located, CutoverReady, Promoted, Finished, Bears, Exists,
      CutoverInv,
    RecordedMeansServing, RestoredMeansServing, CutoverReplacing
<1> QED
  BY <1>1, CutoverInvariance, PTL

(* No database is ever dropped but the one that the plan released, after   *)
(* the success is durable (finalize_database_cutover).                     *)
THEOREM ReleasedOnly == CutoverSpec => OnlyReleasedDropped
<1> DEFINE Kept(o) == o \in Databases /\ o \notin Databases' => o = plan /\ recorded
<1>1. ASSUME CutoverIInv, [CutoverNext]_cutoverVars, NEW o \in {Incoming, Old, Alien} PROVE Kept(o)
  <2> USE CutoverAssumption
  <2>1. CASE UNCHANGED db
    BY <2>1 DEF Databases, Range
  <2>2. ASSUME NEW at, NEW from, NEW to, NEW done, NEW refused, RenameDatabase(at, from, to, done, refused),
               from \in DOMAIN db, to \in DOMAIN db
        PROVE  Kept(o)
    BY <1>1, <2>2 DEF RenameDatabase, CanRename, Renamed, Exists, Databases, Range, CutoverIInv,
        CutoverTypeOK
  <2>3. CASE MoveTargetAside \/ SwapIncoming \/ Rollback
    BY <1>1, <2>2, <2>3 DEF MoveTargetAside, SwapIncoming, Rollback, CutoverIInv, CutoverTypeOK
  <2>4. CASE DropAside
    BY <1>1, <2>4 DEF DropAside, Dropped, Databases, Range, CutoverIInv, CutoverTypeOK, Located,
        Finalizing, Promoted, Bears
  <2>5. CASE AlienCreates
    BY <1>1, <2>5 DEF AlienCreates, Exists, Databases, Range, CutoverIInv, CutoverTypeOK
  <2>6. CASE Reconciliation
    BY <1>1, <2>1, <2>6, ReconciliationChanges DEF CutoverIInv, Reconciles
  <2>7. CASE BeginCutover \/ Resume \/ Plan \/ SavePlan \/ SaveCutover \/ SaveFinalized \/ Terminate
               \/ TerminateAside \/ CrashCutover
    BY <2>1, <2>7 DEF BeginCutover, Resume, Plan, SavePlan, SaveCutover, SaveFinalized, Terminate,
      TerminateAside, CrashCutover
  <2> QED
    BY <1>1, <2>1, <2>3, <2>4, <2>5, <2>6, <2>7 DEF CutoverNext, CutoverStep, Reconciliation,
        cutoverVars
<1>2. CutoverIInv /\ [CutoverNext]_cutoverVars =>
        [\A o \in {Incoming, Old, Alien} :
           o \in Databases /\ o \notin Databases' => o = plan /\ recorded]_cutoverVars
  BY <1>1
<1> QED
  BY <1>2, CutoverInvariance, PTL DEF CutoverSpec, OnlyReleasedDropped
=============================================================================
