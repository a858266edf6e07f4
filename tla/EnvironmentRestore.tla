------------------------ MODULE EnvironmentRestore ------------------------
(***************************************************************************)
(* How clone and restore (services/clone.py, services/restore.py) replace  *)
(* an environment.  A run picks and validates a backup (a clone dumps the  *)
(* source database instead), restores it into a temporary database,        *)
(* neutralizes and verifies that (odoo/neutralize.py, odoo/sanitize.py),   *)
(* replaces the filestore (adapters/filestore.py), and swap_temp_database  *)
(* (odoo/db_swap.py) moves the live database to a fixed aside name, gives  *)
(* its name to the temporary one and drops the aside copy.                 *)
(*                                                                         *)
(* A run may crash anywhere; any step may fail, and a statement may be     *)
(* executed and its answer lost.  The next run starts over: nothing of the *)
(* previous one is durable but the databases and the filestore.            *)
(***************************************************************************)
EXTENDS PostgresCatalog, FiniteSetsExt

CONSTANTS
  Checked,      \* channels with a switch of their own that are verified: mail, crons, ...
  Unchecked,    \* channels with a switch that nothing verifies: queue jobs, ...
  Credential,   \* what only the normal and strict profiles clear: OAuth, passkeys, ...
  Partial,      \* a filestore directory removed or copied in part
  MaxRuns,      \* bound: runs; run n brings database n and filestore n
  MaxFailed,    \* bound: steps that fail
  MaxLost,      \* bound: statements executed whose answer is lost
  MaxCrashes    \* bound: crashed runs

ASSUME RestoreAssumption ==
  /\ Absent \notin Nat /\ Partial \notin Nat \cup {Absent}
  /\ MaxRuns \in Nat /\ MaxFailed \in Nat /\ MaxLost \in Nat /\ MaxCrashes \in Nat

VARIABLES
  run,          \* runs so far
  pc,           \* where the current run is
  job,          \* its arguments and what it has read so far
  existed,      \* target_existed
  filestore,    \* the environment's filestore directory: the run it is from
  live,         \* [database -> the channels of the source still on in it]
  must,         \* [database -> the channels that must be off before it is served]
  prepared,     \* databases restored, neutralized and verified
  clean,        \* history: the current or last run met no fault
  failed, lost, crashed

faults == <<clean, failed, lost, crashed>>
contents == <<live, must, prepared>>
vars == <<db, run, pc, job, existed, filestore, contents, faults>>

Original == 0
Channel == Checked \cup Unchecked \cup Credential
Name == {"temp", "target", "aside"}
Profile == {"minimal", "normal", "strict"}
Location == {"resting", "choose", "validate", "probe", "prepare", "restoreDump",
             "native", "profile", "custom", "verify",
             "readArchive", "removeFilestore", "moveFilestore",
             "existsAside", "dropStale", "existsTarget", "moveAside", "swap",
             "existsForRestore", "restore", "existsForDrop", "drop"}

(* A backup directory: whose manifest it holds, and whether its files are  *)
(* all there, complete and equal to their checksums.                       *)
Manifest == [project : {"ours", "theirs"}, environment : {"named", "other"}, whole : BOOLEAN]
NoBackup == [project |-> "none", environment |-> "none", whole |-> FALSE]

Job == [kind : {"none", "restore", "restoreTo", "clone"},
        profile : Profile \cup {"none"}, switches : SUBSET (Checked \cup Unchecked),
        custom : BOOLEAN, volume : BOOLEAN,
        capability : {"none", "supported", "unsupported", "disabled"},
        backup : Manifest \cup {NoBackup}]
NoJob == [kind |-> "none", profile |-> "none", switches |-> {}, custom |-> FALSE,
          volume |-> FALSE, capability |-> "none", backup |-> NoBackup]

TypeOK ==
  /\ db \in [Name -> 0..MaxRuns \cup {Absent}]
  /\ run \in 0..MaxRuns
  /\ pc \in Location
  /\ pc \in {"existsForRestore", "restore", "drop"} => existed
  /\ job \in Job
  /\ existed \in BOOLEAN /\ clean \in BOOLEAN
  /\ filestore \in 0..MaxRuns \cup {Absent, Partial}
  /\ live \in [0..MaxRuns -> SUBSET Channel] /\ must \in [0..MaxRuns -> SUBSET Channel]
  /\ prepared \subseteq 0..MaxRuns
  /\ failed \in 0..MaxFailed /\ lost \in 0..MaxLost /\ crashed \in 0..MaxCrashes

(* An environment that has its database and filestore.                     *)
Init ==
  /\ db = [n \in Name |-> IF n = "target" THEN Original ELSE Absent]
  /\ run = 0 /\ pc = "resting" /\ job = NoJob /\ existed = FALSE /\ clean = FALSE
  /\ filestore = Original /\ prepared = {Original}
  /\ live = [n \in 0..MaxRuns |-> Channel] /\ must = [n \in 0..MaxRuns |-> {}]
  /\ failed = 0 /\ lost = 0 /\ crashed = 0

-----------------------------------------------------------------------------
Ok(to) == pc' = to /\ job' = (IF to = "resting" THEN NoJob ELSE job) /\ UNCHANGED faults
Faulty(to) == pc' = to /\ job' = (IF to = "resting" THEN NoJob ELSE job) /\ clean' = FALSE
Fail(to) ==
  /\ failed < MaxFailed /\ failed' = failed + 1
  /\ Faulty(to) /\ UNCHANGED <<lost, crashed>>
Lose(to) ==
  /\ lost < MaxLost /\ lost' = lost + 1
  /\ Faulty(to) /\ UNCHANGED <<failed, crashed>>

(* The run goes on; it fails here; it raises because of what it found.     *)
Advance(to) == pc' = to /\ UNCHANGED faults
Stop == Fail("resting")
Refuse == Faulty("resting") /\ UNCHANGED <<failed, lost, crashed>>

AfterValidation(profile) == IF profile = "none" THEN "prepare" ELSE "probe"

(* database_exists(n), asked at "at"; an error raises to "err".            *)
Ask(at, n, yes, no, err) ==
  /\ pc = at
  /\ Ok(IF Exists(n) THEN yes ELSE no) \/ Fail(err)
  /\ UNCHANGED <<db, run, filestore, contents>>

(* terminate_connections, which changes no name, and the rename after it.  *)
Rename(at, from, to, ok, err) ==
  /\ pc = at
  /\ \/ CanRename(from, to) /\ db' = Renamed(from, to) /\ (Ok(ok) \/ Lose(err))
     \/ UNCHANGED db /\ ((~CanRename(from, to) /\ Ok(err)) \/ Fail(err))
  /\ UNCHANGED <<run, existed, filestore, contents>>

DropDatabase(at, n, ok) ==
  /\ pc = at
  /\ \/ db' = Dropped(n) /\ (Ok(ok) \/ Lose("resting"))
     \/ UNCHANGED db /\ Fail("resting")
  /\ UNCHANGED <<run, existed, filestore, contents>>

-----------------------------------------------------------------------------
(* What the profile's statements switch off, and what the checks after     *)
(* them look at.                                                           *)
Baseline(switches) == switches
Aggressive(profile) == IF profile = "minimal" THEN {} ELSE Credential
ProfileOff(profile, switches) == Baseline(switches) \cup Aggressive(profile)
Verified(switches) == Checked \cap switches

(* What a database must have off before anybody is served from it: the     *)
(* project's own files run after the profile and may undo any of it, so    *)
(* with them no more than what is verified.                                *)
Promised(profile, switches, custom) ==
  IF custom THEN Verified(switches) ELSE ProfileOff(profile, switches)

(* Protected data is copied to another environment only to be neutralized. *)
Refused(kind, protected, profile) == protected /\ profile = "none"

(* run_restore, restore_to_env and run_clone: only the latter two sanitize,*)
(* a restore to another environment exactly what is protected.             *)
Begin ==
  /\ pc = "resting" /\ run < MaxRuns
  /\ run' = run + 1 /\ existed' = FALSE
  /\ \E kind \in {"restore", "restoreTo", "clone"}, protected, custom \in BOOLEAN,
        profile \in Profile \cup {"none"}, switches \in SUBSET (Checked \cup Unchecked) :
       /\ kind = "restore" => (~protected /\ profile = "none")
       /\ kind = "restoreTo" => profile \in {"none"} \cup (IF protected THEN {"normal"} ELSE {})
       /\ profile = "none" => ~custom
       /\ IF Refused(kind, protected, profile)
          THEN pc' = "resting" /\ clean' = FALSE /\ job' = NoJob
          ELSE /\ pc' = IF kind = "clone" THEN AfterValidation(profile) ELSE "choose"
               /\ clean' = TRUE
               /\ job' = [NoJob EXCEPT !.kind = kind, !.profile = profile,
                                       !.switches = IF profile = "none" THEN {} ELSE switches,
                                       !.custom = custom]
       /\ must' = [n \in 0..MaxRuns |->
                     IF n = run + 1 /\ (protected \/ profile # "none")
                     THEN Promised(IF profile = "none" THEN "normal" ELSE profile, switches, custom)
                     ELSE IF n \in Databases THEN must[n] ELSE {}]
  /\ live' = [n \in 0..MaxRuns |-> IF n \in Databases THEN live[n] ELSE Channel]
  /\ UNCHANGED <<db, filestore, prepared, failed, lost, crashed>>

-----------------------------------------------------------------------------
(* Choosing and validating the backup                                      *)

(* The name asked for, or of the directories whose name begins with the    *)
(* environment's the one that sorts last; "only" the project's own when it *)
(* is given, as the recovery drills do and a restore does not.             *)
Resolve(dir, asked, only) ==
  LET own == {i \in DOMAIN dir : ~only \/ dir[i].project = "ours"} IN
  CASE asked \in DOMAIN dir -> dir[asked]
    [] asked \notin DOMAIN dir /\ own # {} -> dir[Max(own)]
    [] OTHER -> NoBackup

Directories == UNION {[1..k -> Manifest] : k \in 0..2}

ResolveBackupDir ==
  /\ pc = "choose"
  /\ \E dir \in Directories, asked \in 0..2 :
       LET found == Resolve(dir, asked, FALSE) IN
       IF found = NoBackup THEN Refuse
       ELSE Advance("validate") /\ job' = [job EXCEPT !.backup = found]
  /\ UNCHANGED <<db, run, existed, filestore, contents>>

(* The environment is compared only where it is expected.                  *)
Valid(b, environment) ==
  b.whole /\ b.project = "ours" /\ (environment => b.environment = "named")

ValidateBackupDir ==
  /\ pc = "validate"
  /\ IF Valid(job.backup, job.kind = "restore")
     THEN Advance(AfterValidation(job.profile)) /\ UNCHANGED job
     ELSE Refuse
  /\ UNCHANGED <<db, run, existed, filestore, contents>>

Capability(policy, answer) ==
  CASE policy = "disabled" -> "disabled"
    [] policy = "required" /\ answer = "unsupported" -> "none"
    [] OTHER -> answer

(* Before anything is changed: an Odoo without the neutralize command is   *)
(* refused where the command is required.                                  *)
Probe ==
  /\ pc = "probe"
  /\ \/ \E policy \in {"required", "preferred", "disabled"}, answer \in {"supported", "unsupported"} :
          LET capability == Capability(policy, answer) IN
          IF capability = "none" THEN Refuse
          ELSE Advance("prepare") /\ job' = [job EXCEPT !.capability = capability]
     \/ Stop
  /\ UNCHANGED <<db, run, existed, filestore, contents>>

-----------------------------------------------------------------------------
(* Preparing the temporary database                                        *)

(* From the filestore on, the run reads no more than these of its job.     *)
Neutralized == [NoJob EXCEPT !.kind = job.kind, !.backup = job.backup]

(* drop_create, leftover or not.                                           *)
Prepare ==
  /\ pc = "prepare"
  /\ \/ db' = [db EXCEPT !["temp"] = run] /\ Advance("restoreDump") /\ UNCHANGED job
     \/ db' \in {db, Dropped("temp")} /\ Stop
  /\ UNCHANGED <<run, existed, filestore, contents>>

(* Mutant: the filestore is replaced before the database is neutralized.   *)
Mutant_AfterDump == "readArchive"
AfterDump ==
  IF job.profile = "none" THEN "readArchive"
  ELSE IF job.capability = "supported" THEN "native" ELSE "profile"

(* pg_restore into it: every channel of the source is on; a failure leaves *)
(* it half filled.                                                         *)
RestoreDump ==
  /\ pc = "restoreDump"
  /\ live' = [live EXCEPT ![run] = Channel]
  /\ \/ /\ Advance(AfterDump)
        /\ job' = IF AfterDump = "readArchive" THEN Neutralized ELSE job
        /\ prepared' = IF AfterDump = "readArchive" THEN prepared \cup {run} ELSE prepared
     \/ Stop /\ UNCHANGED prepared
  /\ UNCHANGED <<db, run, existed, filestore, must>>

(* Odoo's own neutralize command switches off what its modules know of.    *)
NativeNeutralize ==
  /\ pc = "native"
  /\ \E off \in SUBSET Channel : live' = [live EXCEPT ![run] = @ \ off]
  /\ (Advance("profile") /\ UNCHANGED job) \/ Stop
  /\ UNCHANGED <<db, run, existed, filestore, must, prepared>>

(* One statement after another; the first that fails ends the run.         *)
ProfileSql ==
  LET off == ProfileOff(job.profile, job.switches) IN
  /\ pc = "profile"
  /\ \/ /\ live' = [live EXCEPT ![run] = @ \ off]
        /\ Advance(IF job.custom THEN "custom" ELSE "verify") /\ UNCHANGED job
     \/ (\E part \in SUBSET off : live' = [live EXCEPT ![run] = @ \ part]) /\ Stop
  /\ UNCHANGED <<db, run, existed, filestore, must, prepared>>

(* The project's own files may switch anything on or off.                  *)
CustomSql ==
  /\ pc = "custom"
  /\ \E on \in SUBSET Channel : live' = [live EXCEPT ![run] = on]
  /\ (Advance("verify") /\ UNCHANGED job) \/ Stop
  /\ UNCHANGED <<db, run, existed, filestore, must, prepared>>

Verify ==
  /\ pc = "verify"
  /\ \/ /\ live[run] \cap Verified(job.switches) = {}
        /\ Advance("readArchive") /\ job' = Neutralized
        /\ prepared' = prepared \cup {run}
     \/ /\ IF live[run] \cap Verified(job.switches) # {} THEN Refuse ELSE Stop
        /\ UNCHANGED prepared
  /\ UNCHANGED <<db, run, existed, filestore, live, must>>

-----------------------------------------------------------------------------
(* Replacing the filestore                                                 *)

(* An archive with unsafe members, or in a volume one with more than one   *)
(* directory, is refused before the live directory is touched.  It is      *)
(* staged next to the live one, except by a clone within a volume.         *)
ReadArchive ==
  /\ pc = "readArchive"
  /\ \/ Advance("removeFilestore") /\ \E v \in BOOLEAN : job' = [job EXCEPT !.volume = v]
     \/ job.kind # "clone" /\ Refuse
     \/ Stop
  /\ UNCHANGED <<db, run, existed, filestore, contents>>

RemoveFilestore ==
  /\ pc = "removeFilestore"
  /\ \/ filestore' = Absent /\ Advance("moveFilestore") /\ UNCHANGED job
     \/ filestore' \in {filestore, Partial} /\ Stop
  /\ UNCHANGED <<db, run, existed, contents>>

(* A clone within a volume copies the files in place and may fail half-way;*)
(* a restore into one cleans up its stage, and may fail at that.           *)
Stranded ==
  CASE ~job.volume -> {filestore}
    [] job.volume /\ job.kind = "clone" -> {filestore, Partial}
    [] OTHER -> {filestore, run}

MoveFilestore ==
  /\ pc = "moveFilestore"
  /\ \/ filestore' = run /\ Advance("existsAside") /\ job' = NoJob
     \/ filestore' \in Stranded /\ Stop
  /\ UNCHANGED <<db, run, existed, contents>>

-----------------------------------------------------------------------------
(* swap_temp_database                                                      *)

ExistsAside == Ask("existsAside", "aside", "dropStale", "existsTarget", "resting") /\ UNCHANGED existed

DropStale == DropDatabase("dropStale", "aside", "existsTarget")

TargetExisted == Exists("target")

ExistsTarget ==
  /\ Ask("existsTarget", "target", "moveAside", "swap", "resting")
  /\ existed' = TargetExisted

(* Outside the try: an exception leaves the run at once.                   *)
MoveAside == Rename("moveAside", "target", "aside", "swap", "resting")

(* Mutant: a failed promotion is raised without restoring the target.      *)
Mutant_OnPromotionFailure == "resting"
OnPromotionFailure == IF existed THEN "existsForRestore" ELSE "resting"

Swap == Rename("swap", "temp", "target", "existsForDrop", OnPromotionFailure)

ExistsForRestore ==
  Ask("existsForRestore", "aside", "restore", "resting", "resting") /\ UNCHANGED existed

Restore == Rename("restore", "aside", "target", "resting", "resting")

AfterSwap == "drop"

ExistsForDrop ==
  /\ Ask("existsForDrop", "aside", IF existed THEN AfterSwap ELSE "resting", "resting", "resting")
  /\ UNCHANGED existed

Drop == DropDatabase("drop", "aside", "resting")

Crash ==
  /\ pc # "resting" /\ crashed < MaxCrashes
  /\ crashed' = crashed + 1
  /\ Faulty("resting")
  /\ filestore' \in IF pc = "removeFilestore" THEN {filestore, Partial}
                    ELSE IF pc = "moveFilestore" THEN Stranded ELSE {filestore}
  /\ UNCHANGED <<db, run, existed, contents, failed, lost>>

Step ==
  \/ ResolveBackupDir \/ ValidateBackupDir \/ Probe
  \/ Prepare \/ RestoreDump \/ NativeNeutralize \/ ProfileSql \/ CustomSql \/ Verify
  \/ ReadArchive \/ RemoveFilestore \/ MoveFilestore
  \/ ExistsAside \/ DropStale \/ ExistsTarget \/ MoveAside \/ Swap
  \/ ExistsForRestore \/ Restore \/ ExistsForDrop \/ Drop

Next == Begin \/ Step \/ Crash

Spec == Init /\ [][Next]_vars

-----------------------------------------------------------------------------
OneFailure == failed <= 1 /\ lost = 0 /\ crashed = 0

(* As long as no more than one step has failed, and every process lived and*)
(* got its answers, the environment has a database between two runs.       *)
TargetKept == OneFailure /\ pc = "resting" => Exists("target")

DropsOriginal == db["aside"] # Absent /\ db'["aside"] = Absent

(* The same failure never costs the original either: it is dropped only    *)
(* while another database is live under its name.                          *)
OriginalKept == [][DropsOriginal /\ OneFailure' => Exists("target")']_vars

(* And so it is whatever fails or crashes.                                 *)
DroppedOnlyWhenLive == [][DropsOriginal => Exists("target")']_vars

(* Only a completely restored database is ever served, and with every      *)
(* channel off that its run promised to switch off; the live filestore is  *)
(* not touched before there is one (neutralize_database).                  *)
OnlyNeutralizedServed ==
  /\ Exists("target") =>
       /\ db["target"] \in prepared
       /\ live[db["target"]] \cap must[db["target"]] = {}
  /\ filestore # Original => \E n \in 1..run : n \in prepared

(* Nothing is dropped, created or replaced for the sake of a backup that is*)
(* not whole, not this project's or, in a restore of an environment from   *)
(* its own backups, not that environment's (validate_backup_dir).          *)
OnlyValidRestored ==
  /\ job.kind \in {"restore", "restoreTo"}
  /\ pc \notin {"choose", "validate", "probe"}
  => job.backup \in [project : {"ours"}, environment : {"named"} \cup
                      (IF job.kind = "restore" THEN {} ELSE {"other"}), whole : {TRUE}]

(* A run that meets no fault leaves its own database and filestore and no  *)
(* aside copy, whatever the runs before it left.                           *)
CleanRun == pc = "resting" /\ clean => db["target"] = run /\ filestore = run /\ ~Exists("aside")

(* Whatever failed, what is served is neutralized as promised and from a   *)
(* valid backup, a run without a fault leaves nothing behind, and every    *)
(* value has its type (restore_to_env).                                    *)
RestoreInv == TypeOK /\ OnlyNeutralizedServed /\ OnlyValidRestored /\ CleanRun
=============================================================================
