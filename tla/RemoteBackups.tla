---------------------------- MODULE RemoteBackups ----------------------------
(***************************************************************************)
(* The backups of one environment on an S3 prefix that several hosts       *)
(* share: services/backup.py, services/remote_backup.py, adapters/s3.py.   *)
(* Each host runs one operation on the environment at a time (its lock is  *)
(* EnvironmentLock); nothing orders the hosts.  A run either creates a     *)
(* backup and publishes it, or verifies an old one; both end with the      *)
(* retention of remote backups.  The manifest is the completion marker, the*)
(* abandonment marker (here: fence) hides an identifier for ever.          *)
(*                                                                         *)
(* A backup is its place in the order of creation timestamps.  A failed    *)
(* request may have been served; the PUT of a marker may be served late.   *)
(***************************************************************************)
EXTENDS Integers, FiniteSets, Sequences

CONSTANTS
  Host,
  MaxBackups,    \* bound: backups reserved
  Grace,         \* backups.retention.grace_hours, in ticks of the clock
  OrphanGrace,   \* backups.remote.orphan_grace_hours
  Tiers,         \* the GFS tiers: how many periods, and the period of a backup
  MaxFaults      \* bound: requests that fail and processes that die

(* Both are ge=1 in config.py.                                             *)
ASSUME BackupAssumption ==
  /\ Grace \in Nat \ {0} /\ OrphanGrace \in Nat \ {0}
  /\ MaxBackups \in Nat /\ MaxFaults \in Nat

Backup == 1..MaxBackups
None == 0
Artifact == {"db.dump", "filestore.tar"}
Object == Artifact \cup {"marker", "fence"}
MaxAge == 1 + IF Grace < OrphanGrace THEN OrphanGrace ELSE Grace

Publishing ==
  {"dump", "index", "uploadDump", "uploadFilestore", "check", "marker", "put"}
Owning == Publishing \cup
  {"verifyMarker", "persist", "withdraw", "inspect", "fence", "failed",
   "sync", "removeDirs", "link", "select"}
Location == Owning \cup
  {"idle", "retention", "delete", "inspectVictim", "fenceVictim", "cleanup", "deleteOrphan"}

VARIABLES
  reserved,    \* backup identifiers given out
  age,         \* age[b][o]: ticks since object o of b was written; Gone without it
  late,        \* markers whose PUT was given up and is still under way
  dirs,        \* backup directories of a host
  index,       \* its .odooctl/backups/<id>.json
  status,      \* remote_status in the manifest of the local copy
  pc, job,     \* the run of a host: where it is, and its variables
  retired,     \* history: backups retention took out of the inventory
  withdrawn,   \* history: backups their publisher gave up
  faults

remote == <<age, late>>
local == <<dirs, index, status>>
history == <<retired, withdrawn>>
vars == <<reserved, remote, local, pc, job, history, faults>>

Gone == -1
Has(b, o) == age[b][o] # Gone
Objects(b) == {o \in Object : Has(b, o)}
Advertised(b) == Has(b, "marker") /\ ~Has(b, "fence")

Job == [own : Backup \cup {None},       \* the backup it publishes or verifies
        victims : SUBSET Backup,        \* what is still to be deleted,
        target : Backup \cup {None},    \* what is being deleted,
        todo : Seq(Object \ {"fence"}), \* and which of its objects are left
        old : SUBSET Backup,            \* abandoned long ago, at the time of Select
        attempted : SUBSET Backup]

NoJob == [own |-> None, victims |-> {}, target |-> None, todo |-> <<>>,
          old |-> {}, attempted |-> {}]

Deleting == {"delete", "deleteOrphan"}

TypeOK ==
  /\ reserved \in 0..MaxBackups
  /\ age \in [Backup -> [Object -> Gone..MaxAge]]
  /\ late \subseteq Backup
  /\ dirs \in [Host -> SUBSET Backup] /\ index \in [Host -> SUBSET Backup]
  /\ status \in [Backup -> {"none", "pending", "complete", "failed"}]
  /\ pc \in [Host -> Location]
  /\ job \in [Host -> Job]
  /\ \A h \in Host :
       /\ pc[h] \in Owning => job[h].own \in Backup
       /\ (job[h].target # None) <=> (pc[h] \in Deleting \cup {"inspectVictim", "fenceVictim"})
       /\ pc[h] \in Deleting => job[h].todo # <<>>
  /\ retired \subseteq Backup /\ withdrawn \subseteq Backup
  /\ faults \in 0..MaxFaults

Init ==
  /\ reserved = 0
  /\ age = [b \in Backup |-> [o \in Object |-> Gone]]
  /\ late = {}
  /\ dirs = [h \in Host |-> {}] /\ index = [h \in Host |-> {}]
  /\ status = [b \in Backup |-> "none"]
  /\ pc = [h \in Host |-> "idle"] /\ job = [h \in Host |-> NoJob]
  /\ retired = {} /\ withdrawn = {}
  /\ faults = 0

-----------------------------------------------------------------------------
(* Requests                                                                *)

GoTo(h, to) == pc' = [pc EXCEPT ![h] = to]
Put(b, o) == age' = [age EXCEPT ![b][o] = 0] /\ UNCHANGED late
Delete(b, o) == age' = [age EXCEPT ![b][o] = Gone] /\ UNCHANGED late

Ok == UNCHANGED faults
Fail == faults < MaxFaults /\ faults' = faults + 1

(* A write that succeeds, or fails whether or not it was served.           *)
Request(h, Effect, to, err) ==
  \/ Effect /\ Ok /\ GoTo(h, to)
  \/ (Effect \/ UNCHANGED remote) /\ Fail /\ GoTo(h, err)

(* An answer that is known, or a request that fails.                       *)
Answer(h, yes, to, no, err) ==
  /\ UNCHANGED remote
  /\ \/ Ok /\ GoTo(h, IF yes THEN to ELSE no)
     \/ Fail /\ GoTo(h, err)

OwnKept == UNCHANGED <<reserved, job, history>>

-----------------------------------------------------------------------------
(* run_backup: the local copy                                              *)

NewBackup == reserved + 1

(* _reserve_backup_staging                                                 *)
Reserve(h) ==
  /\ pc[h] = "idle" /\ reserved < MaxBackups
  /\ reserved' = reserved + 1
  /\ job' = [job EXCEPT ![h].own = NewBackup]
  /\ GoTo(h, "dump") /\ Ok
  /\ UNCHANGED <<remote, local, history>>

(* Dump, archive, manifest and the rename that publishes the directory; an *)
(* exception removes the staging directory, which nothing else looks at.   *)
PublishLocal(h) ==
  LET b == job[h].own IN
  /\ pc[h] = "dump"
  /\ \/ /\ dirs' = [dirs EXCEPT ![h] = @ \cup {b}]
        /\ status' = [status EXCEPT ![b] = "pending"]
        /\ GoTo(h, "index") /\ Ok /\ UNCHANGED job
     \/ /\ GoTo(h, "idle") /\ job' = [job EXCEPT ![h] = NoJob]
        /\ Fail /\ UNCHANGED <<dirs, status>>
  /\ UNCHANGED <<reserved, remote, index, history>>

(* save_backup_manifest: the entry, and latest, which is this one.         *)
Index(h) ==
  /\ pc[h] = "index"
  /\ index' = [index EXCEPT ![h] = @ \cup {job[h].own}]
  /\ GoTo(h, "uploadDump") /\ Ok
  /\ UNCHANGED <<remote, dirs, status>> /\ OwnKept

-----------------------------------------------------------------------------
(* publish_remote_backup                                                   *)

(* upload_backup_payload.  The identifier is new: neither the fence nor a  *)
(* marker that it looks for first can be there.                            *)
UploadDump(h) ==
  /\ pc[h] = "uploadDump"
  /\ Request(h, Put(job[h].own, "db.dump"), "uploadFilestore", "withdraw")
  /\ UNCHANGED local /\ OwnKept

UploadFilestore(h) ==
  /\ pc[h] = "uploadFilestore"
  /\ Request(h, Put(job[h].own, "filestore.tar"), "check", "withdraw")
  /\ UNCHANGED local /\ OwnKept

(* _verify_payload_object_set, after the bytes were read back.             *)
CheckPayload(h) ==
  /\ pc[h] = "check"
  /\ Answer(h, Artifact \subseteq Objects(job[h].own), "marker", "withdraw", "withdraw")
  /\ UNCHANGED local /\ OwnKept

(* upload_manifest: the fence, the payload, the fence again; an exception  *)
(* deletes the marker, which is not there.                                 *)
CheckFence(h) ==
  LET b == job[h].own IN
  /\ pc[h] = "marker"
  /\ Answer(h, ~Has(b, "fence") /\ Artifact \subseteq Objects(b), "put", "withdraw", "withdraw")
  /\ UNCHANGED local /\ OwnKept

(* Mutant: the error of the upload is swallowed.                           *)
Mutant_OnMarkerError == "persist"
OnMarkerError == "withdraw"

PutMarker(h) ==
  LET b == job[h].own IN
  /\ pc[h] = "put"
  /\ \/ Request(h, Put(b, "marker"), "verifyMarker", OnMarkerError)
     \/ Fail /\ late' = late \cup {b} /\ UNCHANGED age /\ GoTo(h, OnMarkerError)
  /\ UNCHANGED local /\ OwnKept

(* S3 serves the PUT that its sender has given up.                         *)
ServeLate(b) ==
  /\ b \in late /\ late' = late \ {b}
  /\ age' = [age EXCEPT ![b]["marker"] = 0]
  /\ UNCHANGED <<reserved, local, pc, job, history, faults>>

VerifyMarker(h) ==
  /\ pc[h] = "verifyMarker"
  /\ Answer(h, Has(job[h].own, "marker"), "persist", "withdraw", "withdraw")
  /\ UNCHANGED local /\ OwnKept

(* _persist_local_manifest                                                 *)
SetStatus(h, b, to) ==
  /\ status' = [status EXCEPT ![b] = to]
  /\ index' = [index EXCEPT ![h] = @ \cup {b}]

PersistComplete(h) ==
  /\ pc[h] = "persist"
  /\ SetStatus(h, job[h].own, "complete")
  /\ GoTo(h, "sync") /\ Ok
  /\ UNCHANGED <<remote, dirs>> /\ OwnKept

(* The except clause: no marker may go on advertising the backup ...       *)
RemoveMarker(h) ==
  LET b == job[h].own IN
  /\ pc[h] = "withdraw"
  /\ Request(h, Delete(b, "marker"), "inspect", "inspect")
  /\ withdrawn' = withdrawn \cup {b}
  /\ UNCHANGED <<reserved, job, retired, local>>

(* ... and what was uploaded is fenced, _mark_incomplete_for_cleanup.      *)
Incomplete(b) ==
  Objects(b) # {} /\ ~Has(b, "marker") /\ ~Has(b, "fence")

Inspect(h) ==
  /\ pc[h] = "inspect"
  /\ Answer(h, Incomplete(job[h].own), "fence", "failed", "failed")
  /\ UNCHANGED local /\ OwnKept

PutFence(h) ==
  /\ pc[h] = "fence"
  /\ Request(h, Put(job[h].own, "fence"), "failed", "failed")
  /\ UNCHANGED local /\ OwnKept

PersistFailed(h) ==
  /\ pc[h] = "failed"
  /\ SetStatus(h, job[h].own, "failed")
  /\ GoTo(h, "sync") /\ Ok
  /\ UNCHANGED <<remote, dirs>> /\ OwnKept

-----------------------------------------------------------------------------
(* Retention                                                               *)

(* Mutant: the newest is kept only if a tier keeps it.                     *)
Mutant_Newest(S) == {}
Newest(S) == {b \in S : \A c \in S : c <= b}

(* The newest backup of each of the newest t.keep periods.                 *)
TierKeeps(t, S) ==
  {b \in S :
     LET newer == {c \in S : c > b} IN
     /\ t.period[b] \notin {t.period[c] : c \in newer}
     /\ Cardinality({t.period[c] : c \in newer}) < t.keep}

Retained(S) == Newest(S) \cup UNION {TierKeeps(t, S) : t \in Tiers}

IndexOf(h, kept) == kept

(* prune_backups_gfs, up to the removals.  How long ago the manifest of a  *)
(* local copy was written is not kept: any may be in its grace period.     *)
SynchronizeIndex(h) ==
  /\ pc[h] = "sync"
  /\ \E fresh \in SUBSET dirs[h] :
       LET kept == Retained(dirs[h]) \cup {job[h].own} \cup fresh IN
       /\ index' = [index EXCEPT ![h] = IndexOf(h, kept)]
       /\ job' = [job EXCEPT ![h].victims = dirs[h] \ kept]
  /\ GoTo(h, "removeDirs") /\ Ok
  /\ UNCHANGED <<reserved, remote, dirs, status, history>>

IsOldest(v, S) == \A w \in S : v <= w

RemoveDirectory(h) ==
  /\ pc[h] = "removeDirs"
  /\ \E v \in job[h].victims :
       /\ IsOldest(v, job[h].victims)
       /\ dirs' = [dirs EXCEPT ![h] = @ \ {v}]
       /\ job' = [job EXCEPT ![h].victims = @ \ {v}]
  /\ Ok /\ UNCHANGED <<reserved, remote, index, status, pc, history>>

Finish(h) == GoTo(h, "idle") /\ job' = [job EXCEPT ![h] = NoJob]

(* Remote retention follows a verified upload.                             *)
LocallyPruned(h) ==
  /\ pc[h] = "removeDirs" /\ job[h].victims = {}
  /\ IF status[job[h].own] = "complete"
       THEN GoTo(h, "select") /\ UNCHANGED job
       ELSE Finish(h)
  /\ Ok /\ UNCHANGED <<reserved, remote, local, history>>

(* backup-remote verify: every byte is read; a failure is kept in the      *)
(* manifest of the local copy, if there is one.                            *)
Verify(h, b) ==
  /\ pc[h] = "idle" /\ Advertised(b)
  /\ \/ /\ Artifact \subseteq Objects(b) /\ Ok
        /\ job' = [job EXCEPT ![h].own = b]
        /\ GoTo(h, "link") /\ UNCHANGED local
     \/ /\ Fail /\ UNCHANGED <<pc, job, dirs>>
        /\ IF b \in dirs[h] THEN SetStatus(h, b, "failed") ELSE UNCHANGED <<index, status>>
  /\ UNCHANGED <<reserved, remote, history>>

Link(h) ==
  LET b == job[h].own IN
  /\ pc[h] = "link"
  /\ IF b \in dirs[h] THEN SetStatus(h, b, "complete") ELSE UNCHANGED <<index, status>>
  /\ GoTo(h, "select") /\ Ok
  /\ UNCHANGED <<remote, dirs>> /\ OwnKept

Protected(h) == {job[h].own}

(* Mutant: the age of a prefix without marker is enough to clean it.       *)
Mutant_Stale(b) == (~Has(b, "marker") \/ Has(b, "fence")) /\ \A o \in Objects(b) : age[b][o] > OrphanGrace
Stale(b) == Has(b, "fence") /\ \A o \in Objects(b) : age[b][o] > OrphanGrace

(* prune_remote_backups: what is listed and can be loaded is a candidate.  *)
Select(h) ==
  /\ pc[h] = "select"
  /\ \E loaded \in SUBSET {b \in Backup : Advertised(b)} :
       LET kept == Retained(loaded) \cup Protected(h)
                     \cup {b \in loaded : age[b]["marker"] <= Grace} IN
       /\ IF \A b \in Backup : Advertised(b) => b \in loaded THEN Ok ELSE Fail
       /\ job' = [job EXCEPT ![h].victims = loaded \ kept,
                             ![h].old = {b \in Backup : Stale(b)}]
  /\ GoTo(h, "retention")
  /\ UNCHANGED <<reserved, remote, local, history>>

(* Mutant: the payload is deleted before the completion marker.            *)
Mutant_MarkerAnd(payload) == payload \o <<"marker">>
MarkerAnd(payload) == <<"marker">> \o payload

(* delete_backup: the objects it lists, in its order; never the fence.     *)
Listed(b, o) == IF Has(b, o) THEN <<o>> ELSE <<>>
DeleteOrder(b) == MarkerAnd(Listed(b, "db.dump") \o Listed(b, "filestore.tar"))

NoTarget(h) == job' = [job EXCEPT ![h].target = None, ![h].todo = <<>>]

(* The manifest of the oldest victim is loaded once more.                  *)
Recheck(h) ==
  /\ pc[h] = "retention"
  /\ \E v \in job[h].victims :
       /\ IsOldest(v, job[h].victims)
       /\ \/ /\ Advertised(v) /\ Ok
             /\ job' = [job EXCEPT ![h].victims = @ \ {v}, ![h].target = v,
                                   ![h].todo = DeleteOrder(v), ![h].attempted = @ \cup {v}]
             /\ GoTo(h, "delete")
          \/ /\ IF Advertised(v) THEN Fail ELSE Ok
             /\ job' = [job EXCEPT ![h].victims = @ \ {v}, ![h].target = v]
             /\ GoTo(h, "inspectVictim")
  /\ UNCHANGED <<reserved, remote, local, history>>

(* One delete_object; the last one and an error end with the target.       *)
DeleteNext(h, done, err) ==
  LET rest == Tail(job[h].todo)
      Request1 == Delete(job[h].target, Head(job[h].todo)) IN
  \/ Request1 /\ Ok /\ rest = <<>> /\ GoTo(h, done) /\ NoTarget(h)
  \/ Request1 /\ Ok /\ rest # <<>> /\ job' = [job EXCEPT ![h].todo = rest] /\ UNCHANGED pc
  \/ (Request1 \/ UNCHANGED remote) /\ Fail /\ err

DeleteVictim(h) ==
  /\ pc[h] = "delete"
  /\ DeleteNext(h, "retention", GoTo(h, "inspectVictim") /\ job' = [job EXCEPT ![h].todo = <<>>])
  /\ retired' = retired \cup {job[h].target}
  /\ UNCHANGED <<reserved, local, withdrawn>>

InspectVictim(h) ==
  LET v == job[h].target IN
  /\ pc[h] = "inspectVictim" /\ UNCHANGED remote
  /\ \/ Incomplete(v) /\ Ok /\ GoTo(h, "fenceVictim") /\ UNCHANGED job
     \/ /\ IF Incomplete(v) THEN Fail ELSE Ok
        /\ GoTo(h, "retention") /\ NoTarget(h)
  /\ UNCHANGED <<reserved, local, history>>

FenceVictim(h) ==
  /\ pc[h] = "fenceVictim"
  /\ Request(h, Put(job[h].target, "fence"), "retention", "retention")
  /\ NoTarget(h)
  /\ UNCHANGED <<reserved, local, history>>

(* What was abandoned long ago, and nothing was written to since.          *)
Orphans(h) ==
  /\ pc[h] = "retention" /\ job[h].victims = {}
  /\ \/ job' = [job EXCEPT ![h].victims = {b \in job[h].old : Stale(b)} \ job[h].attempted] /\ Ok
     \/ UNCHANGED job /\ Fail
  /\ GoTo(h, "cleanup")
  /\ UNCHANGED <<reserved, remote, local, history>>

RecheckOrphan(h) ==
  /\ pc[h] = "cleanup"
  /\ \E v \in job[h].victims :
       /\ IsOldest(v, job[h].victims)
       /\ \/ /\ Stale(v) /\ Objects(v) # {"fence"} /\ Ok
             /\ job' = [job EXCEPT ![h].victims = @ \ {v}, ![h].target = v,
                                   ![h].todo = DeleteOrder(v)]
             /\ GoTo(h, "deleteOrphan")
          \/ /\ IF Stale(v) /\ Objects(v) # {"fence"} THEN Fail ELSE Ok
             /\ job' = [job EXCEPT ![h].victims = @ \ {v}] /\ UNCHANGED pc
  /\ UNCHANGED <<reserved, remote, local, history>>

DeleteOrphan(h) ==
  /\ pc[h] = "deleteOrphan"
  /\ DeleteNext(h, "cleanup", GoTo(h, "cleanup") /\ NoTarget(h))
  /\ UNCHANGED <<reserved, local, history>>

EndRetention(h) ==
  /\ pc[h] = "cleanup" /\ job[h].victims = {}
  /\ Finish(h) /\ Ok
  /\ UNCHANGED <<reserved, remote, local, history>>

-----------------------------------------------------------------------------
Crash(h) ==
  /\ pc[h] # "idle" /\ Fail
  /\ Finish(h)
  /\ UNCHANGED <<reserved, remote, local, history>>

Tick ==
  /\ age' = [b \in Backup |-> [o \in Object |->
       IF Has(b, o) /\ age[b][o] < MaxAge THEN age[b][o] + 1 ELSE age[b][o]]]
  /\ UNCHANGED <<reserved, late, local, pc, job, history, faults>>

Publish(h) ==
  \/ Reserve(h) \/ PublishLocal(h) \/ Index(h) \/ UploadDump(h) \/ UploadFilestore(h)
  \/ CheckPayload(h) \/ CheckFence(h) \/ PutMarker(h) \/ VerifyMarker(h) \/ PersistComplete(h)
  \/ RemoveMarker(h) \/ Inspect(h) \/ PutFence(h) \/ PersistFailed(h)

Retain(h) ==
  \/ SynchronizeIndex(h) \/ RemoveDirectory(h) \/ LocallyPruned(h)
  \/ Link(h) \/ Select(h) \/ Recheck(h) \/ DeleteVictim(h) \/ InspectVictim(h) \/ FenceVictim(h)
  \/ Orphans(h) \/ RecheckOrphan(h) \/ DeleteOrphan(h) \/ EndRetention(h)

Next ==
  \/ \E h \in Host : Publish(h) \/ Retain(h) \/ Crash(h) \/ \E b \in Backup : Verify(h, b)
  \/ \E b \in Backup : ServeLate(b)
  \/ Tick

Spec == Init /\ [][Next]_vars

-----------------------------------------------------------------------------
(* A backup that list, latest, verify and download offer has its payload,  *)
(* whatever was interrupted, repeated or served late (delete_backup: the   *)
(* marker first; publish_remote_backup: the marker last).                  *)
AdvertisedComplete ==
  \A b \in Backup : Advertised(b) => Artifact \subseteq Objects(b)

(* Retention of any host took a backup only for a newer one: that one is   *)
(* still offered, unless its publisher gave it up (the newest owned backup *)
(* is always kept, prune_remote_backups).                                  *)
RetiredForNewer ==
  \A r \in retired : \E b \in Backup :
    b > r /\ (Advertised(b) \/ b \in withdrawn)

(* No host deletes the payload of a backup that another is still           *)
(* publishing, however slowly (orphan cleanup in prune_remote_backups).    *)
ActiveUploadKept ==
  [][\A h \in Host, b \in Backup, o \in Artifact :
       job[h].own = b /\ pc[h] \in Publishing /\ Has(b, o) => Has(b, o)']_vars

(* A local manifest that says complete names a remote copy that is, unless *)
(* retention has taken it (_persist_local_manifest after the marker).      *)
StatusTrue ==
  \A b \in Backup : status[b] = "complete" => Advertised(b) \/ b \in retired

(* The metadata index names directories that are there, also after a crash *)
(* inside prune_backups_gfs (it is synchronized before the removals).      *)
IndexedExists == \A h \in Host : index[h] \subseteq dirs[h]

(* What a host's own records say of its directories and of the prefix is   *)
(* true, and every value has its type (_persist_local_manifest).           *)
RecordsTrue == TypeOK /\ StatusTrue /\ IndexedExists
=============================================================================
