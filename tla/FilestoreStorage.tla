-------------------------- MODULE FilestoreStorage --------------------------
(***************************************************************************)
(* The migration of an environment's filestore to object storage           *)
(* (services/filestore_storage.py, adapters/object_filestore.py): an       *)
(* inventory of the source is planned, its content uploaded or copied,     *)
(* verified, published as the active generation, and the source deleted on *)
(* a separate command.                                                     *)
(*                                                                         *)
(* A host keeps its migrations in its own state directory and runs one     *)
(* command of the environment at a time, under the environment lock.       *)
(* Hosts share the bucket, or the mounted target; nothing orders them      *)
(* there.  Odoo writes attachments into a source at any time, but not while*)
(* a command removes it (docs/filestore-storage.md has Odoo moved off the  *)
(* source first).  A file is its digest and an inventory a set of digests. *)
(***************************************************************************)
EXTENDS Naturals

CONSTANTS
  Host,
  Migration,    \* migration identifiers; each is planned once
  Object,       \* digests of file contents
  Backend,      \* filestore_backend types an environment may be configured with
  None,         \* no migration, no object
  MaxWrites,    \* bound: changes Odoo makes to sources
  MaxCrashes    \* bound: commands killed

ASSUME FilestoreAssumption ==
  /\ None \notin Migration \cup Object
  /\ Backend \subseteq {"object_mirror", "posix_object_mount", "odoo_module"}
  /\ MaxWrites \in Nat /\ MaxCrashes \in Nat

VARIABLES
  backend,      \* configuration: filestore_backend.type
  volume,       \* configuration: the source is a Docker volume
  source,       \* [Host -> inventory of the source, or Absent]
  manifest,     \* [Migration -> its manifest in the state directory of its host]
  op,           \* [Host -> the command it runs]
  objects,      \* content objects in the bucket
  markers,      \* migrations whose manifest object is in the bucket
  active,       \* the migration active.json names
  target,       \* the POSIX target directory, or Absent
  partial,      \* [Migration -> its partial directory next to the target]
  served,       \* history: every migration active.json ever named
  writes, crashes

configuration == <<backend, volume>>
bucket == <<objects, markers, active, served>>
mount == <<target, partial>>
budget == <<writes, crashes>>
vars == <<configuration, source, manifest, op, bucket, mount, budget>>

-----------------------------------------------------------------------------
Remote == backend \in {"object_mirror", "odoo_module"}

Inventory == SUBSET Object
Absent == {None}           \* no such directory
Directory == Inventory \cup {Absent}
Status == {"planned", "synced", "verified", "cutover", "failed"}
Location == {"idle", "scan", "upload", "mark", "check", "copy", "install",
             "readActive", "publish", "confirm", "remove", "saveDeleted", "unmark"}

Unplanned == [status |-> "unplanned"]

(* The lifecycle rules FilestoreMigrationManifest validates on every save. *)
Consistent(d) ==
  /\ d.deleteStarted => d.status = "cutover"
  /\ d.deleted => d.deleteStarted

Manifest ==
  {d \in [status : Status, host : Host, inventory : Inventory, previous : Migration \cup {None},
          deleteStarted : BOOLEAN, deleted : BOOLEAN] : Consistent(d)}

Command == [at : Location, mig : Migration \cup {None}, seen : Migration \cup {None},
            left : Inventory]
Idle == [at |-> "idle", mig |-> None, seen |-> None, left |-> {}]

TypeOK ==
  /\ backend \in Backend /\ volume \in BOOLEAN
  /\ source \in [Host -> Directory]
  /\ manifest \in [Migration -> Manifest \cup {Unplanned}]
  /\ op \in [Host -> Command]
  /\ \A h \in Host : op[h].at \notin {"idle", "scan"} =>
       /\ op[h].mig \in Migration
       /\ manifest[op[h].mig] \in Manifest
       /\ manifest[op[h].mig].host = h
  /\ \A h \in Host : op[h].at = "scan" => op[h].mig \in Migration
  /\ objects \subseteq Object /\ markers \subseteq Migration
  /\ active \in Migration \cup {None} /\ served \subseteq Migration
  /\ target \in Directory /\ partial \in [Migration -> Directory]
  /\ writes \in 0..MaxWrites /\ crashes \in 0..MaxCrashes

Init ==
  /\ backend \in Backend /\ volume \in BOOLEAN
  /\ source \in [Host -> Inventory]
  /\ manifest = [m \in Migration |-> Unplanned]
  /\ op = [h \in Host |-> Idle]
  /\ objects = {} /\ markers = {} /\ active = None /\ served = {}
  /\ target = Absent /\ partial = [m \in Migration |-> Absent]
  /\ writes = 0 /\ crashes = 0

-----------------------------------------------------------------------------
At(h, pc) == op[h].at = pc
Mig(h) == op[h].mig
Goto(h, pc) == op' = [op EXCEPT ![h].at = pc]
Done(h) == op' = [op EXCEPT ![h] = Idle]
Start(h, m, pc, left) == op' = [op EXCEPT ![h] = [at |-> pc, mig |-> m, seen |-> None, left |-> left]]

(* _owned_migration: the manifest is in this host's state directory, for   *)
(* this environment and an unchanged configuration.                        *)
Owned(h, m) == manifest[m] # Unplanned /\ manifest[m].host = h

Save(m, status) == manifest' = [manifest EXCEPT ![m].status = status]

(* _assert_source_matches                                                  *)
SourceMatches(h, m) == source[h] = manifest[m].inventory

(* verify_inventory: the marker and every object of the inventory is read  *)
(* back; on the mount, the target is scanned.                              *)
RemoteComplete(m) == m \in markers /\ manifest[m].inventory \subseteq objects
TargetComplete(m) == IF Remote THEN RemoteComplete(m) ELSE target = manifest[m].inventory

-----------------------------------------------------------------------------
(* plan_migration: the active generation is read before the source is      *)
(* scanned.  The identifier is random.                                     *)
Plan(h, m) ==
  /\ At(h, "idle") /\ manifest[m] = Unplanned
  /\ \A g \in Host : Mig(g) # m
  /\ op' = [op EXCEPT ![h] = [at |-> "scan", mig |-> m, left |-> {},
                              seen |-> IF Remote THEN active ELSE None]]
  /\ UNCHANGED <<configuration, source, manifest, bucket, mount, budget>>

ScanSource(h) ==
  /\ At(h, "scan")
  /\ IF source[h] = Absent THEN UNCHANGED manifest
     ELSE manifest' = [manifest EXCEPT ![Mig(h)] =
            [status |-> "planned", host |-> h, inventory |-> source[h],
             previous |-> op[h].seen, deleteStarted |-> FALSE, deleted |-> FALSE]]
  /\ Done(h)
  /\ UNCHANGED <<configuration, source, bucket, mount, budget>>

-----------------------------------------------------------------------------
(* sync_migration, up to the first byte written.                           *)
CopyStart(m) ==
  IF target # Absent
  THEN IF target = manifest[m].inventory THEN "install" ELSE "refused"
  ELSE IF partial[m] = Absent THEN "copy" ELSE "refused"

Sync(h, m) ==
  /\ At(h, "idle") /\ Owned(h, m)
  /\ manifest[m].status \in {"planned", "failed", "synced"}
  /\ LET to == IF ~SourceMatches(h, m) THEN "refused"
               ELSE IF Remote THEN "upload" ELSE CopyStart(m)
     IN  /\ IF to = "refused" THEN Save(m, "failed") /\ UNCHANGED op
            ELSE UNCHANGED manifest /\ Start(h, m, to, manifest[m].inventory)
         /\ partial' = IF to = "copy" THEN [partial EXCEPT ![m] = {}] ELSE partial
  /\ UNCHANGED <<configuration, source, bucket, target, budget>>

(* upload_inventory, _copy_inventory: each file is read again and must     *)
(* still be the planned one.  A Docker volume is read from the archive made*)
(* at the start, which matched; an object already there is only verified.  *)
InSource(h, o) == volume \/ (source[h] # Absent /\ o \in source[h])

Upload(h) ==
  /\ At(h, "upload")
  /\ \/ \E o \in op[h].left :
          /\ InSource(h, o)
          /\ objects' = objects \cup {o}
          /\ op' = [op EXCEPT ![h].left = @ \ {o}]
     \/ op[h].left = {} /\ Goto(h, "mark") /\ UNCHANGED objects
  /\ UNCHANGED <<configuration, source, manifest, markers, active, served, mount, budget>>

(* _put_immutable_document: a retry finds its own document.               *)
PutMarker(h) ==
  /\ At(h, "mark")
  /\ markers' = markers \cup {Mig(h)}
  /\ Goto(h, "check")
  /\ UNCHANGED <<configuration, source, manifest, objects, active, served, mount, budget>>

Synced(h) ==
  /\ At(h, "check") /\ RemoteComplete(Mig(h))
  /\ Save(Mig(h), "synced") /\ Done(h)
  /\ UNCHANGED <<configuration, source, bucket, mount, budget>>

(* _copy_inventory into the partial directory, which is scanned before it  *)
(* becomes the target.                                                     *)
Copy(h) ==
  /\ At(h, "copy")
  /\ \/ \E o \in op[h].left :
          /\ InSource(h, o)
          /\ partial' = [partial EXCEPT ![Mig(h)] = @ \cup {o}]
          /\ op' = [op EXCEPT ![h].left = @ \ {o}]
          /\ UNCHANGED target
     \/ /\ op[h].left = {} /\ partial[Mig(h)] = manifest[Mig(h)].inventory
        /\ target \in {Absent, {}}
        /\ target' = partial[Mig(h)]
        /\ partial' = [partial EXCEPT ![Mig(h)] = Absent]
        /\ Goto(h, "install")
  /\ UNCHANGED <<configuration, source, manifest, bucket, budget>>

Install(h) ==
  /\ At(h, "install")
  /\ Save(Mig(h), "synced") /\ Done(h)
  /\ UNCHANGED <<configuration, source, bucket, mount, budget>>

(* A changed file, a provider error, an interrupt: the failure is saved.   *)
(* _copy_inventory removes its partial directory on an Exception, with     *)
(* errors ignored: an interrupt, or a removal that fails, leaves it in the *)
(* way of every later sync of this migration.                              *)
SyncFails(h) ==
  /\ op[h].at \in {"upload", "mark", "check", "copy", "install"}
  /\ partial' \in {partial, [partial EXCEPT ![Mig(h)] = Absent]}
  /\ Save(Mig(h), "failed") /\ Done(h)
  /\ UNCHANGED <<configuration, source, bucket, target, budget>>

-----------------------------------------------------------------------------
(* verify_migration                                                        *)
Verify(h, m) ==
  /\ At(h, "idle") /\ Owned(h, m)
  /\ manifest[m].status \in {"synced", "verified"}
  /\ TargetComplete(m)
  /\ Save(m, "verified")
  /\ UNCHANGED <<configuration, source, op, bucket, mount, budget>>

(* cutover_migration: target and source are verified once more.            *)
Cutover(h, m) ==
  /\ At(h, "idle") /\ Owned(h, m)
  /\ manifest[m].status = "verified"
  /\ TargetComplete(m) /\ SourceMatches(h, m)
  /\ Start(h, m, IF Remote THEN "readActive" ELSE "confirm", {})
  /\ UNCHANGED <<configuration, source, manifest, bucket, mount, budget>>

(* publish_active: the migration may be the active one already, from a     *)
(* cutover that died before it saved; otherwise the active one must be the *)
(* one the plan saw.                                                       *)
Expected(h, seen) == seen \in {Mig(h), manifest[Mig(h)].previous}

ReadActive(h) ==
  /\ At(h, "readActive")
  /\ RemoteComplete(Mig(h))
  /\ IF Expected(h, active)
     THEN op' = [op EXCEPT ![h].at = IF active = Mig(h) THEN "confirm" ELSE "publish",
                           ![h].seen = active]
     ELSE Done(h)
  /\ UNCHANGED <<configuration, source, manifest, bucket, mount, budget>>

(* The put is conditional on the ETag that was read (or on there being no  *)
(* pointer); its reply may be lost.                                        *)
(* Mutant: the put is not conditional.                                     *)
Mutant_PutAccepted(h) == TRUE
PutAccepted(h) == active = op[h].seen

Publish(h) ==
  /\ At(h, "publish")
  /\ IF PutAccepted(h)
     THEN active' = Mig(h) /\ served' = served \cup {Mig(h)}
     ELSE UNCHANGED <<active, served>>
  /\ Goto(h, "confirm")
  /\ UNCHANGED <<configuration, source, manifest, objects, markers, mount, budget>>

(* The pointer is read back, whatever the put answered: only a pointer that*)
(* names this migration lets the cutover be recorded.                      *)
(* Mutant: the pointer is not read back.                                   *)
Mutant_Confirmed(h) == TRUE
Confirmed(h) == Remote => active = Mig(h)

Confirm(h) ==
  /\ At(h, "confirm")
  /\ IF Confirmed(h) THEN Save(Mig(h), "cutover") ELSE UNCHANGED manifest
  /\ Done(h)
  /\ UNCHANGED <<configuration, source, bucket, mount, budget>>

-----------------------------------------------------------------------------
(* delete_source_after_cutover.  The retry of an interrupted deletion finds*)
(* the checkpoint; a source that is there must match the inventory each    *)
(* time.  rmtree of a local path that is gone raises, rm -rf of one in a   *)
(* volume does not.                                                        *)
(* Mutant: a retry removes whatever is at the path.                        *)
Mutant_MayRemove(h, m) == SourceMatches(h, m) \/ manifest[m].deleteStarted
MayRemove(h, m) ==
  \/ SourceMatches(h, m)
  \/ manifest[m].deleteStarted /\ volume /\ source[h] = Absent

DeleteSource(h, m) ==
  /\ At(h, "idle") /\ Owned(h, m)
  /\ backend # "object_mirror"
  /\ manifest[m].status = "cutover" /\ ~manifest[m].deleted
  /\ TargetComplete(m)
  /\ MayRemove(h, m)
  /\ manifest' = [manifest EXCEPT ![m].deleteStarted = TRUE]
  /\ Start(h, m, "remove", {})
  /\ UNCHANGED <<configuration, source, bucket, mount, budget>>

(* shutil.rmtree, rm -rf: file by file, then the directory.                *)
RemoveSource(h) ==
  /\ At(h, "remove")
  /\ \/ source[h] \notin {Absent, {}}
        /\ \E o \in source[h] : source' = [source EXCEPT ![h] = @ \ {o}]
        /\ UNCHANGED op
     \/ source[h] \in {Absent, {}}
        /\ source' = [source EXCEPT ![h] = Absent]
        /\ Goto(h, "saveDeleted")
  /\ UNCHANGED <<configuration, manifest, bucket, mount, budget>>

SaveDeleted(h) ==
  /\ At(h, "saveDeleted")
  /\ manifest' = [manifest EXCEPT ![Mig(h)].deleted = TRUE]
  /\ Done(h)
  /\ UNCHANGED <<configuration, source, bucket, mount, budget>>

(* delete_inactive_remote_marker: active.json is read, then the marker is  *)
(* deleted, with no condition on the pointer.  Objects are never deleted.  *)
(* Mutant: the pointer is not read first.                                  *)
Mutant_Inactive(m) == TRUE
Inactive(m) == active # m

CheckInactive(h, m) ==
  /\ At(h, "idle") /\ Owned(h, m) /\ Remote
  /\ Inactive(m)
  /\ Start(h, m, "unmark", {})
  /\ UNCHANGED <<configuration, source, manifest, bucket, mount, budget>>

Unmark(h) ==
  /\ At(h, "unmark")
  /\ markers' = markers \ {Mig(h)}
  /\ Done(h)
  /\ UNCHANGED <<configuration, source, manifest, objects, active, served, mount, budget>>

-----------------------------------------------------------------------------
(* A provider error outside sync, and a command that is killed: what it    *)
(* wrote stays, a partial directory too.                                   *)
Raise(h) ==
  /\ op[h].at \in {"scan", "readActive", "confirm", "unmark"}
  /\ Done(h)
  /\ UNCHANGED <<configuration, source, manifest, bucket, mount, budget>>

Crash(h) ==
  /\ ~At(h, "idle") /\ crashes < MaxCrashes
  /\ crashes' = crashes + 1 /\ Done(h)
  /\ UNCHANGED <<configuration, source, manifest, bucket, mount, writes>>

(* Odoo stores and removes attachments, or an operator fills the path anew.*)
Write(h) ==
  /\ writes < MaxWrites /\ writes' = writes + 1
  /\ op[h].at \notin {"remove", "saveDeleted"}
  /\ \E files \in Inventory : files # source[h] /\ source' = [source EXCEPT ![h] = files]
  /\ UNCHANGED <<configuration, manifest, op, bucket, mount, crashes>>

Begin(h, m) ==
  \/ Plan(h, m) \/ Sync(h, m) \/ Verify(h, m) \/ Cutover(h, m)
  \/ DeleteSource(h, m) \/ CheckInactive(h, m)

Continue(h) ==
  \/ ScanSource(h) \/ Upload(h) \/ PutMarker(h) \/ Synced(h) \/ Copy(h) \/ Install(h)
  \/ ReadActive(h) \/ Publish(h) \/ Confirm(h)
  \/ RemoveSource(h) \/ SaveDeleted(h) \/ Unmark(h)

Next ==
  \E h \in Host :
    \/ \E m \in Migration : Begin(h, m)
    \/ Continue(h) \/ SyncFails(h) \/ Raise(h)
    \/ Crash(h) \/ Write(h)

Spec == Init /\ [][Next]_vars

-----------------------------------------------------------------------------
(* Whatever hosts race, and whenever one is killed, active.json names a    *)
(* migration whose marker and every object of whose inventory are in the   *)
(* bucket.                                                                 *)
ActiveComplete ==
  active # None => manifest[active] \in Manifest /\ RemoteComplete(active)

(* A recorded cutover happened: the pointer named the migration, or the    *)
(* mounted target holds its inventory.                                     *)
CutoverServed ==
  \A m \in Migration : manifest[m].status = "cutover" =>
    IF Remote THEN m \in served
    ELSE target # Absent /\ manifest[m].inventory \subseteq target

(* The pointer only moves from the generation a plan saw to that plan's    *)
(* own: a concurrent publisher never replaces one planned against another. *)
PublishedAgainstPlan ==
  [][active' # active => manifest[active'].previous = active]_vars

(* A deletion removes no file the verified target does not hold, nor one  *)
(* that came to the source after the inventory.                            *)
Stored(m) == IF Remote THEN IF m \in markers THEN objects ELSE {} ELSE target

RemovedIsStored ==
  [][\A h \in Host : At(h, "remove") /\ source'[h] # source[h] /\ source[h] # Absent =>
       source[h] \subseteq manifest[Mig(h)].inventory \cap Stored(Mig(h))]_vars

(* A cutover on record has happened, and every value has its type.         *)
FilestoreInv == TypeOK /\ CutoverServed
=============================================================================
