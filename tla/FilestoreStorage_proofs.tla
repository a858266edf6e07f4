----------------------- MODULE FilestoreStorage_proofs -----------------------
(***************************************************************************)
(* Proofs about FilestoreStorage for any number of hosts, migrations,      *)
(* files, writes of Odoo and crashes: the generation in use is complete,   *)
(* is published on top of the one its plan saw, and a removed source is    *)
(* stored.                                                                 *)
(***************************************************************************)
EXTENDS FilestoreStorage, TLAPS

SyncSteps == {"upload", "mark", "check", "copy", "install"}
RemoveSteps == {"remove", "saveDeleted"}

(* A plan in progress has its identifier to itself.                        *)
Scanning(h) ==
  At(h, "scan") =>
    /\ manifest[Mig(h)] = Unplanned
    /\ \A g \in Host : Mig(g) = Mig(h) => g = h

(* The status of a migration while a command works on it.                  *)
Lifecycle(h) ==
  /\ op[h].at \in SyncSteps => manifest[Mig(h)].status \in {"planned", "failed", "synced"}
  /\ op[h].at \in RemoveSteps =>
       manifest[Mig(h)].status = "cutover" /\ manifest[Mig(h)].deleteStarted

PartialOpen(h) == At(h, "copy") => partial[Mig(h)] \in Inventory

(* Only a backend with a pointer publishes one,                            *)
PointerOnly(h) == op[h].at \in {"readActive", "publish"} => Remote

(* for a verified generation, on top of the one the plan saw.              *)
PublishReady(h) ==
  At(h, "publish") =>
    /\ RemoteComplete(Mig(h))
    /\ op[h].seen = manifest[Mig(h)].previous

(* Without a pointer to move, the cutover is recorded for a full target.   *)
MountReady(h) ==
  At(h, "confirm") /\ ~Remote =>
    target # Absent /\ manifest[Mig(h)].inventory \subseteq target

(* A marker about to be deleted is not the active one: only its own host   *)
(* could make it active, and is busy deleting it.                          *)
UnmarkInactive(h) == At(h, "unmark") => active # Mig(h)

(* A removal finds nothing that the inventory and the target do not have.  *)
RemovingStored(h) ==
  At(h, "remove") =>
    /\ source[h] # Absent => source[h] \subseteq manifest[Mig(h)].inventory
    /\ manifest[Mig(h)].inventory \subseteq Stored(Mig(h))

Prepared(h) ==
  /\ PointerOnly(h) /\ PublishReady(h) /\ MountReady(h)
  /\ UnmarkInactive(h) /\ RemovingStored(h)

ActiveServed == active # None => active \in served

(* What the steps of commands rely on for the types,                       *)
Working == TypeOK /\ \A h \in Host : Scanning(h) /\ Lifecycle(h) /\ PartialOpen(h)

(* and the inductive invariant.                                            *)
IInv ==
  /\ Working
  /\ \A h \in Host : Prepared(h)
  /\ ActiveServed /\ ActiveComplete /\ CutoverServed

-----------------------------------------------------------------------------
(* Type correctness: what is stored, and where a command is.               *)

DataTyped ==
  /\ backend \in Backend /\ volume \in BOOLEAN
  /\ source \in [Host -> Directory]
  /\ manifest \in [Migration -> Manifest \cup {Unplanned}]
  /\ objects \subseteq Object /\ markers \subseteq Migration
  /\ active \in Migration \cup {None} /\ served \subseteq Migration
  /\ target \in Directory /\ partial \in [Migration -> Directory]
  /\ writes \in 0..MaxWrites /\ crashes \in 0..MaxCrashes

(* A command c of host h that works on a migration of the host, where d    *)
(* are the manifests.                                                      *)
CommandTyped(h, c, d) ==
  /\ c \in Command
  /\ c.at # "idle" => c.mig \in Migration
  /\ c.at \notin {"idle", "scan"} => d[c.mig] \in Manifest /\ d[c.mig].host = h

LEMMA TypeParts ==
  TypeOK <=> /\ DataTyped
             /\ op \in [Host -> Command]
             /\ \A h \in Host : CommandTyped(h, op[h], manifest)
BY DEF TypeOK, DataTyped, CommandTyped

(* What a step leaves of the manifests that are written.                   *)
Kept ==
  \A k \in Migration : manifest[k] \in Manifest =>
    /\ manifest'[k] \in Manifest
    /\ manifest'[k].host = manifest[k].host
    /\ manifest'[k].inventory = manifest[k].inventory
    /\ manifest'[k].previous = manifest[k].previous
    /\ manifest[k].deleteStarted => manifest'[k].deleteStarted

LEMMA NotPlanned == Unplanned \notin Manifest
BY DEF Unplanned, Manifest, Status

LEMMA Planned ==
  ASSUME TypeOK, NEW h \in Host, NEW m \in Migration, Owned(h, m)
  PROVE  manifest[m] \in Manifest /\ manifest[m].host = h
BY DEF TypeOK, Owned

LEMMA SaveStatus ==
  ASSUME DataTyped, NEW m \in Migration, manifest[m] \in Manifest, NEW s, Save(m, s)
  PROVE  /\ manifest'[m].status = s
         /\ \A k \in Migration \ {m} : manifest'[k] = manifest[k]
<1>1. PICK d : d = [manifest[m] EXCEPT !.status = s]
  OBVIOUS
<1>2. d.status = s
  BY <1>1 DEF Manifest
<1>3. manifest' = [manifest EXCEPT ![m] = d]
  BY <1>1 DEF Save
<1> QED BY <1>2, <1>3 DEF DataTyped

(* Saving a status the lifecycle allows.                                   *)
LEMMA SaveKeeps ==
  ASSUME DataTyped, NEW m \in Migration, manifest[m] \in Manifest,
         NEW s \in Status, manifest[m].deleteStarted => s = "cutover", Save(m, s)
  PROVE  /\ manifest' \in [Migration -> Manifest \cup {Unplanned}]
         /\ Kept
         /\ manifest'[m].status = s
         /\ \A k \in Migration \ {m} : manifest'[k] = manifest[k]
<1>1. PICK d : d = [manifest[m] EXCEPT !.status = s]
  OBVIOUS
<1>2. /\ d \in Manifest /\ d.status = s
      /\ d.host = manifest[m].host /\ d.inventory = manifest[m].inventory
      /\ d.previous = manifest[m].previous /\ d.deleteStarted = manifest[m].deleteStarted
  BY <1>1 DEF Manifest, Consistent
<1>3. manifest' = [manifest EXCEPT ![m] = d]
  BY <1>1 DEF Save
<1> QED BY <1>2, <1>3 DEF DataTyped, Kept

(* Saving a checkpoint of the deletion of a source after its cutover.      *)
LEMMA CheckpointKeeps ==
  ASSUME DataTyped, NEW m \in Migration, manifest[m] \in Manifest, manifest[m].status = "cutover",
         \/ manifest' = [manifest EXCEPT ![m].deleteStarted = TRUE]
         \/ /\ manifest[m].deleteStarted
            /\ manifest' = [manifest EXCEPT ![m].deleted = TRUE]
  PROVE  /\ manifest' \in [Migration -> Manifest \cup {Unplanned}]
         /\ Kept
         /\ manifest'[m].status = "cutover" /\ manifest'[m].deleteStarted
         /\ \A k \in Migration \ {m} : manifest'[k] = manifest[k]
<1>1. PICK d : d = [manifest[m] EXCEPT !.deleteStarted = TRUE]
  OBVIOUS
<1>2. PICK e : e = [manifest[m] EXCEPT !.deleted = TRUE]
  OBVIOUS
<1>3. /\ d \in Manifest /\ d.status = "cutover" /\ d.deleteStarted
      /\ d.host = manifest[m].host /\ d.inventory = manifest[m].inventory
      /\ d.previous = manifest[m].previous
  BY <1>1 DEF Manifest, Consistent
<1>4. ASSUME manifest[m].deleteStarted
      PROVE  /\ e \in Manifest /\ e.status = "cutover" /\ e.deleteStarted
             /\ e.host = manifest[m].host /\ e.inventory = manifest[m].inventory
             /\ e.previous = manifest[m].previous
  BY <1>2, <1>4 DEF Manifest, Consistent
<1>5. \/ manifest' = [manifest EXCEPT ![m] = d]
      \/ manifest[m].deleteStarted /\ manifest' = [manifest EXCEPT ![m] = e]
  BY <1>1, <1>2
<1> QED BY <1>3, <1>4, <1>5 DEF DataTyped, Kept

(* A step of one host to a command that fits keeps the types.              *)
LEMMA Move ==
  ASSUME TypeOK, DataTyped', Kept, NEW h \in Host, NEW c,
         op' = [op EXCEPT ![h] = c], CommandTyped(h, c, manifest')
  PROVE  TypeOK'
<1>1. op' \in [Host -> Command]
  BY TypeParts DEF CommandTyped
<1>2. ASSUME NEW g \in Host PROVE CommandTyped(g, op'[g], manifest')
  BY TypeParts DEF CommandTyped, Kept
<1> QED BY <1>1, <1>2 DEF TypeOK, DataTyped, CommandTyped

(* So does the end of a command,                                           *)
LEMMA Return ==
  ASSUME TypeOK, DataTyped', Kept, NEW h \in Host, Done(h)
  PROVE  TypeOK'
<1>1. CommandTyped(h, Idle, manifest')
  BY DEF CommandTyped, Command, Idle, Location, Inventory
<1> QED BY <1>1, Move DEF Done

(* the start of one,                                                       *)
LEMMA Call ==
  ASSUME TypeOK, DataTyped', Kept, NEW h \in Host, NEW m \in Migration, Owned(h, m),
         NEW l \in Location, NEW F \in Inventory, Start(h, m, l, F)
  PROVE  TypeOK'
<1>1. CommandTyped(h, [at |-> l, mig |-> m, seen |-> None, left |-> F], manifest')
  BY Planned DEF CommandTyped, Command, Kept
<1> QED BY <1>1, Move DEF Start

(* and a step of one to another place, or with less left.                  *)
LEMMA Walk ==
  ASSUME TypeOK, DataTyped', Kept, NEW h \in Host, op[h].at \notin {"idle", "scan"},
         NEW c \in Command, c.mig = op[h].mig, op' = [op EXCEPT ![h] = c]
  PROVE  TypeOK'
<1>1. CommandTyped(h, c, manifest')
  BY TypeParts DEF CommandTyped, Kept
<1> QED BY <1>1, Move

LEMMA GotoWalk ==
  ASSUME TypeOK, DataTyped', Kept, NEW h \in Host, op[h].at \notin {"idle", "scan"},
         NEW l \in Location, Goto(h, l)
  PROVE  TypeOK'
<1>1. PICK c : c = [op[h] EXCEPT !.at = l]
  OBVIOUS
<1>2. c \in Command /\ c.mig = op[h].mig
  BY <1>1 DEF TypeOK, Command
<1>3. op' = [op EXCEPT ![h] = c]
  BY <1>1 DEF Goto
<1> QED BY <1>2, <1>3, Walk

LEMMA LeftWalk ==
  ASSUME TypeOK, DataTyped', Kept, NEW h \in Host, op[h].at \notin {"idle", "scan"},
         NEW o, op' = [op EXCEPT ![h].left = @ \ {o}]
  PROVE  TypeOK'
<1>1. PICK c : c = [op[h] EXCEPT !.left = @ \ {o}]
  OBVIOUS
<1>2. c \in Command /\ c.mig = op[h].mig
  BY <1>1 DEF TypeOK, Command, Inventory
<1>3. op' = [op EXCEPT ![h] = c]
  BY <1>1
<1> QED BY <1>2, <1>3, Walk

(* A step that changes no manifest and no command.                         *)
LEMMA Unmoved ==
  ASSUME TypeOK, DataTyped', UNCHANGED <<manifest, op>>
  PROVE  TypeOK' /\ Kept
BY TypeParts DEF TypeOK, DataTyped, CommandTyped, Kept

-----------------------------------------------------------------------------
(* Every step keeps the types and the manifests that are written.          *)

LEMMA ManifestOf ==
  ASSUME TypeOK, NEW h \in Host, op[h].at \notin {"idle", "scan"}
  PROVE  Mig(h) \in Migration /\ manifest[Mig(h)] \in Manifest /\ manifest[Mig(h)].host = h
BY DEF TypeOK, Mig

(* A directory with one file more is a directory.                          *)
LEMMA Directories ==
  /\ {} \in Directory /\ Absent \in Directory
  /\ Inventory \subseteq Directory
  /\ \A files \in Inventory, o \in Object : files \cup {o} \in Inventory /\ files \ {o} \in Inventory
BY DEF Directory, Inventory

LEMMA BeginTyped ==
  ASSUME Working, NEW h \in Host, NEW m \in Migration, Begin(h, m)
  PROVE  TypeOK' /\ Kept
<1> USE DEF Working, configuration, bucket, mount, budget
<1>1. CASE Plan(h, m)
  <2>1. Kept /\ DataTyped'
    BY <1>1, TypeParts DEF Plan, Kept, DataTyped
  <2>2. PICK c : c = [at |-> "scan", mig |-> m, left |-> {},
                      seen |-> IF Remote THEN active ELSE None]
    OBVIOUS
  <2>3. CommandTyped(h, c, manifest')
    BY <2>2, TypeParts DEF CommandTyped, Command, Location, Inventory, DataTyped
  <2> QED BY <1>1, <2>1, <2>2, <2>3, Move DEF Plan
<1>2. CASE Sync(h, m)
  <2>1. manifest[m] \in Manifest
    BY <1>2, Planned DEF Sync
  <2>2. partial' \in [Migration -> Directory]
    BY <1>2, Directories DEF Sync, TypeOK
  <2>3. CASE Save(m, "failed") /\ UNCHANGED op
    <3>1. Kept /\ manifest' \in [Migration -> Manifest \cup {Unplanned}]
      BY <1>2, <2>1, <2>3, SaveKeeps, TypeParts DEF Sync, Manifest, Consistent, Status
    <3>2. DataTyped'
      BY <1>2, <2>2, <3>1, TypeParts DEF Sync, DataTyped
    <3> QED BY <2>3, <3>1, <3>2 DEF TypeOK, DataTyped, Kept
  <2>4. CASE UNCHANGED manifest /\ \E l \in Location : Start(h, m, l, manifest[m].inventory)
    <3>1. Kept /\ DataTyped'
      BY <1>2, <2>2, <2>4, TypeParts DEF Sync, Kept, DataTyped
    <3>2. manifest[m].inventory \in Inventory
      BY <2>1 DEF Manifest
    <3> QED BY <1>2, <2>4, <3>1, <3>2, Call DEF Sync
  <2> QED BY <1>2, <2>3, <2>4 DEF Sync, CopyStart, Location
<1>3. CASE Verify(h, m)
  <2>1. manifest[m] \in Manifest
    BY <1>3, Planned DEF Verify
  <2>2. Kept /\ manifest' \in [Migration -> Manifest \cup {Unplanned}]
    BY <1>3, <2>1, SaveKeeps, TypeParts DEF Verify, Manifest, Consistent, Status
  <2>3. DataTyped'
    BY <1>3, <2>2, TypeParts DEF Verify, DataTyped
  <2> QED BY <1>3, <2>2, <2>3 DEF Verify, TypeOK, DataTyped, Kept
<1>4. CASE Cutover(h, m)
  <2>1. Kept /\ DataTyped'
    BY <1>4, TypeParts DEF Cutover, Kept, DataTyped
  <2>2. "readActive" \in Location /\ "confirm" \in Location /\ {} \in Inventory
    BY DEF Location, Inventory
  <2> QED BY <1>4, <2>1, <2>2, Call DEF Cutover
<1>5. CASE DeleteSource(h, m)
  <2>1. manifest[m] \in Manifest /\ manifest[m].status = "cutover"
    BY <1>5, Planned DEF DeleteSource
  <2>2. Kept /\ manifest' \in [Migration -> Manifest \cup {Unplanned}]
    BY <1>5, <2>1, CheckpointKeeps, TypeParts DEF DeleteSource
  <2>3. DataTyped'
    BY <1>5, <2>2, TypeParts DEF DeleteSource, DataTyped
  <2>4. "remove" \in Location /\ {} \in Inventory
    BY DEF Location, Inventory
  <2> QED BY <1>5, <2>2, <2>3, <2>4, Call DEF DeleteSource
<1>6. CASE CheckInactive(h, m)
  <2>1. Kept /\ DataTyped'
    BY <1>6, TypeParts DEF CheckInactive, Kept, DataTyped
  <2>2. "unmark" \in Location /\ {} \in Inventory
    BY DEF Location, Inventory
  <2> QED BY <1>6, <2>1, <2>2, Call DEF CheckInactive
<1> QED BY <1>1, <1>2, <1>3, <1>4, <1>5, <1>6 DEF Begin

(* A step that ends the command and saves at most a status of its          *)
(* migration, or a plan.                                                   *)
LEMMA ScanTyped ==
  ASSUME Working, NEW h \in Host, ScanSource(h)
  PROVE  TypeOK' /\ Kept
<1> USE DEF Working, configuration, bucket, mount, budget
<1>1. Mig(h) \in Migration /\ manifest[Mig(h)] = Unplanned
  BY DEF ScanSource, Scanning, TypeOK, Mig, At
<1>2. PICK d : d = [status |-> "planned", host |-> h, inventory |-> source[h],
                    previous |-> op[h].seen, deleteStarted |-> FALSE, deleted |-> FALSE]
  OBVIOUS
<1>3. source[h] # Absent => d \in Manifest
  BY <1>2 DEF Manifest, Status, Consistent, TypeOK, Directory, Command
<1>4. Kept /\ manifest' \in [Migration -> Manifest \cup {Unplanned}]
  BY <1>1, <1>2, <1>3, NotPlanned DEF ScanSource, Kept, TypeOK
<1>5. DataTyped'
  BY <1>4, TypeParts DEF ScanSource, DataTyped
<1> QED BY <1>4, <1>5, Return DEF ScanSource

LEMMA SaveTyped ==
  ASSUME Working, NEW h \in Host, Synced(h) \/ Install(h) \/ Confirm(h) \/ SyncFails(h)
  PROVE  TypeOK' /\ Kept
<1> USE DEF Working, configuration, bucket, mount, budget
<1>1. Mig(h) \in Migration /\ manifest[Mig(h)] \in Manifest
  BY ManifestOf DEF Synced, Install, Confirm, SyncFails, At
<1>2. ~Confirm(h) => ~manifest[Mig(h)].deleteStarted
  BY <1>1 DEF Synced, Install, SyncFails, At, Lifecycle, SyncSteps, Manifest, Consistent
<1>3. \/ UNCHANGED manifest
      \/ Save(Mig(h), "synced") /\ ~manifest[Mig(h)].deleteStarted
      \/ Save(Mig(h), "failed") /\ ~manifest[Mig(h)].deleteStarted
      \/ Save(Mig(h), "cutover")
  BY <1>2 DEF Synced, Install, Confirm, SyncFails
<1>4. Kept /\ manifest' \in [Migration -> Manifest \cup {Unplanned}]
  <2>1. CASE UNCHANGED manifest
    BY <2>1 DEF Kept, TypeOK
  <2>2. {"synced", "failed", "cutover"} \subseteq Status
    BY DEF Status
  <2> QED BY <1>1, <1>3, <2>1, <2>2, SaveKeeps, TypeParts
<1>5. partial' \in [Migration -> Directory]
  BY Directories DEF TypeOK, Synced, Install, Confirm, SyncFails
<1>6. DataTyped' /\ Done(h)
  BY <1>4, <1>5, TypeParts DEF DataTyped, Synced, Install, Confirm, SyncFails
<1> QED BY <1>4, <1>6, Return

(* The other steps of a command.                                           *)
LEMMA ContinueTyped ==
  ASSUME Working, NEW h \in Host, Continue(h)
  PROVE  TypeOK' /\ Kept
<1> USE DEF Working, configuration, bucket, mount, budget
<1>1. CASE Upload(h)
  <2>1. Kept /\ DataTyped'
    <3>1. op[h].left \subseteq Object
      BY DEF TypeOK, Command, Inventory
    <3> QED BY <1>1, <3>1, TypeParts DEF Upload, Kept, DataTyped
  <2>2. "mark" \in Location /\ op[h].at \notin {"idle", "scan"}
    BY <1>1 DEF Upload, At, Location
  <2> QED BY <1>1, <2>1, <2>2, GotoWalk, LeftWalk DEF Upload
<1>2. CASE PutMarker(h)
  <2>1. "check" \in Location /\ op[h].at \notin {"idle", "scan"}
    BY <1>2 DEF PutMarker, At, Location
  <2>2. Kept /\ DataTyped'
    BY <1>2, <2>1, ManifestOf, TypeParts DEF PutMarker, Kept, DataTyped
  <2> QED BY <1>2, <2>1, <2>2, GotoWalk DEF PutMarker
<1>3. CASE Copy(h)
  <2>1. "install" \in Location /\ op[h].at \notin {"idle", "scan"}
    BY <1>3 DEF Copy, At, Location
  <2>2. Mig(h) \in Migration /\ partial[Mig(h)] \in Inventory
    BY <1>3, <2>1, ManifestOf DEF Copy, PartialOpen
  <2>3. \A o \in op[h].left : o \in Object
    BY DEF TypeOK, Command, Inventory
  <2>4. partial' \in [Migration -> Directory] /\ target' \in Directory
    <3>1. \A o \in op[h].left : partial[Mig(h)] \cup {o} \in Directory
      BY <2>2, <2>3 DEF Directory, Inventory
    <3>2. CASE \E o \in op[h].left :
                 partial' = [partial EXCEPT ![Mig(h)] = @ \cup {o}] /\ UNCHANGED target
      <4>1. PICK e \in Directory : partial' = [partial EXCEPT ![Mig(h)] = e] /\ UNCHANGED target
        BY <3>1, <3>2
      <4> QED BY <4>1 DEF TypeOK
    <3>3. CASE target' = partial[Mig(h)] /\ partial' = [partial EXCEPT ![Mig(h)] = Absent]
      BY <2>2, <3>3, Directories DEF TypeOK
    <3> QED BY <1>3, <3>2, <3>3 DEF Copy
  <2>5. Kept /\ DataTyped'
    BY <1>3, <2>4, TypeParts DEF Copy, Kept, DataTyped
  <2> QED BY <1>3, <2>1, <2>5, GotoWalk, LeftWalk DEF Copy
<1>4. CASE ReadActive(h)
  <2>1. Kept /\ DataTyped' /\ active \in Migration \cup {None}
    BY <1>4, TypeParts DEF ReadActive, Kept, DataTyped
  <2>2. PICK l : l = IF active = Mig(h) THEN "confirm" ELSE "publish"
    OBVIOUS
  <2>3. PICK c : c = [op[h] EXCEPT !.at = l, !.seen = active]
    OBVIOUS
  <2>4. c \in Command /\ c.mig = op[h].mig /\ (Done(h) \/ op' = [op EXCEPT ![h] = c])
    <3>1. l \in Location
      BY <2>2 DEF Location
    <3>2. op[h] \in Command /\ op[h].mig \in Migration \cup {None} /\ op[h].left \in Inventory
      BY DEF TypeOK, Command
    <3>3. c = [at |-> l, mig |-> op[h].mig, seen |-> active, left |-> op[h].left]
      BY <2>3, <3>2 DEF Command
    <3>4. c \in Command /\ c.mig = op[h].mig
      BY <2>1, <3>1, <3>2, <3>3 DEF Command
    <3>5. Done(h) \/ op' = [op EXCEPT ![h].at = l, ![h].seen = active]
      BY <1>4, <2>2 DEF ReadActive
    <3> QED BY <2>3, <3>4, <3>5
  <2>5. op[h].at \notin {"idle", "scan"}
    BY <1>4 DEF ReadActive, At
  <2> QED BY <2>1, <2>4, <2>5, Walk, Return
<1>5. CASE Publish(h)
  <2>1. "confirm" \in Location /\ op[h].at \notin {"idle", "scan"}
    BY <1>5 DEF Publish, At, Location
  <2>2. Kept /\ DataTyped'
    BY <1>5, <2>1, ManifestOf, TypeParts DEF Publish, Kept, DataTyped
  <2> QED BY <1>5, <2>1, <2>2, GotoWalk DEF Publish
<1>6. CASE RemoveSource(h)
  <2>1. "saveDeleted" \in Location /\ op[h].at \notin {"idle", "scan"}
    BY <1>6 DEF RemoveSource, At, Location
  <2>2. source' \in [Host -> Directory]
    BY <1>6, Directories DEF RemoveSource, TypeOK, Directory, Inventory
  <2>3. Kept /\ DataTyped'
    BY <1>6, <2>2, TypeParts DEF RemoveSource, Kept, DataTyped
  <2>4. CASE UNCHANGED op
    BY <1>6, <2>3, <2>4, Unmoved DEF RemoveSource
  <2>5. CASE Goto(h, "saveDeleted")
    BY <2>1, <2>3, <2>5, GotoWalk
  <2> QED BY <1>6, <2>4, <2>5 DEF RemoveSource
<1>7. CASE SaveDeleted(h)
  <2>1. /\ Mig(h) \in Migration /\ manifest[Mig(h)] \in Manifest
        /\ manifest[Mig(h)].status = "cutover" /\ manifest[Mig(h)].deleteStarted
    BY <1>7, ManifestOf DEF SaveDeleted, At, Lifecycle, RemoveSteps
  <2>2. Kept /\ manifest' \in [Migration -> Manifest \cup {Unplanned}]
    BY <1>7, <2>1, CheckpointKeeps, TypeParts DEF SaveDeleted
  <2>3. DataTyped'
    BY <1>7, <2>2, TypeParts DEF SaveDeleted, DataTyped
  <2> QED BY <1>7, <2>2, <2>3, Return DEF SaveDeleted
<1>8. CASE Unmark(h)
  <2>1. Kept /\ DataTyped'
    BY <1>8, TypeParts DEF Unmark, Kept, DataTyped
  <2> QED BY <1>8, <2>1, Return DEF Unmark
<1> QED BY <1>1, <1>2, <1>3, <1>4, <1>5, <1>6, <1>7, <1>8, ScanTyped, SaveTyped DEF Continue

(* Errors, kills and what Odoo writes.                                     *)
LEMMA FaultTyped ==
  ASSUME Working, NEW h \in Host, Raise(h) \/ Crash(h) \/ Write(h)
  PROVE  TypeOK' /\ Kept
<1> USE DEF Working, configuration, bucket, mount, budget
<1>1. CASE Raise(h)
  <2>1. Kept /\ DataTyped'
    BY <1>1, TypeParts DEF Raise, Kept, DataTyped
  <2> QED BY <1>1, <2>1, Return DEF Raise
<1>2. CASE Crash(h)
  <2>1. Kept /\ DataTyped'
    BY <1>2, TypeParts, FilestoreAssumption DEF Crash, Kept, DataTyped
  <2> QED BY <1>2, <2>1, Return DEF Crash
<1>3. CASE Write(h)
  <2>1. DataTyped'
    BY <1>3, TypeParts, Directories, FilestoreAssumption DEF Write, DataTyped
  <2> QED BY <1>3, <2>1, Unmoved DEF Write
<1> QED BY <1>1, <1>2, <1>3

LEMMA StepTyped ==
  ASSUME Working, Next
  PROVE  TypeOK' /\ Kept
BY BeginTyped, ContinueTyped, SaveTyped, FaultTyped DEF Next

-----------------------------------------------------------------------------
(* A step of one host leaves alone what the command of another relies on.  *)

(* The migrations a command of host h may write.                           *)
Own(h, k) ==
  \/ ~At(h, "idle") /\ k = Mig(h)
  \/ manifest[k] \in Manifest /\ manifest[k].host = h

Frame(h) ==
  /\ UNCHANGED configuration
  /\ \A g \in Host \ {h} : op'[g] = op[g] /\ source'[g] = source[g]
  /\ \A k \in Migration : manifest'[k] # manifest[k] \/ partial'[k] # partial[k] => Own(h, k)
  /\ objects \subseteq objects'
  /\ \A k \in markers \ markers' : k = Mig(h) /\ At(h, "unmark")
  /\ active' # active => At(h, "publish") /\ active' = Mig(h)
  /\ target' # target => target \in {Absent, {}} /\ target' # Absent

(* The migration its next command is about was planned, or is no other     *)
(* host's.                                                                 *)
Claims(h) ==
  \/ op'[h].mig \in {None, Mig(h)}
  \/ manifest[op'[h].mig] \in Manifest
  \/ \A g \in Host : Mig(g) # op'[h].mig

LEMMA BeginFrame ==
  ASSUME Working, NEW h \in Host, NEW m \in Migration, Begin(h, m)
  PROVE  Frame(h) /\ Claims(h)
<1> USE DEF Working, TypeOK, configuration, bucket, mount, budget, Frame, Claims, Own, At, Mig
<1>1. CASE Plan(h, m)
  BY <1>1 DEF Plan
<1>2. CASE Sync(h, m)
  <2>1. manifest[m] \in Manifest /\ manifest[m].host = h
    BY <1>2, Planned DEF Sync
  <2>2. Mig(h)' \in {Mig(h), m}
    BY <1>2 DEF Sync, Start
  <2>3. Frame(h)
    BY <1>2, <2>1 DEF Sync, Start, Save
  <2> QED BY <2>1, <2>2, <2>3
<1>3. CASE Verify(h, m)
  BY <1>3, Planned DEF Verify, Save
<1>4. CASE Cutover(h, m)
  BY <1>4, Planned DEF Cutover, Start
<1>5. CASE DeleteSource(h, m)
  BY <1>5, Planned DEF DeleteSource, Start
<1>6. CASE CheckInactive(h, m)
  BY <1>6, Planned DEF CheckInactive, Start
<1> QED BY <1>1, <1>2, <1>3, <1>4, <1>5, <1>6 DEF Begin

LEMMA ContinueFrame ==
  ASSUME Working, NEW h \in Host,
         Continue(h) \/ SyncFails(h) \/ Raise(h) \/ Crash(h) \/ Write(h)
  PROVE  Frame(h) /\ Claims(h)
<1> USE DEF Working, TypeOK, configuration, bucket, mount, budget, Frame, Claims, Own, At, Mig,
            Command, Idle
<1>1. CASE ScanSource(h)
  BY <1>1 DEF ScanSource, Done
<1>2. CASE Upload(h)
  BY <1>2 DEF Upload, Goto
<1>3. CASE PutMarker(h)
  BY <1>3 DEF PutMarker, Goto
<1>4. CASE Synced(h) \/ Install(h) \/ Confirm(h)
  BY <1>4 DEF Synced, Install, Confirm, Save, Done
<1>5. CASE Copy(h)
  <2>1. Mig(h) \in Migration /\ partial[Mig(h)] \in Inventory
    BY <1>5, ManifestOf DEF Copy, PartialOpen
  <2>2. partial[Mig(h)] # Absent
    BY <2>1, FilestoreAssumption DEF Inventory, Absent
  <2> QED BY <1>5, <2>1, <2>2 DEF Copy, Goto
<1>6. CASE ReadActive(h)
  BY <1>6 DEF ReadActive, Done
<1>7. CASE Publish(h)
  BY <1>7 DEF Publish, Goto
<1>8. CASE RemoveSource(h)
  BY <1>8 DEF RemoveSource, Goto
<1>9. CASE SaveDeleted(h)
  BY <1>9 DEF SaveDeleted, Done
<1>10. CASE Unmark(h)
  BY <1>10 DEF Unmark, Done
<1>11. CASE SyncFails(h)
  BY <1>11 DEF SyncFails, Save, Done
<1>12. CASE Raise(h) \/ Crash(h) \/ Write(h)
  BY <1>12 DEF Raise, Crash, Write, Done
<1> QED BY <1>1, <1>2, <1>3, <1>4, <1>5, <1>6, <1>7, <1>8, <1>9, <1>10, <1>11, <1>12 DEF Continue

(* Hosts work on migrations of their own.                                  *)
LEMMA Apart ==
  ASSUME Working, NEW h \in Host, NEW g \in Host \ {h}, ~At(g, "idle")
  PROVE  Mig(g) \in Migration /\ ~Own(h, Mig(g))
<1>1. Mig(g) \in Migration
  BY DEF Working, TypeOK, At, Mig
<1>2. CASE At(g, "scan")
  <2>1. manifest[Mig(g)] = Unplanned /\ Mig(h) # Mig(g)
    BY <1>2 DEF Working, Scanning
  <2> QED BY <1>1, <2>1, NotPlanned DEF Own
<1>3. CASE ~At(g, "scan")
  <2>1. manifest[Mig(g)] \in Manifest /\ manifest[Mig(g)].host = g
    BY <1>3, ManifestOf DEF Working, At
  <2>2. CASE At(h, "scan")
    <3>1. manifest[Mig(h)] = Unplanned
      BY <2>2 DEF Working, Scanning
    <3> QED BY <1>1, <2>1, <2>2, <3>1, NotPlanned DEF Own
  <2>3. CASE ~At(h, "scan") /\ ~At(h, "idle")
    <3>1. manifest[Mig(h)].host = h
      BY <2>3, ManifestOf DEF Working, At
    <3> QED BY <1>1, <2>1, <3>1 DEF Own
  <2>4. CASE At(h, "idle")
    BY <1>1, <2>1, <2>4 DEF Own
  <2> QED BY <1>1, <2>2, <2>3, <2>4
<1> QED BY <1>1, <1>2, <1>3

-----------------------------------------------------------------------------
(* The commands of the other hosts keep what they rely on.                 *)
LEMMA Others ==
  ASSUME IInv, NEW h \in Host, NEW g \in Host \ {h}, Kept, Frame(h), Claims(h)
  PROVE  (Scanning(g) /\ Lifecycle(g) /\ PartialOpen(g) /\ Prepared(g))'
<1>1. op'[g] = op[g] /\ source'[g] = source[g] /\ Mig(g)' = Mig(g) /\ Remote' = Remote
  BY DEF Frame, Mig, Remote, configuration
<1>2. CASE At(g, "idle")
  BY <1>1, <1>2 DEF At, Scanning, Lifecycle, PartialOpen, Prepared, PointerOnly, PublishReady,
                    MountReady, UnmarkInactive, RemovingStored, SyncSteps, RemoveSteps
<1>3. CASE ~At(g, "idle")
  <2>1. Mig(g) \in Migration /\ ~Own(h, Mig(g))
    BY <1>3, Apart DEF IInv
  <2>2. manifest'[Mig(g)] = manifest[Mig(g)] /\ partial'[Mig(g)] = partial[Mig(g)]
    BY <2>1 DEF Frame
  <2>3. /\ Mig(g) \in markers => Mig(g) \in markers'
        /\ objects \subseteq objects'
        /\ active' # active => active' # Mig(g)
    BY <2>1 DEF Frame, Own, At
  <2>4. Scanning(g)'
    <3>1. SUFFICES ASSUME At(g, "scan"), NEW f \in Host, Mig(f)' = Mig(g) PROVE f = g
      BY <1>1, <2>2 DEF Scanning, At, IInv, Working
    <3>2. manifest[Mig(g)] = Unplanned /\ \A e \in Host : Mig(e) = Mig(g) => e = g
      BY <3>1 DEF Scanning, IInv, Working
    <3>3. CASE f # h
      BY <3>1, <3>2, <3>3 DEF Frame, Mig
    <3>4. CASE f = h
      <4>1. Mig(h) # Mig(g) /\ Mig(g) \notin {None} /\ manifest[Mig(g)] \notin Manifest
        BY <2>1, <3>2, NotPlanned, FilestoreAssumption
      <4> QED BY <3>1, <3>4, <4>1 DEF Claims, Mig
    <3> QED BY <3>3, <3>4
  <2>5. Lifecycle(g)' /\ PartialOpen(g)'
    BY <1>1, <2>2 DEF IInv, Working, Lifecycle, PartialOpen, At
  <2>6. PointerOnly(g)' /\ PublishReady(g)' /\ UnmarkInactive(g)'
    BY <1>1, <2>2, <2>3 DEF IInv, Prepared, PointerOnly, PublishReady, UnmarkInactive, RemoteComplete, At
  <2>7. \A m \in Migration : manifest[m] \in Manifest => manifest[m].inventory \in Inventory
    BY DEF Manifest
  <2>8. \A files \in Inventory : files \subseteq target => files \subseteq target'
    <3>1. target \in {Absent, {}} => \A files \in Inventory : files \subseteq target => files = {}
      BY FilestoreAssumption DEF Inventory, Absent
    <3> QED BY <3>1 DEF Frame
  <2>9. MountReady(g)'
    <3>1. At(g, "confirm") => manifest[Mig(g)] \in Manifest
      BY ManifestOf DEF IInv, Working, At
    <3> QED BY <1>1, <2>1, <2>2, <2>7, <2>8, <3>1 DEF IInv, Prepared, MountReady, At, Frame
  <2>10. RemovingStored(g)'
    <3>1. At(g, "remove") => manifest[Mig(g)] \in Manifest
      BY ManifestOf DEF IInv, Working, At
    <3>2. At(g, "remove") => manifest[Mig(g)].inventory \subseteq Stored(Mig(g))'
      BY <1>1, <2>1, <2>3, <2>7, <2>8, <3>1 DEF IInv, Prepared, RemovingStored, Stored
    <3> QED BY <1>1, <2>2, <3>2 DEF IInv, Prepared, RemovingStored, At
  <2> QED BY <2>4, <2>5, <2>6, <2>9, <2>10 DEF Prepared
<1> QED BY <1>2, <1>3

(* The command that steps: where it can come from, and what it relies on   *)
(* there.                                                                  *)
LEMMA OwnWorking ==
  ASSUME IInv, NEW h \in Host, Kept, TypeOK',
         \/ \E m \in Migration : Begin(h, m)
         \/ Continue(h) \/ SyncFails(h) \/ Raise(h) \/ Crash(h) \/ Write(h)
  PROVE  (Scanning(h) /\ Lifecycle(h) /\ PartialOpen(h))'
<1> USE DEF IInv, Working, Scanning, Lifecycle, PartialOpen, SyncSteps, RemoveSteps, At, Mig, Idle, Done,
            TypeOK
<1>1. ASSUME NEW m \in Migration, Plan(h, m) PROVE (Scanning(h) /\ Lifecycle(h) /\ PartialOpen(h))'
  BY <1>1 DEF Plan
<1>2. ASSUME NEW m \in Migration, Sync(h, m) PROVE (Scanning(h) /\ Lifecycle(h) /\ PartialOpen(h))'
  BY <1>2 DEF Sync, Start, Save, CopyStart, Inventory, Owned
<1>3. ASSUME NEW m \in Migration, Verify(h, m) PROVE (Scanning(h) /\ Lifecycle(h) /\ PartialOpen(h))'
  BY <1>3 DEF Verify, Save, Owned
<1>4. ASSUME NEW m \in Migration, Cutover(h, m) PROVE (Scanning(h) /\ Lifecycle(h) /\ PartialOpen(h))'
  BY <1>4 DEF Cutover, Start, Owned
<1>5. ASSUME NEW m \in Migration, DeleteSource(h, m) PROVE (Scanning(h) /\ Lifecycle(h) /\ PartialOpen(h))'
  BY <1>5 DEF DeleteSource, Start, Owned
<1>6. ASSUME NEW m \in Migration, CheckInactive(h, m) PROVE (Scanning(h) /\ Lifecycle(h) /\ PartialOpen(h))'
  BY <1>6 DEF CheckInactive, Start, Owned
<1>7. CASE ScanSource(h)
  BY <1>7 DEF ScanSource
<1>8. CASE Upload(h)
  <2>1. op'[h].at \in {"upload", "mark"} /\ op'[h].mig = op[h].mig
    BY <1>8 DEF Upload, Goto, Command
  <2> QED BY <1>8, <2>1 DEF Upload
<1>9. CASE PutMarker(h)
  BY <1>9 DEF PutMarker, Goto
<1>10. CASE Synced(h)
  BY <1>10 DEF Synced
<1>11. CASE Copy(h)
  <2>1. op'[h].at \in {"copy", "install"} /\ op'[h].mig = op[h].mig /\ UNCHANGED manifest
    BY <1>11 DEF Copy, Goto, Command
  <2>2. Mig(h) \in Migration /\ partial[Mig(h)] \in Inventory
    BY <1>11, ManifestOf DEF Copy
  <2>3. op'[h].at = "copy" => \E o \in Object : partial' = [partial EXCEPT ![Mig(h)] = @ \cup {o}]
    BY <1>11 DEF Copy, Goto, Command, Inventory
  <2>4. op'[h].at = "copy" => partial'[Mig(h)] \in Inventory
    BY <2>2, <2>3 DEF Inventory
  <2> QED BY <1>11, <2>1, <2>4 DEF Copy
<1>12. CASE Install(h)
  BY <1>12 DEF Install
<1>13. CASE ReadActive(h)
  <2>1. op'[h].at \in {"idle", "publish", "confirm"}
    BY <1>13 DEF ReadActive, Command
  <2> QED BY <2>1
<1>14. CASE Publish(h)
  BY <1>14 DEF Publish, Goto
<1>15. CASE Confirm(h)
  BY <1>15 DEF Confirm
<1>16. CASE RemoveSource(h)
  <2>1. op'[h].at \in {"remove", "saveDeleted"} /\ op'[h].mig = op[h].mig
    BY <1>16 DEF RemoveSource, Goto, Command
  <2> QED BY <1>16, <2>1 DEF RemoveSource
<1>17. CASE SaveDeleted(h)
  BY <1>17 DEF SaveDeleted
<1>18. CASE Unmark(h)
  BY <1>18 DEF Unmark
<1>19. CASE SyncFails(h)
  BY <1>19 DEF SyncFails
<1>20. CASE Raise(h)
  BY <1>20 DEF Raise
<1>21. CASE Crash(h)
  BY <1>21 DEF Crash
<1>22. CASE Write(h)
  BY <1>22 DEF Write, mount
<1> QED BY <1>1, <1>2, <1>3, <1>4, <1>5, <1>6, <1>7, <1>8, <1>9, <1>10, <1>11, <1>12, <1>13, <1>14, <1>15, <1>16, <1>17, <1>18, <1>19, <1>20, <1>21, <1>22 DEF Begin, Continue

(* The files of a planned inventory are not those of a missing directory.  *)
LEMMA InventoryOf ==
  ASSUME NEW d \in Manifest
  PROVE  d.inventory \in Inventory /\ d.inventory # Absent
<1>1. d.inventory \in Inventory
  BY DEF Manifest
<1> QED BY <1>1, FilestoreAssumption DEF Inventory, Absent

LEMMA OwnPrepared ==
  ASSUME IInv, NEW h \in Host, Kept,
         \/ \E m \in Migration : Begin(h, m)
         \/ Continue(h) \/ SyncFails(h) \/ Raise(h) \/ Crash(h) \/ Write(h)
  PROVE  Prepared(h)'
<1> DEFINE Serious == {"readActive", "publish", "confirm", "unmark", "remove"}
<1>1. op'[h].at \notin Serious => Prepared(h)'
  BY DEF Prepared, PointerOnly, PublishReady, MountReady, UnmarkInactive, RemovingStored, At
<1>2. TypeOK /\ op[h] \in Command /\ op \in [Host -> Command] /\ Prepared(h)
  BY DEF IInv, Working, TypeOK
<1>3. ASSUME NEW m \in Migration, Begin(h, m) PROVE Prepared(h)'
  <2>1. CASE Cutover(h, m)
    <3>1. manifest[m] \in Manifest
      BY <1>2, <2>1, Planned DEF Cutover
    <3>2. /\ op'[h].at = IF Remote THEN "readActive" ELSE "confirm"
          /\ op'[h].mig = m /\ UNCHANGED <<configuration, manifest, mount>>
      BY <1>2, <2>1 DEF Cutover, Start
    <3>3. ~Remote => target = manifest[m].inventory
      BY <2>1 DEF Cutover, TargetComplete
    <3> QED BY <3>1, <3>2, <3>3, InventoryOf
            DEF Prepared, PointerOnly, PublishReady, MountReady, UnmarkInactive, RemovingStored,
                At, Mig, Remote, configuration, mount
  <2>2. CASE DeleteSource(h, m)
    <3>1. manifest[m] \in Manifest
      BY <1>2, <2>2, Planned DEF DeleteSource
    <3>2. /\ op'[h].at = "remove" /\ op'[h].mig = m
          /\ UNCHANGED <<configuration, source, bucket, mount>>
      BY <1>2, <2>2 DEF DeleteSource, Start
    <3>3. manifest[m].inventory \subseteq Stored(m)
      BY <2>2 DEF DeleteSource, TargetComplete, RemoteComplete, Stored
    <3>4. source[h] = Absent \/ source[h] = manifest[m].inventory
      BY <2>2 DEF DeleteSource, MayRemove, SourceMatches
    <3>5. manifest'[m].inventory = manifest[m].inventory
      BY <3>1 DEF Kept
    <3> QED BY <3>2, <3>3, <3>4, <3>5
            DEF Prepared, PointerOnly, PublishReady, MountReady, UnmarkInactive, RemovingStored,
                At, Mig, Remote, Stored, configuration, mount, bucket
  <2>3. CASE CheckInactive(h, m)
    <3>1. op'[h].at = "unmark" /\ op'[h].mig = m /\ active' # m
      BY <1>2, <2>3 DEF CheckInactive, Start, Inactive, bucket
    <3> QED BY <3>1 DEF Prepared, PointerOnly, PublishReady, MountReady, UnmarkInactive,
                        RemovingStored, At, Mig
  <2>4. CASE Plan(h, m) \/ Sync(h, m) \/ Verify(h, m)
    <3>1. op'[h].at \notin Serious
      BY <1>2, <2>4 DEF Plan, Sync, Verify, Start, CopyStart, At
    <3> QED BY <1>1, <3>1
  <2> QED BY <1>3, <2>1, <2>2, <2>3, <2>4 DEF Begin
<1>4. CASE ReadActive(h)
  <2>1. Remote /\ RemoteComplete(Mig(h)) /\ op[h].at = "readActive"
    BY <1>2, <1>4 DEF ReadActive, Prepared, PointerOnly, At
  <2>2. \/ op'[h].at = "idle"
        \/ op'[h].at = "confirm"
        \/ /\ op'[h].at = "publish" /\ op'[h].mig = op[h].mig /\ op'[h].seen = active
           /\ active = manifest[Mig(h)].previous
    BY <1>2, <1>4 DEF ReadActive, Expected, Done, Idle, Command
  <2>3. UNCHANGED <<configuration, manifest, bucket>>
    BY <1>4 DEF ReadActive
  <2> QED BY <2>1, <2>2, <2>3
          DEF Prepared, PointerOnly, PublishReady, MountReady, UnmarkInactive, RemovingStored,
              RemoteComplete, At, Mig, Remote, configuration, bucket
<1>5. CASE Publish(h)
  <2>1. Remote /\ op'[h].at = "confirm" /\ UNCHANGED configuration
    BY <1>2, <1>5 DEF Publish, Prepared, PointerOnly, At, Goto, Command
  <2> QED BY <2>1 DEF Prepared, PointerOnly, PublishReady, MountReady, UnmarkInactive,
                      RemovingStored, At, Remote, configuration
<1>6. CASE RemoveSource(h)
  <2>1. CASE op'[h].at \notin Serious
    BY <1>1, <2>1
  <2>2. CASE op'[h].at \in Serious
    <3>1. /\ op'[h] = op[h] /\ op[h].at = "remove"
          /\ source[h] # Absent /\ source'[h] \subseteq source[h]
          /\ UNCHANGED <<configuration, manifest, bucket, mount>>
      BY <1>2, <1>6, <2>2 DEF RemoveSource, Goto, At, Command, TypeOK
    <3> QED BY <1>2, <3>1
            DEF Prepared, PointerOnly, PublishReady, MountReady, UnmarkInactive, RemovingStored,
                At, Mig, Stored, Remote, configuration, bucket, mount
  <2> QED BY <2>1, <2>2
<1>7. CASE \/ Upload(h) \/ PutMarker(h) \/ Copy(h)
           \/ (Continue(h) /\ Done(h)) \/ SyncFails(h) \/ Raise(h) \/ Crash(h) \/ SaveDeleted(h)
  <2>1. op'[h].at \notin Serious
    BY <1>2, <1>7 DEF Upload, PutMarker, Copy, SyncFails, Raise, Crash, SaveDeleted, Goto, Done, Idle,
                      At, Command
  <2> QED BY <1>1, <2>1
<1>8. CASE Write(h)
  <2>1. op' = op /\ (op[h].at = "remove" => FALSE) /\ UNCHANGED <<configuration, manifest, bucket, mount>>
    BY <1>8 DEF Write
  <2> QED BY <1>2, <2>1
          DEF Prepared, PointerOnly, PublishReady, MountReady, UnmarkInactive, RemovingStored,
              RemoteComplete, At, Mig, Remote, configuration, bucket, mount
<1> QED BY <1>3, <1>4, <1>5, <1>6, <1>7, <1>8
        DEF Continue, ScanSource, Synced, Install, Confirm, Unmark

-----------------------------------------------------------------------------
(* What the bucket and the target hold for the generations in use.         *)
LEMMA StepServed ==
  ASSUME IInv, NEW h \in Host, TypeOK', Kept, Frame(h),
         \/ \E m \in Migration : Begin(h, m)
         \/ Continue(h) \/ SyncFails(h) \/ Raise(h) \/ Crash(h) \/ Write(h)
  PROVE  ActiveServed' /\ ActiveComplete'
<1>1. TypeOK /\ Prepared(h)
  BY DEF IInv, Working
<1>2. served \subseteq served' /\ (active' # active => active' \in served')
  BY DEF bucket, Begin, Plan, Sync, Verify, Cutover, DeleteSource, CheckInactive, Continue, ScanSource,
         Upload, PutMarker, Synced, Copy, Install, ReadActive, Publish, Confirm, RemoveSource,
         SaveDeleted, Unmark, SyncFails, Raise, Crash, Write
<1>3. ActiveServed'
  BY <1>2 DEF ActiveServed, IInv
<1>4. CASE active' = active
  <2>1. active # None => manifest[active] \in Manifest /\ RemoteComplete(active)
    BY DEF ActiveComplete, IInv
  <2>2. active \in markers => active \in markers'
    <3>1. \A k \in markers \ markers' : k = Mig(h) /\ At(h, "unmark")
      BY DEF Frame
    <3> QED BY <1>1, <3>1 DEF Prepared, UnmarkInactive
  <2>3. objects \subseteq objects' /\ active \in Migration \cup {None}
    BY <1>1 DEF Frame, TypeOK
  <2> QED BY <1>3, <1>4, <2>1, <2>2, <2>3 DEF ActiveComplete, RemoteComplete, Kept
<1>5. CASE active' # active
  <2>1. At(h, "publish") /\ active' = Mig(h) /\ RemoteComplete(Mig(h))
    BY <1>1, <1>5 DEF Frame, Prepared, PublishReady
  <2>2. Mig(h) \in Migration /\ manifest[Mig(h)] \in Manifest
    BY <1>1, <2>1, ManifestOf DEF At
  <2>3. Mig(h) \in markers'
    <3>1. \A k \in markers \ markers' : At(h, "unmark")
      BY DEF Frame
    <3> QED BY <2>1, <3>1 DEF RemoteComplete, At
  <2> QED BY <1>3, <2>1, <2>2, <2>3 DEF ActiveComplete, RemoteComplete, Kept, Frame
<1> QED BY <1>3, <1>4, <1>5

(* A cutover is on record for a migration that served, or a full target.   *)
LEMMA StepCutover ==
  ASSUME IInv, NEW h \in Host, TypeOK', Kept, Frame(h),
         \/ \E m \in Migration : Begin(h, m)
         \/ Continue(h) \/ SyncFails(h) \/ Raise(h) \/ Crash(h) \/ Write(h)
  PROVE  CutoverServed'
<1> SUFFICES ASSUME NEW k \in Migration, manifest'[k].status = "cutover"
             PROVE  IF Remote' THEN k \in served' ELSE target' # Absent /\ manifest'[k].inventory \subseteq target'
  BY DEF CutoverServed
<1>1. TypeOK /\ Prepared(h) /\ Remote' = Remote
  BY DEF IInv, Working, Frame, Remote, configuration
<1>2. manifest'[k] \in Manifest
  <2>1. manifest'[k] \in Manifest \/ manifest'[k] = Unplanned
    BY DEF TypeOK
  <2> QED BY <2>1 DEF Unplanned
<1>3. served \subseteq served'
  BY DEF bucket, Begin, Plan, Sync, Verify, Cutover, DeleteSource, CheckInactive, Continue, ScanSource,
         Upload, PutMarker, Synced, Copy, Install, ReadActive, Publish, Confirm, RemoveSource,
         SaveDeleted, Unmark, SyncFails, Raise, Crash, Write
<1>4. CASE manifest[k].status = "cutover" /\ manifest[k] \in Manifest
  <2>1. manifest'[k].inventory = manifest[k].inventory /\ manifest[k].inventory \in Inventory
    BY <1>4, InventoryOf DEF Kept
  <2>2. IF Remote THEN k \in served ELSE target # Absent /\ manifest[k].inventory \subseteq target
    BY <1>4 DEF CutoverServed, IInv
  <2>3. target \in {Absent, {}} => \A files \in Inventory : files \subseteq target => files = {}
    BY FilestoreAssumption DEF Inventory, Absent
  <2> QED BY <1>1, <1>3, <2>1, <2>2, <2>3 DEF Frame
<1>5. CASE ~(manifest[k].status = "cutover" /\ manifest[k] \in Manifest)
  <2>1. Confirm(h) /\ Confirmed(h) /\ k = Mig(h)
    <3>1. ASSUME NEW m \in Migration, Begin(h, m) PROVE FALSE
      <4>1. Plan(h, m) \/ manifest[m] \in Manifest
        BY <1>1, <3>1, Planned DEF Begin, Sync, Verify, Cutover, DeleteSource, CheckInactive
      <4>2. CASE DeleteSource(h, m)
        <5>1. manifest[m] \in Manifest /\ manifest[m].status = "cutover"
          BY <1>1, <4>2, Planned DEF DeleteSource
        <5> QED BY <1>1, <1>2, <1>5, <4>2, <5>1 DEF DeleteSource, TypeOK
      <4>3. CASE Sync(h, m) \/ Verify(h, m)
        <5>1. manifest[m] \in Manifest
          BY <4>1, <4>3 DEF Sync, Verify, Plan, At, Owned
        <5>2. UNCHANGED manifest \/ Save(m, "failed") \/ Save(m, "verified")
          BY <4>3 DEF Sync, Verify
        <5> QED BY <1>1, <1>2, <1>5, <5>1, <5>2, SaveStatus, TypeParts
      <4> QED BY <1>2, <1>5, <3>1, <4>2, <4>3 DEF Begin, Plan, Cutover, CheckInactive
    <3>2. CASE ScanSource(h)
      BY <1>1, <1>2, <1>5, <3>2 DEF ScanSource, TypeOK
    <3>3. CASE Synced(h) \/ Install(h) \/ SyncFails(h)
      <4>1. Mig(h) \in Migration /\ manifest[Mig(h)] \in Manifest
        BY <1>1, <3>3, ManifestOf DEF Synced, Install, SyncFails, At
      <4>2. Save(Mig(h), "synced") \/ Save(Mig(h), "failed")
        BY <3>3 DEF Synced, Install, SyncFails
      <4> QED BY <1>1, <1>2, <1>5, <4>1, <4>2, SaveStatus, TypeParts
    <3>4. CASE SaveDeleted(h)
      <4>1. manifest[Mig(h)] \in Manifest /\ manifest[Mig(h)].status = "cutover"
        BY <1>1, <3>4, ManifestOf DEF SaveDeleted, At, IInv, Working, Lifecycle, RemoveSteps
      <4> QED BY <1>1, <1>2, <1>5, <3>4, <4>1 DEF SaveDeleted, TypeOK
    <3>5. CASE Confirm(h)
      BY <1>1, <1>2, <1>5, <3>5 DEF Confirm, Save, TypeOK
    <3>6. CASE UNCHANGED manifest
      BY <1>2, <1>5, <3>6
    <3> QED BY <3>1, <3>2, <3>3, <3>4, <3>5, <3>6
            DEF Continue, Upload, PutMarker, Copy, ReadActive, Publish, RemoveSource, Unmark, Raise,
                Crash, Write
  <2>2. UNCHANGED <<bucket, mount>> /\ At(h, "confirm")
    BY <2>1 DEF Confirm
  <2>3. manifest[k] \in Manifest /\ manifest'[k].inventory = manifest[k].inventory
    BY <1>1, <2>1, <2>2, ManifestOf DEF At, Kept
  <2>4. CASE Remote
    BY <1>1, <2>1, <2>2, <2>4, FilestoreAssumption
       DEF Confirmed, IInv, ActiveServed, bucket
  <2>5. CASE ~Remote
    BY <1>1, <2>1, <2>2, <2>3, <2>5 DEF Prepared, MountReady, mount
  <2> QED BY <2>4, <2>5
<1> QED BY <1>4, <1>5

LEMMA Initially == Init => IInv
<1> SUFFICES ASSUME Init PROVE IInv
  OBVIOUS
<1>1. TypeOK
  BY FilestoreAssumption
     DEF Init, TypeOK, Directory, Inventory, Absent, Command, Location, Idle
<1>2. ASSUME NEW h \in Host
      PROVE  Scanning(h) /\ Lifecycle(h) /\ PartialOpen(h) /\ Prepared(h)
  BY <1>2 DEF Init, Idle, Scanning, Lifecycle, PartialOpen, Prepared, PointerOnly, PublishReady,
              MountReady, UnmarkInactive, RemovingStored, SyncSteps, RemoveSteps, At
<1>3. ActiveServed /\ ActiveComplete /\ CutoverServed
  BY DEF Init, ActiveServed, ActiveComplete, CutoverServed, Unplanned
<1> QED BY <1>1, <1>2, <1>3 DEF IInv, Working

LEMMA Inductive == IInv /\ [Next]_vars => IInv'
<1> SUFFICES ASSUME IInv, [Next]_vars PROVE IInv'
  OBVIOUS
<1>1. CASE Next
  <2>1. PICK h \in Host :
          \/ \E m \in Migration : Begin(h, m)
          \/ Continue(h) \/ SyncFails(h) \/ Raise(h) \/ Crash(h) \/ Write(h)
    BY <1>1 DEF Next
  <2>2. TypeOK' /\ Kept
    BY <1>1, StepTyped DEF IInv
  <2>3. Frame(h) /\ Claims(h)
    BY <2>1, BeginFrame, ContinueFrame DEF IInv
  <2>4. \A g \in Host \ {h} : (Scanning(g) /\ Lifecycle(g) /\ PartialOpen(g) /\ Prepared(g))'
    BY <2>2, <2>3, Others
  <2>5. (Scanning(h) /\ Lifecycle(h) /\ PartialOpen(h))' /\ Prepared(h)'
    BY <2>1, <2>2, OwnWorking, OwnPrepared
  <2>6. ActiveServed' /\ ActiveComplete' /\ CutoverServed'
    BY <2>1, <2>2, <2>3, StepServed, StepCutover
  <2> QED BY <2>2, <2>4, <2>5, <2>6 DEF IInv, Working
<1>2. CASE UNCHANGED vars
  BY <1>2 DEF vars, configuration, bucket, mount, budget, IInv, Working, TypeOK, Scanning, Lifecycle,
              PartialOpen, Prepared, PointerOnly, PublishReady, MountReady, UnmarkInactive,
              RemovingStored, ActiveServed, ActiveComplete, CutoverServed, RemoteComplete, Stored,
              Remote, At, Mig
<1> QED BY <1>1, <1>2

-----------------------------------------------------------------------------
LEMMA Invariance == Spec => []IInv
BY Initially, Inductive, PTL DEF Spec

(* Every value has its type, and a cutover on record has happened: the     *)
(* manifest that says so was saved after the pointer named the migration,  *)
(* or the mounted target held its inventory (cutover_migration).           *)
THEOREM Recorded == Spec => []FilestoreInv
<1>1. IInv => FilestoreInv
  BY DEF IInv, Working, FilestoreInv
<1> QED BY <1>1, Invariance, PTL

(* The generation active.json names is in the bucket, marker and objects:  *)
(* a publication races a deletion of an inactive marker, other             *)
(* publications and crashes.                                               *)
THEOREM Complete == Spec => []ActiveComplete
<1>1. IInv => ActiveComplete
  BY DEF IInv
<1> QED BY <1>1, Invariance, PTL

(* A publication replaces exactly the generation its plan saw              *)
(* (publish_active).                                                       *)
THEOREM AgainstPlan == Spec => PublishedAgainstPlan
<1>1. IInv /\ [Next]_vars => [active' # active => manifest[active'].previous = active]_vars
  <2> SUFFICES ASSUME IInv, Next, active' # active
               PROVE  manifest[active'].previous = active
    BY DEF vars, bucket
  <2>1. PICK h \in Host : Publish(h) /\ PutAccepted(h) /\ active' = Mig(h)
    BY DEF bucket, Next, Begin, Plan, Sync, Verify, Cutover, DeleteSource, CheckInactive, Continue,
           ScanSource, Upload, PutMarker, Synced, Copy, Install, ReadActive, Publish, Confirm,
           RemoveSource, SaveDeleted, Unmark, SyncFails, Raise, Crash, Write
  <2> QED BY <2>1 DEF Publish, PutAccepted, IInv, Prepared, PublishReady
<1> QED BY <1>1, Invariance, PTL DEF Spec, PublishedAgainstPlan

(* What delete_source_after_cutover removes is stored in the target it     *)
(* verified, and nothing came to it since the inventory.                   *)
THEOREM Stores == Spec => RemovedIsStored
<1>1. IInv /\ [Next]_vars =>
        [\A h \in Host : At(h, "remove") /\ source'[h] # source[h] /\ source[h] # Absent =>
           source[h] \subseteq manifest[Mig(h)].inventory \cap Stored(Mig(h))]_vars
  BY DEF IInv, Prepared, RemovingStored
<1> QED BY <1>1, Invariance, PTL DEF Spec, RemovedIsStored
=============================================================================
