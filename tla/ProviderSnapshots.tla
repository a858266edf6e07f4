------------------------- MODULE ProviderSnapshots -------------------------
(***************************************************************************)
(* Provider snapshots for disaster recovery (services/snapshots.py,        *)
(* adapters/snapshots.py): an AWS EBS set with one snapshot per volume of  *)
(* the instance, or one Hetzner image of a server's root disk.  A manifest *)
(* is saved before the provider is asked, and again after every answer;    *)
(* recovery creates new volumes, or a new server, next to the source.      *)
(*                                                                         *)
(* One command of the environment runs at a time, under the environment    *)
(* lock.  The provider acts on its own: it may take a request after the    *)
(* caller stopped waiting, or never; a lookup by tag may miss what exists; *)
(* operators attach volumes and delete snapshots.  A provider call and the *)
(* save of its answer are one step, but for the calls that create.         *)
(* For Hetzner the only resource is Root, and a volume next to it is an    *)
(* attached Hetzner Volume.                                                *)
(***************************************************************************)
EXTENDS FiniteSets, Naturals

CONSTANTS
  Snapshot,      \* snapshot identifiers; a create command draws a new one
  Volume, Root,  \* volumes of the instance or server, and its root disk
  MaxChanges,    \* bound: volumes attached to or detached from the source
  MaxFaults,     \* bound: requests the provider never takes, answers lost
  MaxDeletes,    \* bound: provider snapshots deleted by operators
  MaxRestores,   \* bound: recoveries executed
  MaxCrashes     \* bound: commands killed

ASSUME SnapshotsAssumption ==
  /\ Root \in Volume /\ Snapshot # {}
  /\ \A n \in {MaxChanges, MaxFaults, MaxDeletes, MaxRestores, MaxCrashes} : n \in Nat

VARIABLES
  provider,      \* configuration: snapshots.provider
  includeRoot,   \* configuration: aws_ebs.include_root_volume
  attached,      \* volumes attached to the source now
  call,          \* [Snapshot -> fate of its create request at the provider]
  remote,        \* [Snapshot -> [Volume -> state of the provider's snapshot of it]]
  traced,        \* snapshots whose image reports the server it was created from
  manifest,      \* [Snapshot -> its manifest]
  op,            \* the command that holds the environment lock
  recovered,     \* volumes and servers the provider created for recoveries
  restore,       \* [Snapshot -> the last SnapshotRestoreMetadata saved]
  changes, faults, deletes, restores, crashes

configuration == <<provider, includeRoot>>
cloud == <<attached, call, remote, traced>>
counters == <<changes, faults, deletes, restores, crashes>>
vars == <<configuration, cloud, manifest, op, recovered, restore, counters>>

-----------------------------------------------------------------------------
Aws == provider = "aws_ebs"

RemoteState == {"none", "pending", "completed", "error"}
ResourceState == RemoteState \cup {"requested"}
Status == {"requested", "pending", "complete", "failed"}
Location == {"idle", "describe", "request", "await", "poll", "create", "record", "watch"}

Unused == [status |-> "unused", resources |-> [v \in Volume |-> "none"]]
Manifest == [status : Status, resources : [Volume -> ResourceState]]

(* The client token of a recovery volume, and the name of a recovery       *)
(* server, are digests of the snapshot and the resource.                   *)
(* Mutant: every run of a recovery draws a token of its own.               *)
Mutant_Token(s, v, run) == <<s, v, run>>
Token(s, v, run) == <<s, v>>

Recovery == [snapshot : Snapshot, volume : Volume,
             state : {"creating", "available", "error"}, attached : BOOLEAN]
Described(r) == [f \in {"snapshot", "volume", "state", "attached"} |-> r[f]]

TypeOK ==
  /\ provider \in {"aws_ebs", "hetzner_cloud"} /\ includeRoot \in BOOLEAN
  /\ Root \in attached /\ attached \subseteq Volume
  /\ call \in [Snapshot -> {"none", "sent", "taken", "lost"}]
  /\ remote \in [Snapshot -> [Volume -> RemoteState]]
  /\ traced \subseteq Snapshot
  /\ manifest \in [Snapshot -> Manifest \cup {Unused}]
  /\ \A s \in Snapshot, v \in Volume : manifest[s].status = "complete" =>
       manifest[s].resources[v] \in {"none", "completed"}
  /\ op \in [at : Location, snapshot : Snapshot, left : SUBSET Volume, made : SUBSET Volume]
  /\ op.at # "idle" => manifest[op.snapshot] # Unused
  /\ op.at \in {"create", "record", "watch"} => manifest[op.snapshot].status = "complete"
  /\ {Described(r) : r \in recovered} \subseteq Recovery
  /\ restore \in [Snapshot -> [status : {"none", "pending", "complete", "failed"},
                               volumes : SUBSET Volume]]
  /\ changes \in 0..MaxChanges /\ faults \in 0..MaxFaults /\ deletes \in 0..MaxDeletes
  /\ restores \in 0..MaxRestores /\ crashes \in 0..MaxCrashes

Idle == [at |-> "idle", snapshot |-> CHOOSE s \in Snapshot : TRUE, left |-> {}, made |-> {}]

Init ==
  /\ provider \in {"aws_ebs", "hetzner_cloud"}
  /\ includeRoot \in (IF Aws THEN BOOLEAN ELSE {TRUE})
  /\ attached \in {vs \in SUBSET Volume : Root \in vs}
  /\ call = [s \in Snapshot |-> "none"]
  /\ remote = [s \in Snapshot |-> [v \in Volume |-> "none"]]
  /\ traced = {}
  /\ manifest = [s \in Snapshot |-> Unused]
  /\ op = Idle
  /\ recovered = {}
  /\ restore = [s \in Snapshot |-> [status |-> "none", volumes |-> {}]]
  /\ changes = 0 /\ faults = 0 /\ deletes = 0 /\ restores = 0 /\ crashes = 0

-----------------------------------------------------------------------------
At(pc) == op.at = pc
This == op.snapshot
Goto(pc) == op' = [op EXCEPT !.at = pc]
Done == op' = Idle

(* The volumes of the instance in snapshot scope, as the provider and      *)
(* _describe_source both compute them.                                     *)
Scope ==
  IF ~Aws THEN {Root}
  ELSE IF includeRoot THEN attached ELSE attached \ {Root}

(* What create accepts of the described source.                            *)
Describable == IF Aws THEN Scope # {} ELSE attached = {Root}

Expected(s) == {v \in Volume : manifest[s].resources[v] # "none"}
Identified(s) == {v \in Volume : manifest[s].resources[v] \in RemoteState \ {"none"}}
Existing(s) == {v \in Volume : remote[s][v] # "none"}

(* Mutant: a snapshot in error is waited for.                              *)
Mutant_SetStatus(states) == IF states = {"completed"} THEN "complete" ELSE "pending"
SetStatus(states) ==
  IF states = {"completed"} THEN "complete"
  ELSE IF "error" \in states THEN "failed" ELSE "pending"

(* A Hetzner image is available or else pending, whatever its state.       *)
ImageStatus(state) == IF state = "completed" THEN "complete" ELSE "pending"

(* _provider_snapshot: the described snapshots must be exactly one for     *)
(* each volume the manifest expects.                                       *)
(* Mutant: fewer are accepted.                                             *)
Mutant_ExactSet(s, seen) == seen # {}
ExactSet(s, seen) == seen = Expected(s)

Recorded(s, seen, status) ==
  [status |-> status, resources |-> [v \in Volume |-> IF v \in seen THEN remote[s][v] ELSE "none"]]

SaveManifest(s, new) == manifest' = [manifest EXCEPT ![s] = new]

(* _merge_provider_snapshot and the save that follows it.                  *)
Save(s, seen) ==
  SaveManifest(s, Recorded(s, seen, IF Aws THEN SetStatus({remote[s][v] : v \in seen})
                                    ELSE ImageStatus(remote[s][Root])))

(* While it waits for its image, create refuses one that does not report   *)
(* its source, or is neither in creation nor available.                    *)
ImageRefused(s) == ~Aws /\ (s \notin traced \/ remote[s][Root] = "error")

-----------------------------------------------------------------------------
(* run_snapshot_create: the intent is saved before the provider is called. *)
Create(s) ==
  /\ At("idle") /\ manifest[s] = Unused
  /\ manifest' = [manifest EXCEPT ![s].status = "requested"]
  /\ op' = [Idle EXCEPT !.at = "describe", !.snapshot = s]
  /\ UNCHANGED <<configuration, cloud, recovered, restore, counters>>

DescribeSource ==
  /\ At("describe") /\ Describable
  /\ manifest' = [manifest EXCEPT ![This].resources =
                    [v \in Volume |-> IF v \in Scope THEN "requested" ELSE "none"]]
  /\ Goto("request")
  /\ UNCHANGED <<configuration, cloud, recovered, restore, counters>>

(* The source cannot be described, or not covered: only last_error is saved. *)
RefuseSource ==
  /\ At("describe")
  /\ IF Describable THEN faults < MaxFaults /\ faults' = faults + 1 ELSE UNCHANGED faults
  /\ Done
  /\ UNCHANGED <<configuration, cloud, manifest, recovered, restore, changes, deletes, restores, crashes>>

SendRequest ==
  /\ At("request")
  /\ call' = [call EXCEPT ![This] = "sent"]
  /\ Goto("await")
  /\ UNCHANGED <<configuration, attached, remote, traced, manifest, recovered, restore, counters>>

(* The answer of create-snapshots, or a lookup by tag or label that found  *)
(* some of the set.  A set that does not match the described volumes fails *)
(* the command before any identifier is saved.                             *)
Discover ==
  /\ At("await")
  /\ \E seen \in SUBSET Existing(This) \ {{}} :
       IF ~ExactSet(This, seen) THEN Done /\ UNCHANGED manifest
       ELSE IF ImageRefused(This)
       THEN SaveManifest(This, Recorded(This, seen, "failed")) /\ Done
       ELSE Save(This, seen) /\ (IF ~Aws /\ manifest'[This].status = "complete"
                                 THEN Done ELSE Goto("poll"))
  /\ UNCHANGED <<configuration, cloud, recovered, restore, counters>>

(* Nothing was found until the deadline: last_error is all that is saved.  *)
GiveUp ==
  /\ At("await") /\ Done
  /\ UNCHANGED <<configuration, cloud, manifest, recovered, restore, counters>>

(* One round of polling by identifier, which fails when one is gone.       *)
Poll ==
  /\ At("poll")
  /\ IF Identified(This) \subseteq Existing(This)
     THEN /\ IF ImageRefused(This)
             THEN SaveManifest(This, Recorded(This, Identified(This), "failed"))
             ELSE Save(This, Identified(This))
          /\ IF manifest'[This].status = "pending" THEN UNCHANGED op ELSE Done
     ELSE Done /\ UNCHANGED manifest
  /\ UNCHANGED <<configuration, cloud, recovered, restore, counters>>

(* The wait expires, and the manifest is returned as it was last saved.    *)
PollExpires ==
  /\ At("poll") /\ Done
  /\ UNCHANGED <<configuration, cloud, manifest, recovered, restore, counters>>

(* What reconcile finds: by identifier when one is recorded, otherwise by  *)
(* tag.  A Hetzner image of another source is refused, but not one that    *)
(* reports none.                                                           *)
SnapshotsFound(s) ==
  IF Identified(s) # {} THEN {Identified(s)} \cap SUBSET Existing(s)
  ELSE SUBSET Existing(s) \ {{}}

ImageFound(s) == {{Root}} \cap SUBSET Existing(s)

(* run_snapshot_reconcile, in the cases where it changes the manifest.     *)
Reconcile(s) ==
  /\ At("idle") /\ manifest[s] # Unused
  /\ \E seen \in (IF Aws THEN SnapshotsFound(s) ELSE ImageFound(s)) :
       ExactSet(s, seen) /\ Save(s, seen)
  /\ UNCHANGED <<configuration, cloud, op, recovered, restore, counters>>

-----------------------------------------------------------------------------
SaveRestore(s, status, volumes) ==
  restore' = [restore EXCEPT ![s] = [status |-> status, volumes |-> volumes]]

(* plan_restore of either provider.                                        *)
PlannableSet(s) ==
  Expected(s) # {} /\ \A v \in Expected(s) : manifest[s].resources[v] = "completed"
PlannableImage(s) == Expected(s) = {Root} /\ manifest[s].resources[Root] = "completed"
Plannable(s) ==
  manifest[s].status = "complete" /\ (IF Aws THEN PlannableSet(s) ELSE PlannableImage(s))

(* The provider is asked again before anything is created:                 *)
(* _assert_remote_snapshot_complete, and the image checks of Hetzner.      *)
SetRestorable(s) == \A v \in Expected(s) : remote[s][v] = "completed"
ImageRestorable(s) == remote[s][Root] = "completed" /\ s \in traced
RemoteComplete(s) == IF Aws THEN SetRestorable(s) ELSE ImageRestorable(s)

(* run_snapshot_restore with execute and both confirmations.               *)
Restore(s) ==
  /\ At("idle") /\ Plannable(s) /\ restores < MaxRestores
  /\ restores' = restores + 1
  /\ IF RemoteComplete(s)
     THEN /\ op' = [at |-> "create", snapshot |-> s, left |-> Expected(s), made |-> {}]
          /\ UNCHANGED restore
     ELSE SaveRestore(s, "failed", {}) /\ UNCHANGED op
  /\ UNCHANGED <<configuration, cloud, manifest, recovered, changes, faults, deletes, crashes>>

Named(s, v) == {r \in recovered : r.token = Token(s, v, restores)}

(* The provider creates at most one resource for a token, or name.         *)
ProviderCreates(s, v) ==
  recovered' = recovered \cup
    (IF Named(s, v) # {} THEN {}
     ELSE {[snapshot |-> s, volume |-> v, token |-> Token(s, v, restores),
            state |-> "creating", attached |-> FALSE]})

Isolated(r) == ~r.attached

(* A resource is found by its token, or created; a lookup may miss it, and *)
(* the provider then returns it again.  AWS volumes found are validated,   *)
(* after their identifier was taken down.                                  *)
CreateRecovery ==
  /\ At("create")
  /\ \E v \in op.left :
       /\ Named(This, v) # {} \/ remote[This][v] = "completed"
       /\ ProviderCreates(This, v)
       /\ \/ /\ op' = [op EXCEPT !.at = "record", !.left = @ \ {v}, !.made = @ \cup {v}]
             /\ UNCHANGED restore
          \/ /\ Aws /\ \E r \in Named(This, v) : ~Isolated(r)
             /\ SaveRestore(This, "failed", op.made \cup {v}) /\ Done
  /\ UNCHANGED <<configuration, cloud, manifest, counters>>

(* The provider refuses, or its answer is lost and the resource not found. *)
CreateRecoveryFails ==
  /\ At("create")
  /\ \E v \in op.left :
       IF remote[This][v] # "completed" /\ Named(This, v) = {}
       THEN UNCHANGED <<recovered, faults>>
       ELSE /\ faults < MaxFaults /\ faults' = faults + 1
            /\ ProviderCreates(This, v) \/ UNCHANGED recovered
  /\ SaveRestore(This, "failed", op.made) /\ Done
  /\ UNCHANGED <<configuration, cloud, manifest, changes, deletes, restores, crashes>>

Made == {r \in recovered : \E v \in op.made : r.token = Token(This, v, restores)}

(* The identifiers so far are saved after every resource.                  *)
RecordRecovery ==
  /\ At("record")
  /\ SaveRestore(This, "pending", op.made)
  /\ Goto(IF op.left = {} THEN "watch" ELSE "create")
  /\ UNCHANGED <<configuration, cloud, manifest, recovered, counters>>

(* Mutant: one available volume is enough.                                 *)
Mutant_AllAvailable == \E r \in Made : r.state = "available"
AllAvailable == \A r \in Made : r.state = "available"

(* The last rounds of restore: the volumes are described and validated     *)
(* again, and waited for until the wait expires.                           *)
WatchVolumes ==
  SaveRestore(This, IF \E r \in Made : ~Isolated(r) \/ r.state = "error" THEN "failed"
                    ELSE IF AllAvailable THEN "complete" ELSE "pending", op.made)

(* The server must be off, made from the image, and on the isolated network. *)
WatchServer ==
  SaveRestore(This, IF AllAvailable /\ \A r \in Made : Isolated(r) THEN "complete"
                    ELSE "failed", op.made)

WatchRecovery ==
  /\ At("watch")
  /\ IF Aws THEN WatchVolumes ELSE WatchServer
  /\ Done
  /\ UNCHANGED <<configuration, cloud, manifest, recovered, counters>>

-----------------------------------------------------------------------------
(* The provider and the operators.                                         *)
Take(s) ==
  /\ call[s] = "sent"
  /\ call' = [call EXCEPT ![s] = "taken"]
  /\ remote' = [remote EXCEPT ![s] = [v \in Volume |-> IF v \in Scope THEN "pending" ELSE "none"]]
  /\ traced' \in {traced, traced \cup {s}}
  /\ UNCHANGED <<configuration, attached, manifest, op, recovered, restore, counters>>

Lose(s) ==
  /\ call[s] = "sent" /\ faults < MaxFaults
  /\ call' = [call EXCEPT ![s] = "lost"]
  /\ faults' = faults + 1
  /\ UNCHANGED <<configuration, attached, remote, traced, manifest, op, recovered, restore,
                 changes, deletes, restores, crashes>>

Finish(s, v) ==
  /\ remote[s][v] = "pending"
  /\ \E state \in {"completed", "error"} : remote' = [remote EXCEPT ![s][v] = state]
  /\ UNCHANGED <<configuration, attached, call, traced, manifest, op, recovered, restore, counters>>

Delete(s, v) ==
  /\ remote[s][v] # "none" /\ deletes < MaxDeletes
  /\ remote' = [remote EXCEPT ![s][v] = "none"]
  /\ deletes' = deletes + 1
  /\ UNCHANGED <<configuration, attached, call, traced, manifest, op, recovered, restore,
                 changes, faults, restores, crashes>>

Change(v) ==
  /\ v # Root /\ changes < MaxChanges
  /\ attached' = IF v \in attached THEN attached \ {v} ELSE attached \cup {v}
  /\ changes' = changes + 1
  /\ UNCHANGED <<configuration, call, remote, traced, manifest, op, recovered, restore,
                 faults, deletes, restores, crashes>>

(* A replacement becomes available or fails; an operator attaches it.      *)
Advance(r) ==
  /\ \/ /\ r.state = "creating"
        /\ \E state \in {"available", "error"} :
             recovered' = (recovered \ {r}) \cup {[r EXCEPT !.state = state]}
     \/ /\ r.state = "available" /\ ~r.attached
        /\ recovered' = (recovered \ {r}) \cup {[r EXCEPT !.attached = TRUE]}
  /\ UNCHANGED <<configuration, cloud, manifest, op, restore, counters>>

Crash ==
  /\ ~At("idle") /\ crashes < MaxCrashes
  /\ crashes' = crashes + 1
  /\ Done
  /\ UNCHANGED <<configuration, cloud, manifest, recovered, restore, changes, faults, deletes, restores>>

Continue ==
  \/ DescribeSource \/ RefuseSource \/ SendRequest \/ Discover \/ GiveUp \/ Poll \/ PollExpires
  \/ CreateRecovery \/ CreateRecoveryFails \/ RecordRecovery \/ WatchRecovery

Next ==
  \/ Continue \/ Crash
  \/ \E s \in Snapshot : Create(s) \/ Reconcile(s) \/ Restore(s) \/ Take(s) \/ Lose(s)
  \/ \E s \in Snapshot, v \in Volume : Finish(s, v) \/ Delete(s, v)
  \/ \E v \in Volume : Change(v)
  \/ \E r \in recovered : Advance(r)

Spec == Init /\ [][Next]_vars

(* A command makes its next call, the provider finishes what it took, and  *)
(* the operator reconciles a snapshot again until it is settled.           *)
FairSpec ==
  /\ Spec /\ WF_vars(Continue)
  /\ \A s \in Snapshot : WF_vars(Reconcile(s)) /\ \A v \in Volume : WF_vars(Finish(s, v))

-----------------------------------------------------------------------------
(* A manifest becomes complete only when every volume described before the *)
(* request has its own recorded, completed snapshot: also when the volumes *)
(* of the source changed, the answer was lost, a lookup saw part of the    *)
(* set, or the command died and another one adopted the set.               *)
CompleteIsWhole ==
  [][\A s \in Snapshot :
       manifest[s].status # "complete" /\ manifest'[s].status = "complete" =>
         \A v \in Expected(s) :
           remote[s][v] = "completed" /\ manifest'[s].resources[v] = "completed"]_vars

(* Recovery that is repeated, after a crash, a lost answer or a wait that  *)
(* expired, never creates a second volume or server for one resource.      *)
RecoveredOnce ==
  \A r1, r2 \in recovered :
    r1.snapshot = r2.snapshot /\ r1.volume = r2.volume => r1 = r2

(* A recovery is recorded as complete only when a replacement of every     *)
(* resource of the manifest exists, is listed, available and isolated, and *)
(* a Hetzner image was traced to its source before anything was created.   *)
RecoveryIsWhole ==
  [][\A s \in Snapshot :
       restore'[s].status = "complete" /\ restore[s].status # "complete" =>
         /\ restore'[s].volumes = Expected(s)
         /\ Aws \/ s \in traced
         /\ \A v \in Expected(s) : \E r \in recovered :
              r.snapshot = s /\ r.volume = v /\ r.state = "available" /\ ~r.attached]_vars

(* A pending snapshot is settled by reconciling it, whatever became of the *)
(* command that requested it, unless its provider snapshots are deleted,   *)
(* or it is a Hetzner image in error, which the code takes for pending.    *)
Unsettled(s) ==
  /\ manifest[s].status = "pending"
  /\ Identified(s) \subseteq Existing(s)
  /\ Aws \/ remote[s][Root] # "error"

PendingSettles == \A s \in Snapshot : manifest[s].status = "pending" ~> ~Unsettled(s)

(* Nothing is created twice and every value has its type.                  *)
SnapshotInv == TypeOK /\ RecoveredOnce
=============================================================================
