---------------------- MODULE ProviderSnapshots_proofs ----------------------
(***************************************************************************)
(* Proofs about ProviderSnapshots for any number of snapshots, volumes and *)
(* faults: a manifest that becomes complete is that of the whole set, a    *)
(* recovery repeated creates nothing twice, and one recorded as complete   *)
(* has every replacement.                                                  *)
(***************************************************************************)
EXTENDS ProviderSnapshots, TLAPS

Restoring == {"create", "record", "watch"}

(* The types, by what the steps change.                                    *)
ConfigurationTyped == provider \in {"aws_ebs", "hetzner_cloud"} /\ includeRoot \in BOOLEAN
AttachedTyped == Root \in attached /\ attached \subseteq Volume
RemoteTyped ==
  /\ call \in [Snapshot -> {"none", "sent", "taken", "lost"}]
  /\ remote \in [Snapshot -> [Volume -> RemoteState]]
  /\ traced \subseteq Snapshot
ManifestTyped ==
  /\ manifest \in [Snapshot -> Manifest \cup {Unused}]
  /\ \A s \in Snapshot, v \in Volume : manifest[s].status = "complete" =>
       manifest[s].resources[v] \in {"none", "completed"}
OpTyped ==
  /\ op \in [at : Location, snapshot : Snapshot, left : SUBSET Volume, made : SUBSET Volume]
  /\ op.at # "idle" => manifest[op.snapshot] # Unused
  /\ op.at \in Restoring => manifest[op.snapshot].status = "complete"
RestoreTyped ==
  restore \in [Snapshot -> [status : {"none", "pending", "complete", "failed"}, volumes : SUBSET Volume]]
CountersTyped ==
  /\ changes \in 0..MaxChanges /\ faults \in 0..MaxFaults /\ deletes \in 0..MaxDeletes
  /\ restores \in 0..MaxRestores /\ crashes \in 0..MaxCrashes

(* A replacement bears the token of its snapshot and volume, and a token   *)
(* has one replacement.                                                    *)
Replacement == [snapshot : Snapshot, volume : Volume, token : Snapshot \X Volume,
                state : {"creating", "available", "error"}, attached : BOOLEAN]
ReplacementInv ==
  /\ recovered \subseteq Replacement
  /\ \A r \in recovered : r.token = <<r.snapshot, r.volume>>
  /\ \A r1, r2 \in recovered : r1.token = r2.token => r1 = r2

(* A source is described for a manifest just requested, a manifest that is *)
(* polled has an identifier for all that it expects, and a server has its  *)
(* root disk.                                                              *)
ScopeInv ==
  /\ At("describe") => manifest[This].status = "requested"
  /\ At("poll") => Identified(This) = Expected(This)
  /\ ~Aws => \A s \in Snapshot : Expected(s) \subseteq {Root}

(* What a recovery has made and has left is the whole of the manifest.     *)
MadeInv ==
  op.at \in Restoring =>
    /\ op.left \cup op.made = Expected(This)
    /\ At("watch") => op.left = {}
    /\ \A v \in op.made : \E r \in recovered : r.token = <<This, v>>
    /\ Aws \/ This \in traced

Typed ==
  /\ ConfigurationTyped /\ AttachedTyped /\ RemoteTyped /\ ManifestTyped /\ OpTyped /\ RestoreTyped /\ CountersTyped

IInv == Typed /\ ReplacementInv /\ ScopeInv /\ MadeInv

-----------------------------------------------------------------------------
(* Manifests.                                                              *)

(* What is recorded of the snapshots that were seen.                       *)
LEMMA Records ==
  ASSUME RemoteTyped, NEW s \in Snapshot, NEW seen, seen \subseteq Existing(s), NEW status \in Status
  PROVE  /\ Recorded(s, seen, status) \in Manifest
         /\ Recorded(s, seen, status).status = status
         /\ \A v \in Volume : Recorded(s, seen, status).resources[v] = IF v \in seen THEN remote[s][v] ELSE "none"
         /\ {v \in Volume : Recorded(s, seen, status).resources[v] # "none"} = seen
         /\ {v \in Volume : Recorded(s, seen, status).resources[v] \in RemoteState \ {"none"}} = seen
<1>1. /\ seen \subseteq Volume /\ \A v \in seen : remote[s][v] # "none"
      /\ \A v \in Volume : remote[s][v] \in RemoteState
  BY DEF Existing, RemoteTyped
<1>2. [v \in Volume |-> IF v \in seen THEN remote[s][v] ELSE "none"] \in [Volume -> ResourceState]
  BY <1>1 DEF ResourceState, RemoteState
<1>3. /\ Recorded(s, seen, status).status = status
      /\ Recorded(s, seen, status).resources = [v \in Volume |-> IF v \in seen THEN remote[s][v] ELSE "none"]
  BY DEF Recorded
<1>4. Recorded(s, seen, status) \in Manifest
  BY <1>2 DEF Recorded, Manifest
<1> QED
  BY <1>1, <1>3, <1>4

(* An answer of the provider is merged when it is of the whole set.        *)
Merge(s, status) ==
  /\ manifest[s] # Unused /\ status \in Status
  /\ Expected(s) \subseteq Existing(s)
  /\ manifest' = [manifest EXCEPT ![s] = Recorded(s, Expected(s), status)]
  /\ status = "complete" => \A v \in Expected(s) : remote[s][v] = "completed"
  /\ UNCHANGED <<configuration, cloud, recovered, restore, counters>>

LEMMA Saves ==
  ASSUME NEW s \in Snapshot, ~Aws => Expected(s) \subseteq {Root}, manifest[s] # Unused,
         Expected(s) \subseteq Existing(s), Save(s, Expected(s)),
         UNCHANGED <<configuration, cloud, recovered, restore, counters>>
  PROVE  \E status \in Status \ {"requested"} : Merge(s, status)
<1>1. CASE Aws
  <2>1. PICK states : states = {remote[s][v] : v \in Expected(s)}
    OBVIOUS
  <2>2. SetStatus(states) \in Status \ {"requested"}
    BY DEF SetStatus, Status
  <2>3. SetStatus(states) = "complete" => states = {"completed"}
    BY DEF SetStatus
  <2>4. SetStatus(states) = "complete" => \A v \in Expected(s) : remote[s][v] = "completed"
    BY <2>1, <2>3
  <2>5. manifest' = [manifest EXCEPT ![s] = Recorded(s, Expected(s), SetStatus(states))]
    BY <1>1, <2>1 DEF Save, SaveManifest
  <2> QED
    BY <2>2, <2>4, <2>5 DEF Merge
<1>2. CASE ~Aws
  <2>1. ImageStatus(remote[s][Root]) \in Status \ {"requested"}
    BY DEF ImageStatus, Status
  <2>2. ImageStatus(remote[s][Root]) = "complete" => \A v \in Expected(s) : remote[s][v] = "completed"
    BY <1>2 DEF ImageStatus
  <2>3. manifest' = [manifest EXCEPT ![s] = Recorded(s, Expected(s), ImageStatus(remote[s][Root]))]
    BY <1>2 DEF Save, SaveManifest
  <2> QED
    BY <2>1, <2>2, <2>3 DEF Merge
<1> QED
  BY <1>1, <1>2

LEMMA Merges ==
  ASSUME Typed, ScopeInv, Discover \/ Poll \/ \E s \in Snapshot : Reconcile(s)
  PROVE  \/ UNCHANGED manifest /\ Done
         \/ \E s \in Snapshot, status \in Status \ {"requested"} : Merge(s, status) /\ (At("idle") \/ s = This)
<1>0. This \in Snapshot /\ (~At("idle") => manifest[This] # Unused)
  BY DEF Typed, OpTyped, This, At
<1>1. \A s \in Snapshot : ~Aws => Expected(s) \subseteq {Root}
  BY DEF ScopeInv
<1>2. ASSUME NEW s \in Snapshot, manifest[s] # Unused, Expected(s) \subseteq Existing(s),
             SaveManifest(s, Recorded(s, Expected(s), "failed")),
             UNCHANGED <<configuration, cloud, recovered, restore, counters>>
      PROVE  \E status \in Status \ {"requested"} : Merge(s, status)
  <2>1. "failed" \in Status \ {"requested"} /\ "failed" # "complete"
    BY DEF Status
  <2>2. Merge(s, "failed")
    BY <1>2, <2>1 DEF SaveManifest, Merge
  <2> QED
    BY <2>1, <2>2
<1>3. CASE Discover
  <2>1. PICK seen \in SUBSET Existing(This) :
          IF ~ExactSet(This, seen) THEN UNCHANGED manifest /\ Done
          ELSE IF ImageRefused(This) THEN SaveManifest(This, Recorded(This, seen, "failed"))
          ELSE Save(This, seen)
    BY <1>3 DEF Discover
  <2>2. UNCHANGED <<configuration, cloud, recovered, restore, counters>> /\ At("await")
    BY <1>3 DEF Discover
  <2>3. CASE ~ExactSet(This, seen)
    BY <2>1, <2>3
  <2>4. CASE ExactSet(This, seen)
    <3>1. seen = Expected(This) /\ seen \subseteq Existing(This)
      BY <2>4 DEF ExactSet
    <3>2. manifest[This] # Unused
      BY <1>0, <2>2 DEF At
    <3>3. CASE ImageRefused(This)
      BY <1>0, <1>2, <2>1, <2>2, <2>4, <3>1, <3>2, <3>3
    <3>4. CASE ~ImageRefused(This)
      BY <1>0, <1>1, <2>1, <2>2, <2>4, <3>1, <3>2, <3>4, Saves
    <3> QED
      BY <3>3, <3>4
  <2> QED
    BY <2>3, <2>4
<1>4. CASE Poll
  <2>1. Identified(This) = Expected(This) /\ manifest[This] # Unused
    BY <1>0, <1>4 DEF Poll, ScopeInv, At
  <2>2. CASE Expected(This) \subseteq Existing(This) /\ ImageRefused(This)
    BY <1>0, <1>2, <1>4, <2>1, <2>2 DEF Poll
  <2>3. CASE Expected(This) \subseteq Existing(This) /\ ~ImageRefused(This)
    BY <1>0, <1>1, <1>4, <2>1, <2>3, Saves DEF Poll
  <2>4. CASE ~(Expected(This) \subseteq Existing(This))
    BY <1>4, <2>1, <2>4 DEF Poll
  <2> QED
    BY <2>2, <2>3, <2>4
<1>5. ASSUME NEW s \in Snapshot, Reconcile(s)
      PROVE  At("idle") /\ \E status \in Status \ {"requested"} : Merge(s, status)
  <2>1. PICK seen : seen \subseteq Existing(s) /\ ExactSet(s, seen) /\ Save(s, seen)
    BY <1>5 DEF Reconcile, SnapshotsFound, ImageFound
  <2>2. seen = Expected(s)
    BY <2>1 DEF ExactSet
  <2> QED
    BY <1>1, <1>5, <2>1, <2>2, Saves DEF Reconcile
<1> QED
  BY <1>3, <1>4, <1>5

(* What a merge makes of the manifests: it adds no resource, and drops none. *)
LEMMA Merged ==
  ASSUME Typed, NEW s \in Snapshot, NEW status \in Status, Merge(s, status)
  PROVE  /\ ManifestTyped'
         /\ \A q \in Snapshot : Expected(q)' = Expected(q) /\ (manifest[q] # Unused => manifest'[q] # Unused)
         /\ Identified(s)' = Expected(s)
         /\ \A q \in Snapshot \ {s} : manifest'[q] = manifest[q]
         /\ manifest'[s].status = status
         /\ status = "complete" => \A v \in Expected(s) : remote[s][v] = "completed"
                                     /\ manifest'[s].resources[v] = "completed"
<1>0. PICK seen : seen = Expected(s)
  OBVIOUS
<1> DEFINE new == Recorded(s, seen, status)
<1>1. /\ new \in Manifest /\ new.status = status
      /\ \A v \in Volume : new.resources[v] = IF v \in seen THEN remote[s][v] ELSE "none"
      /\ {v \in Volume : new.resources[v] # "none"} = seen
      /\ {v \in Volume : new.resources[v] \in RemoteState \ {"none"}} = seen
  <2>1. RemoteTyped /\ seen \subseteq Existing(s)
    BY <1>0 DEF Typed, Merge
  <2> QED
    BY <2>1, Records
<1>2. /\ manifest \in [Snapshot -> Manifest \cup {Unused}] /\ manifest' = [manifest EXCEPT ![s] = new]
      /\ \A q \in Snapshot, v \in Volume : manifest[q].status = "complete" => manifest[q].resources[v] \in {"none", "completed"}
  BY <1>0 DEF Typed, ManifestTyped, Merge
<1> HIDE DEF new
<1>3. manifest'[s] = new /\ \A q \in Snapshot \ {s} : manifest'[q] = manifest[q]
  BY <1>2
<1>4. status = "complete" => \A v \in Volume : new.resources[v] \in {"none", "completed"}
  BY <1>0, <1>1 DEF Merge
<1>5. new # Unused
  BY <1>1 DEF Unused, Status
<1>6. ManifestTyped'
  BY <1>1, <1>2, <1>3, <1>4 DEF ManifestTyped
<1>7. ASSUME NEW q \in Snapshot
      PROVE  Expected(q)' = Expected(q) /\ (manifest[q] # Unused => manifest'[q] # Unused)
  BY <1>0, <1>1, <1>3, <1>5 DEF Expected
<1>8. Identified(s)' = Expected(s)
  BY <1>0, <1>1, <1>3 DEF Identified
<1>9. status = "complete" => \A v \in Expected(s) : remote[s][v] = "completed" /\ manifest'[s].resources[v] = "completed"
  BY <1>0, <1>1, <1>3 DEF Merge, Expected
<1> QED
  BY <1>1, <1>3, <1>6, <1>7, <1>8, <1>9

-----------------------------------------------------------------------------
(* Types.                                                                  *)
LEMMA IdleTyped ==
  /\ Idle \in [at : Location, snapshot : Snapshot, left : SUBSET Volume, made : SUBSET Volume]
  /\ Idle.at = "idle"
BY SnapshotsAssumption DEF Idle, Location

LEMMA ResourcesTyped ==
  ASSUME Next, ConfigurationTyped, AttachedTyped, RemoteTyped, RestoreTyped, OpTyped
  PROVE  ConfigurationTyped' /\ AttachedTyped' /\ RemoteTyped' /\ RestoreTyped'
<1> USE DEF Next, Continue, ConfigurationTyped, AttachedTyped, RemoteTyped, RestoreTyped, configuration, cloud
<1>1. ConfigurationTyped'
  BY DEF DescribeSource, RefuseSource, SendRequest, Discover, GiveUp, Poll, PollExpires, CreateRecovery, CreateRecoveryFails,
    RecordRecovery, WatchRecovery, Crash, Create, Reconcile, Restore, Take, Lose, Finish, Delete, Change, Advance
<1>2. AttachedTyped'
  BY DEF DescribeSource, RefuseSource, SendRequest, Discover, GiveUp, Poll, PollExpires, CreateRecovery, CreateRecoveryFails,
    RecordRecovery, WatchRecovery, Crash, Create, Reconcile, Restore, Take, Lose, Finish, Delete, Change, Advance
<1>3. RemoteTyped'
  <2>1. CASE SendRequest
    BY <2>1 DEF SendRequest, OpTyped, This
  <2>2. ASSUME NEW s \in Snapshot, Take(s)
        PROVE  RemoteTyped'
    <3>1. [v \in Volume |-> IF v \in Scope THEN "pending" ELSE "none"] \in [Volume -> RemoteState]
      BY DEF RemoteState
    <3> QED
      BY <2>2, <3>1 DEF Take
  <2>3. ASSUME NEW s \in Snapshot, Lose(s)
        PROVE  RemoteTyped'
    BY <2>3 DEF Lose
  <2>4. ASSUME NEW s \in Snapshot, NEW v \in Volume, Finish(s, v) \/ Delete(s, v)
        PROVE  RemoteTyped'
    <3>1. PICK state \in RemoteState : remote' = [remote EXCEPT ![s] = [remote[s] EXCEPT ![v] = state]]
      BY <2>4 DEF Finish, Delete, RemoteState
    <3>2. [remote[s] EXCEPT ![v] = state] \in [Volume -> RemoteState]
      OBVIOUS
    <3>3. UNCHANGED <<call, traced>>
      BY <2>4 DEF Finish, Delete
    <3> QED
      BY <3>1, <3>2, <3>3
  <2>5. CASE UNCHANGED <<call, remote, traced>>
    BY <2>5
  <2>6. \/ SendRequest \/ UNCHANGED <<call, remote, traced>>
        \/ \E s \in Snapshot : Take(s) \/ Lose(s)
        \/ \E s \in Snapshot, v \in Volume : Finish(s, v) \/ Delete(s, v)
    BY DEF DescribeSource, RefuseSource, Discover, GiveUp, Poll, PollExpires, CreateRecovery, CreateRecoveryFails,
      RecordRecovery, WatchRecovery, Crash, Create, Reconcile, Restore, Change, Advance
  <2> QED
    BY <2>1, <2>2, <2>3, <2>4, <2>5, <2>6
<1>4. RestoreTyped'
  <2>1. ASSUME NEW s \in Snapshot, NEW status \in {"none", "pending", "complete", "failed"}, NEW volumes \in SUBSET Volume,
               SaveRestore(s, status, volumes)
        PROVE  RestoreTyped'
    <3>1. [status |-> status, volumes |-> volumes] \in [status : {"none", "pending", "complete", "failed"}, volumes : SUBSET Volume]
      OBVIOUS
    <3> QED
      BY <2>1, <3>1 DEF SaveRestore
  <2>2. This \in Snapshot /\ op.made \in SUBSET Volume /\ op.left \in SUBSET Volume
    BY DEF OpTyped, This
  <2>3. CASE CreateRecovery
    <3>1. PICK v \in op.left : UNCHANGED restore \/ SaveRestore(This, "failed", op.made \cup {v})
      BY <2>3 DEF CreateRecovery
    <3>2. op.made \cup {v} \in SUBSET Volume
      BY <2>2
    <3> QED
      BY <2>1, <2>2, <3>1, <3>2
  <2>4. CASE CreateRecoveryFails \/ RecordRecovery
    <3>1. SaveRestore(This, "failed", op.made) \/ SaveRestore(This, "pending", op.made)
      BY <2>4 DEF CreateRecoveryFails, RecordRecovery
    <3> QED
      BY <2>1, <2>2, <3>1
  <2>5. CASE WatchRecovery
    <3>1. \E status \in {"failed", "complete", "pending"} : SaveRestore(This, status, op.made)
      BY <2>5 DEF WatchRecovery, WatchVolumes, WatchServer
    <3> QED
      BY <2>1, <2>2, <3>1
  <2>6. ASSUME NEW s \in Snapshot, Restore(s)
        PROVE  RestoreTyped'
    BY <2>1, <2>6 DEF Restore
  <2>7. \/ UNCHANGED restore \/ CreateRecovery \/ CreateRecoveryFails \/ RecordRecovery \/ WatchRecovery
        \/ \E s \in Snapshot : Restore(s)
    BY DEF DescribeSource, RefuseSource, SendRequest, Discover, GiveUp, Poll, PollExpires, Crash, Create, Reconcile,
      Take, Lose, Finish, Delete, Change, Advance
  <2> QED
    BY <2>3, <2>4, <2>5, <2>6, <2>7
<1> QED
  BY <1>1, <1>2, <1>3, <1>4

LEMMA CountersKept ==
  ASSUME Next, CountersTyped
  PROVE  CountersTyped'
<1>1. \A n \in {MaxChanges, MaxFaults, MaxDeletes, MaxRestores, MaxCrashes} : n \in Nat
  BY SnapshotsAssumption
<1>2. \/ UNCHANGED counters
      \/ changes < MaxChanges /\ changes' = changes + 1 /\ UNCHANGED <<faults, deletes, restores, crashes>>
      \/ faults < MaxFaults /\ faults' = faults + 1 /\ UNCHANGED <<changes, deletes, restores, crashes>>
      \/ deletes < MaxDeletes /\ deletes' = deletes + 1 /\ UNCHANGED <<changes, faults, restores, crashes>>
      \/ restores < MaxRestores /\ restores' = restores + 1 /\ UNCHANGED <<changes, faults, deletes, crashes>>
      \/ crashes < MaxCrashes /\ crashes' = crashes + 1 /\ UNCHANGED <<changes, faults, deletes, restores>>
  <2>1. CASE Continue
    BY <2>1 DEF Continue, counters, DescribeSource, RefuseSource, SendRequest, Discover, GiveUp, Poll, PollExpires,
      CreateRecovery, CreateRecoveryFails, RecordRecovery, WatchRecovery
  <2>2. CASE Crash
    BY <2>2 DEF Crash
  <2> QED
    BY <2>1, <2>2 DEF Next, counters, Create, Reconcile, Restore, Take, Lose, Finish, Delete, Change, Advance
<1> QED
  BY <1>1, <1>2 DEF CountersTyped, counters

(* The manifests change by Create, DescribeSource and the merges.          *)
Touches == DescribeSource \/ Discover \/ Poll \/ \E s \in Snapshot : Create(s) \/ Reconcile(s)

LEMMA Untouched ==
  ASSUME Next, ~Touches
  PROVE  UNCHANGED manifest
BY DEF Touches, Next, Continue, RefuseSource, SendRequest, GiveUp, PollExpires, CreateRecovery, CreateRecoveryFails,
  RecordRecovery, WatchRecovery, Crash, Restore, Take, Lose, Finish, Delete, Change, Advance

LEMMA ManifestKept ==
  ASSUME Next, Typed, ScopeInv
  PROVE  /\ ManifestTyped'
         /\ \A q \in Snapshot : manifest[q] # Unused => manifest'[q] # Unused
<1>1. CASE UNCHANGED manifest
  BY <1>1 DEF Typed, ManifestTyped
<1>2. ASSUME NEW s \in Snapshot, NEW status \in Status, Merge(s, status)
      PROVE  /\ ManifestTyped'
             /\ \A q \in Snapshot : manifest[q] # Unused => manifest'[q] # Unused
  BY <1>2, Merged
<1>3. ASSUME NEW s \in Snapshot, Create(s)
      PROVE  /\ ManifestTyped'
             /\ \A q \in Snapshot : manifest[q] # Unused => manifest'[q] # Unused
  <2>1. [Unused EXCEPT !.status = "requested"] = [status |-> "requested", resources |-> [v \in Volume |-> "none"]]
    BY DEF Unused
  <2>2. [status |-> "requested", resources |-> [v \in Volume |-> "none"]] \in Manifest
    BY DEF Manifest, Status, ResourceState, RemoteState
  <2>3. manifest[s] = Unused /\ manifest' = [manifest EXCEPT ![s] = [manifest[s] EXCEPT !.status = "requested"]]
    BY <1>3 DEF Create
  <2>4. manifest' = [manifest EXCEPT ![s] = [status |-> "requested", resources |-> [v \in Volume |-> "none"]]]
    BY <2>1, <2>3
  <2> QED
    BY <2>2, <2>3, <2>4 DEF Typed, ManifestTyped
<1>4. CASE DescribeSource
  <2>1. PICK scope : scope = [v \in Volume |-> IF v \in Scope THEN "requested" ELSE "none"]
    OBVIOUS
  <2>2. scope \in [Volume -> ResourceState]
    BY <2>1 DEF ResourceState, RemoteState
  <2>3. This \in Snapshot /\ manifest[This] \in Manifest /\ manifest[This].status # "complete"
    BY <1>4 DEF DescribeSource, ScopeInv, At, This, Typed, OpTyped, ManifestTyped, Unused
  <2>4. manifest' = [manifest EXCEPT ![This] = [manifest[This] EXCEPT !.resources = scope]]
    BY <1>4, <2>1 DEF DescribeSource
  <2>5. PICK new : new = [manifest[This] EXCEPT !.resources = scope]
    OBVIOUS
  <2>6. new \in Manifest /\ new.status # "complete" /\ new # Unused
    BY <2>2, <2>3, <2>5 DEF Manifest, Unused, Status
  <2> QED
    BY <2>3, <2>4, <2>5, <2>6 DEF Typed, ManifestTyped
<1> QED
  BY <1>1, <1>2, <1>3, <1>4, Merges, Untouched DEF Touches

-----------------------------------------------------------------------------
(* The command, and the replacements.                                      *)

(* A command that recovers, or describes, changes no manifest it depends on. *)
LEMMA Steady ==
  ASSUME Next, op.at \in Restoring
  PROVE  UNCHANGED <<manifest, provider>> /\ \A s \in Snapshot : s \in traced => s \in traced'
<1>1. ~Touches
  BY DEF Touches, DescribeSource, Discover, Poll, Create, Reconcile, At, Restoring
<1>2. UNCHANGED provider
  BY DEF Next, Continue, configuration, DescribeSource, RefuseSource, SendRequest, Discover, GiveUp, Poll, PollExpires,
    CreateRecovery, CreateRecoveryFails, RecordRecovery, WatchRecovery, Crash, Create, Reconcile, Restore, Take, Lose,
    Finish, Delete, Change, Advance
<1>3. \A s \in Snapshot : s \in traced => s \in traced'
  BY DEF Next, Continue, cloud, DescribeSource, RefuseSource, SendRequest, Discover, GiveUp, Poll, PollExpires,
    CreateRecovery, CreateRecoveryFails, RecordRecovery, WatchRecovery, Crash, Create, Reconcile, Restore, Take, Lose,
    Finish, Delete, Change, Advance
<1> QED
  BY <1>1, <1>2, <1>3, Untouched

(* Where a step can take the command.                                      *)
Begins == \E s \in Snapshot :
  \/ manifest[s] = Unused /\ manifest'[s] # Unused /\ manifest'[s].status = "requested"
     /\ op' = [at |-> "describe", snapshot |-> s, left |-> {}, made |-> {}]
  \/ Plannable(s) /\ RemoteComplete(s) /\ UNCHANGED <<manifest, provider, traced>>
     /\ op' = [at |-> "create", snapshot |-> s, left |-> Expected(s), made |-> {}]

Requests == \E pc \in {"request", "await", "poll"} :
  /\ op.at \in {"describe", "request", "await"} /\ op' = [op EXCEPT !.at = pc]
  /\ pc = "poll" => Discover

Recovers ==
  \/ At("create") /\ \E v \in op.left :
       ProviderCreates(This, v) /\ op' = [op EXCEPT !.at = "record", !.left = @ \ {v}, !.made = @ \cup {v}]
  \/ At("record") /\ \E pc \in {"create", "watch"} : op' = [op EXCEPT !.at = pc] /\ (pc = "watch" => op.left = {})

LEMMA Moves ==
  ASSUME Next, Typed
  PROVE  UNCHANGED op \/ Done \/ Begins \/ Requests \/ Recovers
<1>1. ASSUME NEW s \in Snapshot, Create(s)
      PROVE  Begins
  <2>1. op' = [at |-> "describe", snapshot |-> s, left |-> {}, made |-> {}]
    BY <1>1 DEF Create, Idle
  <2>2. manifest'[s] = [Unused EXCEPT !.status = "requested"] /\ manifest[s] = Unused
    BY <1>1 DEF Create, Typed, ManifestTyped
  <2>3. manifest'[s] # Unused /\ manifest'[s].status = "requested"
    BY <2>2 DEF Unused
  <2> QED
    BY <2>1, <2>2, <2>3 DEF Begins
<1>2. ASSUME NEW s \in Snapshot, Restore(s)
      PROVE  UNCHANGED op \/ Begins
  BY <1>2 DEF Restore, Begins, configuration, cloud
<1>3. CASE DescribeSource \/ SendRequest \/ Discover
  BY <1>3 DEF DescribeSource, SendRequest, Discover, Requests, Goto, At
<1>4. CASE CreateRecovery \/ RecordRecovery
  BY <1>4 DEF CreateRecovery, RecordRecovery, Recovers, Goto
<1> QED
  BY <1>1, <1>2, <1>3, <1>4 DEF Next, Continue, RefuseSource, GiveUp, Poll, PollExpires, CreateRecoveryFails, WatchRecovery,
    Crash, Reconcile, Take, Lose, Finish, Delete, Change, Advance

LEMMA OpKept ==
  ASSUME Next, Typed, ScopeInv
  PROVE  OpTyped'
<1>0. /\ op \in [at : Location, snapshot : Snapshot, left : SUBSET Volume, made : SUBSET Volume]
      /\ \A q \in Snapshot : manifest[q] # Unused => manifest'[q] # Unused
      /\ op.at \in Restoring => UNCHANGED manifest
      /\ Restoring \subseteq Location \ {"idle"}
  BY ManifestKept, Steady DEF Typed, OpTyped, Restoring, Location
<1>1. CASE UNCHANGED op
  BY <1>0, <1>1 DEF Typed, OpTyped
<1>2. CASE Done
  BY <1>2, IdleTyped DEF OpTyped, Done, Restoring
<1>3. CASE Begins
  <2>1. PICK s \in Snapshot :
          \/ /\ manifest'[s] # Unused
             /\ op' = [at |-> "describe", snapshot |-> s, left |-> {}, made |-> {}]
          \/ Plannable(s) /\ UNCHANGED manifest /\ op' = [at |-> "create", snapshot |-> s, left |-> Expected(s), made |-> {}]
    BY <1>3 DEF Begins
  <2>2. CASE manifest'[s] # Unused /\ op' = [at |-> "describe", snapshot |-> s, left |-> {}, made |-> {}]
    BY <2>2 DEF OpTyped, Location, Restoring
  <2>3. CASE Plannable(s) /\ UNCHANGED manifest /\ op' = [at |-> "create", snapshot |-> s, left |-> Expected(s), made |-> {}]
    <3>1. manifest'[s].status = "complete" /\ manifest'[s] # Unused
      BY <2>3 DEF Plannable, Unused
    <3>2. Expected(s) \in SUBSET Volume
      BY DEF Expected
    <3> QED
      BY <2>3, <3>1, <3>2 DEF OpTyped, Location
  <2> QED
    BY <2>1, <2>2, <2>3
<1>4. CASE Requests
  <2>1. PICK pc \in {"request", "await", "poll"} :
          op.at \in {"describe", "request", "await"} /\ op' = [op EXCEPT !.at = pc]
    BY <1>4 DEF Requests
  <2>2. op'.at = pc /\ op'.snapshot = op.snapshot /\ pc \notin Restoring /\ op.at # "idle"
    BY <1>0, <2>1 DEF Restoring
  <2>3. op' \in [at : Location, snapshot : Snapshot, left : SUBSET Volume, made : SUBSET Volume]
    BY <1>0, <2>1 DEF Location
  <2> QED
    BY <1>0, <2>2, <2>3 DEF Typed, OpTyped
<1>5. CASE Recovers
  <2>1. PICK pc \in Restoring, left \in SUBSET Volume, made \in SUBSET Volume :
          op' = [op EXCEPT !.at = pc, !.left = left, !.made = made]
    <3>1. CASE At("create")
      <4>1. PICK v \in op.left : op' = [op EXCEPT !.at = "record", !.left = @ \ {v}, !.made = @ \cup {v}]
        BY <1>5, <3>1 DEF Recovers, At
      <4>2. op.left \ {v} \in SUBSET Volume /\ op.made \cup {v} \in SUBSET Volume
        BY <1>0
      <4> QED
        BY <1>0, <4>1, <4>2 DEF Restoring
    <3>2. CASE At("record")
      <4>1. PICK pc \in {"create", "watch"} : op' = [op EXCEPT !.at = pc]
        BY <1>5, <3>2 DEF Recovers, At
      <4>2. [op EXCEPT !.at = pc] = [op EXCEPT !.at = pc, !.left = op.left, !.made = op.made]
        BY <1>0
      <4>3. pc \in Restoring /\ op.left \in SUBSET Volume /\ op.made \in SUBSET Volume
        BY <1>0 DEF Restoring
      <4> QED
        BY <4>1, <4>2, <4>3
    <3> QED
      BY <1>5, <3>1, <3>2 DEF Recovers
  <2>2. op'.at = pc /\ op'.snapshot = op.snapshot /\ op.at \in Restoring
    BY <1>0, <1>5, <2>1 DEF Recovers, At, Restoring
  <2>3. op' \in [at : Location, snapshot : Snapshot, left : SUBSET Volume, made : SUBSET Volume]
    BY <1>0, <2>1
  <2> QED
    BY <1>0, <2>2, <2>3 DEF Typed, OpTyped
<1> QED
  BY <1>1, <1>2, <1>3, <1>4, <1>5, Moves

(* A replacement made is recorded under the token of its resource.         *)
LEMMA Creates ==
  ASSUME Typed, ReplacementInv, NEW s \in Snapshot, NEW v \in Volume, ProviderCreates(s, v)
  PROVE  /\ ReplacementInv' /\ recovered \subseteq recovered'
         /\ \E r \in recovered' : r.token = <<s, v>>
<1>1. Named(s, v) = {r \in recovered : r.token = <<s, v>>}
  BY DEF Named, Token
<1>2. CASE Named(s, v) # {}
  BY <1>1, <1>2 DEF ProviderCreates, ReplacementInv
<1>3. CASE Named(s, v) = {}
  <2>1. PICK new : new = [snapshot |-> s, volume |-> v, token |-> <<s, v>>, state |-> "creating", attached |-> FALSE]
    OBVIOUS
  <2>2. recovered' = recovered \cup {new}
    BY <1>3, <2>1 DEF ProviderCreates, Token
  <2>3. /\ new \in Replacement /\ new.token = <<s, v>>
        /\ new.snapshot = s /\ new.volume = v
    BY <2>1 DEF Replacement
  <2>4. \A r \in recovered : r.token # new.token
    BY <1>1, <1>3, <2>3
  <2> QED
    BY <2>2, <2>3, <2>4 DEF ReplacementInv
<1> QED
  BY <1>2, <1>3

LEMMA Advances ==
  ASSUME ReplacementInv, NEW r \in recovered, Advance(r)
  PROVE  /\ ReplacementInv'
         /\ \A q \in recovered : \E p \in recovered' : p.token = q.token
<1>1. PICK new \in Replacement :
        /\ recovered' = (recovered \ {r}) \cup {new}
        /\ new.token = r.token /\ new.snapshot = r.snapshot /\ new.volume = r.volume
  <2>1. r \in Replacement
    BY DEF ReplacementInv
  <2>2. CASE r.state = "creating"
    <3>1. PICK state \in {"available", "error"} : recovered' = (recovered \ {r}) \cup {[r EXCEPT !.state = state]}
      BY <2>2 DEF Advance
    <3>2. [r EXCEPT !.state = state] \in Replacement
      BY <2>1 DEF Replacement
    <3> QED
      BY <2>1, <3>1, <3>2 DEF Replacement
  <2>3. CASE r.state # "creating"
    <3>1. recovered' = (recovered \ {r}) \cup {[r EXCEPT !.attached = TRUE]}
      BY <2>3 DEF Advance
    <3>2. [r EXCEPT !.attached = TRUE] \in Replacement
      BY <2>1 DEF Replacement
    <3> QED
      BY <2>1, <3>1, <3>2 DEF Replacement
  <2> QED
    BY <2>2, <2>3
<1>2. ReplacementInv'
  <2>1. recovered' \subseteq Replacement /\ \A q \in recovered' : q.token = <<q.snapshot, q.volume>>
    BY <1>1 DEF ReplacementInv
  <2>2. \A q \in recovered \ {r} : q.token # new.token
    BY <1>1 DEF ReplacementInv
  <2> QED
    BY <1>1, <2>1, <2>2 DEF ReplacementInv
<1> QED
  BY <1>1, <1>2

LEMMA ReplacementsKept ==
  ASSUME Next, Typed, ReplacementInv
  PROVE  /\ ReplacementInv'
         /\ \A q \in recovered : \E p \in recovered' : p.token = q.token
<1>0. This \in Snapshot /\ op.left \subseteq Volume
  BY DEF Typed, OpTyped, This
<1>1. CASE UNCHANGED recovered
  BY <1>1 DEF ReplacementInv
<1>2. CASE CreateRecovery
  BY <1>0, <1>2, Creates DEF CreateRecovery
<1>3. CASE CreateRecoveryFails
  <2>1. PICK v \in Volume : UNCHANGED recovered \/ ProviderCreates(This, v)
    BY <1>0, <1>3 DEF CreateRecoveryFails
  <2> QED
    BY <1>0, <1>1, <2>1, Creates
<1>4. ASSUME NEW r \in recovered, Advance(r)
      PROVE  /\ ReplacementInv'
             /\ \A q \in recovered : \E p \in recovered' : p.token = q.token
  BY <1>4, Advances
<1> QED
  BY <1>1, <1>2, <1>3, <1>4 DEF Next, Continue, DescribeSource, RefuseSource, SendRequest, Discover, GiveUp, Poll, PollExpires,
    RecordRecovery, WatchRecovery, Crash, Create, Reconcile, Restore, Take, Lose, Finish, Delete, Change

-----------------------------------------------------------------------------
(* The parts of the invariant that relate the command to the manifests.    *)
LEMMA ScopeKept ==
  ASSUME Next, IInv
  PROVE  ScopeInv'
<1>1. (At("describe") => manifest[This].status = "requested")'
  <2>1. CASE UNCHANGED op /\ At("describe")
    <3>1. CASE ~Touches
      BY <2>1, <3>1, Untouched DEF IInv, ScopeInv, This, At
    <3>2. CASE Touches
      BY <2>1, <3>2 DEF Touches, DescribeSource, Discover, Poll, Create, Reconcile, At, Goto, IInv, Typed, OpTyped
    <3> QED
      BY <3>1, <3>2
  <2>2. CASE Begins
    BY <2>2 DEF Begins, At, This
  <2>3. CASE Done \/ Requests \/ Recovers \/ (UNCHANGED op /\ ~At("describe"))
    <3>1. op \in [at : Location, snapshot : Snapshot, left : SUBSET Volume, made : SUBSET Volume]
      BY DEF IInv, Typed, OpTyped
    <3>2. op'.at # "describe"
      <4>1. CASE Done
        BY <4>1, IdleTyped DEF Done
      <4>2. CASE Requests
        BY <3>1, <4>2 DEF Requests
      <4>3. CASE Recovers
        BY <3>1, <4>3 DEF Recovers
      <4> QED
        BY <2>3, <4>1, <4>2, <4>3 DEF At
    <3> QED
      BY <3>2 DEF At
  <2> QED
    BY <2>1, <2>2, <2>3, Moves DEF IInv
<1>2. (At("poll") => Identified(This) = Expected(This))'
  <2>1. ASSUME At("poll")', UNCHANGED manifest, At("poll"), UNCHANGED op
        PROVE  (Identified(This) = Expected(This))'
    BY <2>1 DEF IInv, ScopeInv, Identified, Expected, This, At
  <2>2. ASSUME At("poll")', Discover \/ Poll
        PROVE  (Identified(This) = Expected(This))'
    <3>1. ~Done /\ ~At("idle")
      BY <2>2, IdleTyped DEF Done, At, Discover, Poll
    <3>2. PICK status \in Status : Merge(This, status)
      BY <2>2, <3>1, Merges DEF IInv
    <3>3. Identified(This)' = Expected(This)' /\ This' = This
      <4>1. This \in Snapshot /\ This' = This
        BY <2>2, IdleTyped DEF IInv, Typed, OpTyped, Discover, Poll, Goto, Done, At, This
      <4>2. PICK s \in Snapshot : s = This
        BY <4>1
      <4>3. Identified(s)' = Expected(s)'
        BY <3>2, <4>2, Merged DEF IInv
      <4> QED
        BY <4>1, <4>2, <4>3 DEF Identified, Expected
    <3> QED
      BY <3>3 DEF Identified, Expected
  <2>3. ASSUME At("poll")', ~(Discover \/ Poll)
        PROVE  UNCHANGED <<op, manifest>> /\ At("poll")
    <3>1. UNCHANGED op
      <4>1. op \in [at : Location, snapshot : Snapshot, left : SUBSET Volume, made : SUBSET Volume] /\ op'.at = "poll"
        BY <2>3 DEF IInv, Typed, OpTyped, At
      <4>2. ~Done
        BY <4>1, IdleTyped DEF Done
      <4>3. ~Begins
        BY <4>1 DEF Begins
      <4>4. ~Requests
        BY <2>3, <4>1 DEF Requests
      <4>5. ~Recovers
        BY <4>1 DEF Recovers
      <4> QED
        BY <4>2, <4>3, <4>4, <4>5, Moves DEF IInv
    <3>2. At("poll")
      BY <2>3, <3>1 DEF At
    <3>3. ~Touches
      BY <2>3, <3>2 DEF Touches, DescribeSource, Create, Reconcile, At
    <3> QED
      BY <3>1, <3>2, <3>3, Untouched
  <2> QED
    BY <2>1, <2>2, <2>3
<1>3. (~Aws => \A s \in Snapshot : Expected(s) \subseteq {Root})'
  <2>0. UNCHANGED provider
    BY DEF Next, Continue, configuration, DescribeSource, RefuseSource, SendRequest, Discover, GiveUp, Poll, PollExpires,
      CreateRecovery, CreateRecoveryFails, RecordRecovery, WatchRecovery, Crash, Create, Reconcile, Restore, Take, Lose,
      Finish, Delete, Change, Advance
  <2> SUFFICES ASSUME ~Aws, NEW s \in Snapshot
               PROVE  Expected(s)' \subseteq {Root}
    BY <2>0 DEF Aws
  <2>1. Expected(s) \subseteq {Root} /\ manifest \in [Snapshot -> Manifest \cup {Unused}]
    BY DEF IInv, ScopeInv, Typed, ManifestTyped
  <2>2. CASE UNCHANGED manifest
    BY <2>1, <2>2 DEF Expected
  <2>3. ASSUME NEW q \in Snapshot, NEW status \in Status, Merge(q, status)
        PROVE  Expected(s)' \subseteq {Root}
    BY <2>1, <2>3, Merged DEF IInv
  <2>4. ASSUME NEW q \in Snapshot, Create(q)
        PROVE  Expected(s)' \subseteq {Root}
    <3>1. \A v \in Volume : manifest'[s].resources[v] = manifest[s].resources[v]
      BY <2>1, <2>4 DEF Create, Manifest, Unused
    <3> QED
      BY <2>1, <3>1 DEF Expected
  <2>5. CASE DescribeSource
    <3>1. PICK scope : scope = [v \in Volume |-> IF v \in Scope THEN "requested" ELSE "none"]
      OBVIOUS
    <3>2. manifest' = [manifest EXCEPT ![This] = [manifest[This] EXCEPT !.resources = scope]]
      BY <2>5, <3>1 DEF DescribeSource
    <3>3. manifest'[s].resources = scope \/ manifest'[s] = manifest[s]
      BY <2>1, <3>2 DEF Manifest, Unused
    <3>4. \A v \in Volume : scope[v] # "none" => v = Root
      BY <3>1 DEF Scope
    <3> QED
      BY <2>1, <3>3, <3>4 DEF Expected
  <2> QED
    BY <2>2, <2>3, <2>4, <2>5, Merges, Untouched DEF Touches, IInv
<1> QED
  BY <1>1, <1>2, <1>3 DEF ScopeInv

LEMMA MadeKept ==
  ASSUME Next, IInv
  PROVE  MadeInv'
<1>0. \A q \in recovered : \E p \in recovered' : p.token = q.token
  BY ReplacementsKept DEF IInv
<1>1. CASE UNCHANGED op
  <2> SUFFICES ASSUME op.at \in Restoring
               PROVE  MadeInv'
    BY <1>1 DEF MadeInv
  <2>1. UNCHANGED <<manifest, provider>> /\ \A s \in Snapshot : s \in traced => s \in traced'
    BY Steady
  <2>2. This \in Snapshot
    BY DEF IInv, Typed, OpTyped, This
  <2> QED
    BY <1>0, <1>1, <2>1, <2>2 DEF IInv, MadeInv, Expected, This, At, Aws
<1>2. CASE Done
  BY <1>2, IdleTyped DEF Done, MadeInv, Restoring
<1>3. CASE Begins
  <2>1. PICK s \in Snapshot :
          \/ op'.at = "describe"
          \/ /\ Plannable(s) /\ RemoteComplete(s) /\ UNCHANGED <<manifest, provider, traced>>
             /\ op' = [at |-> "create", snapshot |-> s, left |-> Expected(s), made |-> {}]
    BY <1>3 DEF Begins
  <2>2. CASE op'.at = "describe"
    BY <2>2 DEF MadeInv, Restoring
  <2>3. CASE /\ Plannable(s) /\ RemoteComplete(s) /\ UNCHANGED <<manifest, provider, traced>>
             /\ op' = [at |-> "create", snapshot |-> s, left |-> Expected(s), made |-> {}]
    <3>1. op'.left = Expected(s) /\ op'.made = {} /\ op'.snapshot = s /\ op'.at = "create"
      BY <2>3
    <3>2. Expected(s)' = Expected(s)
      BY <2>3 DEF Expected
    <3>3. Aws \/ s \in traced
      BY <2>3 DEF RemoteComplete, ImageRestorable
    <3> QED
      BY <2>3, <3>1, <3>2, <3>3 DEF MadeInv, This, At, Aws
  <2> QED
    BY <2>1, <2>2, <2>3
<1>4. CASE Requests
  BY <1>4 DEF Requests, MadeInv, Restoring, IInv, Typed, OpTyped
<1>5. CASE Recovers
  <2>1. /\ op.at \in Restoring /\ op'.at \in Restoring /\ op'.snapshot = op.snapshot
        /\ This \in Snapshot /\ op.left \subseteq Volume
    BY <1>5 DEF Recovers, At, Restoring, This, IInv, Typed, OpTyped
  <2>2. UNCHANGED <<manifest, provider>> /\ \A s \in Snapshot : s \in traced => s \in traced'
    BY <2>1, Steady
  <2>3. /\ op.left \cup op.made = Expected(This)
        /\ Aws \/ This \in traced
        /\ \A v \in op.made : \E r \in recovered : r.token = <<This, v>>
    BY <2>1 DEF IInv, MadeInv
  <2>4. /\ op'.left \cup op'.made = Expected(This)
        /\ \A v \in op'.made : \E r \in recovered' : r.token = <<This, v>>
        /\ op'.at = "watch" => op'.left = {}
    <3>0. \A v \in op.made : \E r \in recovered' : r.token = <<This, v>>
      <4> TAKE v \in op.made
      <4>1. PICK q \in recovered : q.token = <<This, v>>
        BY <2>3
      <4> QED
        BY <1>0, <4>1
    <3>1. CASE At("create")
      <4>1. PICK v \in op.left :
              ProviderCreates(This, v) /\ op' = [op EXCEPT !.at = "record", !.left = @ \ {v}, !.made = @ \cup {v}]
        BY <1>5, <3>1 DEF Recovers, At
      <4>2. op'.at = "record" /\ op'.left = op.left \ {v} /\ op'.made = op.made \cup {v}
        BY <4>1 DEF IInv, Typed, OpTyped
      <4>3. \E r \in recovered' : r.token = <<This, v>>
        BY <2>1, <4>1, Creates DEF IInv
      <4>4. op'.left \cup op'.made = op.left \cup op.made
        BY <4>2
      <4>5. \A w \in op'.made : \E r \in recovered' : r.token = <<This, w>>
        BY <3>0, <4>2, <4>3
      <4> QED
        BY <2>3, <4>2, <4>4, <4>5
    <3>2. CASE At("record")
      <4>1. op'.left = op.left /\ op'.made = op.made /\ (op'.at = "watch" => op.left = {})
        BY <1>5, <3>2 DEF Recovers, At, IInv, Typed, OpTyped
      <4> QED
        BY <2>3, <3>0, <4>1
    <3> QED
      BY <1>5, <3>1, <3>2 DEF Recovers
  <2>5. This' = This /\ Expected(This)' = Expected(This)
    BY <2>1, <2>2 DEF This, Expected
  <2> QED
    BY <2>1, <2>2, <2>3, <2>4, <2>5 DEF MadeInv, At, Aws
<1> QED
  BY <1>1, <1>2, <1>3, <1>4, <1>5, Moves DEF IInv

-----------------------------------------------------------------------------
(* The invariant, and what it implies of the states and of the steps.      *)
LEMMA Initially == Init => IInv
<1> SUFFICES ASSUME Init PROVE IInv
  OBVIOUS
<1>1. /\ op = Idle /\ recovered = {} /\ \A s \in Snapshot : manifest[s] = Unused
      /\ \A s \in Snapshot, v \in Volume : manifest[s].resources[v] = "none" /\ manifest[s].status = "unused"
  BY DEF Init, Unused
<1>2. ConfigurationTyped /\ AttachedTyped
  BY DEF Init, ConfigurationTyped, AttachedTyped
<1>3. RemoteTyped
  <2>1. [v \in Volume |-> "none"] \in [Volume -> RemoteState]
    BY DEF RemoteState
  <2>2. remote = [s \in Snapshot |-> [v \in Volume |-> "none"]] /\ call = [s \in Snapshot |-> "none"] /\ traced = {}
    BY DEF Init
  <2> QED
    BY <2>1, <2>2 DEF RemoteTyped
<1>4. ManifestTyped
  BY <1>1 DEF Init, ManifestTyped
<1>5. OpTyped
  BY <1>1, IdleTyped DEF OpTyped, Restoring
<1>6. RestoreTyped
  <2>1. [status |-> "none", volumes |-> {}] \in [status : {"none", "pending", "complete", "failed"}, volumes : SUBSET Volume]
    OBVIOUS
  <2>2. restore = [s \in Snapshot |-> [status |-> "none", volumes |-> {}]]
    BY DEF Init
  <2> QED
    BY <2>1, <2>2 DEF RestoreTyped
<1>7. CountersTyped
  BY SnapshotsAssumption DEF Init, CountersTyped
<1>8. ReplacementInv
  BY <1>1 DEF ReplacementInv
<1>9. ScopeInv /\ MadeInv
  BY <1>1, IdleTyped DEF ScopeInv, MadeInv, Restoring, At, Expected
<1> QED
  BY <1>2, <1>3, <1>4, <1>5, <1>6, <1>7, <1>8, <1>9 DEF IInv, Typed

LEMMA Inductive == IInv /\ [Next]_vars => IInv'
<1>1. ASSUME IInv, Next
      PROVE  IInv'
  <2>1. ConfigurationTyped' /\ AttachedTyped' /\ RemoteTyped' /\ RestoreTyped' /\ CountersTyped'
    BY <1>1, ResourcesTyped, CountersKept DEF IInv, Typed
  <2>2. ManifestTyped' /\ OpTyped' /\ ReplacementInv'
    BY <1>1, ManifestKept, OpKept, ReplacementsKept DEF IInv
  <2> QED
    BY <1>1, <2>1, <2>2, ScopeKept, MadeKept DEF IInv, Typed
<1>2. ASSUME IInv, UNCHANGED vars
      PROVE  IInv'
  BY <1>2 DEF IInv, Typed, ConfigurationTyped, AttachedTyped, RemoteTyped, ManifestTyped, OpTyped, RestoreTyped, CountersTyped,
    ReplacementInv, ScopeInv, MadeInv, vars, configuration, cloud, counters, At, This, Expected, Identified, Aws
<1> QED
  BY <1>1, <1>2

(* A manifest becomes complete by a merge, which is of the whole set.      *)
LEMMA Completion ==
  ASSUME IInv, Next, NEW s \in Snapshot, manifest[s].status # "complete", manifest'[s].status = "complete"
  PROVE  \A v \in Expected(s) : remote[s][v] = "completed" /\ manifest'[s].resources[v] = "completed"
<1>0. manifest \in [Snapshot -> Manifest \cup {Unused}]
  BY DEF IInv, Typed, ManifestTyped
<1>1. ASSUME NEW q \in Snapshot, NEW status \in Status, Merge(q, status)
      PROVE  \A v \in Expected(s) : remote[s][v] = "completed" /\ manifest'[s].resources[v] = "completed"
  <2>1. q = s
    BY <1>1, Merged DEF IInv
  <2> QED
    BY <1>1, <2>1, Merged DEF IInv
<1>2. ~\E q \in Snapshot : Create(q)
  BY <1>0 DEF Create, Manifest, Unused
<1>3. ~DescribeSource
  BY <1>0 DEF DescribeSource, Manifest, Unused
<1> QED
  BY <1>1, <1>2, <1>3, Merges, Untouched DEF Touches, IInv

(* A recovery becomes complete when it is watched.                         *)
LEMMA Completed ==
  ASSUME IInv, Next, NEW s \in Snapshot, restore'[s].status = "complete", restore[s].status # "complete"
  PROVE  /\ restore'[s].volumes = Expected(s)
         /\ Aws \/ s \in traced
         /\ \A v \in Expected(s) : \E r \in recovered :
              r.snapshot = s /\ r.volume = v /\ r.state = "available" /\ ~r.attached
<1>0. This \in Snapshot /\ restore \in [Snapshot -> [status : {"none", "pending", "complete", "failed"}, volumes : SUBSET Volume]]
  BY DEF IInv, Typed, OpTyped, RestoreTyped, This
<1>1. ASSUME NEW q \in Snapshot, NEW status, NEW volumes, SaveRestore(q, status, volumes)
      PROVE  q = s /\ status = "complete" /\ restore'[s].volumes = volumes
  BY <1>0, <1>1 DEF SaveRestore
<1>2. ~UNCHANGED restore
  OBVIOUS
<1>3. ~CreateRecovery /\ ~CreateRecoveryFails /\ ~RecordRecovery
  BY <1>0, <1>1, <1>2 DEF CreateRecovery, CreateRecoveryFails, RecordRecovery
<1>4. ASSUME NEW q \in Snapshot
      PROVE  ~Restore(q)
  BY <1>1, <1>2 DEF Restore
<1>5. WatchRecovery
  BY <1>2, <1>3, <1>4 DEF Next, Continue, DescribeSource, RefuseSource, SendRequest, Discover, GiveUp, Poll, PollExpires,
    Crash, Create, Reconcile, Take, Lose, Finish, Delete, Change, Advance
<1>6. /\ s = This /\ restore'[s].volumes = op.made
      /\ \A r \in Made : Isolated(r) /\ r.state = "available"
  <2>1. PICK status : /\ SaveRestore(This, status, op.made)
                      /\ status = "complete" => \A r \in Made : Isolated(r) /\ r.state = "available"
    BY <1>5 DEF WatchRecovery, WatchVolumes, WatchServer, AllAvailable
  <2> QED
    BY <1>0, <1>1, <2>1
<1>7. /\ op.made = Expected(s)
      /\ Aws \/ s \in traced
      /\ \A v \in op.made : \E r \in recovered : r.token = <<s, v>>
  BY <1>5, <1>6 DEF WatchRecovery, IInv, MadeInv, Restoring, At
<1>8. ASSUME NEW v \in Expected(s)
      PROVE  \E r \in recovered : r.snapshot = s /\ r.volume = v /\ r.state = "available" /\ ~r.attached
  <2>1. PICK r \in recovered : r.token = <<s, v>>
    BY <1>7
  <2>2. r \in Made
    BY <1>6, <1>7, <2>1 DEF Made, Token
  <2>3. r.snapshot = s /\ r.volume = v
    BY <2>1 DEF IInv, ReplacementInv
  <2> QED
    BY <1>6, <2>2, <2>3 DEF Isolated
<1> QED
  BY <1>6, <1>7, <1>8

-----------------------------------------------------------------------------
(* A manifest becomes complete only when every volume described before the *)
(* request has its own recorded, completed snapshot, whatever became of    *)
(* the source, the answer or the command.                                  *)
THEOREM Whole == Spec => CompleteIsWhole
<1>1. IInv /\ [Next]_vars =>
        [\A s \in Snapshot : manifest[s].status # "complete" /\ manifest'[s].status = "complete" =>
           \A v \in Expected(s) : remote[s][v] = "completed" /\ manifest'[s].resources[v] = "completed"]_vars
  BY Completion
<1> QED
  BY <1>1, Initially, Inductive, PTL DEF Spec, CompleteIsWhole

(* A recovery recorded as complete has an available, isolated replacement  *)
(* of every resource of the manifest, and the image it was made from was   *)
(* traced to its source.                                                   *)
THEOREM WholeRecovery == Spec => RecoveryIsWhole
<1>1. IInv /\ [Next]_vars =>
        [\A s \in Snapshot : restore'[s].status = "complete" /\ restore[s].status # "complete" =>
           /\ restore'[s].volumes = Expected(s)
           /\ Aws \/ s \in traced
           /\ \A v \in Expected(s) : \E r \in recovered :
                r.snapshot = s /\ r.volume = v /\ r.state = "available" /\ ~r.attached]_vars
  BY Completed
<1> QED
  BY <1>1, Initially, Inductive, PTL DEF Spec, RecoveryIsWhole

(* Recovery that is repeated, after a crash, a lost answer or a wait that  *)
(* expired, never creates a second volume or server for one resource, and  *)
(* every value has its type.                                               *)
THEOREM Once == Spec => []SnapshotInv
<1>1. IInv => SnapshotInv
  <2> SUFFICES ASSUME IInv PROVE SnapshotInv
    OBVIOUS
  <2>1. \A r \in recovered : Described(r) \in Recovery
    <3> TAKE r \in recovered
    <3>1. r \in Replacement
      BY DEF IInv, ReplacementInv
    <3>2. Described(r) = [snapshot |-> r.snapshot, volume |-> r.volume, state |-> r.state, attached |-> r.attached]
      BY DEF Described
    <3> QED
      BY <3>1, <3>2 DEF Replacement, Recovery
  <2>2. TypeOK
    BY <2>1 DEF IInv, Typed, ConfigurationTyped, AttachedTyped, RemoteTyped, ManifestTyped, OpTyped, RestoreTyped, CountersTyped,
      Restoring, TypeOK
  <2>3. RecoveredOnce
    BY DEF IInv, ReplacementInv, RecoveredOnce
  <2> QED
    BY <2>2, <2>3 DEF SnapshotInv
<1> QED
  BY <1>1, Initially, Inductive, PTL DEF Spec
=============================================================================
