# odooctl: a verification project

TLA+ models of [odooctl](../src/README.md), the TLC configurations that check them on small instances, and
proofs of their main theorems that TLAPS checks.  Source paths below are relative to `src/odooctl/`.

Contents: [the system](#the-system) · [what each part must guarantee](#what-each-part-must-guarantee) ·
[modules](#modules-and-how-they-correspond-to-the-code) · [runs](#runs) · [bounds](#bounds) ·
[fairness](#fairness) · [proofs](#proofs) · [disagreements](#where-code-and-text-disagree) ·
[abstractions](#abstractions) · [not modelled](#what-is-not-modelled) · [plan](#plan)

## The system

odooctl operates Odoo environments (a PostgreSQL database, a filestore and containers each).  CLI commands
run operations in their own process; the HTTP API only queues them, and privileged *runner* processes take them
from the queue.  Everything durable is a file under the project's state directory, a PostgreSQL database, a
directory or volume with the filestore, or an S3 object; there is no server that serialises access.  What keeps
concurrent commands apart is a lock file per environment on one host and, for the point-in-time-recovery archive,
a lease object on S3 across hosts.  Portable backups on S3 have neither: hosts that share a prefix are kept
apart only by unique identifiers, the order of writes and marker objects.

| Component | State | Operations | Interacts through | Hard behaviours |
|---|---|---|---|---|
| Environment lock (`operations/locks.py`) | lock file with a PID, held set of a thread | enter, reentrant enter, exit, stale removal | one file, `kill(pid, 0)` | check-then-unlink between threads and processes, PID reuse, crash |
| Operation store, queue, engine, runner (`operations/`, `api/queue.py`, `runner/worker.py`) | `operation.json`, queue entries, nonces, audit | submit, cancel, claim, execute, settle | files that API, runners and CLI rewrite | races on the same record, replayed tokens, dead runners |
| Database swap (`odoo/db_swap.py`) | database names and OIDs, durable cutover record | promote, finalize, roll back, retry | SQL statements, metadata | statements whose answer is lost, crash between renames, databases that appear |
| Restore and clone (`services/restore.py`) | temporary, live and aside database, filestore | prepare, neutralize, swap | the swap, the filestore adapter | failure or crash between any two steps |
| Coordination lease (`adapters/wal_s3.py`) | one S3 object | acquire, renew, release, recover | conditional S3 requests | delayed and repeated requests, crashed owners, operator recovery |
| PITR archive (`services/pitr.py`) | base backups, WAL, pins on S3; plans and restores per host | archive, plan, execute, cut over, retention | the lease, pins on S3 | retention against plans of other hosts, pin handoff, partial deletion |
| Backups, remote backups (`services/backup.py`, `services/remote_backup.py`, `adapters/s3.py`) | backup directories, index, S3 prefixes with marker and fence | publish, withdraw, verify, prune, clean up | S3 objects, the metadata index | two hosts, marker-first deletion, late uploads, slow publishers |
| PITR recovery runtime (`adapters/pitr_runtime.py`) | scratch volumes and container, the new database | recover, dump, clean up, import | Docker, PostgreSQL, the archive | leftovers of failed or crashed executions |
| Filestore storage (`services/filestore_storage.py`, `adapters/object_filestore.py`) | migration manifests per host, objects, markers and `active.json` on S3, or a mounted target | plan, sync, verify, cut over, delete source, delete marker | S3 with conditional puts, the source directory | two hosts cutting over, Odoo writing meanwhile, interrupted deletion |
| Provider snapshots (`services/snapshots.py`, `adapters/snapshots.py`) | manifest per snapshot, provider snapshots, recovery resources | create, reconcile, plan, recover | provider calls | late or lost requests, changing volumes, deleted snapshots, repeated recovery |
| Users, sessions, tokens (`security/`) | user file, session tokens, nonces | login, revoke, mint, verify | files, clocks | revocation against cached state |
| Audit trail (`operations/audit.py`) | hash chain, high-water mark | append, verify | two files | verification without the writers' lock, crash between the two writes |
| Deployment, rollback, promotion, sync (`services/deploy.py`, `services/promote.py`, `commands/rollback.py`) | deployment records, git worktree, workload | deploy, roll back, promote, sync | the worktree all environments share, backups, the runtime | commands of two environments in one worktree, failure after the module update began |
| Kubernetes and Compose runtime (`adapters/kubernetes.py`, `adapters/docker_compose.py`) | Deployments and their revisions, candidates, Service selector | apply, patch, promote, finalize, roll back | merge patches on shared objects | selectors and revisions that an earlier rollout left |

`PROJECT.json` lists all thirty parts, with the reason for each one that is not modelled.

## What each part must guarantee

* **Lock.** Two threads are never inside the lock of one environment; a stale file never blocks for ever; a
  reentrant exit or a refused attempt never releases somebody else's lock; two attempts do not chase each other.
* **Operations.** An environment executes one operation at a time; one token authorises one execution; a queue
  entry is in one runner's hands; what the audit trail says agrees with the record; entries settle and locks return.
* **Cutover and restore.** No failure, lost answer or crash costs the environment its database; metadata never
  claims a cutover that did not happen; a repeated cutover converges; only a valid backup is restored, and what is
  served has every channel off that the run promised to neutralize.
* **Lease.** At most one guarded operation; a late request never hits a later owner's lease; an orphaned lease
  can always be cleared.
* **PITR archive.** Retention never deletes the base or WAL that a pin of any host needs; an advertised base can be
  recovered; a plan or restore that may still be used has a pin.
* **Backups.** What is offered is complete; retention takes a backup only for a newer one; cleanup never hits an
  upload that is merely slow; local records and the index tell the truth after a crash.
* **Recovery.** Only a completely recovered database is cut over; scratch resources of a verified restore are gone;
  a verified plan has its database until that is live.
* **Filestore storage.** What `active.json` names is complete; a publication replaces only what its plan saw; a
  recorded cutover happened; a deletion takes no file that the target does not hold.
* **Snapshots.** A complete manifest has every volume; a recovery is whole and isolated, and repeating it creates
  nothing twice; a pending snapshot settles.
* **Deployment.** A failure after a backup leaves the data it found; what a success records is what it deployed; a rollout
  touches what is served only when it promotes; what a rollback of it brings back depends on strategy and moment, and is
  said exactly.

## Modules and how they correspond to the code

| Module | Models | Extends or instantiates |
|---|---|---|
| `TryLock` | the abstract non-blocking lock: try, release, lose by crash | |
| `EnvironmentLock` | `EnvironmentLock` of `operations/locks.py` | `TryLock` as its specification |
| `OperationRunner` | API submission and cancellation, queue, worker, engine, CLI | |
| `OperationRunner_proofs` | theorems about it | `OperationRunner`, TLAPS |
| `PostgresCatalog` | names and OIDs of databases: exists, rename, drop | |
| `DatabaseCutover` | `odoo/db_swap.py`, the OID-fenced cutover, driven by `services/pitr.py` | `PostgresCatalog` |
| `EnvironmentRestore` | restore and clone: `services/restore.py`, `services/clone.py`, `odoo/neutralize.py`, `swap_temp_database`, the filestore adapters | `PostgresCatalog` |
| `DatabaseSwap_proofs` | theorems about restores and the durable cutover | `EnvironmentRestore`, `DatabaseCutover`, TLAPS |
| `CoordinationLease` | lease operations of `adapters/wal_s3.py` | `TryLock` as its specification |
| `Locks_proofs` | theorems about the lock file and the lease | `EnvironmentLock`, `CoordinationLease`, TLAPS |
| `PitrArchive` | `services/pitr.py` over the archive objects of `adapters/wal_s3.py` | uses the lock that `CoordinationLease` is shown to implement |
| `PitrRecovery` | `execute_restore` over `adapters/pitr_runtime.py`, in place of the one step `Download` | `PitrArchive`, also as its specification |
| `PitrRecovery_proofs` | theorems about it and about `PitrArchive` | `PitrRecovery`, TLAPS |
| `RemoteBackups` | `services/backup.py`, `services/remote_backup.py`, `adapters/s3.py` | |
| `RemoteBackups_proofs` | theorems about it | `RemoteBackups`, TLAPS |
| `FilestoreStorage` | `services/filestore_storage.py`, `adapters/object_filestore.py` | |
| `FilestoreStorage_proofs` | theorems about it | `FilestoreStorage`, TLAPS |
| `ProviderSnapshots` | `adapters/snapshots.py`, `services/snapshots.py` | |
| `ProviderSnapshots_proofs` | theorems about it | `ProviderSnapshots`, TLAPS |
| `KubernetesRollout` | what `adapters/kubernetes.py` does to the objects of an environment, as functions of their state | |
| `Deployment` | `services/deploy.py`, `services/promote.py`, `services/sync.py`, `commands/rollback.py` over both runtimes | `KubernetesRollout` |
| `Deployment_proofs` | theorems about it | `Deployment`, TLAPS |
| `MC*` | instances for TLC: operations, entries, hosts | the module of that name |

`map` in `PROJECT.json` names the lines each definition stands for.  In all modules a variable `pc`, `at`
or `stage` says where a process is between two of its externally visible steps (a system call, an S3 request, a SQL statement, a file
write); an action is everything the code does from one such step to the next.

**EnvironmentLock.**  `file` is the lock file: which thread created it and what is written in it (nothing yet, or a
PID).  `Open` is the `O_CREAT|O_EXCL` open, `WritePayload` the write after it, `ReadExisting`/`Probe`/`UnlinkStale`/
`Reopen` the four steps of the stale-lock path with its single retry.  `Stop` and `Crash` end a process without and
with its lock, `Start` gives a process a PID that another one may have had.  The history variable `raced` records
that an unlink hit a lock which was not the one probed.

**OperationRunner.**  One process per API handler, runner and CLI operation.  `record` is the status in
`operation.json`, including the instant at which the file is truncated and not yet rewritten; `entry` the queue file
and its `.running` form; `nonces` are consumed before execution and forgotten `Retention` ticks later, or when the token has
expired if that is later (`KeptUntil`).  The clock advances while nonces are consumed, `Mint` gives a token its
expiry, and `late` records a token whose runner consumed the nonce when it had expired since it was verified.

**PostgresCatalog, DatabaseCutover, EnvironmentRestore.**  A database is its OID, `db` maps the three names
(incoming or temporary, target, aside) to OIDs.  Every statement may fail, or be executed while its answer is lost.
`DatabaseCutover` re-observes names and OIDs after every statement as `reconcile_database_cutover` does, with its durable
record in `recorded`/`finalized`; `AlienCreates` is a server that recreates its missing database.
`EnvironmentRestore` is the whole run around the simpler swap without OIDs.  A run is a `restore` of an environment
from its own backups, a `restoreTo` another environment, or a `clone`, which dumps its source instead.  Database n and filestore
n are what run n brought, 0 the original.  `ResolveBackupDir`, `ValidateBackupDir` and `Probe` decide before anything
changes; `NativeNeutralize`, `ProfileSql` and `CustomSql` clear channels in `live`, any of them perhaps
half way, and `Verify` looks at the `Checked` ones; `must` is what the run promised.  The filestore is unpacked
next to the live one and moved, or removed first when it is in a volume of the runtime (`Stranded`, `Partial`).

**CoordinationLease.**  `object` is the lease (owner, generation, expired or not; owner and generation are its ETag),
`requests` the conditional requests that S3 has not served yet.  A request may be served after its sender gave up, or
twice.  A client re-reads the object to learn what became of its request, as `_read_stable_coordination_payload` does.

**PitrArchive.**  S3: `wal`, `bases` (completion markers), `pins`; per host: `plan` and `restore` status, and the
`survey` a retention run decides from.  Plans, execution, cutover and retention take `holder`, the lease; archiving and
base backups do not.  Every guarded step may fail and every process may crash.

**PitrRecovery.**  `stage` is where an execution is inside the step `Download` of `PitrArchive`, `scratch` what the latest
recovery of a plan left in Docker, `database` what the new database of a plan holds.  The scratch server reports one of
`Report` by its last poll; only `paused` lets the dump begin.  `Answers` is all that the check of a recovered database asks,
which one imported in part also passes.  `InterruptRecovery` is a `KeyboardInterrupt` after the plan says `verified`: it is no
`Exception`, so the outer handler drops the database and saves `failed`, perhaps after the pin was released.
`ImplementsArchive` shows that fetching, recovering and importing step by step is what `PitrArchive` promises: base and WAL
are still there at the end.

**FilestoreStorage.**  A file is its digest and an inventory a set of digests.  Per host: the `source`, the command `op` it
runs under the environment lock; per migration its `manifest`; shared: `objects`, `markers` and `active`, or the mounted
`target` with a `partial` directory.  `ReadActive`, `Publish` and `Confirm` are the three requests of `publish_active`, `RemoveSource`
deletes file by file, `Write` is Odoo, which may write at any time except while its source is removed.  A sync of a Docker
volume reads the copy it made at its start, so `InSource` does not see later writes there.  `SyncFails` may leave the partial
directory: `_copy_inventory` removes it on an `Exception` only, and with errors ignored.

**ProviderSnapshots.**  `remote` is the provider's snapshot of each volume, `call` the fate of a create request (it may
be taken after the caller stopped waiting, or never), `manifest` what is saved locally, `recovered` and `restore` the
recoveries.  A lookup by tag may miss what exists, `Change` attaches and detaches volumes, `Delete` is an operator.

**Deployment, KubernetesRollout.**  A commit is its position in a linear history.  `branch`, `local` and `detached` are
the worktree that all environments share; `work` is the workload of an environment, `schema` the code that last updated
its database, `records` what is saved.  `Begin` ... `Cleanup` are a rollout, `Undo`, `RestoreData`, `RestartService` (deploy)
and `ResetCheckout`, `ResetCode`, `Redeploy` (promote) the recovery from a failure.  `Interrupt` is a `KeyboardInterrupt`: the
`finally` of the command records a failure, but nothing is recovered, which `missed` notes.  The operators of `KubernetesRollout` say what a patch, an apply, a restart or a
rollout undo makes of templates, revisions, candidates and the Service selector.

**RemoteBackups.**  `age[b][o]` says whether object `o` (two artifacts, completion marker, abandonment fence) of backup
`b` exists on S3 and how long ago it was written.  Per host: `dirs`, `index` and the run in progress.  A backup is its
place in the order of creation timestamps; because the dump takes time, a later backup may be complete before an
earlier one.  A run publishes (`Reserve` ... `PersistComplete`, or `RemoveMarker` ... `PersistFailed` after an error) or
verifies (`Verify`, `Link`), prunes locally, then prunes the prefix: `Select` decides on one inventory, `Recheck`
looks again at each victim, `DeleteVictim` deletes marker first, `InspectVictim`/`FenceVictim` follow a failed deletion,
`Orphans` ... `DeleteOrphan` clean prefixes that were fenced long ago.  A failed request may have been served; the PUT
of a marker may be served at any later time (`ServeLate`).

## Runs

| Run | Question | Result |
|---|---|---|
| `lock_protocol` | Does the file protocol keep threads apart and end, with crashes, PID reuse and nesting, and is it `TryLock`? | holds, except after the one race it names |
| `runner_pipeline` | Two runners, a CLI process and one leaked token: exclusive execution, one owner of a claim, single use of a token while the clock runs; whatever begins and ends is in the audit trail once, as recorded, but for torn records and late cancellation | holds |
| `cutover_durable` | Is the metadata true, is only the released database dropped, does a repeated cutover converge, with four faults and an alien server? | holds |
| `restore_runs` | Two restores or clones with two failures, a lost answer and a crash: is only a valid, neutralized database served, is the target kept after one failure, does a clean run repair the rest? | holds |
| `restore_data_loss` | Is the aside copy dropped only when a database is live, whatever crashes? | violated: see below |
| `lease_coordination` | Does the guard own the object, is the lease `TryLock`, can orphans be cleared? | holds |
| `pitr_retention` | Two hosts, one planning and one retaining: what is pinned stays, what is advertised is recoverable | holds |
| `pitr_recovery` | Executions with interrupts, crashes and failures at every step, and retention elsewhere: is every usable plan pinned, is only a recovered database cut over, does it implement the archive? | holds |
| `remote_backups` | Two hosts publish, verify and prune one prefix: what is offered is complete, retention takes only for a newer one, active uploads are safe, local records are true | holds |
| `filestore_storage` | Two hosts plan, sync, cut over, clean up and unmark, for each backend, while Odoo writes and a command is killed | holds |
| `provider_snapshots` | Creation, reconciliation and recovery for both providers, with late, lost and repeated requests and changing volumes | holds |
| `deployment` | Deploys, promotions and rollbacks of two environments in one worktree, for each runtime and strategy, with two failures and a crash or interrupt | holds |

The invariant ending in `Inv` of each run (and `RecordsTrue`) conjoins the type invariant with the named conjuncts next to it in
the module.  Every property of a passing run has a mutant: the definition next to a `Mutant_` operator, changed the way a plausible
bug would change it, makes TLC find the property violated.  All runs say `CHECK_DEADLOCK FALSE`: the number of
operations, crashes, runs or identifiers is bounded, so every instance comes to rest.

## Bounds

* *Locks*: three threads are needed for the race of two removals against a creator; PIDs p1, p2 allow two processes, two
  threads of one process, and reuse of a dead PID; nesting once shows reentrancy.  The violation needs a third PID.
* *Runner*: two entries that share one leaked token, two runners and one CLI operation on one environment give all
  pairs of writers of a record and of claimants of an entry.  One crash leaves each kind of orphan.  A token lives for
  two of three ticks and nonces are kept for none, so a nonce is purged at the earliest legal time while the other
  entry still waits, and a runner can be held up past both.
* *Cutover*: three databases exist by construction, four faults cover a failed swap, a failed rollback, a failed
  observation and a crash of the retry.
* *Restore*: one run to break the environment and one to repair it or make it worse; two failures, a lost answer and a
  crash can all hit one of them.  One channel of each kind (verified, unverified, credential) and up to two backup
  directories give each outcome of a decision.
* *Lease*: two clients, a crash and a repeated request; three generations allow a renewal to be overtaken twice.
* *PITR*: two hosts with a base backup each, one plan, two segments: retention of either host sees a base it may delete
  and one it must keep.  `pitr_retention` has one interrupt and no crash.  `pitr_recovery` (`BoundedSpec`) has
  two of them and every failure of a step while there is one base and one segment (`Short`), where retention finds nothing
  to delete; with both bases and segments it has a plan's first execution, without a crash, while the other host retains
  (`FirstExecution`), so that base and segments could be deleted between any two stages.
* *Remote backups*: two hosts and two backups give every pair of publisher, verifier and pruner, out of order too; two
  faults, failed requests or crashes, are what it takes to fail an upload and then its clean-up.  Both grace periods are one tick
  and the clock runs on for ever, so a publisher can be arbitrarily slow.  The tier is configured to zero, the setting
  that keeps least.  Three backups were searched, with one failed request, to a depth of 54 without a
  violation; that instance is too large to keep, and `Completeness` is proved for any number.

* *Filestore storage*: two hosts with a migration to race and two objects, so that an inventory can be uploaded and
  removed in part; one write of Odoo in between any two steps, one crash.
* *Snapshots*: one snapshot of two volumes, the root and one that can be attached and detached again (two changes);
  two lost requests or answers, two crashes, a deletion, three recoveries of the one snapshot, so that it can be repeated
  after each kind of fault.
* *Deployment*: two environments, one of them protected, promoting to the other; two commits, two commands (which may
  overlap), two failing steps (one of the recovery itself), one crash or interrupt; all six combinations of runtime and strategy, and
  automatic rollback on and off.

## Fairness

Safety runs assume none.  `EnvironmentLock!FairSpec` lets the operating system schedule a thread inside
`__enter__`; nobody has to enter or leave.  `CutoverFairSpec` is the operator who repeats a cutover until it is
finalized, and `LeaseFairSpec` the one who recovers an expired lease and repeats the request, the procedures
of `docs/pitr.md`.  `ProviderSnapshots!FairSpec` has a command that lives make its next call, the provider finish the
snapshots it took, and the operator reconcile a snapshot until it is settled, as `docs/disaster-recovery.md:82` describes.
No fairness is assumed of faults, crashes, cancellation or late requests, and liveness properties name the events that
excuse them.

## Proofs

`tlapm` checks every proof to its leaves.  The theorems hold for every value of the constants that satisfies the
named assumptions of the module.  `Locks_proofs` and `DatabaseSwap_proofs` treat two components each, side by side; where these
would have the same name for their specification, invariants or variables, `CoordinationLease` and `DatabaseCutover` prefix theirs
(`LeaseSpec`, `CutoverSpec`).

* `Locks_proofs`, of `EnvironmentLock`: `TypeCorrect`, `HolderOwnership`, `Exclusion`, `OwnerRemoval`, `Refinement`, for any number
  of threads, PIDs, crashes and levels of nesting.  `HolderOwnsFile` alone is not inductive: the invariant `IInv` adds
  that a thread in the protocol has a process, that a file names the process of a running owner, and that a writer
  owns the file it is writing.  `Exclusion` follows since two owners of one file are one thread.  `Refinement` shows
  that each step is a step of `TryLock` or a stutter; the raced removal is the abstract release.
* `Locks_proofs`, of `CoordinationLease`: `LeaseTypeCorrect`, `LeaseOwnership`, `LeaseRefinement`, for any number of
  clients, crashes, generations and repeated requests.  The invariant `LeaseInv` adds that a `delete` in flight is for a
  lease whose owner has left the guard or stopped (`StoppedBeforeDelete`), which is what defeats late deletes, and that a
  renewal is requested only below the bound on generations (`RenewBounded`).
* `RemoteBackups_proofs`: `TypeCorrect`, `Completeness` (`AdvertisedComplete`), `NewerKept` (`RetiredForNewer`),
  `TrueRecords` (`RecordsTrue`) and `UploadsKept` (`ActiveUploadKept`), for any number of hosts, backups and faults, any grace
  periods and any retention tiers.  That a published backup has its payload rests on what nobody else does to it in
  the meantime, so the invariant `Shared` says when a prefix is `Untouched` (no marker, no fence, no late PUT, no
  deletion that knows it), that a reserved identifier is untouched until its only publisher writes the marker, that
  a late marker finds its payload or a fence, that retention deletes what was once offered and cleanup what is fenced,
  and that an artifact is deleted only after its marker.  Most steps write artifacts at most: one lemma, `QuietStep`,
  covers them, and one lemma each the requests that write or delete a marker or a fence.  `UploadsKept` follows from it.
  `RecordInv` adds what retention and the records rely on.  What a retention has selected is superseded by a backup it
  keeps (`RetiredInv`); that one may itself be deleted by another host, but only for a newer one still, or lose its marker
  to its publisher, and no other step takes a backup out of the offer (`MarkerMoves`).  This needs that what is fenced
  after a failed deletion never gets its marker back (`VictimGone`).  A status is true since only the publisher of a
  backup has its directory while it publishes (`DirectoryInv`), hence nobody withdraws what another recorded (`StatusInv`).
* `FilestoreStorage_proofs`: `Recorded`, `Complete`, `AgainstPlan` and `Stores`, all four properties of its run, for any
  number of hosts, migrations, files, writes of Odoo and crashes.  `ActiveComplete` is not inductive: a pointer is put
  some time after the generation was verified, and markers are deleted some time after they were found inactive.  `IInv`
  says what each command relies on between two requests (`PublishReady`, `MountReady`, `UnmarkInactive`, `RemovingStored`).
  The argument why it may is that a migration belongs to one host, which runs one command: `Frame` says what a step of a
  host may write, `Apart` that this is nothing another command relies on, `Others` draws the conclusion once for all
  actions, and `OwnWorking` and `OwnPrepared` treat the command that steps.
* `DatabaseSwap_proofs`, of `EnvironmentRestore`: `RestoreCorrect` (`RestoreInv`), `OneFailureSurvived` (`TargetKept`) and
  `OriginalSurvives` (`OriginalKept`), for any number of runs, failures, lost answers and crashes.  That only a neutralized
  database is served is not inductive, since a run takes over whatever its predecessors left: `IInv` adds that what
  bears the live or the aside name is ready, that a run fills a database nobody else has (`DatabasesInv`), and that
  what it has switched off by the time it verifies is what it promised (`PromiseInv`).  `SwapInv` says what each statement of the swap may rely on after
  a stale aside copy was dropped, `CleanInv` what a run without a fault has done so far, and `KeptInv` where the target
  may be missing at all: between the two renames, and after one failure until the aside copy has its name back.
* `DatabaseSwap_proofs`, of `DatabaseCutover`: `MetadataTrue` (`CutoverInv`) and `ReleasedOnly` (`OnlyReleasedDropped`), for
  any number of faults and crashes, whatever the server recreates.  `CutoverIInv` says that nothing is renamed before the
  plan is durable (`Unmoved`), that afterwards the catalog is one of the five that reconciliation knows (`CutoverReady`, `MovedAside`, `Promoted`,
  `Finished`, `Taken`), and what each step relies on (`Located`).  A lost answer moves between two of the five, so every
  step that observes the catalog starts from any of them.
* `OperationRunner_proofs`: `Pipeline`, `Exclusion`, `Ownership`, `OneExecution`, `AuditTrail`, all invariants of its run,
  for any number of runners, handlers, CLI operations, entries, environments and tokens.  None is inductive.  Exclusion
  rests on the environment lock being held by exactly the process that executes; that a claim has one owner on an
  entry file that exists in one form only; that a token runs once on its nonce being kept until the token has expired,
  unless its runner was late.  `AuditTrail` says that an operation which began and is over has exactly one entry, with
  the outcome on record, unless its process died (of a crash, or on a torn record) before it wrote one: `AuditedOnce` relates the entry to the
  record, `HiddenInv` the outcome a process is about to append to what a cancellation may have made of it since, and
  `Accounted` says that nothing that began is over without either.
* `PitrRecovery_proofs`: `Kept` (`PinnedGraphKept`), `Advertised`, `StatePinned`, `Recovery` (`RecoveryInv`), `Served`
  (`OnlyRecoveredServed`) and `Implements` (`ImplementsArchive`), for any number of hosts, plans, bases, segments,
  faults and crashes and any retention.  The first three are about `PitrArchive` and are proved of its steps, then
  carried to `PitrRecovery`, whose steps are its steps but for `Download`.  What a pin
  protects could be deleted by a retention that surveyed the archive before: `SurveyInv` says that while one decides and
  deletes, no pin names a base it found obsolete nor WAL before its first segment to keep, and that it spares every
  advertised base published since.  This rests on the lease (`GuardInv`), on the clock that stamps the log in order (`LogInv`),
  and on plans handing their graph from pin to pin without a gap (`PlanInv`, `JobInv`).  `Implements` needs that an
  execution has its pin at every `stage`, so that the base and the WAL it fetched first are still there at the end.
  `Served` is not what the check before a cutover sees (`Answers`): it needs that a database which the metadata calls
  verified is complete, or gone because an interrupted execution dropped it, and never a part.
* `ProviderSnapshots_proofs`: `Whole` (`CompleteIsWhole`), `WholeRecovery` (`RecoveryIsWhole`) and `Once` (`SnapshotInv`,
  with `RecoveredOnce`), for any number of snapshots, volumes, faults and restores.  `Merges` shows that `Discover`,
  `Poll` and `Reconcile` save nothing but the answer for exactly the volumes the manifest expects; this needs that a
  polled manifest has an identifier for every one of them (`ScopeInv`), which an incomplete lookup never leaves behind.
  A recovery relates what it has made and what is left to that manifest (`MadeInv`), and a replacement to its token
  (`ReplacementInv`): the token names snapshot and volume but not the run, hence a repeated recovery finds it.
* `Deployment_proofs`: `DeploymentCorrect` (`DeploymentInv`), `FailureKeepsData` (`DataKept`), `SuccessRuns`
  (`RecordedRuns`) and `RollbackServes` (`RollbackRestores`), all four properties of its run, for any number of environments,
  commits, commands, faults, interrupts and crashes, in each runtime and strategy.  The three action properties speak of the moment a
  command ends and say nothing of the way there; the invariant relates a command's notes (what it saved, what was
  served, the revision it rolls out) to its own database (`Data`) and workload (`Served`, `Runs`) at every place of the
  command.  It is one of an environment: commands of different environments share only the worktree, so `Other` shows
  once for all actions that a step of one command keeps the invariant of the others, whose `moved` is set when their
  HEAD changes, and a lemma for each action (`BackupKept` ... `EndKept`) treats the command that steps.

Assumptions.  The constants of bounds are natural numbers.  Apart from that: `SnapshotsAssumption` asks for one snapshot,
`ArchiveAssumption` that a base is not a segment, `CutoverAssumption` that "no plan" is not a plan.  The types of
times in the invariants are `Nat`, so the clock of an instance is a bound of its runs only.

TLC checked every one of these inductive invariants on the instance of its run before it was proved.

Only model-checked: the four liveness properties `AttemptEnds`, `LeaseClears`, `RetryConverges` and `PendingSettles` (TLAPS
does not reason about `ENABLED`, so not about weak fairness).  Every other property of a passing run is a theorem.

## Where code and text disagree

A run shows one of them:

* `odoo/db_swap.py:708-709` says the aside copy is dropped only once the new database is live.  After a crash between
  the two renames of `swap_temp_database` the original exists only under the aside name, and the next restore drops
  it as a stale leftover before anything is live (`restore_data_loss`).

The models also have these behaviours, which the properties above exclude by an explicit condition:

* `operations/locks.py:26` calls the lock atomic.  A stale lock is probed and unlinked in separate steps, so a second
  thread can unlink the lock that a first one has just created after removing the same stale file; `raced` in
  `ExclusiveUnlessRaced` is exactly that.
* A nonce may be forgotten under a runner that is held up, between verifying a token and consuming its nonce, beyond
  both the retention and the token's expiry (`security/tokens.py`); `late` in `TokenRunsOnce`.
* `api/routes_operations.py:482-483` has the runner re-check the status and skip what was cancelled.  It does so once, right
  after the claim; a cancellation that read the record before may be confirmed later (`CancelledAtClaimNeverRuns`).
* `operations/engine.py:65-66` appends an audit entry "regardless of outcome".  An operation whose record is torn by a
  concurrent cancellation when its outcome is to be saved ends without one (`orphaned` in `AuditMatchesRecord`).
* A base backup whose upload outlasts the grace period of its last WAL segment is published although that segment
  may be gone (`services/pitr.py:777`); `AdvertisedRecoverable` speaks of bases that are prompt.
* A restore pin whose release fails after the cutover is finalized is not released again (`services/pitr.py:1304`).
* Retention of remote backups takes the newest completion marker for the backup to keep, while its publisher may
  still be verifying it and withdraw it (`services/remote_backup.py:1050-1053`); with all tiers at zero no complete
  backup may remain.  `RetiredForNewer` names the exception.
* A Hetzner image in state error stays `pending` however often it is reconciled; an AWS set
  that was taken after a volume was attached or detached differs from the volumes described before, and no reconciliation
  adopts it (`adapters/snapshots.py`).
* The cleanup of a source that was interrupted half way is refused ever after, since what is left matches no inventory,
  and `rmtree` of a local source that is gone raises `FileNotFoundError`, where `docs/filestore-storage.md:200` has it retried.
* `docs/progressive-deployment.md:31` has the Service switched and the canonical workload converge.  Neither the apply of
  finalize nor the merge patch of a rollback removes the revision label of the candidate from the selector, so that after a
  success, and after the rollback of a rollout that was switched, the Service selects no pod.  `Merged` in
  `KubernetesRollout` is this.
* A rolling rollout is undone one revision back even when it applied nothing, past the revision that serves; the automatic
  rollback of a recreated deployment restarts what runs by then, the new image on Compose.  `Returned` in
  `RollbackRestores` says for each case what is served.
* `up -d` leaves an unchanged container running, although `docs/rollback.md:12` says that both rollback modes restart the
  service: where the worktree is mounted, `RecordedRuns` speaks of the schema only.
* A code rollback on Kubernetes records the image of the deployment it goes back to, as `tests/test_rollback.py:120` has it,
  and applies the configured one; `RecordedRuns` leaves its image out.
* The commit recorded is the one HEAD is at when a deploy ends, and another environment may have moved the shared worktree,
  although `docs/deployment.md:25` calls what is recorded reproducible; `moved` in `RecordedRuns` excuses this on Compose.
* `docs/deployment.md:27` says a failed production deploy does not roll back data; it restores the backup.
* `services/promote.py:60` promises to restore backup and code when a promotion fails.  An interrupted promotion or deploy is
  recorded as failed, and nothing is restored; `missed` in `DataKept`.
* An execution that is interrupted after its plan says `verified` may leave that plan without a database; `interrupted` in
  `RecoveryInv`.
* An interrupted copy of a filestore leaves a partial directory, and every later sync of the migration is refused.
* Sync decides before it takes the lock.
* `pg_is_in_recovery()::text` yields `true` or `false`, but the recovery status is only accepted as `t` or `f`
  (`adapters/pitr_runtime.py`): with such a server every recovery ends as `unreadable`, one of the values of `Report`.
* A recovery that crashes after the new database was created leaves its plan `executing` and the database behind, and
  later executions are refused (`services/pitr.py`).
* Custom sanitization SQL runs after the profile's, and only channels with a check are verified: queue jobs and
  credentials may be on again.  `latest` globs `{environment}_*`, which also finds backups of an environment whose name
  extends this one; a restore of the environment refuses them, a restore to another does not compare.
* `RuntimeVolumeFilestore` removes the destination before it copies, `FilestoreAdapter` moves a complete copy into place:
  a failure leaves a partial filestore with the first only.

## Abstractions

* An S3 read that is verified by hash, or an object map that is re-read until stable, is one read that returns the
  state at one instant or fails.  Byte verification is the presence of the objects.
* Statements and requests of a crashed process take effect before its successor starts, except where lateness is
  modelled (`CoordinationLease`, the marker of `RemoteBackups`).
* All modules but `EnvironmentLock` take the environment lock to be race-free, the lock `TryLock`.
* The staging directory of a crashed recovery is not modelled; scratch resources have names of their own.
* `ProviderSnapshots` makes a provider call and the save of its answer one step, but for the calls that create.
* A health check, a module update and a deployment's backup are steps that succeed or fail; the history of commits is linear.
* The restore pins of one plan are one pin; there is one WAL timeline; provider times are distinct.
* The age of a local backup is not kept: local grace may protect any set of them.  A listing and the loading of the
  manifests it names are one step of `Select`, which may miss any manifest at the price of a failed request.
* `verify_after_upload` is on, so that a published backup is followed by remote retention.
* `best_effort` and `required` differ in the exit code only, not in what is written, and are not told apart.

## What is not modelled

Parsing, templates, command lines, redaction, read-only views, a drill in throw-away resources and the local development
cluster have no shared state that interleaving or failure could break.  Full rollback (code and a restore) is the
composition of two modelled operations.  Not modelled although they have such state: the audit trail's hash chain and its
high-water mark (`operations/audit.py`, whose `verify` reads both without the writers' lock), user and session files, preview environments of
GitOps, the file format of the metadata store.  That a queue entry settles is not checked: a runner that dies leaves its
entry claimed for ever, which `ClaimHasOneOwner` shows to be safe.  The reason for each part is in `PROJECT.json`.

## Plan

Written in the order of importance: exclusion of operations, what can lose data (cutover, restore, archive, backups),
then recovery, storage migration, snapshots and deployment.  Next:

1. `AuditTrail`: append and verify over chain and high-water mark, with a crash between the two writes.
