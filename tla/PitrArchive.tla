---------------------------- MODULE PitrArchive ----------------------------
(***************************************************************************)
(* services/pitr.py over one S3 archive of physical base backups and WAL:  *)
(* archiving, base backups, recovery plans, their execution and cutover,   *)
(* and the retention that deletes what no recovery needs.  Several hosts   *)
(* share the archive; plans and restores are durable on the host that made *)
(* them, retention pins are durable on S3.                                 *)
(*                                                                         *)
(* Plans, executions, cutovers and retention change the archive under its  *)
(* lease (CoordinationLease, here the lock it implements); archiving and   *)
(* base backups do not take it.  A host runs one of execute, cutover, base *)
(* backup and retention at a time (EnvironmentLock); planning takes no such*)
(* lock.  Any guarded step may fail, a lease may be refused or not given   *)
(* back, and a process may be interrupted or crash anywhere.               *)
(***************************************************************************)
EXTENDS Naturals, FiniteSets, FiniteSetsExt

CONSTANTS
  Host,        \* hosts that operate the environment
  Plan,        \* recovery plans
  Base,        \* base backups
  HomeOf,      \* [Plan \cup Base -> Host]: where each of them is made
  NoOne, NoJob,
  MaxWal,      \* bound: WAL segments, numbered in the order of the log
  Floor,       \* retention.base_backups
  MaxCrashes   \* bound: crashed processes, and interrupts of a verified execution

Process == Host \cup Plan
Segment == 1..MaxWal

ASSUME ArchiveAssumption ==
  /\ HomeOf \in [Plan \cup Base -> Host]
  /\ NoOne \notin Process /\ NoJob \notin Plan \cup Base
  /\ Host \cap Plan = {} /\ Plan \cap Base = {} /\ Base \cap Segment = {}
  /\ MaxWal \in Nat /\ MaxCrashes \in Nat
  /\ Floor \in Nat

VARIABLES
  wal,       \* S3: the WAL segments
  bases,     \* S3: the base backups that have their completion marker
  pins,      \* S3: the retention pins
  holder,    \* S3: the process that holds the lease, or left it behind
  stamp,     \* S3: LastModified of each segment and completion marker
  time,      \* the last of these times
  cutoff,    \* objects up to this time are older than the grace period
  endWal,    \* end_wal of each base backup taken
  graph,     \* base and last segment of each plan
  plan,      \* host: status of each recovery plan
  restore,   \* host: status of the latest restore of each plan
  earlier,   \* host: plans with an earlier restore, failed or abandoned
  pc, job,   \* each process: where it is, on what
  survey,    \* each host's retention: its cutoff, the first segment and what to delete
  prompt,    \* history: bases advertised while their end_wal was in its grace
  crashes

remote == <<wal, bases, pins, stamp, time>>
local == <<endWal, graph, plan, restore, earlier>>
vars == <<remote, holder, cutoff, local, pc, job, survey, prompt, crashes>>

Pin == [kind : {"plan", "restore"}, plan : Plan]
NoSurvey == [cutoff |-> 0, first |-> 0, bases |-> {}, wal |-> {}]
PlanLocation == {"new", "select", "pin", "save", "done"}
HostLocation == {"idle", "publish", "checkLease", "checkPin", "saveRestore", "saveExecuting", "download",
  "handoffLease", "handoffPin", "saveVerified", "savePlan", "releasePlanPin", "fail", "failPlan",
  "finalize", "cutoverLease", "releaseRestorePin",
  "retentionLease", "survey", "decide", "deleteBases", "deleteWal"}

TypeOK ==
  /\ wal \subseteq Segment /\ bases \subseteq Base /\ pins \subseteq Pin
  /\ holder \in Process \cup {NoOne}
  /\ stamp \in [Segment \cup Base -> Nat]
  /\ time \in Nat /\ cutoff \in 0..time
  /\ endWal \in [Base -> Segment \cup {0}]
  /\ graph \in [Plan -> [base : Base \cup {NoJob}, last : Segment \cup {0}]]
  /\ plan \in [Plan -> {"none", "planned", "executing", "failed", "verified"}]
  /\ restore \in [Plan -> {"none", "pending", "failed", "verified", "cutover", "finalized"}]
  /\ earlier \subseteq Plan
  /\ pc \in [Process -> PlanLocation \cup HostLocation]
  /\ job \in [Host -> Plan \cup Base \cup {NoJob}]
  /\ survey \in [Host -> [cutoff : Nat, first : Segment \cup {0}, bases : SUBSET Base, wal : SUBSET Segment]]
  /\ prompt \subseteq Base
  /\ crashes \in 0..MaxCrashes

Init ==
  /\ wal = {} /\ bases = {} /\ pins = {} /\ holder = NoOne
  /\ stamp = [o \in Segment \cup Base |-> 0]
  /\ time = 0 /\ cutoff = 0
  /\ endWal = [b \in Base |-> 0]
  /\ graph = [p \in Plan |-> [base |-> NoJob, last |-> 0]]
  /\ plan = [p \in Plan |-> "none"] /\ restore = [p \in Plan |-> "none"] /\ earlier = {}
  /\ pc = [x \in Process |-> IF x \in Host THEN "idle" ELSE "new"]
  /\ job = [h \in Host |-> NoJob]
  /\ survey = [h \in Host |-> NoSurvey]
  /\ prompt = {} /\ crashes = 0

-----------------------------------------------------------------------------
GoTo(x, to) == pc' = [pc EXCEPT ![x] = to]
At(x, at) == pc[x] = at

(* A host's process goes on, or is over.                                   *)
Go(h, to) == GoTo(h, to) /\ UNCHANGED <<job, survey>>
Finish(h) ==
  /\ GoTo(h, "idle")
  /\ job' = [job EXCEPT ![h] = NoJob]
  /\ survey' = [survey EXCEPT ![h] = NoSurvey]
PlanPin(p) == [kind |-> "plan", plan |-> p]
RestorePin(p) == [kind |-> "restore", plan |-> p]

(* _CoordinationGuard.                                                     *)
Acquire(x) == holder = NoOne /\ holder' = x
Release(x) == holder' = NoOne \/ UNCHANGED holder

(* The pins on S3.  One is immutable and created once, read byte by byte,  *)
(* and deleted only while it is the one that was read; each of these       *)
(* asserts the lease first, and a request that fails may have been served. *)
HasPin(x) == x \in pins
PutPin(x) == pins' = pins \cup {x}
MayPutPin(x) == PutPin(x) \/ UNCHANGED pins
MayReleasePin(x) == pins' = pins \ {x} \/ UNCHANGED pins

(* A base goes with its completion marker, deleted before the payload.     *)
Unpublish(b) == bases' = bases \ {b}

(* The WAL a base needs to be recovered up to "last".                      *)
Needed(b, last) == endWal[b]..last
Newest == Max(wal \cup {0})
Published(o) == time' = time + 1 /\ stamp' = [stamp EXCEPT ![o] = time + 1]

Crash(x) ==
  /\ crashes < MaxCrashes
  /\ pc[x] \notin {"new", "done", "idle"}
  /\ crashes' = crashes + 1
  /\ \/ x \in Host /\ Finish(x)
     \/ x \in Plan /\ Go(x, IF pc[x] = "save" THEN "done" ELSE "new")
  /\ UNCHANGED <<remote, holder, cutoff, local, prompt>>

(* lease recover-expired: the process that left it behind has stopped.     *)
InGuard(x) == pc[x] \in {"select", "pin", "save", "checkPin", "handoffPin", "saveVerified", "savePlan",
                         "releasePlanPin", "releaseRestorePin", "survey", "decide", "deleteBases", "deleteWal"}
RecoverLease ==
  /\ holder # NoOne /\ ~InGuard(holder)
  /\ holder' = NoOne
  /\ UNCHANGED <<remote, cutoff, local, pc, job, survey, prompt, crashes>>

Age ==
  /\ cutoff < time
  /\ cutoff' = cutoff + 1
  /\ UNCHANGED <<remote, holder, local, pc, job, survey, prompt, crashes>>

-----------------------------------------------------------------------------
(* archive_wal: PostgreSQL archives its segments in order.                 *)
ArchiveWal(n) ==
  /\ stamp[n] = 0 /\ \A m \in 1..(n - 1) : stamp[m] > 0
  /\ wal' = wal \cup {n}
  /\ Published(n)
  /\ UNCHANGED <<bases, pins, holder, cutoff, local, pc, job, survey, prompt, crashes>>

EndSegment == Newest

(* create_base_backup: its end_wal is in the archive before it is uploaded.*)
TakeBase(b) ==
  LET h == HomeOf[b] IN
  /\ At(h, "idle")
  /\ endWal[b] = 0 /\ Newest \in wal
  /\ endWal' = [endWal EXCEPT ![b] = EndSegment]
  /\ job' = [job EXCEPT ![h] = b]
  /\ GoTo(h, "publish")
  /\ UNCHANGED <<remote, holder, cutoff, graph, plan, restore, earlier, survey, prompt, crashes>>

PublishBase(h) ==
  /\ At(h, "publish")
  /\ bases' = bases \cup {job[h]}
  /\ Published(job[h])
  /\ prompt' = IF stamp[endWal[job[h]]] > cutoff THEN prompt \cup {job[h]} ELSE prompt
  /\ Finish(h)
  /\ UNCHANGED <<wal, pins, holder, cutoff, local, crashes>>

-----------------------------------------------------------------------------
(* plan_restore                                                            *)

PlanLease(p) ==
  /\ At(p, "new")
  /\ Acquire(p)
  /\ GoTo(p, "select")
  /\ UNCHANGED <<remote, cutoff, local, job, survey, prompt, crashes>>

Contiguous(b) == \A n \in Needed(b, Newest) : n \in wal

PlanSelect(p) ==
  /\ At(p, "select")
  /\ \/ \E b \in bases :
          /\ Newest >= endWal[b] /\ Contiguous(b)
          /\ graph' = [graph EXCEPT ![p] = [base |-> b, last |-> Newest]]
          /\ GoTo(p, "pin")
          /\ UNCHANGED holder
     \/ GoTo(p, "new") /\ Release(p) /\ UNCHANGED graph
  /\ UNCHANGED <<remote, cutoff, endWal, plan, restore, earlier, job, survey, prompt, crashes>>

CreatePlanPin(p) ==
  /\ At(p, "pin")
  /\ \/ PutPin(PlanPin(p)) /\ GoTo(p, "save") /\ UNCHANGED holder
     \/ MayPutPin(PlanPin(p)) /\ GoTo(p, "done") /\ Release(p)
  /\ UNCHANGED <<wal, bases, stamp, time, cutoff, local, job, survey, prompt, crashes>>

SavePlan(p) ==
  /\ At(p, "save")
  /\ plan' = [plan EXCEPT ![p] = "planned"] \/ UNCHANGED plan
  /\ GoTo(p, "done") /\ Release(p)
  /\ UNCHANGED <<remote, cutoff, endWal, graph, restore, earlier, job, survey, prompt, crashes>>

-----------------------------------------------------------------------------
(* execute_restore                                                         *)

Execute(p) ==
  LET h == HomeOf[p] IN
  /\ At(h, "idle")
  /\ plan[p] \in {"planned", "failed"}
  /\ graph[p].base \in bases
  /\ job' = [job EXCEPT ![h] = p]
  /\ GoTo(h, "checkLease")
  /\ UNCHANGED <<remote, holder, cutoff, local, survey, prompt, crashes>>

CheckLease(h) ==
  /\ At(h, "checkLease")
  /\ \/ Acquire(h) /\ Go(h, "checkPin")
     \/ Finish(h) /\ UNCHANGED holder
  /\ UNCHANGED <<remote, cutoff, local, prompt, crashes>>

CheckPin(h) ==
  /\ At(h, "checkPin")
  /\ \/ HasPin(PlanPin(job[h])) /\ holder' = NoOne /\ Go(h, "saveRestore")
     \/ Release(h) /\ Finish(h)
  /\ UNCHANGED <<remote, cutoff, local, prompt, crashes>>

(* A failure between these two saves is one of the second: nothing follows.*)
SaveRestore(h) ==
  /\ At(h, "saveRestore")
  /\ restore' = [restore EXCEPT ![job[h]] = "pending"]
  /\ earlier' = IF restore[job[h]] # "none" THEN earlier \cup {job[h]} ELSE earlier
  /\ Go(h, "saveExecuting")
  /\ UNCHANGED <<remote, holder, cutoff, endWal, graph, plan, prompt, crashes>>

SaveExecuting(h) ==
  /\ At(h, "saveExecuting")
  /\ plan' = [plan EXCEPT ![job[h]] = "executing"]
  /\ Go(h, "download")
  /\ UNCHANGED <<remote, holder, cutoff, endWal, graph, restore, earlier, prompt, crashes>>

(* Download, isolated recovery and import into a new database.             *)
Download(h) ==
  /\ At(h, "download")
  /\ \/ /\ graph[job[h]].base \in bases
        /\ Needed(graph[job[h]].base, graph[job[h]].last) \subseteq wal
        /\ Go(h, "handoffLease")
     \/ Go(h, "fail")
  /\ UNCHANGED <<remote, holder, cutoff, local, prompt, crashes>>

HandoffLease(h) ==
  /\ At(h, "handoffLease")
  /\ \/ Acquire(h) /\ Go(h, "handoffPin")
     \/ Go(h, "fail") /\ UNCHANGED holder
  /\ UNCHANGED <<remote, cutoff, local, prompt, crashes>>

(* Mutant: the plan's pin is taken to protect the restore as well.         *)
Mutant_HandedOver(p) == {}
HandedOver(p) == {RestorePin(p)}

HandoffPin(h) ==
  /\ At(h, "handoffPin")
  /\ \/ /\ HasPin(PlanPin(job[h]))
        /\ pins' = pins \cup HandedOver(job[h])
        /\ Go(h, "saveVerified")
        /\ UNCHANGED holder
     \/ pins' \in {pins, pins \cup HandedOver(job[h])} /\ Go(h, "fail") /\ Release(h)
  /\ UNCHANGED <<wal, bases, stamp, time, cutoff, local, prompt, crashes>>

SaveVerified(h) ==
  /\ At(h, "saveVerified")
  /\ \/ restore' = [restore EXCEPT ![job[h]] = "verified"] /\ Go(h, "savePlan") /\ UNCHANGED holder
     \/ Go(h, "fail") /\ Release(h) /\ UNCHANGED restore
  /\ UNCHANGED <<remote, cutoff, endWal, graph, plan, earlier, prompt, crashes>>

SaveVerifiedPlan(h) ==
  /\ At(h, "savePlan")
  /\ \/ plan' = [plan EXCEPT ![job[h]] = "verified"] /\ Go(h, "releasePlanPin") /\ UNCHANGED holder
     \/ Go(h, "fail") /\ Release(h) /\ UNCHANGED plan
  /\ UNCHANGED <<remote, cutoff, endWal, graph, restore, earlier, prompt, crashes>>

(* A failure keeps an extra pin; the restore is verified all the same.     *)
ReleasePlanPin(h) ==
  /\ At(h, "releasePlanPin")
  /\ MayReleasePin(PlanPin(job[h]))
  /\ Release(h)
  /\ Finish(h)
  /\ UNCHANGED <<wal, bases, stamp, time, cutoff, local, prompt, crashes>>

(* "except Exception" lets an interrupt through: the verified execution is *)
(* then saved as failed, as any other, its pin released or not.            *)
InterruptRelease(h) ==
  /\ At(h, "releasePlanPin")
  /\ crashes < MaxCrashes /\ crashes' = crashes + 1
  /\ MayReleasePin(PlanPin(job[h]))
  /\ Release(h)
  /\ Go(h, "fail")
  /\ UNCHANGED <<wal, bases, stamp, time, cutoff, local, prompt>>

Fail(h) ==
  /\ At(h, "fail")
  /\ restore' = [restore EXCEPT ![job[h]] = "failed"]
  /\ Go(h, "failPlan")
  /\ UNCHANGED <<remote, holder, cutoff, endWal, graph, plan, earlier, prompt, crashes>>

FailPlan(h) ==
  /\ At(h, "failPlan")
  /\ plan' = [plan EXCEPT ![job[h]] = "failed"]
  /\ Finish(h)
  /\ UNCHANGED <<remote, holder, cutoff, endWal, graph, restore, earlier, prompt, crashes>>

-----------------------------------------------------------------------------
(* cutover_restore; DatabaseCutover has what it does to the databases.     *)

Cutover(p) ==
  LET h == HomeOf[p] IN
  /\ At(h, "idle")
  /\ restore[p] \in {"verified", "cutover"}
  /\ restore' = [restore EXCEPT ![p] = "cutover"]
  /\ job' = [job EXCEPT ![h] = p]
  /\ GoTo(h, "finalize")
  /\ UNCHANGED <<remote, holder, cutoff, endWal, graph, plan, earlier, survey, prompt, crashes>>

Finalize(h) ==
  /\ At(h, "finalize")
  /\ \/ restore' = [restore EXCEPT ![job[h]] = "finalized"] /\ Go(h, "cutoverLease")
     \/ Finish(h) /\ UNCHANGED restore
  /\ UNCHANGED <<remote, holder, cutoff, endWal, graph, plan, earlier, prompt, crashes>>

(* _release_restore_pin: a failure is a warning.                           *)
CutoverLease(h) ==
  /\ At(h, "cutoverLease")
  /\ \/ Acquire(h) /\ Go(h, "releaseRestorePin")
     \/ Finish(h) /\ UNCHANGED holder
  /\ UNCHANGED <<remote, cutoff, local, prompt, crashes>>

ReleaseRestorePin(h) ==
  /\ At(h, "releaseRestorePin")
  /\ MayReleasePin(RestorePin(job[h]))
  /\ Release(h)
  /\ Finish(h)
  /\ UNCHANGED <<wal, bases, stamp, time, cutoff, local, prompt, crashes>>

-----------------------------------------------------------------------------
(* reconcile_retention                                                     *)

StartRetention(h) ==
  /\ At(h, "idle")
  /\ survey' = [survey EXCEPT ![h] = [NoSurvey EXCEPT !.cutoff = cutoff]]
  /\ GoTo(h, "retentionLease")
  /\ UNCHANGED <<remote, holder, cutoff, local, job, prompt, crashes>>

RetentionLease(h) ==
  /\ At(h, "retentionLease")
  /\ \/ Acquire(h) /\ Go(h, "survey")
     \/ Finish(h) /\ UNCHANGED holder
  /\ UNCHANGED <<remote, cutoff, local, prompt, crashes>>

Abort(h) == Finish(h) /\ Release(h)

Ahead(b) == {c \in bases : stamp[c] > stamp[b]}

(* The first Floor bases, newest completion marker first.                  *)
NewestBases == {b \in bases : Cardinality(Ahead(b)) < Floor}

(* _pinned_base_ids                                                        *)
LocallyPinned(h) ==
  {graph[p].base : p \in {q \in Plan : HomeOf[q] = h /\
     (plan[q] \in {"planned", "executing", "failed"} \/ q \in earlier
       \/ restore[q] \notin {"none", "cutover", "finalized"})}}

(* Mutant: pins of other hosts are not looked for.                         *)
Mutant_RemotelyPinned == {}
RemotelyPinned == {graph[x.plan].base : x \in pins}

InGrace(h) == {b \in bases : stamp[b] > survey[h].cutoff}

Retained(h) == NewestBases \cup LocallyPinned(h) \cup RemotelyPinned \cup InGrace(h)

(* Mutant: the WAL before the newest retained base is let go.              *)
Mutant_First(retained) == Max({endWal[b] : b \in retained})
First(retained) == Min({endWal[b] : b \in retained})

(* The bases and pins; a base published later is not seen.                 *)
Survey(h) ==
  /\ At(h, "survey")
  /\ \/ /\ Retained(h) # {} /\ Retained(h) \subseteq bases
        /\ survey' = [survey EXCEPT ![h].bases = bases \ Retained(h), ![h].first = First(Retained(h))]
        /\ GoTo(h, "decide") /\ UNCHANGED <<job, holder>>
     \/ Abort(h)
  /\ UNCHANGED <<remote, cutoff, local, prompt, crashes>>

(* The WAL from the first segment on must have no gap, and every pin must  *)
(* find its own.                                                           *)
Decide(h) ==
  /\ At(h, "decide")
  /\ \/ /\ survey[h].first \in wal /\ survey[h].first..Newest \subseteq wal
        /\ \A x \in pins : Needed(graph[x.plan].base, graph[x.plan].last) \subseteq wal
        /\ survey' = [survey EXCEPT ![h].wal =
             {n \in wal : n < survey[h].first /\ stamp[n] <= survey[h].cutoff}]
        /\ GoTo(h, "deleteBases") /\ UNCHANGED <<job, holder>>
     \/ Abort(h)
  /\ UNCHANGED <<remote, cutoff, local, prompt, crashes>>

(* Oldest first.                                                           *)
DeleteBase(h) ==
  LET todo == survey[h].bases IN
  /\ At(h, "deleteBases")
  /\ \/ \E b \in todo :
          /\ \A c \in todo : stamp[b] <= stamp[c]
          /\ Unpublish(b)
          /\ survey' = [survey EXCEPT ![h].bases = todo \ {b}]
          /\ UNCHANGED <<pc, job, holder>>
     \/ todo = {} /\ GoTo(h, "deleteWal") /\ UNCHANGED <<bases, job, survey, holder>>
     \/ Abort(h) /\ UNCHANGED bases
  /\ UNCHANGED <<wal, pins, stamp, time, cutoff, local, prompt, crashes>>

DeleteWal(h) ==
  LET todo == survey[h].wal IN
  /\ At(h, "deleteWal")
  /\ \/ /\ todo # {}
        /\ wal' = wal \ {Min(todo)}
        /\ survey' = [survey EXCEPT ![h].wal = todo \ {Min(todo)}]
        /\ UNCHANGED <<pc, job, holder>>
     \/ Abort(h) /\ UNCHANGED wal
  /\ UNCHANGED <<bases, pins, stamp, time, cutoff, local, prompt, crashes>>

-----------------------------------------------------------------------------
PlanStep(p) == PlanLease(p) \/ PlanSelect(p) \/ CreatePlanPin(p) \/ SavePlan(p)

HostStep(h) ==
  \/ PublishBase(h)
  \/ CheckLease(h) \/ CheckPin(h) \/ SaveRestore(h) \/ SaveExecuting(h)
  \/ HandoffLease(h) \/ HandoffPin(h) \/ SaveVerified(h) \/ SaveVerifiedPlan(h) \/ ReleasePlanPin(h)
  \/ FailPlan(h)
  \/ Finalize(h) \/ CutoverLease(h) \/ ReleaseRestorePin(h)
  \/ RetentionLease(h) \/ Survey(h) \/ Decide(h) \/ DeleteBase(h) \/ DeleteWal(h)

(* All but what PitrRecovery has in detail.                                *)
ArchiveStep ==
  \/ \E n \in Segment : ArchiveWal(n)
  \/ \E b \in Base : TakeBase(b)
  \/ \E p \in Plan : PlanStep(p) \/ Execute(p)
  \/ \E h \in Host : StartRetention(h) \/ HostStep(h)
  \/ RecoverLease \/ Age

Step ==
  \/ ArchiveStep
  \/ \E p \in Plan : Cutover(p)
  \/ \E h \in Host : Download(h) \/ Fail(h) \/ InterruptRelease(h)

Next == Step \/ \E x \in Process : Crash(x)

Spec == Init /\ [][Next]_vars

-----------------------------------------------------------------------------
(* Whatever retention deletes on any host, the base and every WAL segment  *)
(* that a pin names stay in the archive (_reconcile_retention_locked).     *)
PinnedGraphKept ==
  \A x \in pins :
    LET g == graph[x.plan] IN g.base \in bases /\ Needed(g.base, g.last) \subseteq wal

(* A plan that waits for its execution or is under way has its pin on S3,  *)
(* and so has a verified restore that is not cut over; what a failed plan  *)
(* needs is pinned by one or the other, across failures, interrupts,       *)
(* crashes and the handoff between the two (execute_restore).              *)
RecoveryStatePinned ==
  \A p \in Plan :
    /\ plan[p] \in {"planned", "executing"} => PlanPin(p) \in pins
    /\ plan[p] = "failed" => PlanPin(p) \in pins \/ RestorePin(p) \in pins
    /\ restore[p] \in {"verified", "cutover"} => RestorePin(p) \in pins

(* Every base that was advertised before its end_wal left the grace period *)
(* can be recovered up to the newest segment, on whichever host retention  *)
(* runs or stops halfway (reconcile_retention).                            *)
AdvertisedRecoverable == \A b \in bases \cap prompt : Needed(b, Newest) \subseteq wal
=============================================================================
