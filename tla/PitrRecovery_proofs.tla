------------------------ MODULE PitrRecovery_proofs ------------------------
(***************************************************************************)
(* Proofs about PitrArchive and PitrRecovery for any number of hosts,      *)
(* plans, bases, segments and crashes, and any retention: what a pin names *)
(* is kept, an advertised base can be recovered, a recovery in detail is   *)
(* what the archive promised, and only recovered databases are served.     *)
(***************************************************************************)
EXTENDS PitrRecovery, WellFoundedInduction, TLAPS

(* Where a host works on a plan.                                           *)
Executing == {"download", "handoffLease", "handoffPin", "saveVerified", "savePlan", "fail", "failPlan"}
Beginning == {"checkLease", "checkPin", "saveRestore", "saveExecuting"}
Cutting == {"finalize", "cutoverLease", "releaseRestorePin"}
Restoring == Beginning \cup Executing \cup {"releasePlanPin"} \cup Cutting
Deciding == {"decide", "deleteBases", "deleteWal"}
Deleting == {"deleteBases", "deleteWal"}

Placed ==
  /\ \A p \in Plan : pc[p] \in PlanLocation
  /\ \A h \in Host : pc[h] \in HostLocation
  /\ \A h \in Host : pc[h] \in Restoring => job[h] \in Plan /\ HomeOf[job[h]] = h
  /\ \A h \in Host : pc[h] = "publish" => job[h] \in Base /\ HomeOf[job[h]] = h

(* The lease excludes: who is inside the guard holds it.                   *)
GuardInv == \A x \in Process : InGuard(x) => holder = x

(* An interrupted execution is undone, its restore pin left.               *)
Undoing(h) == pc[h] \in {"fail", "failPlan"} /\ plan[job[h]] = "verified" /\ RestorePin(job[h]) \in pins

(* What a host that works on a plan makes of its metadata.                 *)
JobOf(h) ==
    /\ pc[h] \in Beginning => plan[job[h]] \in {"planned", "failed"}
    /\ pc[h] \in Executing => plan[job[h]] = "executing" \/ Undoing(h)
    /\ pc[h] = "releasePlanPin" => plan[job[h]] = "verified"
    /\ pc[h] \in {"saveExecuting", "download", "handoffLease", "handoffPin", "saveVerified"} =>
         restore[job[h]] = "pending"
    /\ pc[h] \in {"savePlan", "releasePlanPin"} => restore[job[h]] = "verified"
    /\ pc[h] = "failPlan" => restore[job[h]] = "failed"
    /\ pc[h] = "finalize" => restore[job[h]] = "cutover"
    /\ pc[h] \in {"cutoverLease", "releaseRestorePin"} => restore[job[h]] = "finalized"
    /\ pc[h] \in {"saveRestore", "saveExecuting"} => PlanPin(job[h]) \in pins
    /\ pc[h] \in {"saveVerified", "savePlan"} => RestorePin(job[h]) \in pins
JobInv == \A h \in Host : JobOf(h)

(* A plan before it is saved, and its restores.                            *)
PlanInv ==
  \A p \in Plan :
    /\ pc[p] # "done" => plan[p] = "none"
    /\ restore[p] # "none" => plan[p] # "none"
    /\ restore[p] \in {"verified", "cutover", "finalized"} => plan[p] \in {"executing", "verified"}
    /\ pc[p] \in {"new", "select", "pin"} => PlanPin(p) \notin pins /\ RestorePin(p) \notin pins
    /\ pc[p] = "save" => PlanPin(p) \in pins
    /\ pc[p] = "pin" => graph[p].base \in bases /\ Needed(graph[p].base, graph[p].last) \subseteq wal

(* Times and the order of the log.                                         *)
Top(k) == k \in wal \cup {0} /\ \A n \in Segment : stamp[n] > 0 => n <= k
LogInv ==
  /\ \A o \in Segment \cup Base : stamp[o] <= time
  /\ \A m, n \in Segment : m < n /\ stamp[n] > 0 => 0 < stamp[m] /\ stamp[m] < stamp[n]
  /\ \A n \in wal : stamp[n] > 0
  /\ \A n \in Segment : stamp[n] > cutoff => n \in wal
  /\ \E k \in Segment \cup {0} : Top(k)

BaseInv ==
  /\ \A b \in bases \cup prompt : stamp[b] > 0
  /\ \A b \in Base : stamp[b] > 0 => endWal[b] # 0
  /\ \A b \in Base : endWal[b] # 0 => stamp[endWal[b]] > 0
  /\ \A h \in Host : pc[h] = "publish" => stamp[job[h]] = 0 /\ endWal[job[h]] # 0

(* What a retention has found: it deletes nothing that is pinned, nor what *)
(* a base needs that it keeps or that was published since.                 *)
Spared(s, b) == s.first <= endWal[b] \/ stamp[endWal[b]] > s.cutoff
SurveyOf(h) ==
  LET s == survey[h] IN
    /\ s.cutoff <= cutoff
    /\ \A b \in s.bases : stamp[b] > 0
    /\ pc[h] \in Deciding =>
         /\ \A x \in pins : graph[x.plan].base \notin s.bases /\ s.first <= endWal[graph[x.plan].base]
         /\ \A b \in (bases \cap prompt) \ s.bases : Spared(s, b)
    /\ pc[h] \in Deleting => s.first \in wal /\ \A n \in s.wal : n < s.first /\ stamp[n] \in 1..s.cutoff
    /\ pc[h] = "deleteWal" => s.bases = {}
SurveyInv == \A h \in Host : SurveyOf(h)

ArchiveInv ==
  /\ TypeOK /\ Placed /\ GuardInv /\ JobInv /\ PlanInv /\ LogInv /\ BaseInv /\ SurveyInv
  /\ PinnedGraphKept /\ RecoveryStatePinned /\ AdvertisedRecoverable

-----------------------------------------------------------------------------
(* Numbers.                                                                *)
Less == {ss \in Nat \X Nat : ss[1] < ss[2]}

LEMMA LessWellFounded == IsWellFoundedOn(Less, Nat)
BY NatLessThanWellFounded DEF Less, OpToRel

LEMMA Smallest ==
  ASSUME NEW S, S \subseteq Nat, S # {}
  PROVE  Min(S) \in S /\ \A n \in S : Min(S) <= n
<1>1. PICK m \in S : \A n \in S : ~(<<n, m>> \in Less)
  BY LessWellFounded, WFMin
<1>2. ASSUME NEW n \in S
      PROVE  m <= n
  <2>1. <<n, m>> \notin Less /\ n \in Nat /\ m \in Nat
    BY <1>1
  <2>2. ~(n < m)
    BY <2>1 DEF Less
  <2> QED
    BY <2>1, <2>2
<1> QED
  BY <1>1, <1>2 DEF Min

(* The newest segment of the log is in the archive.                        *)
LEMMA NewestIsTop ==
  ASSUME TypeOK, NEW k \in Segment \cup {0}, Top(k), \A n \in wal : stamp[n] > 0
  PROVE  Newest = k
<1>1. \A n \in wal \cup {0} : n <= k
  BY ArchiveAssumption DEF Top, TypeOK, Segment
<1>2. \A n \in wal \cup {0} : n \in Nat
  BY ArchiveAssumption DEF TypeOK, Segment
<1>3. k \in wal \cup {0} /\ k \in Nat
  BY ArchiveAssumption DEF Top, Segment
<1>4. \A n \in wal \cup {0} : (\A m \in wal \cup {0} : n >= m) => n = k
  <2>1. ASSUME NEW n \in wal \cup {0}, \A m \in wal \cup {0} : n >= m
        PROVE  n = k
    <3>1. n >= k /\ n <= k
      BY <1>1, <1>3, <2>1
    <3> QED
      BY <1>2, <1>3, <3>1
  <2> QED
    BY <2>1
<1>5. \A m \in wal \cup {0} : k >= m
  BY <1>1, <1>2, <1>3
<1> QED
  BY <1>3, <1>4, <1>5 DEF Newest, Max

LEMMA NewestTop ==
  ASSUME TypeOK, LogInv
  PROVE  Newest \in Segment \cup {0} /\ Top(Newest)
BY NewestIsTop DEF LogInv

LEMMA Sorts ==
  /\ Host \subseteq Process /\ Plan \subseteq Process
  /\ \A x \in Process : x \in Host <=> x \notin Plan
  /\ NoOne \notin Process
  /\ \A p \in Plan : HomeOf[p] \in Host
  /\ \A b \in Base : HomeOf[b] \in Host /\ b \notin Plan /\ b \notin Segment /\ NoJob # b
  /\ Segment \subseteq Nat /\ 0 \notin Segment
BY ArchiveAssumption DEF Process, Segment

LEMMA Segments ==
  /\ \A n \in Segment \cup {0} : n \in Nat
  /\ \A n \in Segment : n \in Nat /\ 1 <= n
  /\ \A n \in Segment, m \in Nat : 1 <= m /\ m <= n => m \in Segment
BY ArchiveAssumption DEF Segment

-----------------------------------------------------------------------------
(* Who takes a step.                                                       *)
Planned(p) == PlanStep(p) \/ Crash(p)
Hosted(h) ==
  \/ HostStep(h) \/ StartRetention(h) \/ Download(h) \/ Fail(h) \/ InterruptRelease(h) \/ Crash(h)
  \/ \E b \in Base : HomeOf[b] = h /\ TakeBase(b)
  \/ \E p \in Plan : HomeOf[p] = h /\ (Execute(p) \/ Cutover(p))

LEMMA NextParts ==
  ASSUME Next
  PROVE  \/ \E n \in Segment : ArchiveWal(n)
         \/ RecoverLease \/ Age
         \/ \E p \in Plan : Planned(p)
         \/ \E h \in Host : Hosted(h)
BY Sorts DEF Next, Step, ArchiveStep, Planned, Hosted

(* A process leaves the others alone.                                      *)
Elsewhere(x) ==
  /\ \A y \in Process \ {x} : pc'[y] = pc[y]
  /\ \A h \in Host \ {x} : job'[h] = job[h] /\ survey'[h] = survey[h]

LEMMA PlanFrame ==
  ASSUME TypeOK, NEW p \in Plan, Planned(p)
  PROVE  /\ Elsewhere(p)
         /\ UNCHANGED <<wal, bases, stamp, time, cutoff, endWal, restore, earlier, job, survey, prompt>>
         /\ \A q \in Plan \ {p} : graph'[q] = graph[q] /\ plan'[q] = plan[q]
         /\ pins' = pins \/ pins' = pins \cup {PlanPin(p)}
<1> USE Sorts DEF TypeOK, GoTo, Go, remote, local
<1>1. CASE Crash(p)
  BY <1>1 DEF Crash, Finish, Elsewhere
<1>2. CASE PlanStep(p)
  BY <1>2 DEF PlanStep, PlanLease, PlanSelect, CreatePlanPin, SavePlan, PutPin, MayPutPin, Elsewhere
<1> QED
  BY <1>1, <1>2 DEF Planned

LEMMA HostFrame ==
  ASSUME TypeOK, Placed, NEW h \in Host, Hosted(h)
  PROVE  /\ Elsewhere(h)
         /\ UNCHANGED <<graph, cutoff>>
         /\ \A p \in Plan : HomeOf[p] # h => plan'[p] = plan[p] /\ restore'[p] = restore[p]
<1> USE Sorts DEF TypeOK, GoTo, Go, Finish, remote, local, Elsewhere
<1>1. CASE Crash(h)
  BY <1>1 DEF Crash
<1>2. CASE \/ StartRetention(h)
           \/ \E b \in Base : HomeOf[b] = h /\ TakeBase(b)
           \/ \E p \in Plan : HomeOf[p] = h /\ (Execute(p) \/ Cutover(p))
  BY <1>2 DEF StartRetention, TakeBase, Execute, Cutover
<1>3. CASE PublishBase(h) \/ CheckLease(h) \/ CheckPin(h) \/ HandoffLease(h) \/ HandoffPin(h) \/ CutoverLease(h)
           \/ ReleasePlanPin(h) \/ InterruptRelease(h) \/ ReleaseRestorePin(h) \/ RetentionLease(h)
  BY <1>3 DEF PublishBase, CheckLease, CheckPin, HandoffLease, HandoffPin, CutoverLease, ReleasePlanPin, InterruptRelease,
    ReleaseRestorePin, RetentionLease
<1>4. CASE Survey(h) \/ Decide(h) \/ DeleteBase(h) \/ DeleteWal(h) \/ Download(h)
  BY <1>4 DEF Survey, Decide, DeleteBase, DeleteWal, Download, Abort
<1>5. CASE SaveRestore(h) \/ SaveExecuting(h) \/ SaveVerified(h) \/ SaveVerifiedPlan(h) \/ Fail(h) \/ FailPlan(h)
           \/ Finalize(h)
  <2>1. job[h] \in Plan /\ HomeOf[job[h]] = h
    BY <1>5 DEF Placed, Restoring, Beginning, Executing, Cutting, At, SaveRestore, SaveExecuting, SaveVerified,
      SaveVerifiedPlan, Fail, FailPlan, Finalize
  <2> QED
    BY <1>5, <2>1 DEF SaveRestore, SaveExecuting, SaveVerified, SaveVerifiedPlan, Fail, FailPlan, Finalize
<1> QED
  BY <1>1, <1>2, <1>3, <1>4, <1>5 DEF Hosted, HostStep

-----------------------------------------------------------------------------
(* Types, by what the steps change.                                        *)
ArchiveTyped ==
  /\ wal \subseteq Segment /\ bases \subseteq Base /\ pins \subseteq Pin /\ prompt \subseteq Base
  /\ stamp \in [Segment \cup Base -> Nat] /\ time \in Nat /\ cutoff \in 0..time
  /\ endWal \in [Base -> Segment \cup {0}]
HolderTyped == holder \in Process \cup {NoOne}
PlanTyped ==
  /\ graph \in [Plan -> [base : Base \cup {NoJob}, last : Segment \cup {0}]]
  /\ plan \in [Plan -> {"none", "planned", "executing", "failed", "verified"}]
  /\ restore \in [Plan -> {"none", "pending", "failed", "verified", "cutover", "finalized"}]
  /\ earlier \subseteq Plan
ProcessTyped ==
  /\ pc \in [Process -> PlanLocation \cup HostLocation]
  /\ job \in [Host -> Plan \cup Base \cup {NoJob}]
SurveyTyped ==
  survey \in [Host -> [cutoff : Nat, first : Segment \cup {0}, bases : SUBSET Base, wal : SUBSET Segment]]
CrashTyped == crashes \in 0..MaxCrashes

Types == ArchiveTyped /\ HolderTyped /\ PlanTyped /\ ProcessTyped /\ SurveyTyped /\ CrashTyped

LEMMA TypeParts == (TypeOK <=> Types) /\ (TypeOK' <=> Types')
BY DEF TypeOK, Types, ArchiveTyped, HolderTyped, PlanTyped, ProcessTyped, SurveyTyped, CrashTyped

(* What is unchanged keeps its type.                                       *)
LEMMA TypesKept ==
  ASSUME Types
  PROVE  /\ UNCHANGED <<wal, bases, pins, prompt, stamp, time, cutoff, endWal>> => ArchiveTyped'
         /\ UNCHANGED holder => HolderTyped'
         /\ UNCHANGED <<graph, plan, restore, earlier>> => PlanTyped'
         /\ UNCHANGED <<pc, job>> => ProcessTyped'
         /\ UNCHANGED survey => SurveyTyped'
         /\ UNCHANGED crashes => CrashTyped'
BY DEF Types, ArchiveTyped, HolderTyped, PlanTyped, ProcessTyped, SurveyTyped, CrashTyped

(* The first segment that any of some bases needs.                         *)
LEMMA FirstNeeded ==
  ASSUME ArchiveTyped, NEW R, R \subseteq bases, R # {}
  PROVE  First(R) \in Segment \cup {0} /\ \A b \in R : First(R) <= endWal[b]
<1>1. PICK S : S = {endWal[b] : b \in R}
  OBVIOUS
<1>2. S \subseteq Segment \cup {0} /\ S # {} /\ \A b \in R : endWal[b] \in S
  BY <1>1 DEF ArchiveTyped
<1>3. S \subseteq Nat
  BY <1>2, Sorts
<1>4. Min(S) \in S /\ \A n \in S : Min(S) <= n
  BY <1>2, <1>3, Smallest
<1> QED
  BY <1>1, <1>2, <1>4 DEF First

LEMMA TypeApart ==
  ASSUME Types, LogInv, RecoverLease \/ Age \/ \E n \in Segment : ArchiveWal(n)
  PROVE  Types'
<1> USE TypesKept DEF Types, remote, local
<1>1. CASE RecoverLease
  BY <1>1 DEF RecoverLease, HolderTyped
<1>2. CASE Age
  <2>1. cutoff' \in 0..time
    BY <1>2 DEF Age, ArchiveTyped
  <2> QED
    BY <1>2, <2>1 DEF Age, ArchiveTyped
<1>3. ASSUME NEW n \in Segment, ArchiveWal(n)
      PROVE  Types'
  <2>1. time' \in Nat /\ cutoff \in 0..time' /\ stamp' \in [Segment \cup Base -> Nat]
    BY <1>3 DEF ArchiveWal, Published, ArchiveTyped
  <2> QED
    BY <1>3, <2>1 DEF ArchiveWal, ArchiveTyped
<1> QED
  BY <1>1, <1>2, <1>3

LEMMA TypePlan ==
  ASSUME Types, LogInv, NEW p \in Plan, Planned(p)
  PROVE  Types'
<1> USE Sorts, TypesKept DEF Types, GoTo, Go, remote, local
<1>1. HolderTyped'
  BY DEF Planned, PlanStep, PlanLease, PlanSelect, CreatePlanPin, SavePlan, Crash, Acquire, Release, HolderTyped
<1>2. PlanPin(p) \in Pin
  BY DEF PlanPin, Pin
<1>3. ArchiveTyped'
  <2>1. UNCHANGED <<wal, bases, stamp, time, cutoff, endWal, prompt>>
    BY PlanFrame, TypeParts
  <2>2. pins' \subseteq Pin
    BY <1>2, PlanFrame, TypeParts DEF ArchiveTyped
  <2> QED
    BY <2>1, <2>2 DEF ArchiveTyped
<1>4. PlanTyped'
  <2>1. CASE PlanSelect(p)
    <3>1. Newest \in Segment \cup {0}
      BY NewestTop, TypeParts
    <3> QED
      BY <2>1, <3>1 DEF PlanSelect, ArchiveTyped, PlanTyped
  <2>2. CASE SavePlan(p)
    BY <2>2 DEF SavePlan, PlanTyped
  <2> QED
    BY <2>1, <2>2 DEF Planned, PlanStep, PlanLease, CreatePlanPin, Crash
<1>5. ProcessTyped'
  <2>1. UNCHANGED job
    BY PlanFrame, TypeParts
  <2>2. pc' \in [Process -> PlanLocation \cup HostLocation]
    BY DEF Planned, PlanStep, PlanLease, PlanSelect, CreatePlanPin, SavePlan, Crash, Finish, ProcessTyped,
      PlanLocation
  <2> QED
    BY <2>1, <2>2 DEF ProcessTyped
<1>6. SurveyTyped'
  BY PlanFrame, TypeParts
<1>7. CrashTyped'
  BY ArchiveAssumption DEF Planned, PlanStep, PlanLease, PlanSelect, CreatePlanPin, SavePlan, Crash, CrashTyped
<1> QED
  BY <1>1, <1>3, <1>4, <1>5, <1>6, <1>7

LEMMA TypeHost ==
  ASSUME Types, LogInv, Placed, NEW h \in Host, Hosted(h)
  PROVE  Types'
<1> USE Sorts, TypesKept DEF Types, GoTo, Go, Finish, remote, local
<1>0. /\ pc[h] \in Restoring => job[h] \in Plan
      /\ pc[h] = "publish" => job[h] \in Base
  BY DEF Placed
<1>1. HolderTyped'
  BY DEF Hosted, HostStep, StartRetention, Download, Fail, InterruptRelease, Crash, TakeBase, Execute, Cutover, PublishBase, CheckLease,
    CheckPin, SaveRestore, SaveExecuting, HandoffLease, HandoffPin, SaveVerified, SaveVerifiedPlan, ReleasePlanPin,
    FailPlan, Finalize, CutoverLease, ReleaseRestorePin, RetentionLease, Survey, Decide, DeleteBase, DeleteWal, Abort,
    Acquire, Release, HolderTyped
<1>2. CrashTyped'
  BY ArchiveAssumption DEF Hosted, HostStep, StartRetention, Download, Fail, InterruptRelease, Crash, TakeBase, Execute, Cutover, PublishBase, CheckLease,
    CheckPin, SaveRestore, SaveExecuting, HandoffLease, HandoffPin, SaveVerified, SaveVerifiedPlan, ReleasePlanPin,
    FailPlan, Finalize, CutoverLease, ReleaseRestorePin, RetentionLease, Survey, Decide, DeleteBase, DeleteWal,
    CrashTyped
<1>3. PlanTyped'
  <2>1. CASE SaveRestore(h) \/ SaveExecuting(h) \/ SaveVerified(h) \/ SaveVerifiedPlan(h) \/ Fail(h) \/ FailPlan(h)
             \/ Finalize(h)
    BY <1>0, <2>1 DEF SaveRestore, SaveExecuting, SaveVerified, SaveVerifiedPlan, Fail, FailPlan, Finalize, PlanTyped,
      At, Restoring, Beginning, Executing, Cutting
  <2>2. CASE \E p \in Plan : Cutover(p)
    BY <2>2 DEF Cutover, PlanTyped
  <2> QED
    BY <2>1, <2>2 DEF Hosted, HostStep, StartRetention, Download, Crash, TakeBase, Execute, PublishBase, CheckLease,
      CheckPin, HandoffLease, HandoffPin, ReleasePlanPin, InterruptRelease, CutoverLease, ReleaseRestorePin, RetentionLease, Survey,
      Decide, DeleteBase, DeleteWal
<1>4. ArchiveTyped'
  <2>1. CASE PublishBase(h)
    <3>1. job[h] \in Base
      BY <1>0, <2>1 DEF PublishBase, At
    <3>2. stamp' \in [Segment \cup Base -> Nat] /\ time' \in Nat /\ cutoff \in 0..time'
      BY <2>1, <3>1 DEF PublishBase, Published, ArchiveTyped
    <3> QED
      BY <2>1, <3>1, <3>2 DEF PublishBase, ArchiveTyped
  <2>2. CASE HandoffPin(h) \/ ReleasePlanPin(h) \/ InterruptRelease(h) \/ ReleaseRestorePin(h)
    <3>1. job[h] \in Plan
      BY <1>0, <2>2 DEF HandoffPin, ReleasePlanPin, InterruptRelease, ReleaseRestorePin, At, Restoring, Executing, Cutting
    <3>2. HandedOver(job[h]) \subseteq Pin
      BY <3>1 DEF HandedOver, RestorePin, Pin
    <3>3. pins' \subseteq Pin
      BY <2>2, <3>2 DEF HandoffPin, ReleasePlanPin, InterruptRelease, ReleaseRestorePin, MayReleasePin, ArchiveTyped
    <3> QED
      BY <2>2, <3>3 DEF HandoffPin, ReleasePlanPin, InterruptRelease, ReleaseRestorePin, ArchiveTyped
  <2>3. CASE DeleteBase(h) \/ DeleteWal(h)
    BY <2>3 DEF DeleteBase, DeleteWal, Unpublish, ArchiveTyped
  <2>4. CASE \E b \in Base : TakeBase(b)
    <3>1. Newest \in Segment \cup {0}
      BY NewestTop, TypeParts
    <3> QED
      BY <2>4, <3>1 DEF TakeBase, EndSegment, ArchiveTyped
  <2> QED
    BY <2>1, <2>2, <2>3, <2>4 DEF Hosted, HostStep, StartRetention, Download, Fail, InterruptRelease, Crash, Execute, Cutover, CheckLease,
      CheckPin, SaveRestore, SaveExecuting, HandoffLease, SaveVerified, SaveVerifiedPlan,
      FailPlan, Finalize, CutoverLease, RetentionLease, Survey, Decide
<1>5. ProcessTyped'
  <2> USE DEF ProcessTyped
  <2>1. CASE \/ StartRetention(h) \/ Crash(h) \/ Download(h) \/ Fail(h) \/ InterruptRelease(h)
             \/ \E b \in Base : HomeOf[b] = h /\ TakeBase(b)
             \/ \E p \in Plan : HomeOf[p] = h /\ (Execute(p) \/ Cutover(p))
    BY <2>1 DEF StartRetention, Crash, Download, Fail, InterruptRelease, TakeBase, Execute, Cutover, HostLocation
  <2>2. CASE \/ PublishBase(h) \/ CheckLease(h) \/ CheckPin(h) \/ SaveRestore(h) \/ SaveExecuting(h) \/ HandoffLease(h)
             \/ HandoffPin(h) \/ SaveVerified(h) \/ SaveVerifiedPlan(h)
    BY <2>2 DEF PublishBase, CheckLease, CheckPin, SaveRestore, SaveExecuting, HandoffLease, HandoffPin, SaveVerified,
      SaveVerifiedPlan, HostLocation
  <2>3. CASE \/ ReleasePlanPin(h) \/ FailPlan(h) \/ Finalize(h) \/ CutoverLease(h) \/ ReleaseRestorePin(h)
             \/ RetentionLease(h) \/ Survey(h) \/ Decide(h) \/ DeleteBase(h) \/ DeleteWal(h)
    BY <2>3 DEF ReleasePlanPin, FailPlan, Finalize, CutoverLease, ReleaseRestorePin, RetentionLease, Survey, Decide,
      DeleteBase, DeleteWal, Abort, HostLocation
  <2> QED
    BY <2>1, <2>2, <2>3 DEF Hosted, HostStep
<1>6. SurveyTyped'
  <2> USE DEF SurveyTyped
  <2>1. NoSurvey \in [cutoff : Nat, first : Segment \cup {0}, bases : SUBSET Base, wal : SUBSET Segment]
    BY DEF NoSurvey
  <2>2. survey' = [survey EXCEPT ![h] = NoSurvey] => SurveyTyped'
    BY <2>1
  <2>3. CASE StartRetention(h)
    <3>1. [NoSurvey EXCEPT !.cutoff = cutoff] \in
            [cutoff : Nat, first : Segment \cup {0}, bases : SUBSET Base, wal : SUBSET Segment]
      BY <2>1 DEF NoSurvey, ArchiveTyped
    <3> QED
      BY <2>3, <3>1 DEF StartRetention
  <2>4. CASE Survey(h)
    <3>1. CASE Retained(h) # {} /\ Retained(h) \subseteq bases
      <4>1. First(Retained(h)) \in Segment \cup {0}
        BY <3>1, FirstNeeded
      <4>2. bases \ Retained(h) \subseteq Base
        BY DEF ArchiveTyped
      <4> QED
        BY <2>2, <2>4, <4>1, <4>2 DEF Survey, Abort
    <3> QED
      BY <2>2, <2>4, <3>1 DEF Survey, Abort
  <2>5. CASE Decide(h)
    BY <2>2, <2>5 DEF Decide, Abort, ArchiveTyped
  <2>6. CASE DeleteBase(h) \/ DeleteWal(h)
    BY <2>2, <2>6 DEF DeleteBase, DeleteWal, Abort
  <2> QED
    BY <2>2, <2>3, <2>4, <2>5, <2>6 DEF Hosted, HostStep, Download, Fail, InterruptRelease, Crash, TakeBase, Execute, Cutover, PublishBase,
      CheckLease, CheckPin, SaveRestore, SaveExecuting, HandoffLease, HandoffPin, SaveVerified, SaveVerifiedPlan,
      ReleasePlanPin, FailPlan, Finalize, CutoverLease, ReleaseRestorePin, RetentionLease
<1> QED
  BY <1>1, <1>2, <1>3, <1>4, <1>5, <1>6

-----------------------------------------------------------------------------
(* Where processes are, and the lease.                                     *)
LEMMA PlacedApart ==
  ASSUME Placed, GuardInv, RecoverLease \/ Age \/ \E n \in Segment : ArchiveWal(n)
  PROVE  Placed' /\ GuardInv'
<1>1. UNCHANGED <<pc, job>>
  BY DEF RecoverLease, Age, ArchiveWal
<1>2. holder' = holder \/ (~InGuard(holder) /\ holder' = NoOne)
  BY DEF RecoverLease, Age, ArchiveWal
<1> QED
  BY <1>1, <1>2 DEF Placed, GuardInv, InGuard

LEMMA PlacedPlan ==
  ASSUME TypeOK, Placed, NEW p \in Plan, Planned(p)
  PROVE  Placed'
<1> USE Sorts DEF GoTo, Go
<1>1. Elsewhere(p) /\ UNCHANGED job
  BY PlanFrame
<1>2. pc'[p] \in PlanLocation
  BY DEF Planned, PlanStep, PlanLease, PlanSelect, CreatePlanPin, SavePlan, Crash, Finish, PlanLocation, TypeOK
<1> QED
  BY <1>1, <1>2 DEF Placed, Elsewhere

LEMMA PlacedHost ==
  ASSUME TypeOK, Placed, NEW h \in Host, Hosted(h)
  PROVE  Placed'
<1> USE Sorts DEF GoTo, Go, Finish
<1>1. Elsewhere(h)
  BY HostFrame
<1>2. pc \in [Process -> PlanLocation \cup HostLocation] /\ job \in [Host -> Plan \cup Base \cup {NoJob}]
      /\ pc[h] \in HostLocation
  BY DEF TypeOK, Placed
<1>3. /\ pc'[h] \in HostLocation
      /\ pc'[h] \in Restoring => job'[h] \in Plan /\ HomeOf[job'[h]] = h
      /\ pc'[h] = "publish" => job'[h] \in Base /\ HomeOf[job'[h]] = h
  <2> USE <1>2 DEF Restoring, Beginning, Executing, Cutting, HostLocation, At, Placed
  <2>1. CASE \/ StartRetention(h) \/ Crash(h) \/ Download(h) \/ Fail(h) \/ InterruptRelease(h)
             \/ \E b \in Base : HomeOf[b] = h /\ TakeBase(b)
             \/ \E p \in Plan : HomeOf[p] = h /\ (Execute(p) \/ Cutover(p))
    BY <2>1 DEF StartRetention, Crash, Download, Fail, InterruptRelease, TakeBase, Execute, Cutover
  <2>2. CASE \/ PublishBase(h) \/ CheckLease(h) \/ CheckPin(h) \/ SaveRestore(h) \/ SaveExecuting(h) \/ HandoffLease(h)
             \/ HandoffPin(h) \/ SaveVerified(h) \/ SaveVerifiedPlan(h)
    BY <2>2 DEF PublishBase, CheckLease, CheckPin, SaveRestore, SaveExecuting, HandoffLease, HandoffPin, SaveVerified,
      SaveVerifiedPlan
  <2>3. CASE \/ ReleasePlanPin(h) \/ FailPlan(h) \/ Finalize(h) \/ CutoverLease(h) \/ ReleaseRestorePin(h)
             \/ RetentionLease(h) \/ Survey(h) \/ Decide(h) \/ DeleteBase(h) \/ DeleteWal(h)
    BY <2>3 DEF ReleasePlanPin, FailPlan, Finalize, CutoverLease, ReleaseRestorePin, RetentionLease, Survey, Decide,
      DeleteBase, DeleteWal, Abort
  <2> QED
    BY <2>1, <2>2, <2>3 DEF Hosted, HostStep
<1> QED
  BY <1>1, <1>3 DEF Placed, Elsewhere

(* The lease is taken when it is free, and given back from inside.         *)
Turn(x) ==
  /\ holder' = holder \/ (holder = NoOne /\ holder' = x) \/ (InGuard(x) /\ holder' = NoOne)
  /\ InGuard(x)' => holder' = x

LEMMA TurnPlan ==
  ASSUME TypeOK, Placed, GuardInv, NEW p \in Plan, Planned(p)
  PROVE  Turn(p)
BY Sorts DEF Planned, PlanStep, PlanLease, PlanSelect, CreatePlanPin, SavePlan, Crash, Finish, GoTo, Go, TypeOK,
  Turn, InGuard, Acquire, Release, At, GuardInv

LEMMA TurnHost ==
  ASSUME TypeOK, Placed, GuardInv, NEW h \in Host, Hosted(h)
  PROVE  Turn(h)
<1> USE Sorts DEF GoTo, Go, Finish, Turn, InGuard, Acquire, Release, At, GuardInv
<1>1. pc \in [Process -> PlanLocation \cup HostLocation] /\ (InGuard(h) => holder = h)
  BY DEF TypeOK
<1>2. CASE \/ StartRetention(h) \/ Crash(h) \/ Download(h) \/ Fail(h) \/ InterruptRelease(h)
           \/ \E b \in Base : HomeOf[b] = h /\ TakeBase(b)
           \/ \E p \in Plan : HomeOf[p] = h /\ (Execute(p) \/ Cutover(p))
  BY <1>1, <1>2 DEF StartRetention, Crash, Download, Fail, InterruptRelease, TakeBase, Execute, Cutover
<1>3. CASE \/ PublishBase(h) \/ CheckLease(h) \/ CheckPin(h) \/ SaveRestore(h) \/ SaveExecuting(h) \/ HandoffLease(h)
           \/ HandoffPin(h) \/ SaveVerified(h) \/ SaveVerifiedPlan(h)
  BY <1>1, <1>3 DEF PublishBase, CheckLease, CheckPin, SaveRestore, SaveExecuting, HandoffLease, HandoffPin, SaveVerified,
    SaveVerifiedPlan
<1>4. CASE \/ ReleasePlanPin(h) \/ FailPlan(h) \/ Finalize(h) \/ CutoverLease(h) \/ ReleaseRestorePin(h)
           \/ RetentionLease(h) \/ Survey(h) \/ Decide(h) \/ DeleteBase(h) \/ DeleteWal(h)
  BY <1>1, <1>4 DEF ReleasePlanPin, FailPlan, Finalize, CutoverLease, ReleaseRestorePin, RetentionLease, Survey, Decide,
    DeleteBase, DeleteWal, Abort
<1> QED
  BY <1>2, <1>3, <1>4 DEF Hosted, HostStep

LEMMA GuardStep ==
  ASSUME GuardInv, NEW x \in Process, Elsewhere(x), Turn(x)
  PROVE  GuardInv'
<1>1. ASSUME NEW y \in Process \ {x}, InGuard(y)'
      PROVE  holder' = y
  <2>1. InGuard(y)
    BY <1>1 DEF InGuard, Elsewhere
  <2>2. holder = y /\ (InGuard(x) => holder = x)
    BY <2>1 DEF GuardInv
  <2> QED
    BY <2>2, Sorts DEF Turn
<1> QED
  BY <1>1 DEF GuardInv, Turn

(* Two processes are never inside at the same time.                        *)
LEMMA Alone ==
  ASSUME GuardInv, NEW x \in Process, NEW y \in Process, InGuard(x), InGuard(y)
  PROVE  x = y
BY DEF GuardInv

-----------------------------------------------------------------------------
(* The log.                                                                *)
LEMMA LogApart ==
  ASSUME TypeOK, LogInv, RecoverLease \/ Age \/ \E n \in Segment : ArchiveWal(n)
  PROVE  LogInv'
<1> USE Sorts DEF TypeOK
<1>1. CASE RecoverLease \/ Age
  <2>1. UNCHANGED <<wal, stamp, time>>
    BY <1>1 DEF RecoverLease, Age, remote
  <2>2. \A n \in Segment : stamp[n] > cutoff' => stamp[n] > cutoff
    BY <1>1 DEF RecoverLease, Age
  <2> QED
    BY <2>1, <2>2 DEF LogInv, Top
<1>2. ASSUME NEW n \in Segment, ArchiveWal(n)
      PROVE  LogInv'
  <2>1. /\ stamp[n] = 0 /\ wal' = wal \cup {n} /\ time' = time + 1 /\ stamp' = [stamp EXCEPT ![n] = time + 1]
        /\ \A m \in 1..(n - 1) : stamp[m] > 0
        /\ UNCHANGED cutoff
    BY <1>2 DEF ArchiveWal, Published
  <2>2. /\ stamp'[n] = time + 1 /\ \A o \in Segment \cup Base : o # n => stamp'[o] = stamp[o]
        /\ \A o \in Segment \cup Base : stamp[o] \in Nat /\ stamp[o] <= time
    BY <2>1 DEF LogInv
  <2>3. \A m \in Segment : m < n => stamp[m] > 0
    BY <2>1 DEF Segment
  <2>4. \A m \in Segment : n < m => stamp[m] = 0
    BY <2>1, <2>2 DEF LogInv
  <2>5. ASSUME NEW o \in Segment \cup Base
        PROVE  stamp'[o] <= time'
    <3>1. time \in Nat /\ stamp[o] \in Nat /\ stamp[o] <= time
      BY <2>2
    <3>2. stamp'[o] = time + 1 \/ stamp'[o] = stamp[o]
      BY <2>2
    <3> QED
      BY <2>1, <3>1, <3>2
  <2>6. \A a, b \in Segment : a < b /\ stamp'[b] > 0 => 0 < stamp'[a] /\ stamp'[a] < stamp'[b]
    <3>1. ASSUME NEW a \in Segment, NEW b \in Segment, a < b, stamp'[b] > 0
          PROVE  0 < stamp'[a] /\ stamp'[a] < stamp'[b]
      <4>1. a # n
        BY <2>2, <2>4, <3>1
      <4>2. CASE b = n
        BY <2>2, <2>3, <3>1, <4>1, <4>2
      <4>3. CASE b # n
        BY <2>2, <3>1, <4>1, <4>3 DEF LogInv
      <4> QED
        BY <4>2, <4>3
    <3> QED
      BY <3>1
  <2>7. (\A m \in wal' : stamp'[m] > 0) /\ (\A m \in Segment : stamp'[m] > cutoff => m \in wal')
    BY <2>1, <2>2 DEF LogInv
  <2>8. Top(n)'
    <3>1. \A m \in Segment : stamp'[m] > 0 => m <= n
      BY <2>2, <2>4
    <3> QED
      BY <2>1, <3>1 DEF Top
  <2> QED
    BY <2>1, <2>5, <2>6, <2>7, <2>8 DEF LogInv
<1> QED
  BY <1>1, <1>2

LEMMA LogPlan ==
  ASSUME TypeOK, LogInv, NEW p \in Plan, Planned(p)
  PROVE  LogInv'
<1>1. UNCHANGED <<wal, stamp, time, cutoff>>
  BY PlanFrame DEF Planned, PlanStep, PlanLease, PlanSelect, CreatePlanPin, SavePlan, Crash
<1> QED
  BY <1>1 DEF LogInv, Top

(* The bases and the log change by PublishBase and by the deletions.       *)
LEMMA ArchiveKept ==
  ASSUME TypeOK, NEW h \in Host, Hosted(h), ~PublishBase(h)
  PROVE  /\ UNCHANGED <<stamp, time, prompt>>
         /\ ~DeleteWal(h) => UNCHANGED wal
         /\ ~DeleteBase(h) => UNCHANGED bases
BY DEF Hosted, HostStep, StartRetention, Download, Fail, InterruptRelease, Crash, TakeBase, Execute, Cutover, CheckLease,
  CheckPin, SaveRestore, SaveExecuting, HandoffLease, HandoffPin, SaveVerified, SaveVerifiedPlan, ReleasePlanPin,
  FailPlan, Finalize, CutoverLease, ReleaseRestorePin, RetentionLease, Survey, Decide, DeleteBase, DeleteWal, remote

(* What DeleteWal may take away.                                           *)
LEMMA Deleted ==
  ASSUME TypeOK, LogInv, SurveyInv, NEW h \in Host, DeleteWal(h)
  PROVE  \/ UNCHANGED <<wal, survey, pc>>
         \/ UNCHANGED wal /\ Finish(h)
         \/ \E n \in survey[h].wal :
              /\ n \in Segment /\ wal' = wal \ {n} /\ survey' = [survey EXCEPT ![h].wal = survey[h].wal \ {n}]
              /\ UNCHANGED pc
              /\ n < survey[h].first /\ survey[h].first \in wal
              /\ stamp[n] \in 1..survey[h].cutoff /\ survey[h].cutoff <= cutoff
              /\ n # Newest
<1>1. CASE Abort(h) /\ UNCHANGED wal
  BY <1>1 DEF Abort
<1>2. CASE survey[h].wal # {} /\ wal' = wal \ {Min(survey[h].wal)}
           /\ survey' = [survey EXCEPT ![h].wal = survey[h].wal \ {Min(survey[h].wal)}] /\ UNCHANGED pc
  <2>1. survey[h].wal \subseteq Segment /\ survey[h].wal \subseteq Nat
    BY Sorts DEF TypeOK
  <2>2. Min(survey[h].wal) \in survey[h].wal
    BY <1>2, <2>1, Smallest
  <2>3. PICK n : n = Min(survey[h].wal)
    OBVIOUS
  <2>4. /\ n < survey[h].first /\ survey[h].first \in wal
        /\ stamp[n] \in 1..survey[h].cutoff /\ survey[h].cutoff <= cutoff
    BY <2>2, <2>3 DEF SurveyInv, SurveyOf, DeleteWal, At, Deleting
  <2>5. survey[h].first <= Newest
    BY <2>4, NewestTop DEF Top, LogInv, TypeOK
  <2>6. n # Newest
    <3>1. n \in Nat /\ survey[h].first \in Nat /\ Newest \in Nat
      <4>1. Newest \in Segment \cup {0}
        BY NewestTop
      <4>2. wal \subseteq Segment
        BY DEF TypeOK
      <4>3. survey[h].first \in Nat
        BY <2>4, <4>2, Sorts
      <4>4. n \in Nat
        BY <2>1, <2>2, <2>3
      <4>5. Newest \in Nat
        BY <4>1, Sorts
      <4> QED
        BY <4>3, <4>4, <4>5
    <3> QED
      BY <2>4, <2>5, <3>1
  <2> QED
    BY <1>2, <2>1, <2>2, <2>3, <2>4, <2>6
<1> QED
  BY <1>1, <1>2 DEF DeleteWal

LEMMA LogHost ==
  ASSUME TypeOK, Placed, LogInv, BaseInv, SurveyInv, NEW h \in Host, Hosted(h)
  PROVE  LogInv'
<1>0. UNCHANGED cutoff
  BY HostFrame
<1>1. CASE PublishBase(h)
  <2>1. job[h] \in Base /\ job[h] \notin Segment
    BY <1>1, Sorts DEF PublishBase, At, Placed
  <2>2. /\ UNCHANGED wal /\ time' = time + 1 /\ stamp'[job[h]] = time + 1
        /\ \A o \in Segment \cup Base : o # job[h] => stamp'[o] = stamp[o]
    BY <1>1, <2>1 DEF PublishBase, Published, TypeOK
  <2>3. \A o \in Segment : stamp'[o] = stamp[o]
    BY <2>1, <2>2
  <2>4. ASSUME NEW o \in Segment \cup Base
        PROVE  stamp'[o] <= time'
    <3>1. time \in Nat /\ stamp[o] \in Nat /\ stamp[o] <= time
      BY DEF TypeOK, LogInv
    <3>2. stamp'[o] = time + 1 \/ stamp'[o] = stamp[o]
      BY <2>2
    <3> QED
      BY <2>2, <3>1, <3>2
  <2> QED
    BY <1>0, <2>2, <2>3, <2>4, Sorts DEF LogInv, Top, TypeOK
<1>2. CASE ~PublishBase(h) /\ UNCHANGED wal
  <2>1. UNCHANGED <<wal, stamp, time, cutoff>>
    BY <1>0, <1>2, ArchiveKept
  <2> QED
    BY <2>1 DEF LogInv, Top
<1>3. CASE ~PublishBase(h) /\ wal' # wal
  <2>1. UNCHANGED <<stamp, time, cutoff>> /\ DeleteWal(h)
    BY <1>0, <1>3, ArchiveKept
  <2>2. PICK n \in Segment : /\ wal' = wal \ {n} /\ n # Newest
                             /\ stamp[n] \in 1..survey[h].cutoff /\ survey[h].cutoff <= cutoff
    BY <1>3, <2>1, Deleted
  <2>3. ~(stamp[n] > cutoff)
    BY <2>2 DEF TypeOK
  <2>4. Newest \in Segment \cup {0} /\ Top(Newest)
    BY NewestTop
  <2>5. PICK k : k = Newest
    OBVIOUS
  <2>6. Top(k)'
    BY <2>1, <2>2, <2>4, <2>5 DEF Top
  <2> QED
    BY <2>1, <2>2, <2>3, <2>4, <2>5, <2>6 DEF LogInv
<1> QED
  BY <1>1, <1>2, <1>3

(* The largest of some numbers.                                            *)
LEMMA Largest ==
  ASSUME NEW S, S \subseteq Nat, NEW k \in S, \A n \in S : n <= k
  PROVE  Max(S) = k
<1>1. \A n \in S : (\A m \in S : n >= m) => n = k
  <2>1. ASSUME NEW n \in S, \A m \in S : n >= m
        PROVE  n = k
    <3>1. n >= k /\ n <= k /\ n \in Nat /\ k \in Nat
      BY <2>1
    <3> QED
      BY <3>1
  <2> QED
    BY <2>1
<1>2. \A m \in S : k >= m
  OBVIOUS
<1> QED
  BY <1>1, <1>2 DEF Max

LEMMA NewestNext ==
  ASSUME TypeOK', NEW k \in Segment \cup {0}, Top(k)', \A n \in wal' : stamp'[n] > 0
  PROVE  Newest' = k
<1>1. wal' \cup {0} \subseteq Nat /\ k \in wal' \cup {0}
  BY Sorts DEF TypeOK, Top
<1>2. \A n \in wal' \cup {0} : n <= k
  BY <1>1, Sorts DEF Top, TypeOK
<1> QED
  BY <1>1, <1>2, Largest DEF Newest

-----------------------------------------------------------------------------
(* Base backups.                                                           *)
LEMMA BaseApart ==
  ASSUME TypeOK, LogInv, BaseInv, Placed, RecoverLease \/ Age \/ \E n \in Segment : ArchiveWal(n)
  PROVE  BaseInv'
<1>1. UNCHANGED <<bases, prompt, endWal, pc, job>>
  BY DEF RecoverLease, Age, ArchiveWal, local, remote
<1>2. CASE RecoverLease \/ Age
  <2>1. UNCHANGED stamp
    BY <1>2 DEF RecoverLease, Age, remote
  <2> QED
    BY <1>1, <2>1 DEF BaseInv
<1>3. ASSUME NEW n \in Segment, ArchiveWal(n)
      PROVE  BaseInv'
  <2>1. \A b \in Base : stamp'[b] = stamp[b]
    BY <1>3, Sorts DEF ArchiveWal, Published, TypeOK
  <2>2. \A o \in Segment : stamp[o] > 0 => stamp'[o] > 0
    BY <1>3 DEF ArchiveWal, Published, TypeOK
  <2>3. endWal \in [Base -> Segment \cup {0}] /\ bases \cup prompt \subseteq Base
    BY DEF TypeOK
  <2>4. \A b \in Base : endWal[b] # 0 => endWal[b] \in Segment
    BY <2>3
  <2> QED
    BY <1>1, <2>1, <2>2, <2>3, <2>4 DEF BaseInv, Placed
<1> QED
  BY <1>2, <1>3

LEMMA BasePlan ==
  ASSUME TypeOK, BaseInv, NEW p \in Plan, Planned(p)
  PROVE  BaseInv'
<1>1. UNCHANGED <<bases, stamp, prompt, endWal, job>> /\ \A h \in Host : pc'[h] = pc[h]
  BY PlanFrame, Sorts DEF Elsewhere
<1> QED
  BY <1>1 DEF BaseInv

LEMMA BaseHost ==
  ASSUME TypeOK, Placed, LogInv, BaseInv, NEW h \in Host, Hosted(h)
  PROVE  BaseInv'
<1> USE DEF At
<1>1. Elsewhere(h) /\ pc \in [Process -> PlanLocation \cup HostLocation] /\ job \in [Host -> Plan \cup Base \cup {NoJob}]
      /\ stamp \in [Segment \cup Base -> Nat] /\ endWal \in [Base -> Segment \cup {0}] /\ time \in Nat
      /\ bases \cup prompt \subseteq Base
  BY HostFrame DEF TypeOK
<1>2. ASSUME NEW b \in Base, HomeOf[b] = h, TakeBase(b)
      PROVE  BaseInv'
  <2>1. /\ endWal[b] = 0 /\ Newest \in wal /\ job'[h] = b
        /\ endWal' = [endWal EXCEPT ![b] = Newest]
        /\ UNCHANGED <<bases, stamp, prompt>>
    BY <1>1, <1>2 DEF TakeBase, EndSegment, remote
  <2>2. Newest # 0 /\ stamp[Newest] > 0
    BY <2>1, Sorts DEF TypeOK, LogInv
  <2>3. stamp[b] = 0
    BY <1>1, <2>1 DEF BaseInv
  <2>4. ASSUME NEW g \in Host \ {h}, pc'[g] = "publish"
        PROVE  stamp'[job'[g]] = 0 /\ endWal'[job'[g]] # 0
    <3>1. pc[g] = "publish" /\ job'[g] = job[g]
      BY <1>1, <2>4, Sorts DEF Elsewhere
    <3>2. job[g] \in Base /\ job[g] # b /\ stamp[job[g]] = 0 /\ endWal[job[g]] # 0
      BY <1>2, <3>1 DEF Placed, BaseInv
    <3> QED
      BY <1>1, <2>1, <3>1, <3>2
  <2> QED
    BY <1>1, <2>1, <2>2, <2>3, <2>4 DEF BaseInv
<1>3. CASE PublishBase(h)
  <2>1. /\ job[h] \in Base /\ HomeOf[job[h]] = h /\ stamp[job[h]] = 0 /\ endWal[job[h]] # 0
    BY <1>3 DEF PublishBase, Placed, BaseInv
  <2>2. /\ bases' \cup prompt' \subseteq bases \cup prompt \cup {job[h]}
        /\ stamp'[job[h]] = time + 1 /\ pc'[h] = "idle"
        /\ \A o \in Segment \cup Base : o # job[h] => stamp'[o] = stamp[o]
        /\ UNCHANGED endWal
    BY <1>1, <1>3, <2>1, Sorts DEF PublishBase, Published, Finish, GoTo, local
  <2>3. \A o \in Segment : stamp'[o] = stamp[o]
    BY <2>1, <2>2, Sorts
  <2>4. ASSUME NEW g \in Host, pc'[g] = "publish"
        PROVE  stamp'[job'[g]] = 0 /\ endWal'[job'[g]] # 0
    <3>1. g # h /\ pc[g] = "publish" /\ job'[g] = job[g]
      BY <1>1, <2>2, <2>4, Sorts DEF Elsewhere
    <3>2. job[g] \in Base /\ job[g] # job[h] /\ stamp[job[g]] = 0 /\ endWal[job[g]] # 0
      BY <2>1, <3>1 DEF Placed, BaseInv
    <3> QED
      BY <2>2, <3>1, <3>2
  <2>5. \A b \in Base : stamp'[b] > 0 => b = job[h] \/ stamp[b] > 0
    BY <2>2
  <2>6. \A b \in bases \cup prompt : stamp'[b] > 0
    BY <1>1, <2>2 DEF BaseInv
  <2>7. stamp'[job[h]] > 0
    BY <1>1, <2>2
  <2>8. \A b \in Base : endWal[b] # 0 => stamp'[endWal[b]] > 0
    BY <1>1, <2>3 DEF BaseInv
  <2> QED
    BY <2>1, <2>2, <2>4, <2>5, <2>6, <2>7, <2>8 DEF BaseInv
<1>4. CASE ~PublishBase(h) /\ ~\E b \in Base : HomeOf[b] = h /\ TakeBase(b)
  <2>1. UNCHANGED <<stamp, prompt>> /\ bases' \subseteq bases
    BY <1>4, ArchiveKept DEF DeleteBase, Unpublish
  <2>2. UNCHANGED endWal
    BY <1>4 DEF Hosted, HostStep, StartRetention, Download, Fail, InterruptRelease, Crash, Execute, Cutover, CheckLease,
      CheckPin, SaveRestore, SaveExecuting, HandoffLease, HandoffPin, SaveVerified, SaveVerifiedPlan, ReleasePlanPin,
      FailPlan, Finalize, CutoverLease, ReleaseRestorePin, RetentionLease, Survey, Decide, DeleteBase, DeleteWal, local
  <2>3. pc'[h] # "publish"
    BY <1>1, <1>4, Sorts DEF Hosted, HostStep, StartRetention, Download, Fail, InterruptRelease, Crash, Execute, Cutover, CheckLease,
      CheckPin, SaveRestore, SaveExecuting, HandoffLease, HandoffPin, SaveVerified, SaveVerifiedPlan, ReleasePlanPin,
      FailPlan, Finalize, CutoverLease, ReleaseRestorePin, RetentionLease, Survey, Decide, DeleteBase, DeleteWal, local,
      Abort, Finish, Go, GoTo
  <2>4. \A g \in Host : pc'[g] = "publish" => pc[g] = "publish" /\ job'[g] = job[g]
    BY <1>1, <2>3, Sorts DEF Elsewhere
  <2> QED
    BY <2>1, <2>2, <2>4 DEF BaseInv
<1> QED
  BY <1>2, <1>3, <1>4

-----------------------------------------------------------------------------
(* Retention.                                                              *)

(* What others may do while a host decides and deletes.                    *)
Aside(h) ==
  /\ UNCHANGED <<pins, graph>> /\ wal \subseteq wal'
  /\ \A b \in bases' \cap prompt' : b \in bases \cap prompt \/ Spared(survey[h], b)'

LEMMA SurveyAside ==
  ASSUME TypeOK, BaseInv, PinnedGraphKept, NEW h \in Host, SurveyOf(h), cutoff' \in Nat, cutoff <= cutoff',
         survey'[h] = survey[h], pc'[h] = pc[h],
         \A o \in Segment \cup Base : stamp[o] > 0 => stamp'[o] = stamp[o],
         \A b \in Base : endWal[b] # 0 => endWal'[b] = endWal[b],
         pc[h] \in Deciding => Aside(h)
  PROVE  SurveyOf(h)'
<1> DEFINE s == survey[h]
<1>0. /\ s.cutoff \in Nat /\ s.bases \subseteq Base /\ s.wal \subseteq Segment
      /\ cutoff \in Nat /\ bases \subseteq Base /\ endWal \in [Base -> Segment \cup {0}]
  BY DEF TypeOK
<1>1. s.cutoff <= cutoff'
  BY <1>0 DEF SurveyOf
<1>2. \A b \in s.bases : stamp'[b] > 0
  BY <1>0 DEF SurveyOf
<1>3. ASSUME pc[h] \in Deciding
      PROVE  /\ \A x \in pins : graph[x.plan].base \notin s.bases /\ s.first <= endWal'[graph[x.plan].base]
             /\ \A b \in (bases' \cap prompt') \ s.bases : Spared(s, b)'
  <2>1. ASSUME NEW x \in pins
        PROVE  graph[x.plan].base \notin s.bases /\ s.first <= endWal'[graph[x.plan].base]
    <3>1. graph[x.plan].base \in bases
      BY DEF PinnedGraphKept
    <3>2. endWal'[graph[x.plan].base] = endWal[graph[x.plan].base]
      BY <1>0, <3>1 DEF BaseInv
    <3> QED
      BY <1>3, <3>2 DEF SurveyOf
  <2>2. ASSUME NEW b \in (bases' \cap prompt') \ s.bases, b \in bases \cap prompt
        PROVE  Spared(s, b)'
    <3>1. endWal'[b] = endWal[b] /\ endWal[b] \in Segment /\ stamp[endWal[b]] > 0
      BY <1>0, <2>2 DEF BaseInv
    <3>2. stamp'[endWal[b]] = stamp[endWal[b]]
      BY <3>1
    <3>3. Spared(s, b)
      BY <1>3, <2>2 DEF SurveyOf
    <3> QED
      BY <3>1, <3>2, <3>3 DEF Spared
  <2> QED
    BY <1>3, <2>1, <2>2 DEF Aside
<1>4. ASSUME pc[h] \in Deleting
      PROVE  s.first \in wal' /\ \A n \in s.wal : n < s.first /\ stamp'[n] \in 1..s.cutoff
  <2>1. s.first \in wal'
    BY <1>4 DEF SurveyOf, Aside, Deleting, Deciding
  <2>2. ASSUME NEW n \in s.wal
        PROVE  n < s.first /\ stamp'[n] \in 1..s.cutoff
    <3>1. n \in Segment /\ n < s.first /\ stamp[n] \in 1..s.cutoff
      BY <1>0, <1>4 DEF SurveyOf
    <3>2. stamp[n] > 0
      BY <1>0, <3>1
    <3> QED
      BY <3>1, <3>2
  <2> QED
    BY <2>1, <2>2
<1>5. pc[h] \in Deciding => UNCHANGED <<pins, graph>>
  BY DEF Aside
<1> QED
  BY <1>1, <1>2, <1>3, <1>4, <1>5 DEF SurveyOf

LEMMA SurveyApart ==
  ASSUME TypeOK, LogInv, BaseInv, PinnedGraphKept, SurveyInv, RecoverLease \/ Age \/ \E n \in Segment : ArchiveWal(n)
  PROVE  SurveyInv'
<1>1. UNCHANGED <<bases, pins, graph, prompt, endWal, pc, survey>> /\ wal \subseteq wal'
  BY DEF RecoverLease, Age, ArchiveWal, local, remote
<1>2. cutoff \in Nat /\ cutoff' \in Nat /\ cutoff <= cutoff'
  BY DEF TypeOK, RecoverLease, Age, ArchiveWal
<1>3. \A o \in Segment \cup Base : stamp[o] > 0 => stamp'[o] = stamp[o]
  BY DEF RecoverLease, Age, ArchiveWal, Published, remote, TypeOK
<1>4. ASSUME NEW h \in Host
      PROVE  SurveyOf(h)'
  <2>1. Aside(h)
    BY <1>1 DEF Aside
  <2> QED
    BY <1>1, <1>2, <1>3, <2>1, SurveyAside DEF SurveyInv
<1> QED
  BY <1>4 DEF SurveyInv

LEMMA SurveyPlan ==
  ASSUME TypeOK, GuardInv, BaseInv, PinnedGraphKept, SurveyInv, NEW p \in Plan, Planned(p)
  PROVE  SurveyInv'
<1>1. UNCHANGED <<wal, bases, stamp, cutoff, prompt, endWal, survey>> /\ \A h \in Host : pc'[h] = pc[h]
  <2>1. UNCHANGED cutoff
    BY DEF Planned, PlanStep, PlanLease, PlanSelect, CreatePlanPin, SavePlan, Crash
  <2> QED
    BY <2>1, PlanFrame, Sorts DEF Elsewhere
<1>2. ~InGuard(p) => UNCHANGED <<pins, graph>>
  BY DEF Planned, PlanStep, PlanLease, PlanSelect, CreatePlanPin, SavePlan, Crash, InGuard, At, remote, local
<1>3. ASSUME NEW h \in Host
      PROVE  SurveyOf(h)'
  <2>1. pc[h] \in Deciding => Aside(h)
    <3>1. pc[h] \in Deciding => InGuard(h)
      BY DEF Deciding, InGuard
    <3>2. pc[h] \in Deciding => ~InGuard(p)
      BY <3>1, Alone, Sorts
    <3> QED
      BY <1>1, <1>2, <3>2 DEF Aside
  <2>2. cutoff \in Nat
    BY DEF TypeOK
  <2> QED
    BY <1>1, <2>1, <2>2, SurveyAside DEF SurveyInv
<1> QED
  BY <1>3 DEF SurveyInv

(* Only inside does a host change the pins or delete.                      *)
LEMMA Outside ==
  ASSUME NEW h \in Host, Hosted(h), ~InGuard(h)
  PROVE  UNCHANGED pins /\ ~DeleteBase(h) /\ ~DeleteWal(h)
BY DEF Hosted, HostStep, StartRetention, Download, Fail, InterruptRelease, Crash, TakeBase, Execute, Cutover, PublishBase, CheckLease,
  CheckPin, SaveRestore, SaveExecuting, HandoffLease, HandoffPin, SaveVerified, SaveVerifiedPlan, ReleasePlanPin,
  FailPlan, Finalize, CutoverLease, ReleaseRestorePin, RetentionLease, Survey, Decide, DeleteBase, DeleteWal, remote,
  InGuard, At

(* What stays when a host takes a step.                                    *)
LEMMA TakenOnce ==
  ASSUME TypeOK, Placed, BaseInv, NEW h \in Host, Hosted(h)
  PROVE  /\ \A o \in Segment \cup Base : stamp[o] > 0 => stamp'[o] = stamp[o]
         /\ \A b \in Base : endWal[b] # 0 => endWal'[b] = endWal[b]
<1>1. \A o \in Segment \cup Base : stamp[o] > 0 => stamp'[o] = stamp[o]
  <2>1. CASE PublishBase(h)
    BY <2>1 DEF PublishBase, Published, BaseInv, At, TypeOK
  <2> QED
    BY <2>1, ArchiveKept
<1>2. \A b \in Base : endWal[b] # 0 => endWal'[b] = endWal[b]
  BY DEF Hosted, HostStep, StartRetention, Download, Fail, InterruptRelease, Crash, TakeBase, Execute, Cutover, PublishBase, CheckLease,
    CheckPin, SaveRestore, SaveExecuting, HandoffLease, HandoffPin, SaveVerified, SaveVerifiedPlan, ReleasePlanPin,
    FailPlan, Finalize, CutoverLease, ReleaseRestorePin, RetentionLease, Survey, Decide, DeleteBase, DeleteWal, local,
    TypeOK
<1> QED
  BY <1>1, <1>2

LEMMA SurveyOther ==
  ASSUME TypeOK, Placed, GuardInv, BaseInv, PinnedGraphKept, SurveyInv, NEW h \in Host, Hosted(h), NEW g \in Host \ {h}
  PROVE  SurveyOf(g)'
<1>1. Elsewhere(h) /\ UNCHANGED <<graph, cutoff>>
  BY HostFrame
<1>2. pc'[g] = pc[g] /\ survey'[g] = survey[g] /\ cutoff \in Nat
  BY <1>1, Sorts DEF Elsewhere, TypeOK
<1>3. ASSUME pc[g] \in Deciding
      PROVE  Aside(g)
  <2>1. ~InGuard(h)
    BY <1>3, Alone, Sorts DEF InGuard, Deciding
  <2>2. UNCHANGED pins /\ ~DeleteBase(h) /\ ~DeleteWal(h)
    BY <2>1, Outside
  <2>3. CASE PublishBase(h)
    <3>1. PICK b \in Base : b = job[h]
      BY <2>3 DEF PublishBase, Placed, At
    <3>2. /\ UNCHANGED <<wal, endWal>> /\ bases' = bases \cup {b}
          /\ prompt' = IF stamp[endWal[b]] > cutoff THEN prompt \cup {b} ELSE prompt
          /\ stamp[b] = 0 /\ endWal[b] # 0
      BY <2>3, <3>1 DEF PublishBase, BaseInv, At, local
    <3>3. b \notin prompt
      BY <3>2 DEF BaseInv
    <3>4. ASSUME stamp[endWal[b]] > cutoff
          PROVE  Spared(survey[g], b)'
      <4>1. endWal[b] \in Segment /\ stamp[endWal[b]] > 0
        BY <3>2 DEF TypeOK, BaseInv
      <4>2. stamp'[endWal[b]] = stamp[endWal[b]]
        BY <4>1, TakenOnce
      <4>3. survey[g].cutoff <= cutoff /\ survey[g].cutoff \in Nat /\ stamp[endWal[b]] \in Nat
        BY <4>1 DEF SurveyInv, SurveyOf, TypeOK
      <4>4. stamp[endWal[b]] > survey[g].cutoff
        BY <1>2, <3>4, <4>3
      <4> QED
        BY <1>2, <3>2, <4>2, <4>4 DEF Spared
    <3> QED
      BY <1>1, <2>2, <3>2, <3>3, <3>4 DEF Aside
  <2>4. CASE ~PublishBase(h)
    BY <1>1, <2>2, <2>4, ArchiveKept DEF Aside
  <2> QED
    BY <2>3, <2>4
<1> QED
  BY <1>1, <1>2, <1>3, TakenOnce, SurveyAside DEF SurveyInv

(* A retention that is over, or not yet deciding.                          *)
LEMMA SurveyIdle ==
  ASSUME TypeOK, LogInv, BaseInv, NEW h \in Host, SurveyOf(h), UNCHANGED cutoff, pc'[h] \notin Deciding,
         survey'[h] \in {NoSurvey, survey[h], [NoSurvey EXCEPT !.cutoff = cutoff]},
         \A b \in Base : stamp[b] > 0 => stamp'[b] > 0
  PROVE  SurveyOf(h)'
<1>1. survey[h].bases \subseteq Base /\ survey[h].cutoff <= cutoff /\ \A b \in survey[h].bases : stamp[b] > 0
  BY DEF TypeOK, SurveyOf
<1>2. cutoff \in Nat
  BY DEF TypeOK
<1>3. survey'[h].cutoff <= cutoff /\ \A b \in survey'[h].bases : stamp'[b] > 0
  BY <1>1, <1>2 DEF NoSurvey
<1> QED
  BY <1>3 DEF SurveyOf, Deciding, Deleting

(* The actions of retention after it has the lease.                        *)
Retaining(h) == Survey(h) \/ Decide(h) \/ DeleteBase(h) \/ DeleteWal(h)

LEMMA NotRetaining ==
  ASSUME TypeOK, Placed, NEW h \in Host, Hosted(h), ~Retaining(h)
  PROVE  /\ pc'[h] \notin Deciding
         /\ survey'[h] \in {NoSurvey, survey[h], [NoSurvey EXCEPT !.cutoff = cutoff]}
<1> USE Sorts DEF GoTo, Go, Finish, Deciding, At
<1>1. pc \in [Process -> PlanLocation \cup HostLocation] /\ DOMAIN survey = Host
  BY DEF TypeOK
<1>2. CASE \/ StartRetention(h) \/ Crash(h) \/ Download(h) \/ Fail(h) \/ InterruptRelease(h)
           \/ \E b \in Base : HomeOf[b] = h /\ TakeBase(b)
           \/ \E p \in Plan : HomeOf[p] = h /\ (Execute(p) \/ Cutover(p))
  BY <1>1, <1>2 DEF StartRetention, Crash, Download, Fail, InterruptRelease, TakeBase, Execute, Cutover
<1>3. CASE \/ PublishBase(h) \/ CheckLease(h) \/ CheckPin(h) \/ SaveRestore(h) \/ SaveExecuting(h) \/ HandoffLease(h)
           \/ HandoffPin(h) \/ SaveVerified(h) \/ SaveVerifiedPlan(h)
  BY <1>1, <1>3 DEF PublishBase, CheckLease, CheckPin, SaveRestore, SaveExecuting, HandoffLease, HandoffPin, SaveVerified,
    SaveVerifiedPlan
<1>4. CASE \/ ReleasePlanPin(h) \/ FailPlan(h) \/ Finalize(h) \/ CutoverLease(h) \/ ReleaseRestorePin(h)
           \/ RetentionLease(h)
  BY <1>1, <1>4 DEF ReleasePlanPin, FailPlan, Finalize, CutoverLease, ReleaseRestorePin, RetentionLease
<1> QED
  BY <1>2, <1>3, <1>4 DEF Hosted, HostStep, Retaining

LEMMA SurveySelf ==
  ASSUME TypeOK, Placed, LogInv, BaseInv, PinnedGraphKept, SurveyInv, NEW h \in Host, Hosted(h)
  PROVE  SurveyOf(h)'
<1> DEFINE s == survey[h]
<1>0. UNCHANGED cutoff /\ \A b \in Base : stamp[b] > 0 => stamp'[b] > 0
  BY HostFrame, TakenOnce DEF TypeOK
<1>1. /\ s \in [cutoff : Nat, first : Segment \cup {0}, bases : SUBSET Base, wal : SUBSET Segment]
      /\ pc \in [Process -> PlanLocation \cup HostLocation] /\ DOMAIN survey = Host /\ h \in Process
  BY Sorts DEF TypeOK
<1>2. SurveyOf(h)
  BY DEF SurveyInv
<1>3. Finish(h) => SurveyOf(h)'
  <2>1. Finish(h) => pc'[h] \notin Deciding /\ survey'[h] = NoSurvey
    BY <1>1 DEF Finish, GoTo, Deciding
  <2> QED
    BY <1>0, <1>2, <2>1, SurveyIdle
<1>4. CASE ~Retaining(h)
  BY <1>0, <1>2, <1>4, NotRetaining, SurveyIdle
<1>5. CASE Survey(h) /\ ~Finish(h)
  <2>1. /\ pc[h] = "survey" /\ Retained(h) # {} /\ Retained(h) \subseteq bases /\ pc'[h] = "decide"
        /\ survey'[h] = [survey[h] EXCEPT !.bases = bases \ Retained(h), !.first = First(Retained(h))]
        /\ UNCHANGED <<bases, pins, prompt, stamp, endWal, graph>>
    BY <1>1, <1>5 DEF Survey, Abort, At, GoTo, remote, local
  <2>2. PICK R, f : R = Retained(h) /\ f = First(R)
    OBVIOUS
  <2>3. /\ survey'[h].cutoff = s.cutoff /\ survey'[h].first = f /\ survey'[h].bases = bases \ R
    BY <1>1, <2>1, <2>2
  <2>4. \A b \in R : f <= endWal[b]
    BY <2>1, <2>2, FirstNeeded, TypeParts DEF Types
  <2>5. \A x \in pins : graph[x.plan].base \in R
    BY <2>2 DEF Retained, RemotelyPinned
  <2>6. \A b \in bases : stamp[b] > 0
    BY DEF BaseInv
  <2>7. s.cutoff <= cutoff'
    BY <1>0, <1>2 DEF SurveyOf
  <2> QED
    BY <2>1, <2>3, <2>4, <2>5, <2>6, <2>7 DEF SurveyOf, Deciding, Deleting, Spared
<1>6. CASE Decide(h) /\ ~Finish(h)
  <2>1. /\ pc[h] = "decide" /\ s.first \in wal /\ pc'[h] = "deleteBases"
        /\ survey'[h] = [survey[h] EXCEPT !.wal = {n \in wal : n < survey[h].first /\ stamp[n] <= survey[h].cutoff}]
        /\ UNCHANGED <<wal, bases, pins, prompt, stamp, endWal, graph>>
    BY <1>1, <1>6 DEF Decide, Abort, At, GoTo, remote, local
  <2>2. PICK W : W = {n \in wal : n < survey[h].first /\ stamp[n] <= survey[h].cutoff}
    OBVIOUS
  <2>3. /\ survey'[h].cutoff = s.cutoff /\ survey'[h].first = s.first /\ survey'[h].bases = s.bases
        /\ survey'[h].wal = W
    BY <1>1, <2>1, <2>2
  <2>4. \A n \in W : n < s.first /\ stamp[n] \in 1..s.cutoff
    <3>1. ASSUME NEW n \in W
          PROVE  n < s.first /\ stamp[n] \in 1..s.cutoff
      <4>1. n \in wal /\ n < s.first /\ stamp[n] <= s.cutoff
        BY <2>2
      <4>2. stamp[n] > 0 /\ stamp[n] \in Nat /\ s.cutoff \in Nat
        BY <1>1, <4>1 DEF LogInv, TypeOK
      <4> QED
        BY <4>1, <4>2
    <3> QED
      BY <3>1
  <2>5. /\ s.cutoff <= cutoff' /\ \A b \in s.bases : stamp[b] > 0
        /\ \A x \in pins : graph[x.plan].base \notin s.bases /\ s.first <= endWal[graph[x.plan].base]
        /\ \A b \in (bases \cap prompt) \ s.bases : Spared(s, b)
    BY <1>0, <1>2, <2>1 DEF SurveyOf, Deciding
  <2> QED
    BY <2>1, <2>3, <2>4, <2>5 DEF SurveyOf, Deciding, Deleting, Spared
<1>7. CASE DeleteBase(h) /\ ~Finish(h)
  <2>1. PICK D : /\ D \in SUBSET s.bases /\ survey'[h] = [s EXCEPT !.bases = D] /\ bases' = bases \ (s.bases \ D)
                 /\ pc'[h] \in Deleting /\ (pc'[h] = "deleteWal" => D = {})
    <3>1. CASE UNCHANGED <<bases, survey>> /\ s.bases = {} /\ GoTo(h, "deleteWal")
      <4>1. s = [s EXCEPT !.bases = s.bases]
        BY <1>1
      <4> QED
        BY <1>1, <3>1, <4>1 DEF GoTo, Deleting
    <3>2. ASSUME NEW b \in s.bases, bases' = bases \ {b}, survey' = [survey EXCEPT ![h].bases = s.bases \ {b}],
                 UNCHANGED pc, pc[h] = "deleteBases"
          PROVE  \E D : /\ D \in SUBSET s.bases /\ survey'[h] = [s EXCEPT !.bases = D] /\ bases' = bases \ (s.bases \ D)
                 /\ pc'[h] \in Deleting /\ (pc'[h] = "deleteWal" => D = {})
      <4>1. survey'[h] = [s EXCEPT !.bases = s.bases \ {b}]
        BY <1>1, <3>2
      <4>2. bases' = bases \ (s.bases \ (s.bases \ {b}))
        BY <3>2
      <4> QED
        BY <3>2, <4>1, <4>2 DEF Deleting
    <3> QED
      BY <1>7, <3>1, <3>2 DEF DeleteBase, Abort, Unpublish, At
  <2>2. /\ survey'[h].cutoff = s.cutoff /\ survey'[h].first = s.first /\ survey'[h].bases = D /\ survey'[h].wal = s.wal
    BY <1>1, <2>1
  <2>3. /\ pc[h] = "deleteBases" /\ UNCHANGED <<wal, pins, prompt, stamp, endWal, graph>>
    BY <1>7 DEF DeleteBase, At, local
  <2>4. /\ s.cutoff <= cutoff' /\ \A b \in s.bases : stamp[b] > 0
        /\ \A x \in pins : graph[x.plan].base \notin s.bases /\ s.first <= endWal[graph[x.plan].base]
        /\ \A b \in (bases \cap prompt) \ s.bases : Spared(s, b)
        /\ s.first \in wal /\ \A n \in s.wal : n < s.first /\ stamp[n] \in 1..s.cutoff
    BY <1>0, <1>2, <2>3 DEF SurveyOf, Deciding, Deleting
  <2>5. (bases' \cap prompt) \ D \subseteq (bases \cap prompt) \ s.bases
    BY <2>1
  <2> QED
    BY <2>1, <2>2, <2>3, <2>4, <2>5 DEF SurveyOf, Spared
<1>8. CASE DeleteWal(h) /\ ~Finish(h)
  <2>1. PICK W : /\ W \subseteq s.wal /\ survey'[h] = [s EXCEPT !.wal = W] /\ wal \ s.wal \subseteq wal' /\ UNCHANGED pc
    <3>1. CASE UNCHANGED <<wal, survey, pc>>
      <4>1. s = [s EXCEPT !.wal = s.wal]
        BY <1>1
      <4> QED
        BY <3>1, <4>1
    <3>2. ASSUME NEW n \in s.wal, wal' = wal \ {n}, survey' = [survey EXCEPT ![h].wal = s.wal \ {n}], UNCHANGED pc
          PROVE  \E W : W \subseteq s.wal /\ survey'[h] = [s EXCEPT !.wal = W] /\ wal \ s.wal \subseteq wal' /\ UNCHANGED pc
      <4>1. survey'[h] = [s EXCEPT !.wal = s.wal \ {n}]
        BY <1>1, <3>2
      <4> QED
        BY <3>2, <4>1
    <3> QED
      BY <1>8, <3>1, <3>2, Deleted
  <2>2. /\ survey'[h].cutoff = s.cutoff /\ survey'[h].first = s.first /\ survey'[h].bases = s.bases /\ survey'[h].wal = W
    BY <1>1, <2>1
  <2>3. /\ pc[h] = "deleteWal" /\ UNCHANGED <<bases, pins, prompt, stamp, endWal, graph>>
    BY <1>8 DEF DeleteWal, At, local
  <2>4. /\ s.cutoff <= cutoff' /\ s.bases = {}
        /\ \A x \in pins : graph[x.plan].base \notin s.bases /\ s.first <= endWal[graph[x.plan].base]
        /\ \A b \in (bases \cap prompt) \ s.bases : Spared(s, b)
        /\ s.first \in wal /\ \A n \in s.wal : n < s.first /\ stamp[n] \in 1..s.cutoff
    BY <1>0, <1>2, <2>3 DEF SurveyOf, Deciding, Deleting
  <2>5. s.first \notin s.wal
    <3>1. s.first \in Nat
      <4>1. s.first \in Segment
        BY <2>4 DEF TypeOK
      <4> QED
        BY <4>1, Sorts
    <3>2. s.first \in s.wal => s.first < s.first
      BY <2>4
    <3> QED
      BY <3>1, <3>2
  <2>6. s.first \in wal'
    BY <2>1, <2>4, <2>5
  <2> QED
    BY <2>1, <2>2, <2>3, <2>4, <2>6 DEF SurveyOf, Spared
<1> QED
  BY <1>3, <1>4, <1>5, <1>6, <1>7, <1>8 DEF Retaining

LEMMA SurveyHost ==
  ASSUME TypeOK, Placed, GuardInv, LogInv, BaseInv, PinnedGraphKept, SurveyInv, NEW h \in Host, Hosted(h)
  PROVE  SurveyInv'
BY SurveySelf, SurveyOther DEF SurveyInv

-----------------------------------------------------------------------------
(* Pins.                                                                   *)
LEMMA Kinds ==
  /\ \A x \in Pin : x.plan \in Plan /\ (x = PlanPin(x.plan) \/ x = RestorePin(x.plan))
  /\ \A p, q \in Plan : (PlanPin(p) = PlanPin(q) <=> p = q) /\ (RestorePin(p) = RestorePin(q) <=> p = q)
  /\ \A p, q \in Plan : PlanPin(p) # RestorePin(q) /\ PlanPin(p).plan = p /\ RestorePin(p).plan = p
<1>1. \A p \in Plan : /\ PlanPin(p).plan = p /\ PlanPin(p).kind = "plan"
                      /\ RestorePin(p).plan = p /\ RestorePin(p).kind = "restore"
  BY DEF PlanPin, RestorePin
<1>2. ASSUME NEW x \in Pin
      PROVE  x.plan \in Plan /\ (x = PlanPin(x.plan) \/ x = RestorePin(x.plan))
  BY DEF Pin, PlanPin, RestorePin
<1>3. ASSUME NEW p \in Plan, NEW q \in Plan
      PROVE  /\ (PlanPin(p) = PlanPin(q) <=> p = q) /\ (RestorePin(p) = RestorePin(q) <=> p = q)
             /\ PlanPin(p) # RestorePin(q)
  BY <1>1
<1> QED
  BY <1>1, <1>2, <1>3

(* What a host makes of the pins.                                          *)
HandsOver(h) == plan[job[h]] = "executing" /\ HandoffPin(h) /\ pins' = pins \cup {RestorePin(job[h])}
LetsGo(h) ==
  \/ plan[job[h]] = "verified" /\ RestorePin(job[h]) \in pins /\ pins' = pins \ {PlanPin(job[h])}
  \/ restore[job[h]] = "finalized" /\ ReleaseRestorePin(h) /\ pins' = pins \ {RestorePin(job[h])}

LEMMA HostPins ==
  ASSUME TypeOK, Placed, JobInv, RecoveryStatePinned, NEW h \in Host, Hosted(h)
  PROVE  UNCHANGED pins \/ (job[h] \in Plan /\ HomeOf[job[h]] = h /\ (HandsOver(h) \/ LetsGo(h)))
<1>1. CASE HandoffPin(h) \/ ReleasePlanPin(h) \/ InterruptRelease(h) \/ ReleaseRestorePin(h)
  <2>1. job[h] \in Plan /\ HomeOf[job[h]] = h
    BY <1>1 DEF HandoffPin, ReleasePlanPin, InterruptRelease, ReleaseRestorePin, At, Placed, Restoring, Executing, Cutting
  <2>2. CASE HandoffPin(h)
    <3>1. plan[job[h]] = "executing"
      BY <2>2 DEF HandoffPin, At, JobInv, JobOf, Undoing, Executing
    <3> QED
      BY <2>1, <2>2, <3>1 DEF HandoffPin, HandedOver, HandsOver
  <2>3. CASE ReleasePlanPin(h) \/ InterruptRelease(h)
    <3>1. plan[job[h]] = "verified" /\ restore[job[h]] = "verified"
      BY <2>3 DEF ReleasePlanPin, InterruptRelease, At, JobInv, JobOf
    <3>2. RestorePin(job[h]) \in pins
      BY <2>1, <3>1 DEF RecoveryStatePinned
    <3> QED
      BY <2>1, <2>3, <3>1, <3>2 DEF ReleasePlanPin, InterruptRelease, MayReleasePin, LetsGo
  <2>4. CASE ReleaseRestorePin(h)
    BY <2>1, <2>4 DEF ReleaseRestorePin, At, JobInv, JobOf, MayReleasePin, LetsGo
  <2> QED
    BY <1>1, <2>2, <2>3, <2>4
<1>2. CASE ~HandoffPin(h) /\ ~ReleasePlanPin(h) /\ ~InterruptRelease(h) /\ ~ReleaseRestorePin(h)
  BY <1>2 DEF Hosted, HostStep, StartRetention, Download, Fail, Crash, TakeBase, Execute, Cutover, PublishBase, CheckLease,
    CheckPin, SaveRestore, SaveExecuting, HandoffLease, SaveVerified, SaveVerifiedPlan,
    FailPlan, Finalize, CutoverLease, RetentionLease, Survey, Decide, DeleteBase, DeleteWal, remote
<1> QED
  BY <1>1, <1>2

(* What a plan needs, of which a step takes nothing away.                  *)
Holds(g) == g.base \in bases /\ Needed(g.base, g.last) \subseteq wal

LEMMA HoldsKept ==
  ASSUME TypeOK, Placed, LogInv, BaseInv, SurveyInv, NEW h \in Host, Hosted(h), NEW p \in Plan, Holds(graph[p]),
         pc[h] \in Deciding => \E x \in pins : x.plan = p
  PROVE  Holds(graph[p])'
<1> DEFINE b == graph[p].base
<1>0. b \in Base /\ endWal[b] \in Segment /\ graph'[p] = graph[p] /\ endWal'[b] = endWal[b]
  <2>1. b \in Base /\ b \in bases /\ endWal[b] # 0
    BY DEF Holds, TypeOK, BaseInv
  <2> QED
    BY <2>1, TakenOnce, HostFrame DEF TypeOK
<1>1. ASSUME pc[h] \in Deciding
      PROVE  b \notin survey[h].bases /\ survey[h].first <= endWal[b]
  BY <1>1 DEF SurveyInv, SurveyOf
<1>2. b \in bases'
  <2>1. CASE DeleteBase(h)
    BY <1>1, <2>1 DEF DeleteBase, Unpublish, Deciding, At, Holds
  <2>2. CASE PublishBase(h)
    BY <2>2 DEF PublishBase, Holds
  <2> QED
    BY <2>1, <2>2, ArchiveKept DEF Holds
<1>3. ASSUME NEW m \in Needed(b, graph[p].last)
      PROVE  m \in wal'
  <2>1. m \in wal /\ endWal[b] <= m
    BY <1>0, <1>3 DEF Holds, Needed
  <2>2. CASE DeleteWal(h)
    <3>1. ASSUME NEW n \in survey[h].wal, n < survey[h].first, survey[h].first \in wal, n \in Segment
          PROVE  m # n
      <4>1. n \in Nat /\ survey[h].first \in Nat /\ endWal[b] \in Nat /\ m \in Nat
        <5>1. wal \subseteq Nat
          BY Sorts DEF TypeOK
        <5> QED
          BY <1>0, <2>1, <3>1, <5>1, Sorts
      <4>2. survey[h].first <= endWal[b]
        BY <1>1, <2>2 DEF DeleteWal, At, Deciding
      <4> QED
        BY <2>1, <3>1, <4>1, <4>2
    <3> QED
      BY <2>1, <2>2, <3>1, Deleted
  <2>3. CASE PublishBase(h)
    BY <2>1, <2>3 DEF PublishBase
  <2> QED
    BY <2>1, <2>2, <2>3, ArchiveKept
<1> QED
  BY <1>0, <1>2, <1>3 DEF Holds, Needed

LEMMA PinnedIsHeld == PinnedGraphKept <=> \A x \in pins : Holds(graph[x.plan])
BY DEF PinnedGraphKept, Holds

LEMMA PinnedApart ==
  ASSUME TypeOK, PinnedGraphKept, RecoveryStatePinned, JobInv, PlanInv,
         RecoverLease \/ Age \/ \E n \in Segment : ArchiveWal(n)
  PROVE  PinnedGraphKept' /\ RecoveryStatePinned' /\ JobInv' /\ PlanInv'
<1>1. UNCHANGED <<bases, pins, endWal, graph, plan, restore, pc, job>> /\ wal \subseteq wal'
  BY DEF RecoverLease, Age, ArchiveWal, remote, local
<1>2. PinnedGraphKept'
  BY <1>1 DEF PinnedGraphKept, Needed
<1>3. RecoveryStatePinned' /\ JobInv'
  BY <1>1 DEF RecoveryStatePinned, JobInv, JobOf, Undoing
<1>4. PlanInv'
  BY <1>1 DEF PlanInv, Needed
<1> QED
  BY <1>2, <1>3, <1>4

LEMMA PinnedPlan ==
  ASSUME TypeOK, Placed, LogInv, PinnedGraphKept, RecoveryStatePinned, JobInv, PlanInv, NEW p \in Plan, Planned(p)
  PROVE  PinnedGraphKept' /\ RecoveryStatePinned' /\ JobInv' /\ PlanInv'
<1>1. /\ \A y \in Process \ {p} : pc'[y] = pc[y]
      /\ UNCHANGED <<wal, bases, endWal, restore, job>>
      /\ \A q \in Plan \ {p} : graph'[q] = graph[q] /\ plan'[q] = plan[q]
      /\ pins' = pins \/ pins' = pins \cup {PlanPin(p)}
  BY PlanFrame DEF Elsewhere
<1>2. \A q \in Plan \ {p} : pc'[q] = pc[q]
  BY <1>1, Sorts
<1>3. \A h \in Host : pc'[h] = pc[h]
  BY <1>1, Sorts
<1>4. pc[p] \in PlanLocation /\ pc \in [Process -> PlanLocation \cup HostLocation] /\ p \in Process /\ p \notin Host
      /\ plan \in [Plan -> {"none", "planned", "executing", "failed", "verified"}] /\ DOMAIN graph = Plan
  BY Sorts DEF Placed, TypeOK
<1>5. /\ plan'[p] # plan[p] => pc[p] = "save" /\ plan'[p] = "planned" /\ pc'[p] = "done"
      /\ graph'[p] # graph[p] => pc[p] = "select" /\ pc'[p] = "pin"
      /\ pins' # pins => pc[p] = "pin" /\ pc'[p] \in {"save", "done"}
      /\ pc'[p] \in {"new", "select", "pin"} => pc[p] \in {"new", "select", "pin"}
      /\ pc'[p] = "save" => pc[p] = "pin" /\ pins' = pins \cup {PlanPin(p)}
      /\ pc[p] = "done" => pc'[p] = "done"
      /\ pc'[p] = "pin" => pc[p] = "select" /\ graph'[p].base \in bases /\ Needed(graph'[p].base, graph'[p].last) \subseteq wal
  <2> USE <1>4 DEF At, GoTo, Go, local, remote
  <2>1. CASE PlanLease(p)
    BY <2>1 DEF PlanLease
  <2>2. CASE PlanSelect(p)
    <3>1. ASSUME NEW b \in bases, Contiguous(b), graph' = [graph EXCEPT ![p] = [base |-> b, last |-> Newest]]
          PROVE  graph'[p].base \in bases /\ Needed(graph'[p].base, graph'[p].last) \subseteq wal
      <4>1. PICK k : k = Newest
        OBVIOUS
      <4>2. graph'[p] = [base |-> b, last |-> k]
        BY <3>1, <4>1
      <4>3. Needed(b, k) \subseteq wal
        BY <3>1, <4>1 DEF Contiguous
      <4> QED
        BY <4>2, <4>3
    <3> QED
      BY <2>2, <3>1 DEF PlanSelect
  <2>3. CASE CreatePlanPin(p)
    BY <2>3 DEF CreatePlanPin, PutPin, MayPutPin
  <2>4. CASE SavePlan(p)
    BY <2>4 DEF SavePlan
  <2>5. CASE Crash(p)
    BY <2>5 DEF Crash, PlanLocation
  <2> QED
    BY <2>1, <2>2, <2>3, <2>4, <2>5 DEF Planned, PlanStep
<1>6. pins' = pins \/ (pins' = pins \cup {PlanPin(p)} /\ pc[p] = "pin")
  BY <1>1, <1>5
<1>7. PlanPin(p) \in Pin /\ PlanPin(p).plan = p /\ pins \subseteq Pin /\ \A x \in pins : x.plan \in Plan
  BY Kinds DEF PlanPin, Pin, TypeOK
<1>8. PinnedGraphKept'
  <2>1. ASSUME NEW x \in pins'
        PROVE  LET g == graph'[x.plan] IN g.base \in bases' /\ endWal'[g.base]..g.last \subseteq wal'
    <3>1. CASE x \in pins
      <4>1. x.plan = p => graph'[p] = graph[p]
        BY <1>5, <1>7, <3>1, Kinds DEF PlanInv
      <4> QED
        BY <1>1, <1>7, <3>1, <4>1 DEF PinnedGraphKept, Needed
    <3>2. CASE x = PlanPin(p) /\ pc[p] = "pin"
      BY <1>1, <1>5, <1>7, <3>2 DEF PlanInv, Needed
    <3> QED
      BY <1>6, <3>1, <3>2
  <2> QED
    BY <2>1 DEF PinnedGraphKept, Needed
<1>9. RecoveryStatePinned'
  <2>1. ASSUME NEW q \in Plan
        PROVE  /\ plan'[q] \in {"planned", "executing"} => PlanPin(q) \in pins'
               /\ plan'[q] = "failed" => PlanPin(q) \in pins' \/ RestorePin(q) \in pins'
               /\ restore'[q] \in {"verified", "cutover"} => RestorePin(q) \in pins'
    BY <1>1, <1>5 DEF RecoveryStatePinned, PlanInv
  <2> QED
    BY <2>1 DEF RecoveryStatePinned
<1>10. JobInv'
  <2>1. ASSUME NEW h \in Host
        PROVE  pc[h] \in Beginning \cup Executing \cup {"releasePlanPin"} => plan'[job[h]] = plan[job[h]]
    BY <1>1, <1>5 DEF JobInv, JobOf, Undoing, PlanInv, Placed, Restoring
  <2>2. pins \subseteq pins'
    BY <1>1
  <2> QED
    BY <1>1, <1>3, <2>1, <2>2 DEF JobInv, JobOf, Undoing, Executing
<1>11. PlanInv'
  <2>1. ASSUME NEW q \in Plan \ {p}
        PROVE  /\ pc'[q] # "done" => plan'[q] = "none"
               /\ restore'[q] # "none" => plan'[q] # "none"
               /\ restore'[q] \in {"verified", "cutover", "finalized"} => plan'[q] \in {"executing", "verified"}
               /\ pc'[q] \in {"new", "select", "pin"} => PlanPin(q) \notin pins' /\ RestorePin(q) \notin pins'
               /\ pc'[q] = "save" => PlanPin(q) \in pins'
               /\ pc'[q] = "pin" => graph'[q].base \in bases' /\ endWal'[graph'[q].base]..graph'[q].last \subseteq wal'
    BY <1>1, <1>2, Kinds DEF PlanInv, Needed
  <2>2. /\ pc'[p] # "done" => plan'[p] = "none"
        /\ restore'[p] # "none" => plan'[p] # "none"
        /\ restore'[p] \in {"verified", "cutover", "finalized"} => plan'[p] \in {"executing", "verified"}
        /\ pc'[p] \in {"new", "select", "pin"} => PlanPin(p) \notin pins' /\ RestorePin(p) \notin pins'
        /\ pc'[p] = "save" => PlanPin(p) \in pins'
    BY <1>1, <1>5 DEF PlanInv
  <2>3. pc'[p] = "pin" => graph'[p].base \in bases' /\ endWal'[graph'[p].base]..graph'[p].last \subseteq wal'
    BY <1>1, <1>5 DEF Needed
  <2> QED
    BY <2>1, <2>2, <2>3 DEF PlanInv, Needed
<1> QED
  BY <1>8, <1>9, <1>10, <1>11

LEMMA PinnedHost ==
  ASSUME TypeOK, Placed, LogInv, BaseInv, SurveyInv, PinnedGraphKept, RecoveryStatePinned, JobInv,
         NEW h \in Host, Hosted(h)
  PROVE  PinnedGraphKept'
<1>1. ASSUME NEW x \in pins'
      PROVE  Holds(graph[x.plan])'
  <2>1. PICK y \in pins : y.plan = x.plan
    <3>1. CASE x \in pins
      BY <3>1
    <3>2. CASE x \notin pins
      <4>1. job[h] \in Plan /\ plan[job[h]] = "executing" /\ x = RestorePin(job[h])
        BY <1>1, <3>2, HostPins DEF HandsOver, LetsGo
      <4>2. PlanPin(job[h]) \in pins /\ PlanPin(job[h]).plan = x.plan
        BY <4>1, Kinds DEF RecoveryStatePinned
      <4> QED
        BY <4>2
    <3> QED
      BY <3>1, <3>2
  <2>2. y.plan \in Plan /\ Holds(graph[y.plan])
    BY Kinds, PinnedIsHeld DEF TypeOK
  <2>3. PICK p \in Plan : p = x.plan
    BY <2>1, <2>2
  <2>4. Holds(graph[p])'
    BY <2>1, <2>2, <2>3, HoldsKept
  <2> QED
    BY <2>3, <2>4
<1>2. \A x \in pins' : graph'[x.plan].base \in bases'
                       /\ endWal'[graph'[x.plan].base]..graph'[x.plan].last \subseteq wal'
  BY <1>1 DEF Holds, Needed
<1> QED
  BY <1>2 DEF PinnedGraphKept, Needed

(* What a host makes of the metadata of the plan it works on.              *)
Restored(p, s) == restore' = [restore EXCEPT ![p] = s] /\ UNCHANGED plan
Became(p, s) == plan' = [plan EXCEPT ![p] = s] /\ UNCHANGED restore
MetaStep(p) ==
  \/ Restored(p, "pending") /\ plan[p] \in {"planned", "failed"}
  \/ Restored(p, "verified") /\ plan[p] = "executing" /\ RestorePin(p) \in pins
  \/ Restored(p, "failed") /\ plan[p] \in {"executing", "verified"}
  \/ Restored(p, "finalized") /\ restore[p] = "cutover"
  \/ Restored(p, "cutover") /\ restore[p] \in {"verified", "cutover"}
  \/ Became(p, "executing") /\ plan[p] \in {"planned", "failed"} /\ PlanPin(p) \in pins
  \/ Became(p, "verified") /\ plan[p] = "executing"
  \/ Became(p, "failed") /\ restore[p] = "failed" /\ (plan[p] = "executing" \/ RestorePin(p) \in pins)

LEMMA HostMeta ==
  ASSUME Placed, JobInv, NEW h \in Host, Hosted(h)
  PROVE  UNCHANGED <<plan, restore>> \/ \E p \in Plan : HomeOf[p] = h /\ UNCHANGED pins /\ MetaStep(p)
<1>1. pc[h] \in Restoring => job[h] \in Plan /\ HomeOf[job[h]] = h
  BY DEF Placed
<1>2. CASE SaveRestore(h) \/ SaveVerified(h) \/ Fail(h) \/ Finalize(h)
  BY <1>1, <1>2 DEF SaveRestore, SaveVerified, Fail, Finalize, remote, At, JobInv, JobOf, Restoring, Beginning, Executing, Cutting,
    MetaStep, Restored, Undoing
<1>3. CASE SaveExecuting(h) \/ SaveVerifiedPlan(h) \/ FailPlan(h)
  BY <1>1, <1>3 DEF SaveExecuting, SaveVerifiedPlan, FailPlan, remote, At, JobInv, JobOf, Restoring, Beginning, Executing,
    MetaStep, Became, Undoing
<1>4. CASE \E p \in Plan : HomeOf[p] = h /\ Cutover(p)
  BY <1>4 DEF Cutover, remote, MetaStep, Restored
<1>5. CASE /\ ~SaveRestore(h) /\ ~SaveVerified(h) /\ ~Fail(h) /\ ~Finalize(h) /\ ~SaveExecuting(h)
           /\ ~SaveVerifiedPlan(h) /\ ~FailPlan(h) /\ ~\E p \in Plan : HomeOf[p] = h /\ Cutover(p)
  BY <1>5 DEF Hosted, HostStep, StartRetention, Download, Crash, TakeBase, Execute, PublishBase, CheckLease,
    CheckPin, HandoffLease, HandoffPin, ReleasePlanPin, InterruptRelease, CutoverLease, ReleaseRestorePin, RetentionLease, Survey, Decide,
    DeleteBase, DeleteWal, local
<1> QED
  BY <1>2, <1>3, <1>4, <1>5

LEMMA StateHost ==
  ASSUME TypeOK, Placed, RecoveryStatePinned, JobInv, PlanInv, NEW h \in Host, Hosted(h)
  PROVE  RecoveryStatePinned'
<1>1. CASE UNCHANGED <<plan, restore>>
  <2>1. ASSUME NEW q \in Plan
        PROVE  /\ plan[q] \in {"planned", "executing"} => PlanPin(q) \in pins'
               /\ plan[q] = "failed" => PlanPin(q) \in pins' \/ RestorePin(q) \in pins'
               /\ restore[q] \in {"verified", "cutover"} => RestorePin(q) \in pins'
    <3>1. CASE pins \subseteq pins'
      BY <3>1 DEF RecoveryStatePinned
    <3>2. CASE /\ job[h] \in Plan /\ plan[job[h]] = "verified" /\ RestorePin(job[h]) \in pins
               /\ pins' = pins \ {PlanPin(job[h])}
      BY <3>2, Kinds DEF RecoveryStatePinned
    <3>3. CASE job[h] \in Plan /\ restore[job[h]] = "finalized" /\ pins' = pins \ {RestorePin(job[h])}
      <4>1. plan[job[h]] \in {"executing", "verified"}
        BY <3>3 DEF PlanInv
      <4> QED
        BY <3>3, <4>1, Kinds DEF RecoveryStatePinned
    <3> QED
      BY <3>1, <3>2, <3>3, HostPins DEF HandsOver, LetsGo
  <2> QED
    BY <1>1, <2>1 DEF RecoveryStatePinned
<1>2. ASSUME NEW p \in Plan, UNCHANGED pins, MetaStep(p)
      PROVE  RecoveryStatePinned'
  <2>1. ASSUME NEW q \in Plan
        PROVE  /\ plan'[q] \in {"planned", "executing"} => PlanPin(q) \in pins
               /\ plan'[q] = "failed" => PlanPin(q) \in pins \/ RestorePin(q) \in pins
               /\ restore'[q] \in {"verified", "cutover"} => RestorePin(q) \in pins
    BY <1>2 DEF RecoveryStatePinned, MetaStep, Restored, Became, TypeOK
  <2> QED
    BY <1>2, <2>1 DEF RecoveryStatePinned
<1> QED
  BY <1>1, <1>2, HostMeta

LEMMA PlanHost ==
  ASSUME TypeOK, Placed, GuardInv, LogInv, BaseInv, SurveyInv, RecoveryStatePinned, JobInv, PlanInv,
         NEW h \in Host, Hosted(h)
  PROVE  PlanInv'
<1>1. \A p \in Plan : pc'[p] = pc[p] /\ graph'[p] = graph[p]
  BY HostFrame, Sorts DEF Elsewhere
<1>2. ASSUME NEW p \in Plan
      PROVE  /\ pc[p] # "done" => plan'[p] = "none"
             /\ restore'[p] # "none" => plan'[p] # "none"
             /\ restore'[p] \in {"verified", "cutover", "finalized"} => plan'[p] \in {"executing", "verified"}
  <2>1. CASE UNCHANGED <<plan, restore>>
    BY <2>1 DEF PlanInv
  <2>2. ASSUME NEW q \in Plan, MetaStep(q)
        PROVE  /\ pc[p] # "done" => plan'[p] = "none"
               /\ restore'[p] # "none" => plan'[p] # "none"
               /\ restore'[p] \in {"verified", "cutover", "finalized"} => plan'[p] \in {"executing", "verified"}
    BY <2>2 DEF PlanInv, MetaStep, Restored, Became, TypeOK
  <2> QED
    BY <2>1, <2>2, HostMeta
<1>3. ASSUME NEW p \in Plan
      PROVE  /\ pc[p] \in {"new", "select", "pin"} => PlanPin(p) \notin pins' /\ RestorePin(p) \notin pins'
             /\ pc[p] = "save" => PlanPin(p) \in pins'
  BY HostPins, Kinds DEF PlanInv, HandsOver, LetsGo
<1>4. ASSUME NEW p \in Plan, pc[p] = "pin"
      PROVE  Holds(graph[p])'
  <2>1. InGuard(p) /\ h # p
    BY <1>4, Sorts DEF InGuard
  <2>2. ~InGuard(h)
    BY <2>1, Alone, Sorts
  <2>3. pc[h] \notin Deciding
    BY <2>2 DEF InGuard, Deciding
  <2>4. Holds(graph[p])
    BY <1>4 DEF PlanInv, Holds
  <2> QED
    BY <2>3, <2>4, HoldsKept
<1>5. \A p \in Plan : pc[p] = "pin" => graph'[p].base \in bases' /\ endWal'[graph'[p].base]..graph'[p].last \subseteq wal'
  BY <1>4 DEF Holds, Needed
<1> QED
  BY <1>1, <1>2, <1>3, <1>5 DEF PlanInv, Needed

(* The host's own next step.                                               *)
LEMMA JobSelf ==
  ASSUME TypeOK, Placed, RecoveryStatePinned, JobInv, NEW h \in Host, Hosted(h)
  PROVE  JobOf(h)'
<1> USE Sorts DEF GoTo, Go, Finish, At, JobOf, Undoing, Beginning, Executing
<1>1. /\ pc \in [Process -> PlanLocation \cup HostLocation] /\ job \in [Host -> Plan \cup Base \cup {NoJob}]
      /\ DOMAIN plan = Plan /\ DOMAIN restore = Plan /\ JobOf(h) /\ h \in Process
  BY DEF TypeOK, JobInv
<1>2. pc[h] \in Restoring => job[h] \in Plan
  BY DEF Placed
<1>3. (pc'[h] = "idle" \/ pc'[h] \notin Restoring) => JobOf(h)'
  BY DEF Restoring, Cutting
<1>4. CASE StartRetention(h) \/ Crash(h) \/ \E b \in Base : HomeOf[b] = h /\ TakeBase(b)
  BY <1>1, <1>3, <1>4 DEF StartRetention, Crash, TakeBase
<1>5. CASE RetentionLease(h) \/ Survey(h) \/ Decide(h) \/ DeleteBase(h) \/ DeleteWal(h) \/ PublishBase(h)
           \/ FailPlan(h) \/ ReleasePlanPin(h) \/ ReleaseRestorePin(h)
  BY <1>1, <1>3, <1>5 DEF RetentionLease, Survey, Decide, DeleteBase, DeleteWal, PublishBase, FailPlan, ReleasePlanPin,
    ReleaseRestorePin, Abort
<1>6. CASE \E p \in Plan : HomeOf[p] = h /\ Execute(p)
  BY <1>1, <1>6 DEF Execute, local
<1>7. CASE \E p \in Plan : HomeOf[p] = h /\ Cutover(p)
  BY <1>1, <1>7 DEF Cutover
<1>8. CASE CheckLease(h) \/ CheckPin(h) \/ Download(h) \/ HandoffLease(h) \/ CutoverLease(h)
  BY <1>1, <1>3, <1>8 DEF CheckLease, CheckPin, Download, HandoffLease, CutoverLease, HasPin, local, remote,
    Restoring, Cutting
<1>9. CASE HandoffPin(h)
  BY <1>1, <1>9 DEF HandoffPin, HandedOver, local
<1>10. CASE SaveRestore(h)
  BY <1>1, <1>2, <1>10 DEF SaveRestore, Restoring, remote
<1>11. CASE SaveVerified(h)
  BY <1>1, <1>2, <1>11 DEF SaveVerified, Restoring, remote
<1>12. CASE Fail(h)
  BY <1>1, <1>2, <1>12 DEF Fail, Restoring, remote
<1>13. CASE Finalize(h)
  BY <1>1, <1>2, <1>3, <1>13 DEF Finalize, Restoring, Cutting
<1>14. CASE SaveExecuting(h)
  BY <1>1, <1>2, <1>14 DEF SaveExecuting, Restoring
<1>15. CASE SaveVerifiedPlan(h)
  BY <1>1, <1>2, <1>15 DEF SaveVerifiedPlan, Restoring
<1>16. CASE InterruptRelease(h)
  <2>1. job[h] \in Plan /\ plan[job[h]] = "verified" /\ restore[job[h]] = "verified"
    BY <1>1, <1>2, <1>16 DEF InterruptRelease, Restoring
  <2>2. RestorePin(job[h]) \in pins'
    BY <2>1, <1>16, Kinds DEF RecoveryStatePinned, InterruptRelease, MayReleasePin
  <2>3. UNCHANGED <<plan, restore, job>> /\ pc'[h] = "fail"
    BY <1>1, <1>16 DEF InterruptRelease, local
  <2> QED
    BY <2>1, <2>2, <2>3
<1> QED
  BY <1>4, <1>5, <1>6, <1>7, <1>8, <1>9, <1>10, <1>11, <1>12, <1>13, <1>14, <1>15, <1>16 DEF Hosted, HostStep

LEMMA JobHost ==
  ASSUME TypeOK, Placed, GuardInv, RecoveryStatePinned, JobInv, NEW h \in Host, Hosted(h)
  PROVE  JobInv'
<1>1. ASSUME NEW g \in Host \ {h}
      PROVE  JobOf(g)'
  <2>1. pc'[g] = pc[g] /\ job'[g] = job[g]
    BY HostFrame, Sorts DEF Elsewhere
  <2>2. pc[g] \in Restoring => plan'[job[g]] = plan[job[g]] /\ restore'[job[g]] = restore[job[g]]
    BY HostFrame DEF Placed
  <2>3. pc[g] \in {"saveVerified", "savePlan"} => UNCHANGED pins
    <3>1. pc[g] \in {"saveVerified", "savePlan"} => InGuard(g)
      BY DEF InGuard
    <3> QED
      BY <3>1, Alone, Outside, Sorts
  <2>4. JobOf(g)
    BY DEF JobInv
  <2>5. /\ Undoing(g) => RestorePin(job[g]) \in pins'
        /\ pc[g] \in {"saveRestore", "saveExecuting"} => PlanPin(job[g]) \in pins'
    <3>1. Undoing(g) \/ pc[g] \in {"saveRestore", "saveExecuting"} => job[g] \in Plan /\ HomeOf[job[g]] = g
      BY DEF Undoing, Placed, Restoring, Beginning, Executing
    <3>2. ASSUME job[g] \in Plan, HomeOf[job[g]] = g, job[h] \in Plan, HomeOf[job[h]] = h
          PROVE  /\ RestorePin(job[g]) \notin {PlanPin(job[h]), RestorePin(job[h])}
                 /\ PlanPin(job[g]) \notin {PlanPin(job[h]), RestorePin(job[h])}
      BY <3>2, Kinds
    <3>3. Undoing(g) => RestorePin(job[g]) \in pins
      BY DEF Undoing
    <3>4. pc[g] \in {"saveRestore", "saveExecuting"} => PlanPin(job[g]) \in pins
      BY <2>4 DEF JobOf
    <3> QED
      BY <3>1, <3>2, <3>3, <3>4, HostPins DEF HandsOver, LetsGo
  <2> QED
    BY <2>1, <2>2, <2>3, <2>4, <2>5 DEF JobOf, Undoing, Restoring, Beginning, Executing, Cutting
<1> QED
  BY <1>1, JobSelf DEF JobInv

-----------------------------------------------------------------------------
(* What is advertised can be recovered.                                    *)
LEMMA AdvertisedApart ==
  ASSUME TypeOK, TypeOK', LogInv, LogInv', BaseInv, AdvertisedRecoverable,
         RecoverLease \/ Age \/ \E n \in Segment : ArchiveWal(n)
  PROVE  AdvertisedRecoverable'
<1>1. CASE RecoverLease \/ Age
  <2>1. UNCHANGED <<wal, bases, endWal, prompt>>
    BY <1>1 DEF RecoverLease, Age, remote, local
  <2> QED
    BY <2>1 DEF AdvertisedRecoverable, Needed, Newest
<1>2. ASSUME NEW n \in Segment, ArchiveWal(n)
      PROVE  AdvertisedRecoverable'
  <2>1. /\ wal' = wal \cup {n} /\ stamp[n] = 0 /\ stamp' = [stamp EXCEPT ![n] = time + 1]
        /\ \A m \in 1..(n - 1) : stamp[m] > 0
        /\ UNCHANGED <<bases, endWal, prompt>>
    BY <1>2 DEF ArchiveWal, Published, local
  <2>2. Newest \in Segment \cup {0} /\ Top(Newest)
    BY NewestTop
  <2>3. Newest' = n
    <3>1. ASSUME NEW m \in Segment, stamp'[m] > 0
          PROVE  m <= n
      <4>1. ~(n < m)
        BY <2>1, <3>1 DEF LogInv, TypeOK
      <4> QED
        BY <4>1, Sorts
    <3>2. Top(n)'
      BY <2>1, <3>1 DEF Top
    <3> QED
      BY <3>2, NewestNext DEF LogInv
  <2>4. ASSUME NEW b \in bases \cap prompt, NEW m \in endWal[b]..n
        PROVE  m \in wal \cup {n}
    <3>1. endWal[b] \in Segment
      BY DEF BaseInv, TypeOK
    <3>2. CASE m < n
      <4>1. m \in Segment /\ m \in 1..(n - 1)
        <5>1. endWal[b] \in Nat /\ 1 <= endWal[b] /\ n \in Nat
          BY <3>1, Segments
        <5>2. m \in Nat /\ 1 <= m /\ m <= n
          BY <2>4, <5>1
        <5> QED
          BY <3>2, <5>1, <5>2, Segments
      <4>2. stamp[m] > 0
        BY <2>1, <4>1
      <4>3. m <= Newest
        BY <2>2, <4>1, <4>2 DEF Top
      <4>4. m \in Needed(b, Newest)
        <5>1. Newest \in Nat
          BY <2>2, Sorts
        <5>2. endWal[b] \in Nat /\ n \in Nat
          BY <3>1, Segments
        <5>3. m \in Nat /\ endWal[b] <= m
          BY <2>4, <5>2
        <5> QED
          BY <4>3, <5>1, <5>2, <5>3 DEF Needed
      <4> QED
        BY <4>4 DEF AdvertisedRecoverable
    <3> QED
      BY <3>1, <3>2, <2>4, Sorts
  <2>5. \A b \in bases' \cap prompt' : endWal'[b]..Newest' \subseteq wal'
    BY <2>1, <2>3, <2>4
  <2> QED
    BY <2>5 DEF AdvertisedRecoverable, Needed
<1> QED
  BY <1>1, <1>2

LEMMA AdvertisedHost ==
  ASSUME TypeOK, TypeOK', Placed, LogInv, LogInv', BaseInv, SurveyInv, AdvertisedRecoverable, NEW h \in Host, Hosted(h)
  PROVE  AdvertisedRecoverable'
<1>1. Newest \in Segment \cup {0} /\ Newest \in Nat /\ Top(Newest)
  BY NewestTop, Segments
<1>2. \A b \in bases \cap prompt : /\ endWal[b] \in Segment /\ endWal[b] \in Nat /\ endWal'[b] = endWal[b]
                                   /\ stamp[endWal[b]] > 0
  <2>1. ASSUME NEW b \in bases \cap prompt
        PROVE  /\ endWal[b] \in Segment /\ endWal[b] \in Nat /\ endWal'[b] = endWal[b]
               /\ stamp[endWal[b]] > 0
    <3>1. b \in Base /\ endWal[b] # 0 /\ endWal[b] \in Segment \cup {0} /\ stamp[endWal[b]] > 0
      BY DEF BaseInv, TypeOK
    <3>2. endWal'[b] = endWal[b]
      BY <3>1, TakenOnce
    <3> QED
      BY <3>1, <3>2, Sorts
  <2> QED
    BY <2>1
<1>3. CASE PublishBase(h)
  <2>1. PICK b \in Base : b = job[h]
    BY <1>3 DEF PublishBase, Placed, At
  <2>2. /\ UNCHANGED <<wal, endWal>> /\ bases' = bases \cup {b}
        /\ prompt' = IF stamp[endWal[b]] > cutoff THEN prompt \cup {b} ELSE prompt
        /\ stamp[b] = 0 /\ endWal[b] # 0
    BY <1>3, <2>1 DEF PublishBase, BaseInv, At, local
  <2>3. Newest' = Newest
    BY <2>2 DEF Newest
  <2>4. b \notin prompt
    BY <2>2 DEF BaseInv
  <2>5. ASSUME stamp[endWal[b]] > cutoff, NEW m \in endWal[b]..Newest
        PROVE  m \in wal
    <3>1. endWal[b] \in Segment /\ endWal[b] \in Nat /\ Newest \in wal /\ m \in Nat /\ m <= Newest /\ endWal[b] <= m
      <4>1. endWal[b] \in Segment
        BY <2>2 DEF TypeOK
      <4>2. endWal[b] \in Nat /\ endWal[b] # 0
        BY <2>2, <4>1, Sorts
      <4> QED
        BY <1>1, <2>5, <4>1, <4>2 DEF Top
    <3>2. m \in Segment
      <4>1. Newest \in Segment
        BY <3>1 DEF TypeOK
      <4>2. 1 <= m
        BY <3>1, Segments
      <4> QED
        BY <3>1, <4>1, <4>2, Segments
    <3>3. stamp[m] > cutoff
      <4>1. stamp[m] > 0
        <5>1. stamp[Newest] > 0 /\ Newest \in Segment
          BY <3>1 DEF LogInv, TypeOK
        <5> QED
          BY <3>1, <3>2, <5>1 DEF LogInv
      <4>2. m = endWal[b] \/ stamp[endWal[b]] < stamp[m]
        BY <3>1, <3>2, <4>1 DEF LogInv
      <4> QED
        BY <2>5, <3>1, <3>2, <4>2 DEF TypeOK
    <3> QED
      BY <3>2, <3>3 DEF LogInv
  <2>6. \A c \in bases' \cap prompt' : c \in bases \cap prompt \/ (c = b /\ stamp[endWal[b]] > cutoff)
    BY <2>2, <2>4
  <2>7. \A c \in bases' \cap prompt' : endWal[c]..Newest \subseteq wal
    BY <2>5, <2>6 DEF AdvertisedRecoverable, Needed
  <2> QED
    BY <2>2, <2>3, <2>7 DEF AdvertisedRecoverable, Needed
<1>4. CASE ~PublishBase(h) /\ UNCHANGED wal
  <2>1. Newest' = Newest
    BY <1>4 DEF Newest
  <2>2. bases' \cap prompt' \subseteq bases \cap prompt
    BY <1>4, ArchiveKept DEF DeleteBase, Unpublish
  <2>3. \A b \in bases' \cap prompt' : endWal'[b]..Newest \subseteq wal
    BY <1>2, <2>2 DEF AdvertisedRecoverable, Needed
  <2> QED
    BY <1>4, <2>1, <2>3 DEF AdvertisedRecoverable, Needed
<1>5. CASE ~PublishBase(h) /\ wal' # wal
  <2>1. UNCHANGED <<bases, stamp, prompt>> /\ DeleteWal(h)
    BY <1>5, ArchiveKept DEF DeleteWal
  <2>2. PICK n \in Segment : /\ wal' = wal \ {n} /\ n # Newest /\ n < survey[h].first /\ survey[h].first \in wal
                             /\ stamp[n] \in 1..survey[h].cutoff
    BY <1>5, <2>1, Deleted
  <2>3. Newest' = Newest
    <3>1. PICK k : k = Newest
      OBVIOUS
    <3>2. Top(k)'
      BY <1>1, <2>1, <2>2, <3>1 DEF Top
    <3> QED
      BY <1>1, <3>1, <3>2, NewestNext DEF LogInv
  <2>4. ASSUME NEW b \in bases \cap prompt
        PROVE  n \notin endWal[b]..Newest
    <3>1. Spared(survey[h], b)
      BY <2>1 DEF SurveyInv, SurveyOf, DeleteWal, At, Deciding
    <3>2. n < endWal[b]
      <4>1. n \in Nat /\ endWal[b] \in Nat /\ survey[h].first \in Nat
        <5>1. survey[h].first \in Segment
          BY <2>2 DEF TypeOK
        <5> QED
          BY <1>2, <5>1, Sorts
      <4>2. CASE survey[h].first <= endWal[b]
        BY <2>2, <4>1, <4>2
      <4>3. CASE stamp[endWal[b]] > survey[h].cutoff
        <5>1. survey[h].cutoff \in Nat /\ stamp[n] \in Nat /\ stamp[endWal[b]] \in Nat
          BY <1>2 DEF TypeOK
        <5>2. stamp[endWal[b]] > stamp[n]
          BY <2>2, <4>3, <5>1
        <5>3. endWal[b] < n => stamp[endWal[b]] < stamp[n]
          BY <1>2, <2>2 DEF LogInv
        <5> QED
          BY <4>1, <5>1, <5>2, <5>3
      <4> QED
        BY <3>1, <4>2, <4>3 DEF Spared
    <3> QED
      BY <1>2, <3>2, Sorts
  <2>5. \A b \in bases \cap prompt : endWal[b]..Newest \subseteq wal \ {n}
    BY <2>4 DEF AdvertisedRecoverable, Needed
  <2>6. \A b \in bases' \cap prompt' : endWal'[b]..Newest' \subseteq wal'
    BY <1>2, <2>1, <2>2, <2>3, <2>5
  <2> QED
    BY <2>6 DEF AdvertisedRecoverable, Needed
<1> QED
  BY <1>3, <1>4, <1>5

LEMMA AdvertisedPlan ==
  ASSUME TypeOK, AdvertisedRecoverable, NEW p \in Plan, Planned(p)
  PROVE  AdvertisedRecoverable'
<1>1. UNCHANGED <<wal, bases, endWal, prompt>>
  BY PlanFrame
<1> QED
  BY <1>1 DEF AdvertisedRecoverable, Needed, Newest

-----------------------------------------------------------------------------
(* The inductive invariant.                                                *)
LEMMA Initially ==
  ASSUME Init
  PROVE  ArchiveInv
<1> USE Sorts DEF Init
<1>1. TypeOK
  BY ArchiveAssumption DEF TypeOK, Process, PlanLocation, HostLocation, NoSurvey
<1>2. Placed /\ GuardInv /\ JobInv
  BY DEF Placed, GuardInv, JobInv, JobOf, InGuard, PlanLocation, HostLocation, Beginning, Executing, Cutting, Restoring
<1>3. PlanInv /\ PinnedGraphKept /\ RecoveryStatePinned /\ AdvertisedRecoverable
  BY DEF PlanInv, PinnedGraphKept, RecoveryStatePinned, AdvertisedRecoverable
<1>4. LogInv
  <2>1. Top(0)
    BY DEF Top
  <2> QED
    BY <2>1, Segments DEF LogInv
<1>5. BaseInv /\ SurveyInv
  BY DEF BaseInv, SurveyInv, SurveyOf, NoSurvey, Deciding, Deleting
<1> QED
  BY <1>1, <1>2, <1>3, <1>4, <1>5 DEF ArchiveInv

LEMMA Inductive ==
  ASSUME ArchiveInv, [Next]_vars
  PROVE  ArchiveInv'
<1> USE DEF ArchiveInv
<1>0. Types
  BY TypeParts
<1>1. CASE RecoverLease \/ Age \/ \E n \in Segment : ArchiveWal(n)
  <2>1. TypeOK'
    BY <1>0, <1>1, TypeApart, TypeParts
  <2>2. Placed' /\ GuardInv' /\ LogInv'
    BY <1>1, PlacedApart, LogApart
  <2>3. BaseInv' /\ SurveyInv' /\ JobInv' /\ PlanInv' /\ PinnedGraphKept' /\ RecoveryStatePinned'
    BY <1>1, BaseApart, SurveyApart, PinnedApart
  <2>4. AdvertisedRecoverable'
    BY <1>1, <2>1, <2>2, AdvertisedApart
  <2> QED
    BY <2>1, <2>2, <2>3, <2>4
<1>2. ASSUME NEW p \in Plan, Planned(p)
      PROVE  ArchiveInv'
  <2>1. TypeOK'
    BY <1>0, <1>2, TypePlan, TypeParts
  <2>2. Placed' /\ GuardInv' /\ LogInv'
    BY <1>2, PlacedPlan, PlanFrame, TurnPlan, GuardStep, LogPlan, Sorts
  <2>3. BaseInv' /\ SurveyInv' /\ JobInv' /\ PlanInv' /\ PinnedGraphKept' /\ RecoveryStatePinned'
    BY <1>2, BasePlan, SurveyPlan, PinnedPlan
  <2>4. AdvertisedRecoverable'
    BY <1>2, AdvertisedPlan
  <2> QED
    BY <2>1, <2>2, <2>3, <2>4
<1>3. ASSUME NEW h \in Host, Hosted(h)
      PROVE  ArchiveInv'
  <2>1. TypeOK'
    BY <1>0, <1>3, TypeHost, TypeParts
  <2>2. Placed' /\ GuardInv' /\ LogInv'
    BY <1>3, PlacedHost, HostFrame, TurnHost, GuardStep, LogHost, Sorts
  <2>3. BaseInv' /\ SurveyInv' /\ JobInv'
    BY <1>3, BaseHost, SurveyHost, JobHost
  <2>4. PlanInv' /\ PinnedGraphKept' /\ RecoveryStatePinned'
    BY <1>3, PlanHost, PinnedHost, StateHost
  <2>5. AdvertisedRecoverable'
    BY <1>3, <2>1, <2>2, AdvertisedHost
  <2> QED
    BY <2>1, <2>2, <2>3, <2>4, <2>5
<1>4. CASE UNCHANGED vars
  <2>1. UNCHANGED <<wal, bases, pins, stamp, time, holder, cutoff, endWal, graph, plan, restore, earlier, pc, job, survey,
                    prompt, crashes>>
    BY <1>4 DEF vars, remote, local
  <2>2. TypeOK' /\ Placed' /\ GuardInv'
    BY <2>1 DEF TypeOK, Placed, GuardInv, InGuard
  <2>3. JobInv' /\ PlanInv'
    BY <2>1 DEF JobInv, JobOf, Undoing, PlanInv, Needed
  <2>4. LogInv' /\ BaseInv'
    BY <2>1 DEF LogInv, Top, BaseInv
  <2>5. SurveyInv'
    BY <2>1 DEF SurveyInv, SurveyOf, Spared
  <2>6. PinnedGraphKept' /\ RecoveryStatePinned' /\ AdvertisedRecoverable'
    BY <2>1 DEF PinnedGraphKept, RecoveryStatePinned, AdvertisedRecoverable, Needed, Newest
  <2> QED
    BY <2>2, <2>3, <2>4, <2>5, <2>6
<1>5. CASE Next
  BY <1>1, <1>2, <1>3, <1>5, NextParts
<1> QED
  BY <1>4, <1>5

LEMMA Archive == Spec => []ArchiveInv
<1>1. Init => ArchiveInv
  BY Initially
<1>2. ArchiveInv /\ [Next]_vars => ArchiveInv'
  BY Inductive
<1> QED
  BY <1>1, <1>2, PTL DEF Spec

(* Whatever retention deletes on any host, and however plans, executions,  *)
(* cutovers and crashes fall between its steps, the base and every WAL     *)
(* segment that a pin names stay (_reconcile_retention_locked).            *)
THEOREM Kept == Spec => []PinnedGraphKept
<1>1. ArchiveInv => PinnedGraphKept
  BY DEF ArchiveInv
<1> QED
  BY <1>1, Archive, PTL

(* A base advertised before its end_wal left the grace period can be       *)
(* recovered up to the newest segment (reconcile_retention).               *)
THEOREM Advertised == Spec => []AdvertisedRecoverable
<1>1. ArchiveInv => AdvertisedRecoverable
  BY DEF ArchiveInv
<1> QED
  BY <1>1, Archive, PTL

(* A plan that may be executed has its pin, and so has a verified restore  *)
(* that is not cut over (execute_restore, cutover_restore).                *)
THEOREM StatePinned == Spec => []RecoveryStatePinned
<1>1. ArchiveInv => RecoveryStatePinned
  BY DEF ArchiveInv
<1> QED
  BY <1>1, Archive, PTL

-----------------------------------------------------------------------------
(* The recovery in detail.                                                 *)

(* Where an execution is, what it left in docker and in PostgreSQL.        *)
Building == {"create", "import", "verify"}
Handing == {"handoffLease", "handoffPin", "saveVerified", "savePlan", "releasePlanPin"}
StageInv == \A h \in Host : stage[h] # "base" => pc[h] = "download"
CleanOf(h) ==
  /\ stage[h] \in Building => scratch[job[h]] = {}
  /\ stage[h] = "verify" => database[job[h]] = "recovered"
  /\ pc[h] \in Handing => scratch[job[h]] = {} /\ database[job[h]] = "recovered"
  /\ Undoing(h) => job[h] \in interrupted
CleanInv == \A h \in Host : CleanOf(h)

DetailTyped ==
  /\ stage \in [Host -> Stage] /\ created \in [Host -> BOOLEAN]
  /\ scratch \in [Plan -> SUBSET Resource]
  /\ database \in [Plan -> {"none", "partial", "recovered", "live"}]
  /\ interrupted \subseteq Plan

DetailInv == ArchiveInv /\ DetailTyped /\ StageInv /\ CleanInv /\ VerifiedMeansRecovered

(* What the metadata says of a plan, and what there is.                    *)
AsSaid(p) ==
  /\ restore[p] \in {"verified", "cutover", "finalized"} => scratch[p] = {}
  /\ restore[p] = "verified" => database[p] \in {"recovered", "none"}
  /\ plan[p] = "verified" /\ p \notin interrupted =>
       database[p] = IF restore[p] \in {"cutover", "finalized"} THEN "live" ELSE "recovered"

LEMMA Said ==
  /\ VerifiedMeansRecovered <=> \A p \in Plan : AsSaid(p)
  /\ VerifiedMeansRecovered' <=> \A p \in Plan : AsSaid(p)'
BY DEF VerifiedMeansRecovered, AsSaid

(* A recovery under way is one of a plan that is executing, whose pin      *)
(* keeps what it needs.                                                    *)
LEMMA Underway ==
  ASSUME ArchiveInv, NEW h \in Host, pc[h] \in {"download", "fail", "releasePlanPin"}
  PROVE  /\ job[h] \in Plan /\ HomeOf[job[h]] = h
         /\ pc[h] = "download" => plan[job[h]] = "executing" /\ restore[job[h]] = "pending" /\ Holds(graph[job[h]])
         /\ pc[h] = "fail" => plan[job[h]] = "executing" \/ Undoing(h)
         /\ pc[h] = "releasePlanPin" => plan[job[h]] = "verified" /\ restore[job[h]] = "verified"
<1>1. job[h] \in Plan /\ HomeOf[job[h]] = h
  BY DEF ArchiveInv, Placed, Restoring, Executing
<1>2. JobOf(h)
  BY DEF ArchiveInv, JobInv
<1>3. pc[h] = "download" => plan[job[h]] = "executing" /\ restore[job[h]] = "pending"
  BY <1>2 DEF JobOf, Executing, Undoing
<1>4. ASSUME pc[h] = "download"
      PROVE  Holds(graph[job[h]])
  <2>1. PlanPin(job[h]) \in pins /\ PlanPin(job[h]).plan = job[h]
    BY <1>1, <1>3, <1>4, Kinds DEF ArchiveInv, RecoveryStatePinned
  <2> QED
    BY <2>1, PinnedIsHeld DEF ArchiveInv
<1> QED
  BY <1>1, <1>2, <1>3, <1>4 DEF JobOf, Executing

(* Each step of a recovery is one of the archive or none.                  *)
LEMMA Refines ==
  ASSUME ArchiveInv, StageInv, [RecoveryNext]_recoveryVars
  PROVE  [Next]_vars
<1>1. CASE UNCHANGED recoveryVars
  BY <1>1 DEF recoveryVars
<1>2. CASE ArchiveStep /\ UNCHANGED recovery
  BY <1>2 DEF Next, Step
<1>3. CASE \E p \in Plan : CutoverDatabase(p)
  BY <1>3 DEF CutoverDatabase, Next, Step
<1>4. CASE \E x \in Process : RecoveryCrash(x)
  BY <1>4 DEF RecoveryCrash, Next
<1>5. ASSUME NEW h \in Host, RecoveryStep(h)
      PROVE  [Next]_vars
  <2>1. At(h, "download") /\ Raise(h) => Download(h)
    BY DEF Raise, Download
  <2>2. CASE FetchBase(h) \/ FetchWal(h) \/ CheckDownload(h) \/ ValidateSpec(h) \/ CreateVolumes(h) \/ FillVolumes(h)
             \/ StartServer(h) \/ WaitForTarget(h) \/ Dump(h) \/ CreateDatabase(h) \/ Import(h)
    BY <2>1, <2>2 DEF FetchBase, FetchWal, CheckDownload, ValidateSpec, CreateVolumes, FillVolumes, StartServer,
      WaitForTarget, Dump, CreateDatabase, Import, Recovering, Proceed, Next, Step
  <2>3. CASE Cleanup(h)
    <3>1. At(h, "download")
      BY <2>3 DEF Cleanup, StageInv, At
    <3> QED
      BY <2>1, <2>3, <3>1 DEF Cleanup, Proceed, Next, Step
  <2>4. CASE VerifyDatabase(h)
    <3>1. At(h, "download")
      BY <2>4 DEF VerifyDatabase, Recovering
    <3>2. Holds(graph[job[h]])
      BY <3>1, Underway DEF At
    <3>3. Download(h)
      BY <2>1, <2>4, <3>1, <3>2 DEF VerifyDatabase, Download, Holds
    <3> QED
      BY <3>3 DEF Next, Step
  <2>5. CASE DropDatabase(h) \/ SaveFailed(h) \/ InterruptRecovery(h)
    BY <2>5 DEF DropDatabase, SaveFailed, InterruptRecovery, Next, Step
  <2> QED
    BY <1>5, <2>2, <2>3, <2>4, <2>5 DEF RecoveryStep
<1> QED
  BY <1>1, <1>2, <1>3, <1>4, <1>5 DEF RecoveryNext

(* What a step of a recovery leaves alone.                                 *)
LEMMA Detail ==
  ASSUME ArchiveInv, DetailTyped, StageInv, NEW h \in Host, RecoveryStep(h)
  PROVE  /\ pc[h] \in {"download", "fail", "releasePlanPin"}
         /\ UNCHANGED plan
         /\ \A p \in Plan \ {job[h]} : /\ scratch'[p] = scratch[p] /\ database'[p] = database[p]
                                       /\ restore'[p] = restore[p] /\ (p \in interrupted' <=> p \in interrupted)
         /\ pc[h] # "download" => UNCHANGED scratch
         /\ restore'[job[h]] \in {restore[job[h]], "failed"}
         /\ \A g \in Host \ {h} : pc'[g] = pc[g] /\ job'[g] = job[g] /\ stage'[g] = stage[g]
         /\ DetailTyped'
<1> USE DEF Recovering, Proceed, Raise, Set, At, Go, GoTo, Finish
<1>1. /\ stage \in [Host -> Stage] /\ created \in [Host -> BOOLEAN] /\ scratch \in [Plan -> SUBSET Resource]
      /\ database \in [Plan -> {"none", "partial", "recovered", "live"}]
      /\ pc \in [Process -> PlanLocation \cup HostLocation] /\ h \in Process /\ h \in Host /\ Host \subseteq Process
      /\ restore \in [Plan -> {"none", "pending", "failed", "verified", "cutover", "finalized"}]
  BY Sorts DEF DetailTyped, ArchiveInv, TypeOK
<1>2. pc[h] \in {"download", "fail", "releasePlanPin"} => job[h] \in Plan
  BY Underway
<1>3. CASE FetchBase(h) \/ FetchWal(h) \/ CheckDownload(h) \/ FillVolumes(h) \/ WaitForTarget(h) \/ Dump(h)
           \/ VerifyDatabase(h)
  BY <1>1, <1>3 DEF FetchBase, FetchWal, CheckDownload, FillVolumes, WaitForTarget, Dump, VerifyDatabase,
    DetailTyped, Stage, vars, local
<1>4. CASE ValidateSpec(h) \/ CreateVolumes(h) \/ StartServer(h)
  <2>1. scratch' \in [Plan -> SUBSET Resource] /\ \A p \in Plan \ {job[h]} : scratch'[p] = scratch[p]
    BY <1>1, <1>4 DEF ValidateSpec, CreateVolumes, StartServer, Resource
  <2> QED
    BY <1>1, <1>4, <2>1 DEF ValidateSpec, CreateVolumes, StartServer, DetailTyped, Stage, vars, local
<1>5. CASE Cleanup(h)
  <2>1. pc[h] = "download"
    BY <1>5 DEF Cleanup, StageInv
  <2>2. scratch' \in [Plan -> SUBSET Resource] /\ \A p \in Plan \ {job[h]} : scratch'[p] = scratch[p]
    BY <1>1, <1>2, <1>5, <2>1 DEF Cleanup, Left
  <2> QED
    BY <1>1, <1>5, <2>1, <2>2 DEF Cleanup, DetailTyped, Stage, vars, local
<1>6. CASE CreateDatabase(h) \/ Import(h)
  <2>1. /\ database' \in [Plan -> {"none", "partial", "recovered", "live"}]
        /\ \A p \in Plan \ {job[h]} : database'[p] = database[p]
    BY <1>1, <1>6 DEF CreateDatabase, Import
  <2> QED
    BY <1>1, <1>6, <2>1 DEF CreateDatabase, Import, DetailTyped, Stage, vars, local
<1>7. CASE DropDatabase(h)
  <2>1. /\ database' \in [Plan -> {"none", "partial", "recovered", "live"}]
        /\ \A p \in Plan \ {job[h]} : database'[p] = database[p]
    BY <1>1, <1>7 DEF DropDatabase
  <2> QED
    BY <1>1, <1>7, <2>1 DEF DropDatabase, DetailTyped, vars, local
<1>8. CASE SaveFailed(h)
  BY <1>1, <1>2, <1>8 DEF SaveFailed, Fail, recovery, DetailTyped
<1>9. CASE InterruptRecovery(h)
  BY <1>1, <1>2, <1>9 DEF InterruptRecovery, InterruptRelease, DetailTyped, local
<1> QED
  BY <1>3, <1>4, <1>5, <1>6, <1>7, <1>8, <1>9 DEF RecoveryStep

(* The step of a host's own recovery.                                      *)
LEMMA CleanSelf ==
  ASSUME ArchiveInv, DetailTyped, StageInv, CleanInv, NEW h \in Host, RecoveryStep(h)
  PROVE  CleanOf(h)' /\ (stage'[h] # "base" => pc'[h] = "download")
<1> USE DEF Recovering, Set, At, Go, GoTo, Building, Handing
<1>1. /\ stage \in [Host -> Stage] /\ DOMAIN scratch = Plan /\ DOMAIN database = Plan
      /\ pc \in [Process -> PlanLocation \cup HostLocation] /\ h \in Process
  BY Sorts DEF DetailTyped, ArchiveInv, TypeOK
<1>2. pc[h] \in {"download", "fail", "releasePlanPin"} => job[h] \in Plan
  BY Underway
<1>3. CleanOf(h) /\ (stage[h] # "base" => pc[h] = "download")
  BY DEF CleanInv, StageInv
<1>4. Raise(h) => stage'[h] = "base" /\ pc'[h] = "fail" /\ UNCHANGED <<job, plan>>
  BY <1>1 DEF Raise, local
<1>5. ASSUME Raise(h), pc[h] = "download"
      PROVE  CleanOf(h)' /\ (stage'[h] # "base" => pc'[h] = "download")
  <2>1. plan[job[h]] = "executing"
    BY <1>5, Underway
  <2>2. stage'[h] = "base" /\ pc'[h] = "fail" /\ plan'[job'[h]] = "executing"
    BY <1>4, <1>5, <2>1
  <2> QED
    BY <2>2 DEF CleanOf, Undoing
<1>6. ASSUME NEW to, Proceed(h, to)
      PROVE  stage'[h] = to /\ UNCHANGED <<pc, job, plan>>
  BY <1>1, <1>6 DEF Proceed, vars, local
<1>7. CASE FetchBase(h) \/ FetchWal(h) \/ CheckDownload(h) \/ ValidateSpec(h) \/ CreateVolumes(h) \/ FillVolumes(h)
           \/ StartServer(h) \/ WaitForTarget(h) \/ Dump(h)
  BY <1>5, <1>6, <1>7 DEF FetchBase, FetchWal, CheckDownload, ValidateSpec, CreateVolumes, FillVolumes, StartServer,
    WaitForTarget, Dump, CleanOf, Undoing
<1>8. CASE Cleanup(h)
  <2>1. pc[h] = "download"
    BY <1>3, <1>8 DEF Cleanup
  <2>2. ASSUME scratch' = [scratch EXCEPT ![job[h]] = {}], Proceed(h, "create")
        PROVE  CleanOf(h)' /\ (stage'[h] # "base" => pc'[h] = "download")
    <3>1. scratch'[job[h]] = {} /\ job'[h] = job[h]
      BY <1>1, <1>2, <1>6, <2>1, <2>2
    <3> QED
      BY <1>6, <2>1, <2>2, <3>1 DEF CleanOf, Undoing
  <2> QED
    BY <1>5, <1>8, <2>1, <2>2 DEF Cleanup, Clean
<1>9. CASE CreateDatabase(h)
  <2>1. Proceed(h, "import") => CleanOf(h)' /\ (stage'[h] # "base" => pc'[h] = "download")
    BY <1>3, <1>6, <1>9 DEF CreateDatabase, CleanOf, Undoing
  <2> QED
    BY <1>5, <1>9, <2>1 DEF CreateDatabase
<1>10. CASE Import(h)
  <2>1. ASSUME database' = [database EXCEPT ![job[h]] = "recovered"], Proceed(h, "verify")
        PROVE  CleanOf(h)' /\ (stage'[h] # "base" => pc'[h] = "download")
    <3>1. database'[job[h]] = "recovered" /\ job'[h] = job[h] /\ UNCHANGED scratch
      BY <1>1, <1>2, <1>6, <1>10, <2>1 DEF Import
    <3> QED
      BY <1>3, <1>6, <1>10, <2>1, <3>1 DEF Import, CleanOf, Undoing
  <2> QED
    BY <1>5, <1>10, <2>1 DEF Import
<1>11. CASE VerifyDatabase(h)
  <2>1. CASE stage' = [stage EXCEPT ![h] = "base"] /\ pc' = [pc EXCEPT ![h] = "handoffLease"] /\ UNCHANGED job
    BY <1>1, <1>3, <1>11, <2>1 DEF VerifyDatabase, CleanOf, Undoing
  <2> QED
    BY <1>5, <1>11, <2>1 DEF VerifyDatabase
<1>12. CASE DropDatabase(h)
  BY <1>3, <1>12 DEF DropDatabase, CleanOf, Undoing, vars, remote, local
<1>13. CASE SaveFailed(h)
  BY <1>1, <1>3, <1>13 DEF SaveFailed, Fail, recovery, CleanOf, Undoing, remote
<1>14. CASE InterruptRecovery(h)
  BY <1>1, <1>3, <1>14 DEF InterruptRecovery, InterruptRelease, CleanOf, Undoing
<1> QED
  BY <1>7, <1>8, <1>9, <1>10, <1>11, <1>12, <1>13, <1>14 DEF RecoveryStep

LEMMA DetailStep ==
  ASSUME DetailInv, NEW h \in Host, RecoveryStep(h)
  PROVE  StageInv' /\ CleanInv' /\ VerifiedMeansRecovered' /\ DetailTyped'
<1> USE DEF DetailInv
<1>1. /\ pc[h] \in {"download", "fail", "releasePlanPin"} /\ job[h] \in Plan /\ HomeOf[job[h]] = h
      /\ pc[h] = "download" => plan[job[h]] = "executing" /\ restore[job[h]] = "pending"
      /\ pc[h] = "fail" => plan[job[h]] = "executing" \/ Undoing(h)
      /\ pc[h] = "releasePlanPin" => plan[job[h]] = "verified" /\ restore[job[h]] = "verified"
      /\ UNCHANGED plan
  BY Detail, Underway
<1>2. ASSUME NEW g \in Host \ {h}
      PROVE  CleanOf(g)' /\ (stage'[g] # "base" => pc'[g] = "download")
  <2>1. pc'[g] = pc[g] /\ job'[g] = job[g] /\ stage'[g] = stage[g]
    BY Detail
  <2>2. stage[g] # "base" => pc[g] = "download"
    BY DEF StageInv
  <2>3. pc[g] \in {"download", "fail", "failPlan"} \cup Handing => job[g] \in Plan \ {job[h]}
    BY <1>1 DEF ArchiveInv, Placed, Restoring, Executing, Handing
  <2>4. pc[g] \in {"download", "fail", "failPlan"} \cup Handing =>
          /\ scratch'[job[g]] = scratch[job[g]] /\ database'[job[g]] = database[job[g]]
          /\ (job[g] \in interrupted' <=> job[g] \in interrupted)
    BY <2>3, Detail
  <2>5. CleanOf(g) /\ JobOf(g)
    BY DEF CleanInv, ArchiveInv, JobInv
  <2>6. Undoing(g)' => Undoing(g)
    <3>1. pc[g] \in {"fail", "failPlan"} => plan[job[g]] = "executing" \/ Undoing(g)
      BY <2>5 DEF JobOf, Executing
    <3> QED
      BY <1>1, <2>1, <3>1 DEF Undoing
  <2> QED
    BY <2>1, <2>2, <2>4, <2>5, <2>6 DEF CleanOf, Building, Undoing
<1>3. StageInv' /\ CleanInv'
  BY <1>2, CleanSelf DEF StageInv, CleanInv
<1>4. ASSUME NEW p \in Plan
      PROVE  AsSaid(p)'
  <2>1. CASE p # job[h]
    BY <1>1, <2>1, Detail, Said DEF AsSaid
  <2>2. CASE p = job[h] /\ pc[h] = "download"
    <3>1. plan'[p] = "executing" /\ restore'[p] \in {"pending", "failed"}
      BY <1>1, <2>2, Detail
    <3> QED
      BY <3>1 DEF AsSaid
  <2>3. CASE p = job[h] /\ pc[h] = "fail"
    <3>1. UNCHANGED <<scratch, interrupted>> /\ database'[p] \in {database[p], "none"}
      BY <2>3 DEF RecoveryStep, DropDatabase, SaveFailed, recovery, FetchBase, FetchWal, CheckDownload, ValidateSpec,
        CreateVolumes, FillVolumes, StartServer, WaitForTarget, Dump, Cleanup, StageInv, CreateDatabase, Import,
        VerifyDatabase, InterruptRecovery, InterruptRelease, Recovering, At, Set, DetailTyped
    <3>2. plan[p] = "executing" \/ p \in interrupted
      BY <1>1, <2>3 DEF CleanInv, CleanOf
    <3>3. restore'[p] \in {restore[p], "failed"} /\ AsSaid(p)
      BY <2>3, Detail, Said
    <3> QED
      BY <1>1, <2>3, <3>1, <3>2, <3>3 DEF AsSaid
  <2>4. CASE p = job[h] /\ pc[h] = "releasePlanPin"
    <3>1. UNCHANGED <<scratch, database, restore>> /\ interrupted' = interrupted \cup {p}
      BY <2>4 DEF RecoveryStep, DropDatabase, SaveFailed, Fail, FetchBase, FetchWal, CheckDownload, ValidateSpec,
        CreateVolumes, FillVolumes, StartServer, WaitForTarget, Dump, Cleanup, StageInv, CreateDatabase, Import,
        VerifyDatabase, InterruptRecovery, InterruptRelease, Recovering, At, local
    <3> QED
      BY <1>1, <2>4, <3>1, Said DEF AsSaid
  <2> QED
    BY <1>1, <2>1, <2>2, <2>3, <2>4
<1> QED
  BY <1>3, <1>4, Said, Detail

(* Steps of the archive.                                                   *)
LEMMA Onwards ==
  ASSUME TypeOK, Placed, ArchiveStep, NEW h \in Host
  PROVE  /\ pc[h] = "download" => pc'[h] = "download"
         /\ pc'[h] \in Handing \/ pc[h] = "download" => job'[h] = job[h]
         /\ pc'[h] \in Handing => pc[h] \in Handing
<1> USE Sorts
<1>1. CASE RecoverLease \/ Age \/ \E n \in Segment : ArchiveWal(n)
  BY <1>1 DEF RecoverLease, Age, ArchiveWal
<1>2. ASSUME NEW p \in Plan, PlanStep(p)
      PROVE  pc'[h] = pc[h] /\ job'[h] = job[h]
  BY <1>2, PlanFrame DEF Planned, Elsewhere
<1>3. ASSUME NEW g \in Host \ {h}, Hosted(g)
      PROVE  pc'[h] = pc[h] /\ job'[h] = job[h]
  BY <1>3, HostFrame DEF Elsewhere
<1>4. ASSUME \/ StartRetention(h) \/ HostStep(h)
             \/ \E b \in Base : HomeOf[b] = h /\ TakeBase(b)
             \/ \E p \in Plan : HomeOf[p] = h /\ Execute(p)
      PROVE  /\ pc[h] # "download"
             /\ pc'[h] \in Handing => pc[h] \in Handing /\ job'[h] = job[h]
  <2> USE DEF At, GoTo, Go, Finish, Handing
  <2>1. pc \in [Process -> PlanLocation \cup HostLocation] /\ h \in Process
    BY DEF TypeOK
  <2>2. CASE StartRetention(h) \/ (\E b \in Base : HomeOf[b] = h /\ TakeBase(b)) \/ \E p \in Plan : HomeOf[p] = h /\ Execute(p)
    BY <2>1, <2>2 DEF StartRetention, TakeBase, Execute
  <2>3. CASE \/ PublishBase(h) \/ CheckLease(h) \/ CheckPin(h) \/ SaveRestore(h) \/ SaveExecuting(h) \/ HandoffLease(h)
             \/ HandoffPin(h) \/ SaveVerified(h) \/ SaveVerifiedPlan(h)
    BY <2>1, <2>3 DEF PublishBase, CheckLease, CheckPin, SaveRestore, SaveExecuting, HandoffLease, HandoffPin, SaveVerified,
      SaveVerifiedPlan
  <2>4. CASE \/ ReleasePlanPin(h) \/ FailPlan(h) \/ Finalize(h) \/ CutoverLease(h) \/ ReleaseRestorePin(h)
             \/ RetentionLease(h) \/ Survey(h) \/ Decide(h) \/ DeleteBase(h) \/ DeleteWal(h)
    BY <2>1, <2>4 DEF ReleasePlanPin, FailPlan, Finalize, CutoverLease, ReleaseRestorePin, RetentionLease, Survey, Decide,
      DeleteBase, DeleteWal, Abort
  <2> QED
    BY <1>4, <2>2, <2>3, <2>4 DEF HostStep
<1>5. \/ RecoverLease \/ Age \/ \E n \in Segment : ArchiveWal(n)
      \/ \E p \in Plan : PlanStep(p)
      \/ \E g \in Host \ {h} : Hosted(g)
      \/ StartRetention(h) \/ HostStep(h)
      \/ \E b \in Base : HomeOf[b] = h /\ TakeBase(b)
      \/ \E p \in Plan : HomeOf[p] = h /\ Execute(p)
  BY DEF ArchiveStep, Hosted
<1> QED
  BY <1>1, <1>2, <1>3, <1>4, <1>5

(* An execution that is undone was interrupted by a step of its own.       *)
LEMMA Undone ==
  ASSUME ArchiveInv, ArchiveStep, NEW h \in Host, Undoing(h)'
  PROVE  Undoing(h) /\ job'[h] = job[h]
<1> USE Sorts DEF ArchiveInv
<1>1. JobOf(h) /\ pc'[h] \in {"fail", "failPlan"} /\ plan'[job'[h]] = "verified"
  BY DEF JobInv, Undoing
<1>2. SUFFICES pc'[h] = pc[h] /\ job'[h] = job[h] /\ plan[job[h]] = "verified"
  BY <1>1 DEF JobOf, Executing, Undoing
<1>3. CASE RecoverLease \/ Age \/ \E n \in Segment : ArchiveWal(n)
  BY <1>1, <1>3 DEF RecoverLease, Age, ArchiveWal, local
<1>4. ASSUME NEW p \in Plan, PlanStep(p)
      PROVE  pc'[h] = pc[h] /\ job'[h] = job[h] /\ plan[job[h]] = "verified"
  <2>1. pc'[h] = pc[h] /\ job'[h] = job[h]
    BY <1>4, PlanFrame DEF Planned, Elsewhere
  <2>2. \A q \in Plan : plan'[q] = plan[q] \/ plan'[q] = "planned"
    BY <1>4 DEF PlanStep, PlanLease, PlanSelect, CreatePlanPin, SavePlan, TypeOK, local
  <2>3. job[h] \in Plan
    BY <1>1, <2>1 DEF Placed, Restoring, Executing
  <2> QED
    BY <1>1, <2>1, <2>2, <2>3
<1>5. ASSUME NEW g \in Host \ {h}, Hosted(g)
      PROVE  pc'[h] = pc[h] /\ job'[h] = job[h] /\ plan[job[h]] = "verified"
  <2>1. pc'[h] = pc[h] /\ job'[h] = job[h]
    BY <1>5, HostFrame DEF Elsewhere
  <2>2. job[h] \in Plan /\ HomeOf[job[h]] = h
    BY <1>1, <2>1 DEF Placed, Restoring, Executing
  <2> QED
    BY <1>1, <1>5, <2>1, <2>2, HostFrame
<1>6. ASSUME \/ StartRetention(h) \/ HostStep(h)
             \/ \E b \in Base : HomeOf[b] = h /\ TakeBase(b)
             \/ \E p \in Plan : HomeOf[p] = h /\ Execute(p)
      PROVE  FALSE
  <2> USE DEF At, GoTo, Go, Finish
  <2>1. pc \in [Process -> PlanLocation \cup HostLocation] /\ h \in Process
    BY DEF TypeOK
  <2>2. CASE StartRetention(h) \/ (\E b \in Base : HomeOf[b] = h /\ TakeBase(b)) \/ \E p \in Plan : HomeOf[p] = h /\ Execute(p)
    BY <1>1, <2>1, <2>2 DEF StartRetention, TakeBase, Execute
  <2>3. CASE HandoffLease(h) \/ HandoffPin(h) \/ SaveVerified(h) \/ SaveVerifiedPlan(h)
    <3>1. plan[job[h]] = "executing"
      BY <1>1, <2>3 DEF HandoffLease, HandoffPin, SaveVerified, SaveVerifiedPlan, JobOf, Executing, Undoing
    <3>2. job'[h] = job[h] /\ (UNCHANGED plan \/ pc'[h] = "releasePlanPin")
      BY <2>1, <2>3 DEF HandoffLease, HandoffPin, SaveVerified, SaveVerifiedPlan, local
    <3> QED
      BY <1>1, <3>1, <3>2
  <2>4. CASE PublishBase(h) \/ CheckLease(h) \/ CheckPin(h) \/ SaveRestore(h) \/ SaveExecuting(h)
    BY <1>1, <2>1, <2>4 DEF PublishBase, CheckLease, CheckPin, SaveRestore, SaveExecuting
  <2>5. CASE \/ ReleasePlanPin(h) \/ FailPlan(h) \/ Finalize(h) \/ CutoverLease(h) \/ ReleaseRestorePin(h)
             \/ RetentionLease(h) \/ Survey(h) \/ Decide(h) \/ DeleteBase(h) \/ DeleteWal(h)
    BY <1>1, <2>1, <2>5 DEF ReleasePlanPin, FailPlan, Finalize, CutoverLease, ReleaseRestorePin, RetentionLease, Survey,
      Decide, DeleteBase, DeleteWal, Abort
  <2> QED
    BY <1>6, <2>2, <2>3, <2>4, <2>5 DEF HostStep
<1>7. \/ RecoverLease \/ Age \/ \E n \in Segment : ArchiveWal(n)
      \/ \E p \in Plan : PlanStep(p)
      \/ \E g \in Host \ {h} : Hosted(g)
      \/ StartRetention(h) \/ HostStep(h)
      \/ \E b \in Base : HomeOf[b] = h /\ TakeBase(b)
      \/ \E p \in Plan : HomeOf[p] = h /\ Execute(p)
  BY DEF ArchiveStep, Hosted
<1> QED
  BY <1>3, <1>4, <1>5, <1>6, <1>7

LEMMA VerifiedArchive ==
  ASSUME DetailInv, ArchiveStep, UNCHANGED recovery
  PROVE  VerifiedMeansRecovered'
<1> USE DEF DetailInv, ArchiveInv
<1>1. UNCHANGED <<scratch, database, interrupted>>
  BY DEF recovery
<1>2. CASE UNCHANGED <<plan, restore>>
  BY <1>1, <1>2 DEF VerifiedMeansRecovered
<1>3. ASSUME NEW p \in Plan, SavePlan(p)
      PROVE  VerifiedMeansRecovered'
  <2>1. UNCHANGED restore /\ \A q \in Plan : plan'[q] = plan[q] \/ plan'[q] = "planned"
    BY <1>3 DEF SavePlan, TypeOK
  <2> QED
    BY <1>1, <2>1 DEF VerifiedMeansRecovered
<1>4. ASSUME NEW h \in Host, SaveVerified(h) \/ SaveVerifiedPlan(h)
      PROVE  VerifiedMeansRecovered'
  <2>1. /\ job[h] \in Plan /\ scratch[job[h]] = {} /\ database[job[h]] = "recovered" /\ plan[job[h]] = "executing"
        /\ SaveVerifiedPlan(h) => restore[job[h]] = "verified"
    BY <1>4 DEF SaveVerified, SaveVerifiedPlan, At, CleanInv, CleanOf, Handing, Placed, Restoring, Executing, JobInv, JobOf, Undoing
  <2>2. CASE SaveVerified(h)
    <3>1. UNCHANGED plan /\ \A q \in Plan : restore'[q] = restore[q] \/ (q = job[h] /\ restore'[q] = "verified")
      BY <2>2 DEF SaveVerified, TypeOK
    <3> QED
      BY <1>1, <2>1, <3>1 DEF VerifiedMeansRecovered
  <2>3. CASE SaveVerifiedPlan(h)
    <3>1. UNCHANGED restore /\ \A q \in Plan : plan'[q] = plan[q] \/ (q = job[h] /\ plan'[q] = "verified")
      BY <2>3 DEF SaveVerifiedPlan, TypeOK
    <3> QED
      BY <1>1, <2>1, <2>3, <3>1 DEF VerifiedMeansRecovered
  <2> QED
    BY <1>4, <2>2, <2>3
<1>5. ASSUME NEW h \in Host, SaveRestore(h) \/ SaveExecuting(h) \/ FailPlan(h) \/ Finalize(h)
      PROVE  VerifiedMeansRecovered'
  <2>1. job[h] \in Plan
    BY <1>5 DEF SaveRestore, SaveExecuting, FailPlan, Finalize, At, Placed, Restoring, Beginning, Executing, Cutting
  <2>2. CASE SaveRestore(h)
    <3>1. plan[job[h]] # "verified"
      BY <2>2 DEF SaveRestore, At, JobInv, JobOf, Beginning
    <3>2. UNCHANGED plan /\ \A q \in Plan : restore'[q] = restore[q] \/ (q = job[h] /\ restore'[q] = "pending")
      BY <2>2 DEF SaveRestore, TypeOK
    <3> QED
      BY <1>1, <2>1, <3>1, <3>2 DEF VerifiedMeansRecovered
  <2>3. CASE SaveExecuting(h) \/ FailPlan(h)
    <3>1. UNCHANGED restore /\ \A q \in Plan : plan'[q] = plan[q] \/ plan'[q] \in {"executing", "failed"}
      BY <2>3 DEF SaveExecuting, FailPlan, TypeOK
    <3> QED
      BY <1>1, <3>1 DEF VerifiedMeansRecovered
  <2>4. CASE Finalize(h)
    <3>1. restore[job[h]] = "cutover"
      BY <2>4 DEF Finalize, At, JobInv, JobOf
    <3>2. UNCHANGED plan /\ \A q \in Plan : restore'[q] = restore[q] \/ (q = job[h] /\ restore'[q] = "finalized")
      BY <2>4 DEF Finalize, TypeOK
    <3> QED
      BY <1>1, <2>1, <3>1, <3>2 DEF VerifiedMeansRecovered
  <2> QED
    BY <1>5, <2>2, <2>3, <2>4
<1>6. \/ UNCHANGED <<plan, restore>>
      \/ \E p \in Plan : SavePlan(p)
      \/ \E h \in Host : SaveVerified(h) \/ SaveVerifiedPlan(h)
      \/ \E h \in Host : SaveRestore(h) \/ SaveExecuting(h) \/ FailPlan(h) \/ Finalize(h)
  BY DEF ArchiveStep, ArchiveWal, TakeBase, PlanStep, PlanLease, PlanSelect, CreatePlanPin, Execute, StartRetention,
    HostStep, PublishBase, CheckLease, CheckPin, HandoffLease, HandoffPin, ReleasePlanPin, CutoverLease,
    ReleaseRestorePin, RetentionLease, Survey, Decide, DeleteBase, DeleteWal, RecoverLease, Age, local
<1> QED
  BY <1>2, <1>3, <1>4, <1>5, <1>6

LEMMA DetailArchive ==
  ASSUME DetailInv, ArchiveStep, UNCHANGED recovery
  PROVE  StageInv' /\ CleanInv' /\ VerifiedMeansRecovered' /\ DetailTyped'
<1>1. UNCHANGED <<stage, created, scratch, database, interrupted>>
  BY DEF recovery
<1>2. ASSUME NEW h \in Host
      PROVE  CleanOf(h)' /\ (stage'[h] # "base" => pc'[h] = "download")
  <2>1. /\ pc[h] = "download" => pc'[h] = "download"
        /\ pc'[h] \in Handing \/ pc[h] = "download" => job'[h] = job[h]
        /\ pc'[h] \in Handing => pc[h] \in Handing
    BY Onwards DEF DetailInv, ArchiveInv
  <2>2. stage[h] \in Building \cup {"verify"} => pc[h] = "download"
    BY DEF DetailInv, StageInv, Building
  <2>3. CleanOf(h) /\ (stage[h] # "base" => pc[h] = "download")
    BY DEF DetailInv, CleanInv, StageInv
  <2>4. Undoing(h)' => Undoing(h) /\ job'[h] = job[h]
    BY Undone DEF DetailInv
  <2> QED
    BY <1>1, <2>1, <2>2, <2>3, <2>4 DEF CleanOf
<1>3. DetailTyped'
  BY <1>1 DEF DetailInv, DetailTyped
<1> QED
  BY <1>2, <1>3, VerifiedArchive DEF StageInv, CleanInv

LEMMA DetailCutover ==
  ASSUME DetailInv, NEW p \in Plan, CutoverDatabase(p)
  PROVE  StageInv' /\ CleanInv' /\ VerifiedMeansRecovered' /\ DetailTyped'
<1> DEFINE h == HomeOf[p]
<1>1. /\ h \in Host /\ pc[h] = "idle" /\ pc' = [pc EXCEPT ![h] = "finalize"] /\ job' = [job EXCEPT ![h] = p]
      /\ restore[p] \in {"verified", "cutover"} /\ restore' = [restore EXCEPT ![p] = "cutover"]
      /\ UNCHANGED <<plan, pins, stage, created, scratch, interrupted>>
      /\ \/ restore[p] = "verified" /\ database[p] \in {"partial", "recovered"} /\ database' = [database EXCEPT ![p] = "live"]
         \/ restore[p] = "cutover" /\ UNCHANGED database
  BY Sorts DEF CutoverDatabase, Cutover, At, GoTo, Answers, Set, remote
<1>2. /\ pc \in [Process -> PlanLocation \cup HostLocation] /\ DOMAIN restore = Plan /\ Host \subseteq Process
      /\ job \in [Host -> Plan \cup Base \cup {NoJob}]
      /\ database \in [Plan -> {"none", "partial", "recovered", "live"}]
  BY Sorts DEF DetailInv, ArchiveInv, TypeOK, DetailTyped
<1>3. ASSUME NEW g \in Host
      PROVE  CleanOf(g)' /\ (stage'[g] # "base" => pc'[g] = "download")
  <2>1. CASE g = h
    <3>1. stage[g] = "base"
      BY <1>1, <2>1 DEF DetailInv, StageInv
    <3>2. stage'[g] = "base" /\ pc'[g] = "finalize"
      BY <1>1, <1>2, <2>1, <3>1
    <3> QED
      BY <3>2 DEF CleanOf, Undoing, Building, Handing
  <2>2. CASE g # h
    <3>1. pc'[g] = pc[g] /\ job'[g] = job[g] /\ stage'[g] = stage[g]
      BY <1>1, <1>2, <2>2
    <3>2. pc[g] \in {"download"} \cup Handing => job[g] \in Plan \ {p}
      BY <2>2 DEF DetailInv, ArchiveInv, Placed, Restoring, Executing, Handing
    <3>3. \A q \in Plan \ {p} : database'[q] = database[q]
      BY <1>1, <1>2
    <3>4. CleanOf(g) /\ (stage[g] # "base" => pc[g] = "download")
      BY DEF DetailInv, CleanInv, StageInv
    <3> QED
      BY <1>1, <3>1, <3>2, <3>3, <3>4 DEF CleanOf, Undoing
  <2> QED
    BY <2>1, <2>2
<1>4. ASSUME NEW q \in Plan
      PROVE  AsSaid(q)'
  <2>1. AsSaid(q)
    BY Said DEF DetailInv
  <2> QED
    BY <1>1, <1>2, <2>1 DEF AsSaid
<1>5. DetailTyped'
  BY <1>1, <1>2 DEF DetailInv, DetailTyped
<1> QED
  BY <1>3, <1>4, <1>5, Said DEF StageInv, CleanInv

LEMMA DetailCrash ==
  ASSUME DetailInv, NEW x \in Process, RecoveryCrash(x)
  PROVE  StageInv' /\ CleanInv' /\ VerifiedMeansRecovered' /\ DetailTyped'
<1>1. /\ stage' = [h \in Host |-> IF h = x THEN "base" ELSE stage[h]]
      /\ UNCHANGED <<created, scratch, database, interrupted, plan, restore, pins>>
  BY DEF RecoveryCrash, Crash, local, remote
<1>2. pc \in [Process -> PlanLocation \cup HostLocation] /\ job \in [Host -> Plan \cup Base \cup {NoJob}]
  BY DEF DetailInv, ArchiveInv, TypeOK
<1>3. ASSUME NEW h \in Host
      PROVE  CleanOf(h)' /\ (stage'[h] # "base" => pc'[h] = "download")
  <2>1. CASE h = x
    <3>1. pc'[h] = "idle" /\ stage'[h] = "base"
      BY <1>1, <1>2, <2>1, Sorts DEF RecoveryCrash, Crash, Finish, GoTo
    <3> QED
      BY <3>1 DEF CleanOf, Undoing, Building, Handing
  <2>2. CASE h # x
    <3>1. pc'[h] = pc[h] /\ job'[h] = job[h] /\ stage'[h] = stage[h]
      BY <1>1, <1>2, <2>2, Sorts DEF RecoveryCrash, Crash, Finish, Go, GoTo
    <3>2. CleanOf(h) /\ (stage[h] # "base" => pc[h] = "download")
      BY DEF DetailInv, CleanInv, StageInv
    <3> QED
      BY <1>1, <3>1, <3>2 DEF CleanOf, Undoing
  <2> QED
    BY <2>1, <2>2
<1>4. VerifiedMeansRecovered'
  BY <1>1 DEF DetailInv, VerifiedMeansRecovered
<1>5. DetailTyped'
  BY <1>1 DEF DetailInv, DetailTyped, Stage
<1> QED
  BY <1>3, <1>4, <1>5 DEF StageInv, CleanInv

LEMMA DetailInductive ==
  ASSUME DetailInv, [RecoveryNext]_recoveryVars
  PROVE  DetailInv' /\ [Next]_vars
<1>1. [Next]_vars
  BY Refines DEF DetailInv
<1>2. ArchiveInv'
  BY <1>1, Inductive DEF DetailInv
<1>3. StageInv' /\ CleanInv' /\ VerifiedMeansRecovered' /\ DetailTyped'
  <2>1. CASE UNCHANGED recoveryVars
    <3>1. UNCHANGED <<pc, job, pins, plan, restore, stage, created, scratch, database, interrupted>>
      BY <2>1 DEF recoveryVars, vars, remote, local, recovery
    <3> QED
      BY <3>1 DEF DetailInv, StageInv, CleanInv, CleanOf, Undoing, VerifiedMeansRecovered, DetailTyped
  <2> QED
    BY <2>1, DetailArchive, DetailStep, DetailCutover, DetailCrash DEF RecoveryNext
<1> QED
  BY <1>1, <1>2, <1>3 DEF DetailInv

LEMMA DetailInitially ==
  ASSUME RecoveryInit
  PROVE  Init /\ DetailInv
<1>1. Init /\ ArchiveInv
  BY Initially DEF RecoveryInit
<1>2. DetailTyped /\ StageInv
  BY DEF RecoveryInit, DetailTyped, StageInv, Stage
<1>3. CleanInv
  BY Sorts DEF RecoveryInit, Init, CleanInv, CleanOf, Undoing, Building, Handing
<1>4. VerifiedMeansRecovered
  BY DEF RecoveryInit, Init, VerifiedMeansRecovered
<1> QED
  BY <1>1, <1>2, <1>3, <1>4 DEF DetailInv

(* Fetched, recovered and imported step by step, with every failure and    *)
(* crash on the way, the recovery does what the archive has as one         *)
(* Download, and the base and WAL are there when it is over                *)
(* (execute_restore, recover_and_dump).                                    *)
THEOREM Implements == RecoverySpec => ImplementsArchive
<1>1. RecoveryInit => Init /\ DetailInv
  BY DetailInitially
<1>2. DetailInv /\ [RecoveryNext]_recoveryVars => DetailInv' /\ [Next]_vars
  BY DetailInductive
<1> QED
  BY <1>1, <1>2, PTL DEF RecoverySpec, ImplementsArchive, Spec

(* Pins, scratch resources and databases are as the metadata says: a       *)
(* verified restore left nothing in docker and its database is complete or *)
(* gone, and a verified plan has its database, until and after it is live, *)
(* unless its execution was interrupted (recover_and_dump,                 *)
(* execute_restore).                                                       *)
THEOREM Recovery == RecoverySpec => []RecoveryInv
<1>1. RecoveryInit => DetailInv
  BY DetailInitially
<1>2. DetailInv /\ [RecoveryNext]_recoveryVars => DetailInv'
  BY DetailInductive
<1>3. DetailInv => RecoveryInv
  BY DEF DetailInv, ArchiveInv, DetailTyped, StageInv, RecoveryInv, RecoveryTypeOK
<1> QED
  BY <1>1, <1>2, <1>3, PTL DEF RecoverySpec

(* Only a completely recovered database is cut over: its check does not    *)
(* tell a part from the whole, but no database of which a part was imported*)
(* is ever recorded as verified (cutover_restore, execute_restore).        *)
THEOREM Served == RecoverySpec => OnlyRecoveredServed
<1> DEFINE Recovers == \A p \in Plan : restore'[p] = "cutover" /\ restore[p] # "cutover" => database[p] = "recovered"
<1>1. RecoveryInit => DetailInv
  BY DetailInitially
<1>2. DetailInv /\ [RecoveryNext]_recoveryVars => DetailInv'
  BY DetailInductive
<1>3. ASSUME DetailInv, [RecoveryNext]_recoveryVars
      PROVE  [Recovers]_recoveryVars
  <2>0. restore \in [Plan -> {"none", "pending", "failed", "verified", "cutover", "finalized"}]
    BY <1>3 DEF DetailInv, ArchiveInv, TypeOK
  <2>1. CASE UNCHANGED recoveryVars
    BY <2>1
  <2>2. CASE ArchiveStep
    <3>1. \/ UNCHANGED restore
          \/ \E h \in Host : SaveRestore(h) \/ SaveVerified(h) \/ Finalize(h)
      BY <2>2 DEF ArchiveStep, ArchiveWal, TakeBase, PlanStep, PlanLease, PlanSelect, CreatePlanPin, SavePlan, Execute,
        StartRetention, HostStep, PublishBase, CheckLease, CheckPin, SaveExecuting, HandoffLease, HandoffPin,
        SaveVerifiedPlan, ReleasePlanPin, FailPlan, CutoverLease, ReleaseRestorePin, RetentionLease, Survey, Decide,
        DeleteBase, DeleteWal, RecoverLease, Age, local
    <3>2. ASSUME NEW h \in Host, SaveRestore(h) \/ SaveVerified(h) \/ Finalize(h)
          PROVE  \A p \in Plan : restore'[p] \in {restore[p], "pending", "verified", "finalized"}
      BY <2>0, <3>2 DEF SaveRestore, SaveVerified, Finalize
    <3>3. \A p \in Plan : restore'[p] \in {restore[p], "pending", "verified", "finalized"}
      BY <3>1, <3>2
    <3>4. Recovers
      BY <3>3
    <3> QED
      BY <3>4
  <2>3. ASSUME NEW h \in Host, RecoveryStep(h)
        PROVE  Recovers
    <3>1. ASSUME NEW p \in Plan
          PROVE  restore'[p] \in {restore[p], "failed"}
      <4>1. CASE p = job[h]
        BY <1>3, <2>3, <4>1, Detail DEF DetailInv
      <4>2. CASE p # job[h]
        BY <1>3, <2>3, <4>2, Detail DEF DetailInv
      <4> QED
        BY <4>1, <4>2
    <3> QED
      BY <3>1
  <2>4. ASSUME NEW p \in Plan, CutoverDatabase(p)
        PROVE  Recovers
    <3>1. \A q \in Plan \ {p} : restore'[q] = restore[q]
      BY <2>0, <2>4 DEF CutoverDatabase, Cutover
    <3>2. restore[p] # "cutover" => restore[p] = "verified" /\ database[p] \in {"partial", "recovered"}
      BY <2>4 DEF CutoverDatabase, Cutover, Answers
    <3>3. restore[p] = "verified" => database[p] \in {"recovered", "none"}
      BY <1>3 DEF DetailInv, VerifiedMeansRecovered
    <3> QED
      BY <3>1, <3>2, <3>3
  <2>5. ASSUME NEW x \in Process, RecoveryCrash(x)
        PROVE  Recovers
    BY <2>5 DEF RecoveryCrash, Crash, local
  <2> QED
    BY <1>3, <2>1, <2>2, <2>3, <2>4, <2>5 DEF RecoveryNext
<1> QED
  BY <1>1, <1>2, <1>3, PTL DEF RecoverySpec, OnlyRecoveredServed
=============================================================================
