------------------------ MODULE OperationRunner_proofs ------------------------
(***************************************************************************)
(* Proofs about OperationRunner for any number of operations, runners, CLI *)
(* processes, tokens, cancellations and crashes: executions exclude each   *)
(* other, an entry has one owner, a token authorises one execution, and the*)
(* audit trail agrees with the records.                                    *)
(***************************************************************************)
EXTENDS OperationRunner, TLAPS

(* What a process is about to save, and what became of its operation.      *)
Fresh(p) == writing[p] = "running" /\ outcome[p] = "none"
Ended(p) == outcome[p] \in {"succeeded", "failed"} /\ writing[p] = outcome[p]
Rejected(p) == p \in Runner /\ outcome[p] = "rejected" /\ writing[p] = "failed"
Refused(p) == p \in CliOp /\ outcome[p] = "refused" /\ writing[p] = "failed"

Entering == {"recheck", "verify", "consume"}

Phase(p) ==
  /\ pc[p] \in Entering => outcome[p] = "none"
  /\ pc[p] = "load" => (p \in Runner /\ Fresh(p)) \/ Ended(p) \/ Rejected(p)
  /\ pc[p] \in {"truncate", "fill"} => Fresh(p) \/ Ended(p) \/ Rejected(p) \/ Refused(p)
  /\ pc[p] \in {"start", "body"} => Fresh(p)
  /\ pc[p] \in {"new", "lock"} => outcome[p] = "none" /\ writing[p] = IF p \in Runner THEN "running" ELSE "queued"
  /\ pc[p] = "unlock" => Ended(p)
  /\ pc[p] \in {"end", "audit"} => Ended(p) \/ Refused(p)
  /\ pc[p] = "settle" => Ended(p) \/ Rejected(p)

(* Where runners and where CLI processes can be.                           *)
Placed ==
  /\ \A r \in Runner : pc[r] \notin {"new", "done"} /\ (job[r] = NoOp <=> pc[r] \in {"idle", "down"})
  /\ \A o \in CliOp : pc[o] \notin {"idle", "down"} \cup Entering

PhaseInv == Placed /\ \A p \in Proc : Phase(p)

(* A process works inside the lock of its environment, and a lock is held  *)
(* by a process that does.                                                 *)
Inside(p) ==
  InBody(p) \/ (p \in CliOp /\ writing[p] = "running" /\ pc[p] \in {"truncate", "fill", "start"})

LockInv ==
  /\ \A p \in Proc : Inside(p) => holder[EnvOf[OpOf(p)]] = p
  /\ \A e \in Env : holder[e] # NoOne => Inside(holder[e]) /\ EnvOf[OpOf(holder[e])] = e

(* An entry and its operation belong to one process, and to none any more  *)
(* when that one has died or settled it.                                   *)
EntryOf(r) == IF pc[r] = "audit" THEN {"gone", "failed"} ELSE {"running"}

OwnerInv ==
  /\ \A r \in Runner : job[r] # NoOp => entry[job[r]] \in EntryOf(r)
  /\ \A r, s \in Runner : job[r] # NoOp /\ job[r] = job[s] => r = s
  /\ \A o \in ApiOp : entry[o] = "running" => o \in orphaned \/ \E r \in Runner : job[r] = o
  /\ \A p \in Proc : Busy(p) => OpOf(p) \notin orphaned
  /\ \A o \in orphaned \cap ApiOp : entry[o] \notin {"none", "pending"}
  /\ \A o \in orphaned \cap CliOp : pc[o] = "done"

(* The cancellation of o has not written its record.                       *)
Unwritten(o) == cancel[o] \notin {"truncated", "ok"}

(* A record is torn while its process fills it, or when that one died.     *)
Settled(p) == pc[p] \in {"settle", "audit"} \/ (pc[p] = "end" /\ outcome[p] = "refused")
RecordInv ==
  /\ \A p \in Proc : pc[p] = "fill" /\ Unwritten(OpOf(p)) => record[OpOf(p)] = "torn"
  /\ \A o \in Op : record[o] = "torn" /\ Unwritten(o) =>
       o \in orphaned \/ \E p \in Proc : OpOf(p) = o /\ pc[p] = "fill"
  /\ \A p \in Proc : Settled(p) /\ Unwritten(OpOf(p)) => record[OpOf(p)] = writing[p]
  /\ \A o \in Op : record[o] = "cancelled" => cancel[o] = "ok"
  /\ crashes = 0 => \A o \in orphaned : ~Unwritten(o)

(* What a cancellation that has written may leave of a settled record.     *)
Hidden(o, v) == record[o] \in {v, "torn", "cancelled"}

HiddenInv == \A p \in Proc : Settled(p) => Hidden(OpOf(p), writing[p])

AuditedOnce ==
  \A o \in Op : audited[o] # <<>> =>
    /\ Over(o) /\ Len(audited[o]) = 1 /\ o \notin orphaned
    /\ Unwritten(o) => record[o] = audited[o][1]
    /\ Hidden(o, audited[o][1])

(* What is over was audited, or its process died, or it never began.       *)
Began(o) == o \in CliOp \/ ran[o] > 0
Accounted == \A o \in Op : Over(o) /\ Began(o) => audited[o] # <<>> \/ o \in orphaned

AuditInv == AuditedOnce /\ Accounted

WithdrawnInv ==
  \A o \in seenOff :
    /\ record[o] = "cancelled" /\ ran[o] = 0
    /\ entry[o] \in {"running", "gone"}
    /\ \A r \in Runner : job[r] = o => pc[r] = "recheck"

RanInv ==
  \A o \in ApiOp : ran[o] > 0 =>
    /\ ran[o] = 1 /\ entry[o] \notin {"none", "pending"}
    /\ \A r \in Runner : job[r] = o => outcome[r] \in {"succeeded", "failed"}

(* An operation whose token was consumed for it, and never expired by then.*)
Cleared(r) == pc[r] \notin {"idle", "down"} \cup Entering /\ outcome[r] # "rejected"
Authorised(o) == ran[o] > 0 \/ \E r \in Runner : job[r] = o /\ Cleared(r)
Spent(t) == expiry[t] > 0 /\ (nonces[t] >= expiry[t] \/ now > expiry[t])

TokenInv ==
  /\ \A o \in ApiOp : TokenOf[o] \notin late /\ Authorised(o) => Spent(TokenOf[o])
  /\ \A o1, o2 \in ApiOp :
       TokenOf[o1] = TokenOf[o2] /\ TokenOf[o1] \notin late /\ Authorised(o1) /\ Authorised(o2) => o1 = o2

IInv ==
  /\ TypeOK /\ PhaseInv /\ LockInv /\ OwnerInv
  /\ RecordInv /\ HiddenInv /\ AuditInv /\ WithdrawnInv /\ RanInv /\ TokenInv

-----------------------------------------------------------------------------
LEMMA Sorts ==
  /\ Runner \subseteq Proc /\ CliOp \subseteq Proc /\ ApiOp \subseteq Op /\ CliOp \subseteq Op
  /\ \A p \in Proc : p \notin Runner => p \in CliOp
  /\ \A p \in Proc : p \in CliOp <=> p \notin Runner
  /\ \A o \in Op : o \in CliOp <=> o \notin ApiOp
  /\ \A o \in Op : EnvOf[o] \in Env
BY PipelineAssumption DEF Proc, Op, Env

(* A busy process has its own operation.                                   *)
LEMMA Operating ==
  ASSUME TypeOK, Placed, NEW p \in Proc, Busy(p)
  PROVE  /\ OpOf(p) \in Op /\ EnvOf[OpOf(p)] \in Env
         /\ p \in Runner => job[p] \in ApiOp /\ OpOf(p) = job[p]
         /\ p \notin Runner => p \in CliOp /\ OpOf(p) = p
<1>1. p \in Runner => job[p] \in ApiOp
  BY DEF TypeOK, Placed, Busy
<1> QED
  BY <1>1, Sorts DEF OpOf

LEMMA OneOwner ==
  ASSUME TypeOK, Placed, OwnerInv, NEW p \in Proc, NEW q \in Proc,
         Busy(p), Busy(q), OpOf(p) = OpOf(q)
  PROVE  p = q
<1>1. CASE p \in Runner /\ q \in Runner
  BY <1>1, Operating, PipelineAssumption DEF OwnerInv, TypeOK
<1>2. CASE p \notin Runner \/ q \notin Runner
  BY <1>2, Operating, Sorts
<1> QED
  BY <1>1, <1>2

(* A process that died.                                                    *)
LEMMA Dead ==
  ASSUME TypeOK, Placed, NEW p \in Proc, Die(p)
  PROVE  /\ pc' \in [Proc -> Location] /\ writing' \in [Proc -> Status]
         /\ outcome' \in [Proc -> Outcome] /\ job' \in [Runner -> ApiOp \cup {NoOp}]
         /\ holder' \in [Env -> Proc \cup {NoOne}]
         /\ orphaned' \subseteq Op
         /\ ~Busy(p)'
         /\ pc'[p] = IF p \in Runner THEN "down" ELSE "done"
         /\ p \in Runner => job'[p] = NoOp
         /\ \A q \in Proc \ {p} : /\ pc'[q] = pc[q] /\ writing'[q] = writing[q]
                                  /\ outcome'[q] = outcome[q] /\ OpOf(q)' = OpOf(q)
         /\ orphaned' = IF Busy(p) THEN orphaned \cup {OpOf(p)} ELSE orphaned
         /\ \A e \in Env : holder'[e] = IF holder[e] = p THEN NoOne ELSE holder[e]
<1> USE DEF Die
<1>1. Busy(p) => OpOf(p) \in Op
  BY Operating
<1>2. /\ pc' \in [Proc -> Location] /\ writing' \in [Proc -> Status]
      /\ outcome' \in [Proc -> Outcome] /\ job' \in [Runner -> ApiOp \cup {NoOp}]
  BY DEF TypeOK, Location, Status, Outcome
<1>3. holder' \in [Env -> Proc \cup {NoOne}]
  BY DEF TypeOK
<1>4. orphaned' \subseteq Op
  BY <1>1 DEF TypeOK
<1>5. ~Busy(p)' /\ pc'[p] = IF p \in Runner THEN "down" ELSE "done"
  BY DEF TypeOK, Busy
<1>6. \A q \in Proc \ {p} : /\ pc'[q] = pc[q] /\ writing'[q] = writing[q]
                            /\ outcome'[q] = outcome[q] /\ OpOf(q)' = OpOf(q)
  BY DEF TypeOK, OpOf
<1> QED
  BY <1>1, <1>2, <1>3, <1>4, <1>5, <1>6 DEF TypeOK

-----------------------------------------------------------------------------
(* What a step is a step of: the API, or one process.                      *)
Requested(o) ==
  \/ o \in ApiOp /\ (Submit(o) \/ Enqueue(o))
  \/ o \in Op /\ (CancelCheck(o) \/ CancelStep(o))

Worked(p) ==
  \/ p \in Runner /\ (Claim(p) \/ Recheck(p) \/ Verify(p) \/ Consume(p) \/ Restart(p))
  \/ p \in CliOp /\ Create(p)
  \/ p \in Proc /\ (Step(p) \/ Crash(p))

LEMMA NextParts ==
  ASSUME Next
  PROVE  (\E o \in Op : Requested(o)) \/ (\E p \in Proc : Worked(p))
BY Sorts, PipelineAssumption DEF Next, Requested, Worked, RunnerStep

(* A request leaves the processes and their locks alone.                   *)
LEMMA RequestFrame ==
  ASSUME NEW o \in Op, Requested(o)
  PROVE  UNCHANGED <<process, holder, audited, now, nonces, late, history>>
BY DEF Requested, Submit, Enqueue, CancelCheck, CancelStep, CancelUnlink, CancelLoad,
    CancelTruncate,
  CancelFill, store, spent, process, history

(* A process leaves the others alone.                                      *)
Elsewhere(p) ==
  \A q \in Proc \ {p} : /\ pc'[q] = pc[q] /\ writing'[q] = writing[q]
                        /\ outcome'[q] = outcome[q] /\ OpOf(q)' = OpOf(q)

LEMMA ProcessFrame ==
  ASSUME TypeOK, Placed, NEW p \in Proc, Worked(p)
  PROVE  Elsewhere(p) /\ UNCHANGED <<expiry, cancel>>
<1> USE Sorts DEF GoTo, store, spent, process, history
<1>1. Die(p) => Elsewhere(p)
  BY Dead DEF Elsewhere
<1>2. CASE p \in Runner /\ (Claim(p) \/ Verify(p) \/ Consume(p) \/ Restart(p))
  BY <1>2 DEF Claim, Verify, Consume, Reject, Restart, Elsewhere, OpOf, TypeOK
<1>3. CASE p \in CliOp /\ Create(p)
  BY <1>3 DEF Create, Elsewhere, OpOf, TypeOK
<1>4. CASE (p \in Runner /\ Recheck(p)) \/ LoadRecord(p) \/ Start(p) \/ Crash(p)
  BY <1>1, <1>4 DEF Recheck, LoadRecord, Start, Crash, Elsewhere, OpOf, TypeOK
<1>5. CASE Truncate(p) \/ Fill(p) \/ TakeLock(p) \/ LockRefused(p) \/ Body(p) \/ Unlock(p) \/ End(p)
  BY <1>5 DEF Truncate, Fill, TakeLock, LockRefused, Body, Unlock, End, Elsewhere, OpOf, TypeOK
<1>6. CASE Settle(p) \/ Audit(p)
  BY <1>6 DEF Settle, LetGo, Audit, Elsewhere, OpOf, TypeOK
<1> QED
  BY <1>2, <1>3, <1>4, <1>5, <1>6 DEF Worked, Step

-----------------------------------------------------------------------------
(* Types, by what the steps change.                                        *)
RecordTyped == record \in [Op -> Status \cup {"missing", "torn"}]
EntryTyped == entry \in [ApiOp -> {"none", "pending", "running", "failed", "gone"}]
AuditTyped == audited \in [Op -> Seq({"failed", "succeeded"})]
SpentTyped ==
  now \in 0..MaxTime /\ expiry \in [Token -> Nat] /\ nonces \in [Token -> Nat] /\ late \subseteq Token
HolderTyped == holder \in [Env -> Proc \cup {NoOne}]
JobTyped == job \in [Runner -> ApiOp \cup {NoOp}]
ProcessTyped ==
  pc \in [Proc -> Location] /\ writing \in [Proc -> Status] /\ outcome \in [Proc -> Outcome]
CancelTyped ==
  cancel \in [Op -> {"idle", "checked", "unlinked", "loaded", "truncated", "ok", "refused"}]
RanTyped == ran \in [Op -> Nat]
HistoryTyped == orphaned \subseteq Op /\ seenOff \subseteq ApiOp /\ crashes \in 0..MaxCrashes

Types ==
  /\ RecordTyped /\ EntryTyped /\ AuditTyped /\ SpentTyped /\ HolderTyped /\ JobTyped
  /\ ProcessTyped /\ CancelTyped /\ RanTyped /\ HistoryTyped

LEMMA TypeParts == (TypeOK <=> Types) /\ (TypeOK' <=> Types')
BY DEF TypeOK, Types, RecordTyped, EntryTyped, AuditTyped, SpentTyped, HolderTyped, JobTyped,
  ProcessTyped, CancelTyped, RanTyped, HistoryTyped

(* What is unchanged keeps its type.                                       *)
LEMMA TypesKept ==
  ASSUME Types
  PROVE  /\ UNCHANGED record => RecordTyped'
         /\ UNCHANGED entry => EntryTyped'
         /\ UNCHANGED audited => AuditTyped'
         /\ UNCHANGED spent => SpentTyped'
         /\ UNCHANGED holder => HolderTyped'
         /\ UNCHANGED job => JobTyped'
         /\ UNCHANGED <<pc, writing, outcome>> => ProcessTyped'
         /\ UNCHANGED cancel => CancelTyped'
         /\ UNCHANGED ran => RanTyped'
         /\ UNCHANGED <<orphaned, seenOff, crashes>> => HistoryTyped'
BY DEF Types, RecordTyped, EntryTyped, AuditTyped, SpentTyped, HolderTyped, JobTyped,
  ProcessTyped, CancelTyped, RanTyped, HistoryTyped, spent

LEMMA TypeRequest ==
  ASSUME Types, NEW o \in Op, Requested(o)
  PROVE  Types'
<1> USE Sorts, TypesKept DEF Types, store, process, history, Requested, CancelStep
<1>1. UNCHANGED <<audited, holder, job, pc, writing, outcome, ran, orphaned, seenOff, crashes>>
  BY RequestFrame
<1>2. RecordTyped'
  BY DEF Submit, Enqueue, CancelCheck, CancelUnlink, CancelLoad, CancelTruncate, CancelFill, Filled,
    RecordTyped, Status, Terminal
<1>3. EntryTyped'
  BY DEF Submit, Enqueue, CancelCheck, CancelUnlink, CancelLoad, CancelTruncate, CancelFill,
      EntryTyped
<1>4. CancelTyped'
  BY DEF Submit, Enqueue, CancelCheck, CancelUnlink, CancelLoad, CancelTruncate, CancelFill,
      CancelTo,
    CancelTyped
<1>5. SpentTyped'
  <2>1. CASE o \in ApiOp /\ Enqueue(o)
    <3>1. TokenOf[o] \in Token /\ now + Ttl \in Nat
      BY <2>1, PipelineAssumption DEF SpentTyped
    <3> QED
      BY <2>1, <3>1 DEF Enqueue, Mint, SpentTyped
  <2>2. CASE UNCHANGED spent
    BY <2>2
  <2> QED
    BY <2>1, <2>2 DEF Submit, CancelCheck, CancelUnlink, CancelLoad, CancelTruncate, CancelFill
<1> QED
  BY <1>1, <1>2, <1>3, <1>4, <1>5

LEMMA TypeStep ==
  ASSUME TypeOK, PhaseInv, NEW p \in Proc, Worked(p)
  PROVE  Types'
<1> USE Sorts, TypeParts, TypesKept DEF Types, GoTo, store, process, history, Worked, Step
<1>1. CancelTyped'
  BY ProcessFrame DEF PhaseInv
<1>2. OpOf(p) \in Op \/ ~Busy(p)
  BY Operating DEF PhaseInv
<1>3. RecordTyped'
  <2>1. CASE Truncate(p) \/ Fill(p)
    BY <1>2, <2>1 DEF Truncate, Fill, Saved, Filled, Busy, RecordTyped, ProcessTyped
  <2>2. CASE p \in CliOp /\ Create(p)
    BY <2>2 DEF Create, RecordTyped, Status
  <2> QED
    BY <2>1, <2>2 DEF Claim, Recheck, Verify, Consume, Restart, LoadRecord, Start, TakeLock,
        LockRefused,
      Body, Unlock, End, Settle, LetGo, Audit, Crash
<1>4. EntryTyped'
  BY DEF Claim, Recheck, Complete, Verify, Consume, Restart, Create, LoadRecord, Truncate, Fill,
      Start,
    TakeLock, LockRefused, Body, Unlock, End, Settle, LetGo, SettledAs, Audit, Crash, EntryTyped
<1>5. AuditTyped'
  <2>1. CASE Audit(p)
    <3>1. audited[OpOf(p)] \in Seq({"failed", "succeeded"}) /\ AuditOutcome(p) \in {"failed", "succeeded"}
      BY <1>2, <2>1 DEF Audit, Busy, AuditTyped, AuditOutcome
    <3>2. Append(audited[OpOf(p)], AuditOutcome(p)) \in Seq({"failed", "succeeded"})
      BY <3>1
    <3> QED
      BY <2>1, <3>2 DEF Audit, AuditTyped
  <2> QED
    BY <2>1 DEF Claim, Recheck, Verify, Consume, Restart, Create, LoadRecord, Truncate, Fill, Start,
      TakeLock, LockRefused, Body, Unlock, End, Settle, LetGo, Crash
<1>6. SpentTyped'
  <2>1. CASE p \in Runner /\ Consume(p)
    <3>1. job[p] \in ApiOp /\ TokenOf[job[p]] \in Token
      BY <2>1, PipelineAssumption DEF Consume, PhaseInv, Placed, JobTyped
    <3>2. now' \in 0..MaxTime /\ now' \in Nat
      BY <2>1, PipelineAssumption DEF Consume, SpentTyped
    <3>3. Purged \in [Token -> Nat] /\ KeptUntil(TokenOf[job[p]]) \in Nat
      BY <3>1, <3>2, PipelineAssumption DEF Purged, KeptUntil, SpentTyped
    <3> QED
      BY <2>1, <3>1, <3>2, <3>3 DEF Consume, SpentTyped
  <2>2. CASE p \in Runner /\ Verify(p)
    BY <2>2 DEF Verify, spent
  <2> QED
    BY <2>1, <2>2 DEF Claim, Recheck, Restart, Create, LoadRecord, Truncate, Fill, Start,
      TakeLock, LockRefused, Body, Unlock, End, Settle, LetGo, Audit, Crash
<1>7. Die(p) => HolderTyped' /\ JobTyped' /\ ProcessTyped' /\ orphaned' \subseteq Op
  BY Dead DEF HolderTyped, JobTyped, ProcessTyped, PhaseInv
<1>8. HolderTyped'
  <2>1. CASE TakeLock(p) \/ Unlock(p)
    BY <1>2, <2>1, Sorts DEF TakeLock, Unlock, GiveBack, SetHolder, Busy, HolderTyped
  <2> QED
    BY <1>7, <2>1 DEF Claim, Recheck, Verify, Consume, Restart, Create, LoadRecord, Truncate, Fill,
        Start,
      LockRefused, Body, End, Settle, LetGo, Audit, Crash
<1>9. JobTyped'
  BY <1>7 DEF Claim, Recheck, Verify, Consume, Restart, Create, LoadRecord, Truncate, Fill, Start,
    TakeLock, LockRefused, Body, Unlock, End, Settle, LetGo, Audit, Crash, JobTyped
<1>10. ProcessTyped'
  <2> USE Sorts DEF ProcessTyped
  <2>1. CASE p \in Runner /\ (Claim(p) \/ Verify(p) \/ Consume(p) \/ Restart(p))
    <3>1. pc' \in [Proc -> Location]
      BY <2>1 DEF Claim, Verify, Consume, Reject, Restart, Location
    <3>2. writing' \in [Proc -> Status] /\ outcome' \in [Proc -> Outcome]
      BY <2>1 DEF Claim, Verify, Consume, Reject, Restart, Status, Terminal, Outcome
    <3> QED
      BY <3>1, <3>2
  <2>2. CASE (p \in Runner /\ Recheck(p)) \/ LoadRecord(p) \/ Start(p) \/ Crash(p)
    BY <1>7, <2>2 DEF Recheck, LoadRecord, Start, Crash, Location
  <2>3. CASE Truncate(p) \/ Fill(p) \/ Unlock(p) \/ End(p) \/ (p \in CliOp /\ Create(p))
    BY <2>3 DEF Truncate, Fill, AfterFill, Unlock, End, Create, Location
  <2>4. CASE TakeLock(p) \/ LockRefused(p) \/ Body(p)
    <3>1. pc' \in [Proc -> Location]
      BY <2>4 DEF TakeLock, LockRefused, Body, Location
    <3>2. writing' \in [Proc -> Status] /\ outcome' \in [Proc -> Outcome]
      BY <2>4 DEF TakeLock, LockRefused, RefusedStatus, Body, Status, Terminal, Outcome
    <3> QED
      BY <3>1, <3>2
  <2>5. CASE Settle(p) \/ Audit(p)
    BY <2>5 DEF Settle, LetGo, Audit, Location
  <2> QED
    BY <2>1, <2>2, <2>3, <2>4, <2>5
<1>11. RanTyped'
  <2>1. CASE Body(p)
    BY <1>2, <2>1 DEF Body, Busy, RanTyped
  <2> QED
    BY <2>1 DEF Claim, Recheck, Verify, Consume, Restart, Create, LoadRecord, Truncate, Fill, Start,
      TakeLock, LockRefused, Unlock, End, Settle, LetGo, Audit, Crash
<1>12. HistoryTyped'
  BY <1>7, PipelineAssumption DEF Claim, Recheck, Verify, Consume, Restart, Create, LoadRecord,
      Truncate,
    Fill, Start, TakeLock, LockRefused, Body, Unlock, End, Settle, LetGo, Audit, Crash, HistoryTyped
<1> QED
  BY <1>1, <1>3, <1>4, <1>5, <1>6, <1>8, <1>9, <1>10, <1>11, <1>12

-----------------------------------------------------------------------------
(* Phases.                                                                 *)
LEMMA PhaseRequest ==
  ASSUME PhaseInv, NEW o \in Op, Requested(o)
  PROVE  PhaseInv'
BY RequestFrame DEF process, PhaseInv, Placed, Phase, Fresh, Ended, Rejected, Refused

LEMMA PhaseOthers ==
  ASSUME PhaseInv, NEW p \in Proc, Elsewhere(p), NEW q \in Proc \ {p}
  PROVE  Phase(q)'
BY DEF PhaseInv, Elsewhere, Phase, Fresh, Ended, Rejected, Refused

LEMMA PhaseStep ==
  ASSUME TypeOK, PhaseInv, NEW p \in Proc, Worked(p)
  PROVE  PhaseInv'
<1> USE Sorts DEF GoTo, PhaseInv
<1>1. Elsewhere(p)
  BY ProcessFrame
<1>2. Die(p) => Phase(p)'
  BY Dead DEF Phase, Entering, Busy
<1>3. Phase(p) /\ pc \in [Proc -> Location] /\ writing \in [Proc -> Status] /\ outcome \in [Proc -> Outcome]
  BY DEF TypeOK
<1>4. Phase(p)'
  <2> USE <1>3 DEF Phase, Fresh, Ended, Rejected, Refused, Entering
  <2>1. CASE p \in Runner /\ (Claim(p) \/ Verify(p) \/ Consume(p) \/ Restart(p))
    BY <2>1 DEF Claim, Verify, Consume, Reject, Restart, process
  <2>2. CASE (p \in Runner /\ Recheck(p)) \/ LoadRecord(p) \/ Start(p) \/ Crash(p)
    BY <1>2, <2>2 DEF Recheck, LoadRecord, Start, Crash
  <2>3. CASE Truncate(p) \/ Fill(p) \/ Unlock(p) \/ End(p)
    BY <2>3 DEF Truncate, Fill, AfterFill, Unlock, End
  <2>4. CASE TakeLock(p) \/ LockRefused(p) \/ Body(p)
    BY <2>4 DEF TakeLock, LockRefused, RefusedStatus, Body
  <2>5. CASE Settle(p) \/ Audit(p)
    BY <2>5 DEF Settle, LetGo, IsAudited, Audit
  <2>6. CASE p \in CliOp /\ Create(p)
    BY <2>6 DEF Create
  <2> QED
    BY <2>1, <2>2, <2>3, <2>4, <2>5, <2>6 DEF Worked, Step
<1>5. Placed'
  <2>1. \A q \in Proc \ {p} : /\ q \in Runner => pc'[q] = pc[q] /\ job'[q] = job[q]
                              /\ q \in CliOp => pc'[q] = pc[q]
    BY <1>1 DEF Elsewhere, OpOf
  <2>2. p \in CliOp => pc'[p] \notin {"idle", "down"} \cup Entering
    <3>1. CASE LoadRecord(p) \/ Start(p) \/ Crash(p)
      BY <3>1, Dead DEF LoadRecord, Start, Crash, Entering, TypeOK
    <3> QED
      BY <1>3, <3>1 DEF Worked, Step, Create, Truncate, Fill, AfterFill, TakeLock, LockRefused,
          Body,
        Unlock, End, Settle, LetGo, Audit, Entering, Phase, Ended, Rejected
  <2>3. p \in Runner => pc'[p] \notin {"new", "done"} /\ (job'[p] = NoOp <=> pc'[p] \in {"idle", "down"})
    <3> USE <1>3, PipelineAssumption DEF Placed
    <3>1. CASE LoadRecord(p) \/ Start(p) \/ Crash(p) \/ (p \in Runner /\ Recheck(p))
      BY <3>1, Dead DEF LoadRecord, Start, Crash, Recheck, TypeOK
    <3>2. CASE p \in Runner /\ (Claim(p) \/ Verify(p) \/ Consume(p) \/ Restart(p))
      BY <3>2 DEF Claim, Verify, Consume, Reject, Restart, TypeOK, process
    <3>3. CASE Settle(p) \/ Audit(p)
      BY <3>3 DEF Settle, LetGo, Audit, TypeOK
    <3>4. CASE Truncate(p) \/ Fill(p) \/ TakeLock(p) \/ LockRefused(p) \/ Body(p) \/ Unlock(p) \/ End(p)
      BY <3>4 DEF Truncate, Fill, AfterFill, TakeLock, LockRefused, Body, Unlock, End
    <3> QED
      BY <3>1, <3>2, <3>3, <3>4 DEF Worked, Step
  <2> QED
    BY <2>1, <2>2, <2>3 DEF Placed
<1> QED
  BY <1>1, <1>4, <1>5, PhaseOthers

-----------------------------------------------------------------------------
(* Locks.                                                                  *)
LEMMA LockRequest ==
  ASSUME LockInv, NEW o \in Op, Requested(o)
  PROVE  LockInv'
BY RequestFrame DEF process, LockInv, Inside, InBody, OpOf

(* A step that leaves the locks alone, and its process inside or outside.  *)
LEMMA LockKept ==
  ASSUME LockInv, HolderTyped, NEW p \in Proc, Elsewhere(p), UNCHANGED holder,
         Inside(p)' <=> Inside(p), Inside(p) => OpOf(p)' = OpOf(p)
  PROVE  LockInv'
<1>1. \A q \in Proc \ {p} : Inside(q)' <=> Inside(q)
  BY DEF Elsewhere, Inside, InBody
<1>2. \A e \in Env : holder[e] # NoOne => holder[e] \in Proc
  BY DEF HolderTyped
<1> QED
  BY <1>1, <1>2 DEF LockInv, Elsewhere

LEMMA LockStep ==
  ASSUME TypeOK, PhaseInv, LockInv, NEW p \in Proc, Worked(p)
  PROVE  LockInv'
<1> USE Sorts, PipelineAssumption DEF GoTo, PhaseInv
<1>1. Elsewhere(p) /\ Phase(p) /\ HolderTyped
  BY ProcessFrame, TypeParts DEF Types
<1>2. \A q \in Proc \ {p} : Inside(q)' <=> Inside(q)
  BY <1>1 DEF Elsewhere, Inside, InBody
<1>3. pc \in [Proc -> Location] /\ writing \in [Proc -> Status] /\ outcome \in [Proc -> Outcome]
      /\ job \in [Runner -> ApiOp \cup {NoOp}]
  BY DEF TypeOK
<1>4. CASE Die(p)
  <2>1. ~Inside(p)'
    BY <1>4, Dead DEF Inside, InBody, Busy
  <2>2. \A e \in Env : holder'[e] # NoOne => holder[e] # p /\ holder'[e] = holder[e]
    BY <1>4, Dead
  <2>3. \A q \in Proc \ {p} : Inside(q) => Busy(q)
    BY DEF Inside, InBody, Busy
  <2> QED
    BY <1>1, <1>2, <1>4, <2>1, <2>2, <2>3, Dead, Operating DEF LockInv, Elsewhere, HolderTyped
<1>5. CASE p \in Runner /\ (Claim(p) \/ Verify(p) \/ Consume(p) \/ Restart(p))
  <2>1. UNCHANGED holder /\ ~Inside(p) /\ ~Inside(p)'
    BY <1>3, <1>5 DEF Claim, Verify, Consume, Reject, Restart, Inside, InBody
  <2> QED
    BY <1>1, <2>1, LockKept
<1>6. CASE ~Die(p) /\ ((p \in Runner /\ Recheck(p)) \/ LoadRecord(p) \/ Start(p))
  <2>1. UNCHANGED holder /\ (Inside(p)' <=> Inside(p)) /\ (Inside(p) => OpOf(p)' = OpOf(p))
    BY <1>1, <1>3, <1>6 DEF Recheck, LoadRecord, Start, Inside, InBody, Phase, Fresh, Ended,
        Rejected, OpOf
  <2> QED
    BY <1>1, <2>1, LockKept
<1>7. CASE Truncate(p) \/ Fill(p) \/ Body(p) \/ End(p) \/ (p \in CliOp /\ Create(p)) \/ LockRefused(p)
  <2>1. UNCHANGED holder /\ (Inside(p)' <=> Inside(p)) /\ (Inside(p) => OpOf(p)' = OpOf(p))
    BY <1>1, <1>3, <1>7 DEF Truncate, Fill, AfterFill, Body, End, Create, LockRefused,
        RefusedStatus, Inside,
      InBody, Phase, Fresh, Ended, Refused, Rejected, OpOf
  <2> QED
    BY <1>1, <2>1, LockKept
<1>8. CASE Settle(p) \/ Audit(p)
  <2>1. UNCHANGED holder /\ ~Inside(p) /\ ~Inside(p)'
    BY <1>1, <1>3, <1>8 DEF Settle, LetGo, Audit, Inside, InBody
  <2> QED
    BY <1>1, <2>1, LockKept
<1>9. CASE TakeLock(p)
  <2>1. OpOf(p)' = OpOf(p) /\ EnvOf[OpOf(p)] \in Env /\ ~Inside(p) /\ Inside(p)'
    BY <1>3, <1>9, Operating DEF TakeLock, Busy, OpOf, Inside, InBody
  <2>2. /\ holder[EnvOf[OpOf(p)]] = NoOne /\ holder'[EnvOf[OpOf(p)]] = p
        /\ \A e \in Env \ {EnvOf[OpOf(p)]} : holder'[e] = holder[e]
    BY <1>1, <1>9, <2>1 DEF TakeLock, LockFree, SetHolder, HolderTyped
  <2>3. \A q \in Proc \ {p} : Inside(q) => EnvOf[OpOf(q)] \in Env /\ holder[EnvOf[OpOf(q)]] = q
    BY Operating DEF LockInv, Inside, InBody, Busy
  <2> QED
    BY <1>1, <1>2, <2>1, <2>2, <2>3 DEF LockInv, Elsewhere, HolderTyped
<1>10. CASE Unlock(p)
  <2>1. OpOf(p)' = OpOf(p) /\ EnvOf[OpOf(p)] \in Env /\ Inside(p) /\ ~Inside(p)'
    BY <1>3, <1>10, Operating DEF Unlock, Busy, OpOf, Inside, InBody
  <2>2. /\ holder[EnvOf[OpOf(p)]] = p /\ holder'[EnvOf[OpOf(p)]] = NoOne
        /\ \A e \in Env \ {EnvOf[OpOf(p)]} : holder'[e] = holder[e]
    BY <1>1, <1>10, <2>1 DEF Unlock, GiveBack, SetHolder, HolderTyped, LockInv
  <2>3. \A q \in Proc \ {p} : Inside(q) => EnvOf[OpOf(q)] \in Env /\ holder[EnvOf[OpOf(q)]] = q
    BY Operating DEF LockInv, Inside, InBody, Busy
  <2> QED
    BY <1>1, <1>2, <2>1, <2>2, <2>3 DEF LockInv, Elsewhere, HolderTyped
<1> QED
  BY <1>4, <1>5, <1>6, <1>7, <1>8, <1>9, <1>10 DEF Worked, Step, Crash

-----------------------------------------------------------------------------
(* Entries and their owners.                                               *)
LEMMA OwnerRequest ==
  ASSUME TypeOK, OwnerInv, NEW o \in Op, Requested(o)
  PROVE  OwnerInv'
<1>1. UNCHANGED <<pc, job, orphaned>>
  BY RequestFrame DEF process, history
<1>2. \A a \in ApiOp :
        \/ entry'[a] = entry[a]
        \/ entry[a] = "none" /\ entry'[a] = "pending" /\ a \notin orphaned
        \/ entry[a] = "pending" /\ entry'[a] = "gone"
  BY DEF Requested, Submit, Enqueue, CancelCheck, CancelStep, CancelUnlink, CancelLoad,
      CancelTruncate,
    CancelFill, store, TypeOK, OwnerInv
<1>3. \A r \in Runner : job[r] # NoOp => job[r] \in ApiOp
  BY DEF TypeOK
<1>4. \A q \in Proc : (Busy(q)' <=> Busy(q)) /\ OpOf(q)' = OpOf(q) /\ EntryOf(q)' = EntryOf(q)
  BY <1>1 DEF Busy, OpOf, EntryOf
<1>5. \A r \in Runner : job[r] # NoOp => entry'[job[r]] \in EntryOf(r)
  BY <1>2, <1>3 DEF OwnerInv, EntryOf
<1> QED
  BY <1>1, <1>2, <1>4, <1>5, Sorts DEF OwnerInv

(* A process that leaves the entries alone, keeps its operation while it is*)
(* busy, and dies at most.                                                 *)
LEMMA OwnerKept ==
  ASSUME TypeOK, Placed, OwnerInv, NEW p \in Proc, Elsewhere(p), UNCHANGED entry, Placed',
         \/ /\ UNCHANGED <<job, orphaned>>
            /\ p \in Runner => (pc[p] = "audit" <=> pc'[p] = "audit")
            /\ (Busy(p)' /\ p \in Runner) => Busy(p)
            /\ pc[p] = "done" => pc'[p] = "done"
         \/ Die(p)
  PROVE  OwnerInv'
<1> USE Sorts, PipelineAssumption
<1>1. \A r \in Runner \ {p} : job'[r] = job[r] /\ pc'[r] = pc[r]
  BY DEF Elsewhere, OpOf
<1>2. \A q \in Proc \ {p} : (Busy(q)' <=> Busy(q)) /\ OpOf(q)' = OpOf(q)
  BY DEF Elsewhere, Busy
<1>3. CASE UNCHANGED <<job, orphaned>> /\ ~Die(p)
  <2>1. /\ OpOf(p)' = OpOf(p) /\ (pc[p] = "done" => pc'[p] = "done")
        /\ p \in Runner => (pc[p] = "audit" <=> pc'[p] = "audit")
    BY <1>3 DEF OpOf
  <2>2. Busy(p)' => OpOf(p) \notin orphaned
    <3>1. CASE Busy(p)
      BY <3>1 DEF OwnerInv
    <3>2. CASE ~Busy(p) /\ Busy(p)'
      <4>1. p \in CliOp /\ pc[p] # "done"
        BY <1>3, <3>2, <2>1 DEF Busy
      <4> QED
        BY <4>1 DEF OwnerInv, OpOf
    <3> QED
      BY <3>1, <3>2
  <2>3. \A r \in Runner : EntryOf(r)' = EntryOf(r)
    BY <1>1, <2>1 DEF EntryOf
  <2>4. \A o \in orphaned \cap CliOp : pc'[o] = "done"
    BY <2>1 DEF OwnerInv, Elsewhere
  <2> QED
    BY <1>2, <1>3, <2>1, <2>2, <2>3, <2>4 DEF OwnerInv
<1>4. CASE Die(p)
  <2>1. /\ ~Busy(p)' /\ (p \in Runner => job'[p] = NoOp)
        /\ orphaned' = IF Busy(p) THEN orphaned \cup {OpOf(p)} ELSE orphaned
    BY <1>4, Dead
  <2>2. \A r, s \in Runner : job'[r] # NoOp /\ job'[r] = job'[s] => r = s
    BY <1>1, <2>1 DEF OwnerInv
  <2>3. \A q \in Proc \ {p} : Busy(q) => OpOf(q) \notin orphaned'
    BY <2>1, OneOwner DEF OwnerInv
  <2>4. p \in Runner /\ job[p] # NoOp => Busy(p) /\ OpOf(p) = job[p]
    BY DEF Placed, Busy, OpOf
  <2>5. \A o \in orphaned' \cap ApiOp : entry[o] \notin {"none", "pending"}
    BY <2>1, <2>4, Operating DEF OwnerInv, EntryOf, OpOf, Placed, Busy
  <2>6. \A o \in ApiOp : entry[o] = "running" => o \in orphaned' \/ \E r \in Runner : job'[r] = o
    BY <1>1, <2>1, <2>4 DEF OwnerInv
  <2>7. \A r \in Runner : job'[r] # NoOp => entry[job'[r]] \in EntryOf(r)'
    BY <1>1, <2>1 DEF OwnerInv, EntryOf
  <2>8. \A o \in orphaned' \cap CliOp : pc'[o] = "done"
    <3>1. Busy(p) /\ OpOf(p) \in CliOp => OpOf(p) = p /\ pc'[p] = "done"
      BY <1>4, Dead, Operating
    <3>2. p \in CliOp => pc'[p] = "done"
      BY <1>4, Dead
    <3>3. \A o \in orphaned \cap CliOp : o # p => pc'[o] = "done"
      BY DEF OwnerInv, Elsewhere
    <3> QED
      BY <2>1, <3>1, <3>2, <3>3
  <2> QED
    BY <1>2, <2>1, <2>2, <2>3, <2>5, <2>6, <2>7, <2>8 DEF OwnerInv
<1> QED
  BY <1>3, <1>4

LEMMA OwnerStep ==
  ASSUME TypeOK, PhaseInv, OwnerInv, NEW p \in Proc, Worked(p)
  PROVE  OwnerInv'
<1> USE Sorts, PipelineAssumption DEF GoTo, PhaseInv
<1>1. Elsewhere(p) /\ Phase(p) /\ Placed'
  BY ProcessFrame, PhaseStep
<1>2. /\ pc \in [Proc -> Location] /\ outcome \in [Proc -> Outcome] /\ job \in [Runner -> ApiOp \cup {NoOp}]
      /\ entry \in [ApiOp -> {"none", "pending", "running", "failed", "gone"}]
  BY DEF TypeOK
<1>3. /\ \A r \in Runner \ {p} : job'[r] = job[r] /\ EntryOf(r)' = EntryOf(r)
      /\ \A q \in Proc \ {p} : (Busy(q)' <=> Busy(q)) /\ OpOf(q)' = OpOf(q)
  BY <1>1 DEF Elsewhere, OpOf, EntryOf, Busy
<1>4. ASSUME UNCHANGED <<entry, orphaned, job>>, p \in Runner => pc[p] # "audit" /\ pc'[p] # "audit",
             p \in Runner => pc[p] # "idle", pc[p] # "done", pc[p] # "down" \/ ~Busy(p)'
      PROVE  OwnerInv'
  BY <1>1, <1>4, OwnerKept DEF Busy, Placed
<1>5. CASE Die(p) /\ UNCHANGED entry
  BY <1>1, <1>5, OwnerKept
<1>6. CASE p \in Runner /\ (Verify(p) \/ Consume(p) \/ Restart(p))
  BY <1>2, <1>4, <1>6 DEF Verify, Consume, Reject, Restart, Busy, store, history, process
<1>7. CASE Truncate(p) \/ Fill(p) \/ TakeLock(p) \/ LockRefused(p) \/ Body(p) \/ Unlock(p)
           \/ (p \in CliOp /\ Create(p))
  BY <1>2, <1>4, <1>7 DEF Truncate, Fill, AfterFill, TakeLock, LockRefused, Body, Unlock, Create,
      Busy, store, history
<1>8. CASE End(p)
  BY <1>1, <1>2, <1>4, <1>8 DEF End, Busy, store, history, Phase, Ended, Refused
<1>9. CASE LoadRecord(p) \/ Start(p) \/ Crash(p)
  BY <1>2, <1>4, <1>5, <1>9 DEF LoadRecord, Start, Crash, Busy, store
<1>10. CASE p \in Runner /\ Claim(p)
  <2>1. PICK o \in ApiOp : entry[o] = "pending" /\ entry' = [entry EXCEPT ![o] = "running"]
                          /\ job' = [job EXCEPT ![p] = o]
    BY <1>10 DEF Claim
  <2>2. UNCHANGED orphaned /\ o \notin orphaned /\ pc'[p] = "recheck" /\ OpOf(p)' = o /\ job'[p] = o
    BY <1>2, <1>10, <2>1 DEF Claim, OwnerInv, OpOf
  <2>3. \A r \in Runner \ {p} : job[r] # o
    BY <2>1 DEF OwnerInv, EntryOf
  <2>4. \A a \in ApiOp : entry'[a] = IF a = o THEN "running" ELSE entry[a]
    BY <1>2, <2>1
  <2>5. \A r \in Runner \ {p} : job[r] # NoOp => job[r] \in ApiOp /\ entry'[job[r]] = entry[job[r]]
    BY <1>2, <2>3, <2>4
  <2>6. \A r \in Runner : job'[r] # NoOp => entry'[job'[r]] \in EntryOf(r)'
    BY <1>3, <2>2, <2>4, <2>5 DEF OwnerInv, EntryOf
  <2>7. \A r, s \in Runner : job'[r] # NoOp /\ job'[r] = job'[s] => r = s
    BY <1>3, <2>2, <2>3 DEF OwnerInv
  <2>8. \A a \in ApiOp : entry'[a] = "running" => a \in orphaned \/ \E r \in Runner : job'[r] = a
    <3>1. job[p] = NoOp /\ NoOp \notin ApiOp
      BY <1>10 DEF Claim, Placed
    <3> QED
      BY <1>3, <1>10, <2>2, <2>4, <3>1 DEF OwnerInv
  <2>9. \A a \in orphaned \cap CliOp : pc'[a] = "done"
    BY <1>1, <1>10 DEF OwnerInv, Elsewhere
  <2> QED
    BY <1>3, <2>2, <2>4, <2>6, <2>7, <2>8, <2>9 DEF OwnerInv
<1>11. CASE p \in Runner /\ Recheck(p)
  <2>1. CASE UNCHANGED <<entry, job, orphaned>> /\ pc'[p] = "verify"
    BY <1>2, <1>4, <1>11, <2>1 DEF Recheck, Busy
  <2>2. CASE Complete(p) /\ ~Die(p) /\ job' = [job EXCEPT ![p] = NoOp] /\ UNCHANGED orphaned /\ pc'[p] = "idle"
    <3>1. job[p] \in ApiOp /\ entry[job[p]] = "running" /\ OpOf(p) = job[p] /\ job'[p] = NoOp
      BY <1>2, <1>11, <2>2 DEF Recheck, Placed, OwnerInv, EntryOf, OpOf
    <3>2. \A a \in ApiOp : entry'[a] = IF a = job[p] THEN "gone" ELSE entry[a]
      BY <1>2, <2>2, <3>1 DEF Complete
    <3>3. \A r \in Runner \ {p} : job[r] # NoOp => job[r] \in ApiOp /\ job[r] # job[p]
      BY <1>2, <1>11, <3>1 DEF OwnerInv
    <3>4. \A r \in Runner : job'[r] # NoOp => entry'[job'[r]] \in EntryOf(r)'
      BY <1>3, <3>1, <3>2, <3>3 DEF OwnerInv
    <3>5. \A a \in ApiOp : entry'[a] = "running" => a \in orphaned \/ \E r \in Runner : job'[r] = a
      BY <1>3, <3>2 DEF OwnerInv
    <3>6. ~Busy(p)' /\ \A a \in orphaned \cap CliOp : pc'[a] = "done"
      BY <1>1, <1>11, <2>2 DEF OwnerInv, Elsewhere, Busy
    <3> QED
      BY <1>3, <2>2, <3>1, <3>2, <3>4, <3>5, <3>6 DEF OwnerInv
  <2>3. CASE Die(p) /\ UNCHANGED entry
    BY <1>5, <2>3
  <2>4. Complete(p) /\ GoTo(p, "idle") => pc'[p] = "idle" /\ ~(Die(p))
    BY <1>2, <1>11 DEF Recheck, Die
  <2>5. GoTo(p, "verify") => pc'[p] = "verify"
    BY <1>2
  <2> QED
    BY <1>11, <2>1, <2>2, <2>3, <2>4, <2>5 DEF Recheck
<1>12. CASE Settle(p) \/ Audit(p)
  <2>1. CASE p \in Runner
    <3>1. /\ job[p] \in ApiOp /\ OpOf(p) = job[p] /\ Busy(p) /\ UNCHANGED orphaned
          /\ Settle(p) => entry[job[p]] = "running"
      BY <1>2, <1>12, <2>1 DEF Settle, LetGo, Audit, Placed, OwnerInv, EntryOf, OpOf, Busy, history
    <3>2. /\ entry'[job[p]] \in {"gone", "failed"}
          /\ \A a \in ApiOp : a # job[p] => entry'[a] = entry[a]
      BY <1>2, <1>12, <2>1, <3>1 DEF Settle, LetGo, SettledAs, Audit, OwnerInv, EntryOf
    <3>3. \A r \in Runner \ {p} : job[r] # NoOp => job[r] \in ApiOp /\ job[r] # job[p]
      BY <1>2, <2>1, <3>1 DEF OwnerInv
    <3>4. \/ job'[p] = NoOp /\ pc'[p] = "idle"
          \/ job'[p] = job[p] /\ pc'[p] = "audit"
      BY <1>2, <1>12, <2>1 DEF Settle, LetGo, Audit
    <3>5. \A r \in Runner : job'[r] # NoOp => entry'[job'[r]] \in EntryOf(r)'
      BY <1>3, <3>2, <3>3, <3>4 DEF OwnerInv, EntryOf
    <3>6. \A r, s \in Runner : job'[r] # NoOp /\ job'[r] = job'[s] => r = s
      BY <1>3, <3>4 DEF OwnerInv
    <3>7. \A a \in ApiOp : entry'[a] = "running" => a \in orphaned \/ \E r \in Runner : job'[r] = a
      BY <1>3, <3>2 DEF OwnerInv
    <3>8. (Busy(p)' => OpOf(p)' \notin orphaned) /\ \A a \in orphaned \cap CliOp : pc'[a] = "done"
      BY <1>1, <2>1, <3>1, <3>4 DEF OwnerInv, Elsewhere, Busy, OpOf
    <3>9. \A a \in orphaned \cap ApiOp : entry'[a] \notin {"none", "pending"}
      BY <3>2 DEF OwnerInv
    <3> QED
      BY <1>3, <3>1, <3>5, <3>6, <3>7, <3>8, <3>9 DEF OwnerInv
  <2>2. CASE p \notin Runner
    <3>1. outcome[p] # "rejected"
      BY <1>1, <1>12, <2>2 DEF Settle, LetGo, Audit, Phase, Ended, Rejected, Refused
    <3>2. UNCHANGED <<entry, orphaned, job>> /\ pc[p] # "done"
      BY <1>12, <2>2, <3>1 DEF Settle, LetGo, Audit, history
    <3> QED
      BY <1>1, <2>2, <3>1, <3>2, OwnerKept
  <2> QED
    BY <2>1, <2>2
<1> QED
  BY <1>4, <1>5, <1>6, <1>7, <1>8, <1>9, <1>10, <1>11, <1>12 DEF Worked, Step

-----------------------------------------------------------------------------
(* Records.                                                                *)
LEMMA Rewritten ==
  ASSUME TypeOK, NEW o \in Op, Requested(o)
  PROVE  /\ \A a \in Op : Unwritten(a)' => /\ Unwritten(a)
                                         /\ \/ record'[a] = record[a]
                                            \/ record[a] = "missing" /\ record'[a] = "queued"
         /\ \A a \in Op : (record[a] = "cancelled" => cancel[a] = "ok") =>
                          (record'[a] = "cancelled" => cancel'[a] = "ok")
         /\ \A a \in Op : record[a] = "cancelled" /\ cancel[a] = "ok" => record'[a] = "cancelled"
<1>2. record \in [Op -> Status \cup {"missing", "torn"}] /\ cancel \in [Op -> {"idle", "checked", "unlinked",
        "loaded", "truncated", "ok", "refused"}] /\ writing \in [Proc -> Status]
  BY DEF TypeOK
<1>3. \A a \in Op \ {o} : record'[a] = record[a] /\ cancel'[a] = cancel[a]
  BY <1>2, Sorts DEF Requested, Submit, Enqueue, CancelCheck, CancelStep, CancelUnlink, CancelLoad,
      CancelTruncate,
    CancelFill, CancelTo, store
<1>4. \/ ~Unwritten(o)' /\ (record'[o] = "cancelled" => cancel'[o] = "ok") /\ cancel[o] # "ok"
      \/ /\ Unwritten(o)' <=> Unwritten(o)
         /\ record'[o] = record[o] \/ (record[o] = "missing" /\ record'[o] = "queued")
         /\ cancel[o] = "ok" => cancel'[o] = "ok"
         /\ record[o] = "cancelled" /\ cancel[o] = "ok" => record'[o] = "cancelled"
  <2>1. CASE o \in ApiOp /\ (Submit(o) \/ Enqueue(o))
    BY <1>2, <2>1, Sorts DEF Submit, Enqueue, Unwritten
  <2>2. CASE CancelCheck(o) \/ CancelUnlink(o) \/ CancelLoad(o)
    BY <1>2, <2>2 DEF CancelCheck, CancelUnlink, CancelLoad, CancelTo, store, Unwritten
  <2>3. CASE CancelTruncate(o) \/ CancelFill(o)
    BY <1>2, <2>3 DEF CancelTruncate, CancelFill, CancelTo, Unwritten
  <2> QED
    BY <2>1, <2>2, <2>3 DEF Requested, CancelStep
<1> QED
  BY <1>3, <1>4 DEF Unwritten

LEMMA RecordRequest ==
  ASSUME TypeOK, Placed, RecordInv, NEW o \in Op, Requested(o)
  PROVE  RecordInv'
<1>1. UNCHANGED <<pc, job, writing, outcome, orphaned, crashes>>
  BY RequestFrame DEF process, history
<1>2. record \in [Op -> Status \cup {"missing", "torn"}] /\ writing \in [Proc -> Status]
  BY DEF TypeOK
<1>3. \A a \in Op : Unwritten(a)' =>
        Unwritten(a) /\ (record'[a] = record[a] \/ (record[a] = "missing" /\ record'[a] = "queued"))
  BY Rewritten
<1>4. \A p \in Proc : OpOf(p)' = OpOf(p) /\ (Settled(p)' <=> Settled(p))
  BY <1>1 DEF OpOf, Settled
<1>5. \A a \in Op : record'[a] = "cancelled" => cancel'[a] = "ok"
  BY Rewritten DEF RecordInv
<1>6. \A p \in Proc : pc[p] = "fill" \/ Settled(p) => OpOf(p) \in Op
  BY Operating DEF Settled, Busy
<1>7. \A p \in Proc : pc[p] = "fill" /\ Unwritten(OpOf(p))' => record'[OpOf(p)] = "torn"
  BY <1>3, <1>4, <1>6 DEF RecordInv, Unwritten
<1>8. \A p \in Proc : Settled(p) /\ Unwritten(OpOf(p))' => record'[OpOf(p)] = writing[p]
  BY <1>2, <1>3, <1>4, <1>6 DEF RecordInv, Status, Terminal, Unwritten
<1>9. \A a \in Op : record'[a] = "torn" /\ Unwritten(a)' =>
         a \in orphaned \/ \E p \in Proc : OpOf(p) = a /\ pc[p] = "fill"
  BY <1>3 DEF RecordInv
<1>10. crashes = 0 => \A a \in orphaned : ~Unwritten(a)'
  BY <1>3 DEF RecordInv, TypeOK
<1> QED
  BY <1>1, <1>4, <1>5, <1>7, <1>8, <1>9, <1>10 DEF RecordInv

(* A process that leaves the records alone, and dies at most of a torn one *)
(* or by a crash.                                                          *)
LEMMA RecordKept ==
  ASSUME TypeOK, PhaseInv, OwnerInv, RecordInv, NEW p \in Proc, Elsewhere(p), UNCHANGED <<record, cancel>>,
         pc[p] # "fill" /\ pc'[p] # "fill",
         \/ /\ UNCHANGED <<orphaned, crashes>>
            /\ Settled(p)' => Settled(p) /\ writing'[p] = writing[p] /\ OpOf(p)' = OpOf(p)
         \/ /\ Die(p)
            /\ \/ UNCHANGED crashes /\ Busy(p) /\ record[OpOf(p)] = "torn"
               \/ crashes' > 0
  PROVE  RecordInv'
<1>1. \A q \in Proc \ {p} : /\ OpOf(q)' = OpOf(q) /\ (pc[q] = "fill" <=> pc'[q] = "fill")
                            /\ (Settled(q)' <=> Settled(q)) /\ writing'[q] = writing[q]
  BY DEF Elsewhere, Settled
<1>2. \A o : Unwritten(o)' <=> Unwritten(o)
  BY DEF Unwritten
<1>3. ~Settled(p)' \/ (Settled(p) /\ writing'[p] = writing[p] /\ OpOf(p)' = OpOf(p))
  BY Dead DEF PhaseInv, Busy, Settled
<1>4. orphaned \subseteq orphaned'
  BY DEF Die
<1>5. \A q \in Proc : Settled(q)' /\ Unwritten(OpOf(q))' => record'[OpOf(q)'] = writing'[q]
  BY <1>1, <1>3 DEF RecordInv, Unwritten
<1>6. \A q \in Proc : pc'[q] = "fill" /\ Unwritten(OpOf(q))' => record'[OpOf(q)'] = "torn"
  BY <1>1 DEF RecordInv, Unwritten
<1>7. \A o \in Op : record'[o] = "torn" /\ Unwritten(o)' =>
         o \in orphaned' \/ \E q \in Proc : OpOf(q)' = o /\ pc'[q] = "fill"
  BY <1>1, <1>2, <1>4 DEF RecordInv
<1>8. crashes' = 0 => \A o \in orphaned' : ~Unwritten(o)'
  <2>1. CASE UNCHANGED <<orphaned, crashes>>
    BY <1>2, <2>1 DEF RecordInv
  <2>2. CASE Die(p) /\ crashes' > 0
    BY <2>2
  <2>3. CASE Die(p) /\ UNCHANGED crashes /\ Busy(p) /\ record[OpOf(p)] = "torn"
    <3>1. OpOf(p) \in Op /\ OpOf(p) \notin orphaned
      BY <2>3, Operating DEF OwnerInv, PhaseInv
    <3>2. ~ \E q \in Proc : OpOf(q) = OpOf(p) /\ pc[q] = "fill"
      BY <2>3, OneOwner DEF PhaseInv, Busy
    <3>3. ~Unwritten(OpOf(p))
      BY <2>3, <3>1, <3>2 DEF RecordInv
    <3> QED
      BY <1>2, <2>3, <3>3 DEF RecordInv, Die
  <2> QED
    BY <2>1, <2>2, <2>3
<1> QED
  BY <1>5, <1>6, <1>7, <1>8 DEF RecordInv, Unwritten

(* A process that saves its operation's record, whole or by parts.         *)
LEMMA RecordSaved ==
  ASSUME TypeOK, PhaseInv, OwnerInv, RecordInv, NEW p \in Proc, Elsewhere(p), UNCHANGED <<cancel, orphaned, crashes>>,
         NEW o \in Op, OpOf(p)' = o, Busy(p) => OpOf(p) = o,
         \A q \in Proc \ {p} : Busy(q) => OpOf(q) # o,
         \A a \in Op \ {o} : record'[a] = record[a],
         record'[o] = "cancelled" => ~Unwritten(o) /\ cancel[o] = "ok",
         Unwritten(o) => \/ pc'[p] = "fill" /\ record'[o] = "torn"
                         \/ /\ pc'[p] # "fill" /\ record'[o] # "torn"
                            /\ Settled(p)' => record'[o] = writing'[p]
  PROVE  RecordInv'
<1>1. \A q \in Proc \ {p} : /\ OpOf(q)' = OpOf(q) /\ (pc[q] = "fill" <=> pc'[q] = "fill")
                            /\ (Settled(q)' <=> Settled(q)) /\ writing'[q] = writing[q]
  BY DEF Elsewhere, Settled
<1>2. \A a : Unwritten(a)' <=> Unwritten(a)
  BY DEF Unwritten
<1>3. \A q \in Proc \ {p} : pc[q] = "fill" \/ Settled(q) => OpOf(q) \in Op \ {o}
  BY Operating DEF Busy, Settled, PhaseInv
<1>4. \A q \in Proc : Settled(q)' /\ Unwritten(OpOf(q))' => record'[OpOf(q)'] = writing'[q]
  BY <1>1, <1>3 DEF RecordInv, Unwritten, Settled
<1>5. \A q \in Proc : pc'[q] = "fill" /\ Unwritten(OpOf(q))' => record'[OpOf(q)'] = "torn"
  BY <1>1, <1>3 DEF RecordInv, Unwritten
<1>6. \A a \in Op : record'[a] = "torn" /\ Unwritten(a)' =>
         a \in orphaned \/ \E q \in Proc : OpOf(q)' = a /\ pc'[q] = "fill"
  <2>1. CASE pc[p] # "fill"
    BY <1>1, <1>2, <2>1 DEF RecordInv
  <2>2. CASE pc[p] = "fill"
    BY <1>1, <1>2, <2>2 DEF RecordInv, Busy
  <2> QED
    BY <2>1, <2>2
<1>7. \A a \in Op : record'[a] = "cancelled" => cancel[a] = "ok"
  BY DEF RecordInv
<1> QED
  BY <1>2, <1>4, <1>5, <1>6, <1>7 DEF RecordInv

LEMMA RecordStep ==
  ASSUME TypeOK, PhaseInv, OwnerInv, RecordInv, NEW p \in Proc, Worked(p)
  PROVE  RecordInv'
<1> USE Sorts, PipelineAssumption DEF GoTo
<1>1. Elsewhere(p) /\ Phase(p) /\ UNCHANGED cancel /\ Placed
  BY ProcessFrame DEF PhaseInv
<1>2. /\ pc \in [Proc -> Location] /\ outcome \in [Proc -> Outcome] /\ job \in [Runner -> ApiOp \cup {NoOp}]
      /\ writing \in [Proc -> Status] /\ record \in [Op -> Status \cup {"missing", "torn"}] /\ crashes \in Nat
  BY DEF TypeOK
<1>3. ASSUME UNCHANGED <<record, orphaned, crashes>>, pc[p] # "fill", pc'[p] # "fill",
             Settled(p)' => Settled(p) /\ writing'[p] = writing[p] /\ OpOf(p)' = OpOf(p)
      PROVE  RecordInv'
  BY <1>1, <1>3, RecordKept
<1>4. CASE p \in Runner /\ (Claim(p) \/ Verify(p) \/ Consume(p) \/ Restart(p))
  BY <1>2, <1>3, <1>4 DEF Claim, Verify, Consume, Reject, Restart, store, history, process, Settled
<1>5. CASE LockRefused(p) \/ TakeLock(p) \/ Body(p) \/ Unlock(p)
  BY <1>1, <1>2, <1>3, <1>5 DEF LockRefused, TakeLock, Body, Unlock, store, history, Settled,
      Phase, Ended
<1>6. CASE End(p)
  BY <1>1, <1>2, <1>3, <1>6 DEF End, store, history, Settled, Phase, Ended, OpOf
<1>7. CASE Settle(p) \/ Audit(p)
  BY <1>1, <1>2, <1>3, <1>7 DEF Settle, LetGo, Audit, store, history, Settled, OpOf
<1>8. CASE Crash(p)
  <2>1. UNCHANGED record /\ crashes' > 0 /\ Die(p)
    BY <1>2, <1>8 DEF Crash, store
  <2>2. CASE pc[p] # "fill"
    <3>1. pc'[p] # "fill"
      BY <2>1, Dead DEF PhaseInv
    <3> QED
      BY <1>1, <2>1, <2>2, <3>1, RecordKept
  <2>3. CASE pc[p] = "fill"
    <3>1. OpOf(p) \in orphaned' /\ orphaned \subseteq orphaned' /\ ~Busy(p)'
      BY <2>1, <2>3, Dead DEF PhaseInv, Busy
    <3>2. \A q \in Proc : pc'[q] = "fill" => pc[q] = "fill" /\ q # p /\ OpOf(q)' = OpOf(q)
      BY <1>1, <3>1 DEF Elsewhere, Busy
    <3>3. \A q \in Proc : Settled(q)' => Settled(q) /\ OpOf(q)' = OpOf(q) /\ writing'[q] = writing[q]
      BY <1>1, <3>1 DEF Elsewhere, Busy, Settled
    <3>4. \A o \in Op : record[o] = "torn" /\ Unwritten(o) =>
            o \in orphaned' \/ \E q \in Proc : OpOf(q)' = o /\ pc'[q] = "fill"
      BY <1>1, <3>1 DEF RecordInv, Elsewhere
    <3>5. \A a : Unwritten(a)' <=> Unwritten(a)
      BY <1>1 DEF Unwritten
    <3>6. \A q \in Proc : pc'[q] = "fill" /\ Unwritten(OpOf(q))' => record[OpOf(q)'] = "torn"
      BY <1>1, <3>2 DEF RecordInv, Unwritten
    <3>7. \A q \in Proc : Settled(q)' /\ Unwritten(OpOf(q))' => record[OpOf(q)'] = writing'[q]
      BY <1>1, <3>3 DEF RecordInv, Unwritten
    <3> QED
      BY <1>1, <2>1, <3>4, <3>5, <3>6, <3>7 DEF RecordInv
  <2> QED
    BY <2>2, <2>3
<1>9. CASE (p \in Runner /\ Recheck(p)) \/ LoadRecord(p) \/ Start(p)
  <2>1. CASE ~(Die(p) /\ record[OpOf(p)] = "torn")
    BY <1>2, <1>3, <1>9, <2>1 DEF Recheck, LoadRecord, Start, store, Settled, OpOf
  <2>2. CASE Die(p) /\ record[OpOf(p)] = "torn"
    <3>1. UNCHANGED <<record, crashes>> /\ Busy(p) /\ pc[p] # "fill" /\ pc'[p] # "fill"
      BY <1>9, <2>2, Dead DEF Recheck, LoadRecord, Start, store, Busy, PhaseInv
    <3> QED
      BY <1>1, <2>2, <3>1, RecordKept
  <2> QED
    BY <2>1, <2>2
<1>10. CASE Truncate(p) \/ Fill(p)
  <2>0. PICK o : o = OpOf(p)
    OBVIOUS
  <2>1. o \in Op /\ Busy(p) /\ o \notin orphaned /\ OpOf(p)' = o /\ UNCHANGED <<orphaned, crashes>>
    BY <1>10, <2>0, Operating DEF Truncate, Fill, Busy, PhaseInv, OwnerInv, OpOf, history
  <2>2. \A q \in Proc \ {p} : Busy(q) => OpOf(q) # o
    BY <2>0, <2>1, OneOwner DEF PhaseInv
  <2>3. \A a \in Op \ {o} : record'[a] = record[a]
    BY <1>2, <1>10, <2>0 DEF Truncate, Fill
  <2>4. CASE Truncate(p)
    <3>1. record'[o] = "torn" /\ pc'[p] = "fill"
      BY <1>2, <2>0, <2>1, <2>4 DEF Truncate
    <3> QED
      BY <1>1, <2>0, <2>1, <2>2, <2>3, <3>1, RecordSaved
  <2>5. CASE Fill(p)
    <3>1. record'[o] \in Filled(o, writing[p]) /\ writing'[p] = writing[p]
          /\ pc'[p] \in {"start", "end", "settle"}
      BY <1>2, <2>0, <2>1, <2>5 DEF Fill, Saved, AfterFill
    <3>2. Unwritten(o) => record[o] = "torn"
      BY <2>0, <2>1, <2>5 DEF Fill, RecordInv
    <3>3. writing[p] # "cancelled" /\ writing[p] # "torn"
      BY <1>1, <1>2, <2>5 DEF Fill, Phase, Fresh, Ended, Rejected, Refused
    <3>4. Unwritten(o) => record'[o] = writing[p]
      BY <3>1, <3>2 DEF Filled
    <3>5. record'[o] # "cancelled"
      BY <3>1, <3>3 DEF Filled
    <3> QED
      BY <1>1, <2>0, <2>1, <2>2, <2>3, <3>1, <3>3, <3>4, <3>5, RecordSaved
  <2> QED
    BY <1>10, <2>4, <2>5
<1>11. CASE p \in CliOp /\ Create(p)
  <2>1. /\ OpOf(p)' = p /\ ~Busy(p) /\ UNCHANGED <<orphaned, crashes>> /\ p \in Op
        /\ record'[p] = "queued" /\ pc'[p] = "lock"
        /\ \A a \in Op \ {p} : record'[a] = record[a]
    BY <1>2, <1>11 DEF Create, OpOf, Busy, history
  <2>2. \A q \in Proc \ {p} : Busy(q) => OpOf(q) # p
    BY <1>1, <1>11, Operating
  <2>3. ~Settled(p)'
    BY <2>1 DEF Settled
  <2> QED
    BY <1>1, <2>1, <2>2, <2>3, RecordSaved
<1> QED
  BY <1>4, <1>5, <1>6, <1>7, <1>8, <1>9, <1>10, <1>11 DEF Worked, Step

-----------------------------------------------------------------------------
(* What a cancellation leaves of records that are settled.                 *)
LEMMA Hiding ==
  ASSUME TypeOK, NEW o \in Op, Requested(o), NEW a \in Op, NEW v, v # "missing", Hidden(a, v)
  PROVE  Hidden(a, v)'
<1>1. record \in [Op -> Status \cup {"missing", "torn"}]
  BY DEF TypeOK
<1>2. record'[a] \in {record[a], "torn", "cancelled"} \/ record[a] = "missing"
  BY <1>1, Sorts DEF Requested, Submit, Enqueue, CancelCheck, CancelStep, CancelUnlink, CancelLoad,
      CancelTruncate,
    CancelFill, Filled, store
<1> QED
  BY <1>2 DEF Hidden

LEMMA HiddenRequest ==
  ASSUME TypeOK, Placed, HiddenInv, NEW o \in Op, Requested(o)
  PROVE  HiddenInv'
<1>1. UNCHANGED <<pc, job, writing, outcome>>
  BY RequestFrame DEF process
<1>2. \A p \in Proc : OpOf(p)' = OpOf(p) /\ writing'[p] = writing[p] /\ (Settled(p)' <=> Settled(p))
  BY <1>1 DEF OpOf, Settled
<1>3. \A p \in Proc : writing[p] # "missing"
  BY DEF TypeOK, Status, Terminal
<1>4. ASSUME NEW p \in Proc, Settled(p)
      PROVE  Hidden(OpOf(p), writing[p])'
  <2>1. OpOf(p) \in Op
    BY <1>4, Operating DEF Settled, Busy
  <2>2. Hidden(OpOf(p), writing[p])
    BY <1>4 DEF HiddenInv
  <2>3. \A a \in Op, v \in Status : v # "missing" /\ Hidden(a, v) => record'[a] \in {v, "torn", "cancelled"}
    BY Hiding DEF Hidden
  <2>4. writing[p] \in Status
    BY DEF TypeOK
  <2> QED
    BY <1>2, <1>3, <2>1, <2>2, <2>3, <2>4 DEF Hidden
<1> QED
  BY <1>2, <1>4 DEF HiddenInv

LEMMA HiddenStep ==
  ASSUME TypeOK, PhaseInv, OwnerInv, HiddenInv, NEW p \in Proc, Worked(p)
  PROVE  HiddenInv'
<1> USE Sorts, PipelineAssumption DEF GoTo
<1>1. Elsewhere(p) /\ Phase(p) /\ Placed
  BY ProcessFrame DEF PhaseInv
<1>2. /\ pc \in [Proc -> Location] /\ outcome \in [Proc -> Outcome] /\ job \in [Runner -> ApiOp \cup {NoOp}]
      /\ writing \in [Proc -> Status] /\ record \in [Op -> Status \cup {"missing", "torn"}]
  BY DEF TypeOK
<1>3. \A q \in Proc \ {p} : /\ OpOf(q)' = OpOf(q) /\ writing'[q] = writing[q]
                            /\ Settled(q)' <=> Settled(q)
  BY <1>1 DEF Elsewhere, Settled
<1>4. \A q \in Proc : Settled(q) => Busy(q)
  BY DEF Settled, Busy
<1>5. ASSUME NEW o \in Op, OpOf(p)' = o, \A q \in Proc \ {p} : Busy(q) => OpOf(q) # o,
             \A a \in Op \ {o} : record'[a] = record[a],
             Settled(p)' => record'[o] \in {writing'[p], "torn"}
      PROVE  HiddenInv'
  <2>1. \A q \in Proc \ {p} : Settled(q) => OpOf(q) \in Op \ {o}
    BY <1>1, <1>4, <1>5, Operating
  <2> QED
    BY <1>3, <1>5, <2>1 DEF HiddenInv, Hidden
<1>6. ASSUME UNCHANGED record, Settled(p)' => Settled(p) /\ writing'[p] = writing[p] /\ OpOf(p)' = OpOf(p)
      PROVE  HiddenInv'
  BY <1>3, <1>6 DEF HiddenInv, Hidden
<1>7. Die(p) => ~Settled(p)'
  BY <1>1, Dead DEF Settled, Busy
<1>8. CASE p \in Runner /\ (Claim(p) \/ Verify(p) \/ Consume(p) \/ Restart(p))
  BY <1>2, <1>6, <1>8 DEF Claim, Verify, Consume, Reject, Restart, store, Settled
<1>9. CASE LockRefused(p) \/ TakeLock(p) \/ Body(p) \/ Unlock(p)
  BY <1>1, <1>2, <1>6, <1>9 DEF LockRefused, TakeLock, Body, Unlock, store, Settled, Phase, Ended
<1>10. CASE End(p)
  BY <1>1, <1>2, <1>6, <1>10 DEF End, store, Settled, Phase, Ended, OpOf
<1>11. CASE Settle(p) \/ Audit(p)
  BY <1>1, <1>2, <1>6, <1>11 DEF Settle, LetGo, Audit, store, Settled, OpOf
<1>12. CASE Crash(p) \/ (p \in Runner /\ Recheck(p)) \/ LoadRecord(p) \/ Start(p)
  BY <1>2, <1>6, <1>7, <1>12 DEF Crash, Recheck, LoadRecord, Start, store, Settled
<1>13. CASE Truncate(p) \/ Fill(p)
  <2>0. PICK o : o = OpOf(p)
    OBVIOUS
  <2>1. o \in Op /\ Busy(p) /\ OpOf(p)' = o
    BY <1>1, <1>13, <2>0, Operating DEF Truncate, Fill, Busy, OpOf
  <2>2. \A q \in Proc \ {p} : Busy(q) => OpOf(q) # o
    BY <1>1, <2>0, <2>1, OneOwner
  <2>3. \A a \in Op \ {o} : record'[a] = record[a]
    BY <1>2, <1>13, <2>0 DEF Truncate, Fill
  <2>4. Settled(p)' => record'[o] \in {writing'[p], "torn"}
    BY <1>2, <1>13, <2>0, <2>1 DEF Truncate, Fill, Saved, Filled, Settled
  <2> QED
    BY <1>5, <2>1, <2>2, <2>3, <2>4
<1>14. CASE p \in CliOp /\ Create(p)
  <2>1. OpOf(p)' = p /\ p \in Op /\ pc'[p] = "lock" /\ \A a \in Op \ {p} : record'[a] = record[a]
    BY <1>2, <1>14 DEF Create, OpOf
  <2>2. \A q \in Proc \ {p} : Busy(q) => OpOf(q) # p
    BY <1>1, <1>14, Operating
  <2> QED
    BY <1>5, <2>1, <2>2 DEF Settled
<1> QED
  BY <1>8, <1>9, <1>10, <1>11, <1>12, <1>13, <1>14 DEF Worked, Step

-----------------------------------------------------------------------------
(* The audit trail.                                                        *)
LEMMA AuditRequest ==
  ASSUME TypeOK, AuditInv, RanInv, NEW o \in Op, Requested(o)
  PROVE  AuditInv'
<1>1. UNCHANGED <<pc, job, audited, ran, orphaned>>
  BY RequestFrame DEF process, history
<1>2. /\ \A a \in ApiOp : entry[a] \in {"gone", "failed"} => entry'[a] = entry[a]
      /\ \A a \in ApiOp : entry'[a] = entry[a] \/ entry[a] \in {"none", "pending"}
  BY DEF Requested, Submit, Enqueue, CancelCheck, CancelStep, CancelUnlink, CancelLoad,
      CancelTruncate,
    CancelFill, store, TypeOK
<1>3. \A a \in Op : Over(a) => Over(a)'
  BY <1>1, <1>2, Sorts DEF Over
<1>4. \A a \in Op : audited[a] # <<>> /\ Len(audited[a]) = 1 => audited[a][1] # "missing"
  <2>1. \A q \in Seq({"failed", "succeeded"}) : Len(q) = 1 => q[1] # "missing"
    OBVIOUS
  <2> QED
    BY <2>1 DEF TypeOK
<1>5. ASSUME NEW a \in Op, audited[a] # <<>>
      PROVE  /\ Over(a)' /\ Len(audited[a]) = 1 /\ a \notin orphaned
             /\ Unwritten(a)' => record'[a] = audited[a][1]
             /\ record'[a] \in {audited[a][1], "torn", "cancelled"}
  <2>1. /\ Over(a) /\ Len(audited[a]) = 1 /\ a \notin orphaned /\ (Unwritten(a) => record[a] = audited[a][1])
        /\ Hidden(a, audited[a][1])
    BY <1>5 DEF AuditInv, AuditedOnce
  <2>2. Unwritten(a)' => Unwritten(a) /\ (record'[a] = record[a] \/ record[a] = "missing")
    BY Rewritten
  <2>3. PICK v : v = audited[a][1]
    OBVIOUS
  <2>4. v # "missing" /\ Hidden(a, v)
    BY <1>4, <1>5, <2>1, <2>3
  <2>5. record'[a] \in {v, "torn", "cancelled"}
    BY <2>4, Hiding DEF Hidden
  <2> QED
    BY <1>3, <1>4, <1>5, <2>1, <2>2, <2>3, <2>5
<1>6. \A a \in Op : Over(a)' /\ Began(a)' => Over(a) /\ Began(a)
  BY <1>1, <1>2, Sorts DEF Over, Began, RanInv
<1> QED
  BY <1>1, <1>5, <1>6 DEF AuditInv, AuditedOnce, Accounted, Hidden

(* What is over stays over, and its record alone.                          *)
LEMMA OverStays ==
  ASSUME TypeOK, PhaseInv, OwnerInv, NEW p \in Proc, Worked(p), NEW o \in Op, Over(o)
  PROVE  Over(o)' /\ record'[o] = record[o] /\ (Busy(p) => OpOf(p) # o)
<1> USE Sorts, PipelineAssumption DEF GoTo
<1>1. Elsewhere(p) /\ Placed
  BY ProcessFrame DEF PhaseInv
<1>2. /\ pc \in [Proc -> Location] /\ job \in [Runner -> ApiOp \cup {NoOp}]
      /\ record \in [Op -> Status \cup {"missing", "torn"}]
      /\ entry \in [ApiOp -> {"none", "pending", "running", "failed", "gone"}]
  BY DEF TypeOK
<1>3. Busy(p) => OpOf(p) # o
  BY <1>1, Operating DEF Over, Busy
<1>4. record'[o] = record[o]
  <2>1. CASE Truncate(p) \/ Fill(p)
    BY <1>2, <1>3, <2>1 DEF Truncate, Fill, Busy
  <2>2. CASE p \in CliOp /\ Create(p)
    BY <1>2, <2>2 DEF Create, Over
  <2> QED
    BY <2>1, <2>2 DEF Worked, Step, Claim, Recheck, Verify, Consume, Restart, LoadRecord, Start,
        TakeLock,
      LockRefused, Body, Unlock, End, Settle, LetGo, Audit, Crash, store
<1>5. CASE o \in CliOp
  <2>1. p # o
    BY <1>1, <1>2, <1>5 DEF Worked, Step, Create, LoadRecord, Start, TakeLock, Truncate, Fill,
      LockRefused, Body, Unlock, End, Settle, LetGo, Audit, Crash, Over
  <2> QED
    BY <1>1, <1>3, <1>4, <1>5, <2>1 DEF Over, Elsewhere
<1>6. CASE o \in ApiOp
  <2>1. entry[o] \in {"gone", "failed"} /\ \A r \in Runner : job[r] # o
    BY <1>6 DEF Over
  <2>2. \A r \in Runner \ {p} : job'[r] # o
    BY <1>1, <2>1 DEF Elsewhere, OpOf
  <2>3. Die(p) => (p \in Runner => job'[p] # o)
    BY <1>1, <1>6, Dead
  <2>4. entry'[o] = entry[o] /\ (p \in Runner => job'[p] # o)
    <3>1. CASE p \in Runner /\ Claim(p)
      BY <1>2, <1>6, <2>1, <3>1 DEF Claim
    <3>2. CASE p \in Runner /\ (Verify(p) \/ Consume(p) \/ Restart(p))
      BY <1>2, <2>1, <3>2 DEF Verify, Consume, Restart, store
    <3>3. CASE (p \in Runner /\ Recheck(p)) \/ Settle(p) \/ Audit(p)
      BY <1>2, <1>6, <2>1, <2>3, <3>3 DEF Recheck, Complete, Settle, LetGo, Audit
    <3> QED
      BY <1>2, <2>1, <2>3, <3>1, <3>2, <3>3 DEF Worked, Step, Create, LoadRecord, Start, TakeLock,
          Truncate, Fill,
        LockRefused, Body, Unlock, End, Crash, store
  <2> QED
    BY <1>3, <1>4, <1>6, <2>1, <2>2, <2>4 DEF Over
<1> QED
  BY <1>5, <1>6

(* An operation that is over when its process lets it go was audited, or   *)
(* never began, or is orphaned.                                            *)
LEMMA Accounting ==
  ASSUME TypeOK, PhaseInv, OwnerInv, RanInv, NEW p \in Proc, Worked(p), NEW o \in Op, ~Over(o), Over(o)', Began(o)'
  PROVE  o \in orphaned' \/ (Audit(p) /\ OpOf(p) = o)
<1> USE Sorts, PipelineAssumption DEF GoTo
<1>1. Elsewhere(p) /\ Placed /\ Phase(p)
  BY ProcessFrame DEF PhaseInv
<1>2. /\ pc \in [Proc -> Location] /\ job \in [Runner -> ApiOp \cup {NoOp}] /\ ran \in [Op -> Nat]
      /\ entry \in [ApiOp -> {"none", "pending", "running", "failed", "gone"}]
  BY DEF TypeOK
<1>3. Die(p) /\ Busy(p) => OpOf(p) \in orphaned'
  BY DEF Die
<1>4. CASE o \in CliOp
  <2>1. pc[o] # "done" /\ pc'[o] = "done" /\ o \in Proc
    BY <1>4 DEF Over
  <2>2. p = o /\ OpOf(p) = o
    BY <1>1, <1>4, <2>1 DEF Elsewhere, OpOf
  <2>3. CASE Die(p)
    <3>1. pc[p] \notin {"idle", "down", "done"}
      BY <1>1, <1>4, <2>1, <2>2 DEF Placed
    <3>2. pc[p] # "new"
      <4>1. p \in CliOp /\ Create(p) => pc'[p] = "lock"
        BY <1>2, <2>2, <2>1 DEF Create
      <4>2. ~(p \in CliOp /\ Create(p)) /\ p \notin Runner
        BY <1>4, <2>1, <2>2, <4>1
      <4> QED
        BY <4>2 DEF Worked, Step, LoadRecord, Start, TakeLock, Truncate, Fill, LockRefused, Body, Unlock, End, Settle,
          Audit, Crash
    <3> QED
      BY <1>3, <2>2, <2>3, <3>1, <3>2 DEF Busy
  <2>4. CASE ~Die(p)
    <3>1. pc[p] = "settle" => IsAudited(p)
      BY <1>1, <1>4, <2>2 DEF Phase, Ended, Rejected, IsAudited
    <3>2. Audit(p)
      BY <1>2, <1>4, <2>1, <2>2, <2>4, <3>1 DEF Worked, Step, Create, LoadRecord, Start, TakeLock,
          Truncate, Fill, AfterFill,
        LockRefused, Body, Unlock, End, Settle, LetGo, Crash
    <3> QED
      BY <2>2, <3>2
  <2> QED
    BY <2>3, <2>4
<1>5. CASE o \in ApiOp
  <2>1. ran'[o] > 0 /\ entry'[o] \in {"gone", "failed"} /\ \A r \in Runner : job'[r] # o
    BY <1>5 DEF Over, Began
  <2>2. \A r \in Runner \ {p} : job'[r] = job[r]
    BY <1>1 DEF Elsewhere, OpOf
  <2>3. p \in Runner /\ job[p] = o
    <3>1. CASE UNCHANGED entry
      <4>1. \E r \in Runner : job[r] = o
        BY <1>5, <2>1, <3>1 DEF Over
      <4> QED
        BY <2>1, <2>2, <4>1
    <3>2. CASE p \in Runner /\ (Claim(p) \/ Recheck(p) \/ Settle(p))
      BY <1>2, <1>5, <2>1, <2>2, <3>2 DEF Claim, Recheck, Complete, Settle, LetGo, Over
    <3> QED
      BY <3>1, <3>2 DEF Worked, Step, Verify, Consume, Restart, Create, LoadRecord, Start,
          TakeLock, Truncate, Fill,
        LockRefused, Body, Unlock, End, Settle, LetGo, Audit, Crash, store
  <2>4. OpOf(p) = o /\ Busy(p)
    BY <1>1, <1>5, <2>3 DEF OpOf, Placed, Busy
  <2>5. CASE Die(p)
    BY <1>3, <2>4, <2>5
  <2>6. CASE ~Die(p)
    <3>1. job'[p] # o
      BY <2>1, <2>3
    <3>2. \/ Recheck(p) /\ UNCHANGED ran
          \/ Settle(p) /\ ~IsAudited(p) /\ UNCHANGED ran
          \/ Audit(p)
      BY <1>1, <1>2, <2>3, <2>4, <2>6, <3>1 DEF Busy, Worked, Step, Claim, Recheck, Verify,
          Consume, Restart, Create, LoadRecord,
        Start, TakeLock, Truncate, Fill, LockRefused, Body, Unlock, End, Settle, LetGo, Crash,
            process, history
    <3>3. ran[o] > 0 => outcome[p] \in {"succeeded", "failed"}
      BY <1>5, <2>3 DEF RanInv
    <3>4. CASE Recheck(p) /\ UNCHANGED ran
      BY <1>1, <2>1, <3>3, <3>4 DEF Recheck, Phase, Entering
    <3>5. CASE Settle(p) /\ ~IsAudited(p) /\ UNCHANGED ran
      BY <2>1, <3>3, <3>5 DEF IsAudited
    <3> QED
      BY <2>4, <3>2, <3>4, <3>5
  <2> QED
    BY <2>5, <2>6
<1> QED
  BY <1>4, <1>5

LEMMA AuditStep ==
  ASSUME TypeOK, PhaseInv, OwnerInv, RecordInv, HiddenInv, RanInv, AuditInv, NEW p \in Proc, Worked(p)
  PROVE  AuditInv'
<1> USE Sorts, PipelineAssumption DEF GoTo
<1>1. /\ pc \in [Proc -> Location] /\ job \in [Runner -> ApiOp \cup {NoOp}] /\ ran \in [Op -> Nat]
      /\ audited \in [Op -> Seq({"failed", "succeeded"})]
  BY DEF TypeOK
<1>2. UNCHANGED cancel /\ Elsewhere(p) /\ Placed
  BY ProcessFrame DEF PhaseInv
<1>3. orphaned \subseteq orphaned' /\ \A o \in Op : o \in orphaned' => o \in orphaned \/ (Busy(p) /\ OpOf(p) = o)
  BY DEF Worked, Step, Claim, Recheck, Verify, Consume, Restart, LoadRecord, Start, TakeLock,
      Create,
    LockRefused, Truncate, Fill, Body, Unlock, End, Settle, LetGo, Audit, Crash, Die, history
<1>4. \A o \in Op : Over(o) => Over(o)' /\ record'[o] = record[o] /\ (o \in orphaned' => o \in orphaned)
  BY <1>3, OverStays
<1>5. \A o \in Op : Over(o) /\ Began(o)' => Began(o)
  <2>1. ASSUME NEW o \in Op, Over(o)
        PROVE  ran'[o] = ran[o]
    <3>1. Busy(p) => OpOf(p) # o
      BY <2>1, OverStays
    <3> QED
      BY <1>1, <3>1 DEF Busy, Worked, Step, Claim, Recheck, Verify, Consume, Restart, LoadRecord,
          Start, TakeLock, Create,
        LockRefused, Truncate, Fill, Body, Unlock, End, Settle, LetGo, Audit, Crash, history
  <2> QED
    BY <2>1 DEF Began
<1>6. \A a : Unwritten(a)' <=> Unwritten(a)
  BY <1>2 DEF Unwritten
<1>7. CASE UNCHANGED audited /\ ~Audit(p)
  <2>1. AuditedOnce'
    BY <1>4, <1>6, <1>7 DEF AuditInv, AuditedOnce, Hidden
  <2>2. Accounted'
    BY <1>3, <1>5, <1>7, Accounting DEF AuditInv, Accounted
  <2> QED
    BY <2>1, <2>2 DEF AuditInv
<1>8. CASE Audit(p)
  <2>1. PICK o : o = OpOf(p)
    OBVIOUS
  <2>2. o \in Op /\ Busy(p) /\ (p \in Runner => job[p] = o) /\ (p \in CliOp => p = o)
    BY <1>2, <1>8, <2>1, Operating DEF Audit, Busy
  <2>3. audited[o] = <<>>
    BY <2>1, <2>2, OverStays DEF AuditInv, AuditedOnce
  <2>4. audited'[o] = <<AuditOutcome(p)>> /\ \A a \in Op \ {o} : audited'[a] = audited[a]
    BY <1>1, <1>8, <2>1, <2>2, <2>3 DEF Audit
  <2>5. Over(o)'
    <3>1. CASE p \in Runner
      <4>1. o \in ApiOp /\ entry'[o] \in {"gone", "failed"}
        BY <1>1, <1>2, <1>8, <2>2, <3>1 DEF Audit, OwnerInv, EntryOf, Placed
      <4>2. job'[p] = NoOp /\ \A r \in Runner \ {p} : job'[r] = job[r] /\ job[r] # o
        BY <1>1, <1>2, <1>8, <2>2, <3>1, <4>1 DEF Audit, LetGo, OwnerInv
      <4> QED
        BY <3>1, <4>1, <4>2 DEF Over
    <3>2. CASE p \in CliOp
      BY <1>1, <1>8, <2>2, <3>2 DEF Audit, LetGo, Over
    <3> QED
      BY <3>1, <3>2
  <2>6. writing[p] = AuditOutcome(p) /\ Settled(p)
    BY <1>8 DEF Audit, Settled, PhaseInv, Phase, Ended, Refused, AuditOutcome
  <2>7. (Unwritten(o) => record[o] = AuditOutcome(p)) /\ Hidden(o, AuditOutcome(p))
    BY <2>1, <2>6 DEF RecordInv, HiddenInv
  <2>8. UNCHANGED <<record, orphaned>>
    BY <1>8 DEF Audit, history
  <2>9. o \notin orphaned
    BY <2>1, <2>2 DEF OwnerInv
  <2>10. Len(audited'[o]) = 1 /\ audited'[o][1] = AuditOutcome(p)
    BY <2>4
  <2>11. \A a \in Op \ {o} : audited'[a] # <<>> =>
           /\ Over(a)' /\ Len(audited'[a]) = 1 /\ a \notin orphaned
           /\ Unwritten(a) => record[a] = audited'[a][1]
           /\ Hidden(a, audited'[a][1])
    BY <1>4, <2>4 DEF AuditInv, AuditedOnce
  <2>12. AuditedOnce'
    BY <1>6, <2>5, <2>7, <2>8, <2>9, <2>10, <2>11 DEF AuditedOnce, Hidden
  <2>13. audited'[o] # <<>>
    BY <2>4
  <2>14. Accounted'
    BY <1>3, <1>5, <2>1, <2>4, <2>13, Accounting DEF AuditInv, Accounted
  <2> QED
    BY <2>12, <2>14 DEF AuditInv
<1> QED
  BY <1>7, <1>8 DEF Worked, Step, Create, Claim, Recheck, Verify, Consume, Restart, LoadRecord,
      Start, TakeLock,
    Truncate, Fill, LockRefused, Body, Unlock, End, Settle, LetGo, Crash, store

-----------------------------------------------------------------------------
(* What was withdrawn before its claim, and what ran.                      *)
LEMMA WithdrawnRequest ==
  ASSUME TypeOK, RecordInv, WithdrawnInv, RanInv, NEW o \in Op, Requested(o)
  PROVE  WithdrawnInv' /\ RanInv'
<1>1. UNCHANGED <<pc, job, outcome, ran, seenOff>>
  BY RequestFrame DEF process, history
<1>2. \A a \in ApiOp : entry[a] \notin {"none", "pending"} => entry'[a] = entry[a]
  BY DEF Requested, Submit, Enqueue, CancelCheck, CancelStep, CancelUnlink, CancelLoad,
      CancelTruncate,
    CancelFill, store, TypeOK
<1>3. \A a \in Op : record[a] = "cancelled" => record'[a] = "cancelled"
  BY Rewritten DEF RecordInv
<1>4. seenOff \subseteq ApiOp /\ seenOff \subseteq Op
  BY Sorts DEF TypeOK
<1>5. WithdrawnInv'
  BY <1>1, <1>2, <1>3, <1>4 DEF WithdrawnInv
<1>6. RanInv'
  BY <1>1, <1>2 DEF RanInv
<1> QED
  BY <1>5, <1>6

LEMMA WithdrawnStep ==
  ASSUME TypeOK, PhaseInv, OwnerInv, RecordInv, WithdrawnInv, RanInv, NEW p \in Proc, Worked(p)
  PROVE  WithdrawnInv'
<1> USE Sorts, PipelineAssumption DEF GoTo
<1>1. Elsewhere(p) /\ Placed
  BY ProcessFrame DEF PhaseInv
<1>2. /\ pc \in [Proc -> Location] /\ job \in [Runner -> ApiOp \cup {NoOp}] /\ ran \in [Op -> Nat]
      /\ record \in [Op -> Status \cup {"missing", "torn"}] /\ seenOff \subseteq ApiOp
      /\ entry \in [ApiOp -> {"none", "pending", "running", "failed", "gone"}]
  BY DEF TypeOK
<1>3. \A o \in seenOff : Busy(p) /\ OpOf(p) = o => p \in Runner /\ pc[p] = "recheck" /\ job[p] = o
  BY <1>1, <1>2, Operating DEF WithdrawnInv
<1>4. \A o \in seenOff : record'[o] = record[o]
  <2>1. CASE Truncate(p) \/ Fill(p)
    BY <1>2, <1>3, <2>1 DEF Truncate, Fill, Busy
  <2>2. CASE p \in CliOp /\ Create(p)
    BY <1>2, <2>2 DEF Create
  <2> QED
    BY <2>1, <2>2 DEF Worked, Step, Claim, Recheck, Verify, Consume, Restart, LoadRecord, Start,
        TakeLock,
      LockRefused, Body, Unlock, End, Settle, LetGo, Audit, Crash, store
<1>5. \A o \in seenOff : ran'[o] = ran[o]
  <2>1. CASE Body(p)
    BY <1>2, <1>3, <2>1 DEF Body, Busy
  <2> QED
    BY <2>1 DEF Worked, Step, Claim, Recheck, Verify, Consume, Restart, LoadRecord, Start,
        TakeLock, Create,
      LockRefused, Truncate, Fill, Unlock, End, Settle, LetGo, Audit, Crash, history
<1>6. \A o \in seenOff : entry'[o] \in {"running", "gone"}
  <2>1. CASE p \in Runner /\ Claim(p)
    BY <1>2, <2>1 DEF Claim, WithdrawnInv
  <2>2. CASE p \in Runner /\ Recheck(p)
    BY <1>2, <2>2 DEF Recheck, Complete, WithdrawnInv
  <2>3. CASE Settle(p)
    BY <1>2, <1>3, <2>3 DEF Settle, LetGo, WithdrawnInv, Busy, OpOf
  <2> QED
    BY <2>1, <2>2, <2>3 DEF WithdrawnInv, Worked, Step, Verify, Consume, Restart, LoadRecord,
        Start, TakeLock, Create,
      LockRefused, Truncate, Fill, Body, Unlock, End, Audit, Crash, store
<1>7. ASSUME p \in Runner, ~Claim(p), NEW o \in seenOff, job'[p] = o
      PROVE  pc'[p] = "recheck"
  <2>1. ~Die(p)
    BY <1>2, <1>7, Dead DEF PhaseInv
  <2>2. job[p] = o /\ pc[p] = "recheck"
    <3>1. job[p] = o
      BY <1>2, <1>7, <2>1 DEF Worked, Step, Recheck, Verify, Consume, Restart, LoadRecord, Start,
          TakeLock, Create,
        LockRefused, Truncate, Fill, Body, Unlock, End, Settle, LetGo, Audit, Crash, process
    <3> QED
      BY <1>2, <3>1, <1>7 DEF WithdrawnInv
  <2>3. record[o] = "cancelled" /\ Recheck(p) /\ job'[p] # NoOp
    BY <1>2, <1>7, <2>1, <2>2 DEF WithdrawnInv, Worked, Step, Verify, Consume, Restart, LoadRecord,
        Start, TakeLock, Create,
      LockRefused, Truncate, Fill, Body, Unlock, End, Settle, LetGo, Audit, Crash
  <2> QED
    BY <1>2, <1>7, <2>1, <2>2, <2>3 DEF Recheck, Withdrawn
<1>8. CASE ~(p \in Runner /\ Claim(p))
  <2>1. UNCHANGED seenOff
    BY <1>8 DEF Worked, Step, Recheck, Verify, Consume, Restart, LoadRecord, Start, TakeLock,
        Create,
      LockRefused, Truncate, Fill, Body, Unlock, End, Settle, LetGo, Audit, Crash, history
  <2>2. \A r \in Runner \ {p} : job'[r] = job[r] /\ pc'[r] = pc[r]
    BY <1>1 DEF Elsewhere, OpOf
  <2> QED
    BY <1>4, <1>5, <1>6, <1>7, <1>8, <2>1, <2>2 DEF WithdrawnInv
<1>9. CASE p \in Runner /\ Claim(p)
  <2>1. PICK o \in ApiOp : /\ entry[o] = "pending" /\ entry' = [entry EXCEPT ![o] = "running"]
                           /\ job' = [job EXCEPT ![p] = o]
                           /\ seenOff' = IF record[o] = "cancelled" THEN seenOff \cup {o} ELSE seenOff
    BY <1>9 DEF Claim
  <2>2. o \notin seenOff /\ ran[o] = 0 /\ UNCHANGED <<record, ran>> /\ pc'[p] = "recheck" /\ job'[p] = o /\ entry'[o] = "running"
    BY <1>2, <1>9, <2>1 DEF Claim, RanInv, WithdrawnInv
  <2>3. \A r \in Runner \ {p} : job'[r] = job[r] /\ pc'[r] = pc[r] /\ job[r] # o
    BY <1>1, <2>1 DEF Elsewhere, OpOf, OwnerInv, EntryOf
  <2> QED
    BY <1>4, <1>5, <1>6, <2>1, <2>2, <2>3 DEF WithdrawnInv
<1> QED
  BY <1>8, <1>9

LEMMA RanStep ==
  ASSUME TypeOK, PhaseInv, OwnerInv, RanInv, NEW p \in Proc, Worked(p)
  PROVE  RanInv'
<1> USE Sorts, PipelineAssumption DEF GoTo
<1>1. Elsewhere(p) /\ Placed /\ Phase(p)
  BY ProcessFrame DEF PhaseInv
<1>2. /\ pc \in [Proc -> Location] /\ job \in [Runner -> ApiOp \cup {NoOp}] /\ ran \in [Op -> Nat]
      /\ outcome \in [Proc -> Outcome]
      /\ entry \in [ApiOp -> {"none", "pending", "running", "failed", "gone"}]
  BY DEF TypeOK
<1>3. \A r \in Runner \ {p} : job'[r] = job[r] /\ outcome'[r] = outcome[r]
  BY <1>1 DEF Elsewhere, OpOf
<1>4. \A o \in ApiOp : entry[o] \notin {"none", "pending"} => entry'[o] \notin {"none", "pending"}
  BY <1>2 DEF Worked, Step, Claim, Recheck, Complete, Verify, Consume, Restart, LoadRecord, Start,
      TakeLock, Create,
    LockRefused, Truncate, Fill, Body, Unlock, End, Settle, LetGo, SettledAs, Audit, Crash, store
<1>5. CASE Body(p) /\ p \in Runner
  <2>1. PICK o : o = job[p]
    OBVIOUS
  <2>2. o \in ApiOp /\ entry[o] = "running" /\ OpOf(p) = o
    BY <1>1, <1>2, <1>5, <2>1 DEF Body, Placed, OwnerInv, EntryOf, OpOf
  <2>3. ran[o] = 0
    BY <1>1, <1>2, <1>5, <2>1, <2>2 DEF Body, Phase, Fresh, RanInv
  <2>4. ran'[o] = 1 /\ \A a \in Op \ {o} : ran'[a] = ran[a]
    BY <1>2, <1>5, <2>2, <2>3 DEF Body
  <2>5. outcome'[p] \in {"succeeded", "failed"} /\ UNCHANGED job /\ UNCHANGED entry
    BY <1>2, <1>5 DEF Body, store
  <2>6. \A r \in Runner \ {p} : job[r] # o
    BY <1>1, <1>2, <1>5, <2>1, <2>2 DEF OwnerInv
  <2> QED
    BY <1>3, <2>1, <2>2, <2>4, <2>5, <2>6 DEF RanInv
<1>6. ASSUME ~(Body(p) /\ p \in Runner)
      PROVE  RanInv'
  <2>1. \A o \in ApiOp : ran'[o] = ran[o]
    <3>1. CASE Body(p)
      <4>1. p \in CliOp /\ OpOf(p) = p /\ p \notin ApiOp
        BY <1>1, <1>6, <3>1, Operating DEF Body, Busy
      <4> QED
        BY <1>2, <3>1, <4>1 DEF Body
    <3> QED
      BY <3>1 DEF Worked, Step, Claim, Recheck, Verify, Consume, Restart, LoadRecord, Start,
          TakeLock, Create,
        LockRefused, Truncate, Fill, Unlock, End, Settle, LetGo, Audit, Crash, history
  <2>2. ASSUME p \in Runner, NEW o \in ApiOp, ran[o] > 0, job'[p] = o
        PROVE  outcome'[p] \in {"succeeded", "failed"}
    <3>1. ~Die(p) /\ o # NoOp
      BY <1>2, <2>2, Dead DEF PhaseInv
    <3>2. ~Claim(p)
      BY <1>2, <2>2 DEF Claim, RanInv
    <3>3. job[p] = o
      BY <1>2, <2>2, <3>1, <3>2 DEF Worked, Step, Recheck, Verify, Consume, Restart, LoadRecord,
          Start, TakeLock, Create,
        LockRefused, Truncate, Fill, Body, Unlock, End, Settle, LetGo, Audit, Crash, process
    <3>4. outcome[p] \in {"succeeded", "failed"}
      BY <2>2, <3>3 DEF RanInv
    <3>5. pc[p] \notin Entering \cup {"lock", "new", "start", "body"}
      BY <1>1, <3>4 DEF Phase, Fresh
    <3> QED
      BY <1>2, <1>6, <2>2, <3>1, <3>2, <3>4, <3>5 DEF Entering, Worked, Step, Recheck, Verify,
          Consume, Restart, LoadRecord,
        Start, TakeLock, Create, LockRefused, Truncate, Fill, Body, Unlock, End, Settle, LetGo,
            Audit, Crash, process
  <2> QED
    BY <1>3, <1>4, <2>1, <2>2 DEF RanInv
<1> QED
  BY <1>5, <1>6

-----------------------------------------------------------------------------
(* Tokens.                                                                 *)
LEMMA TokenRequest ==
  ASSUME TypeOK, TokenInv, NEW o \in Op, Requested(o)
  PROVE  TokenInv'
<1>1. UNCHANGED <<pc, job, outcome, ran, now, nonces, late>>
  BY RequestFrame DEF process, history
<1>2. \A t \in Token : expiry[t] > 0 => expiry'[t] = expiry[t]
  BY DEF Requested, Submit, Enqueue, Mint, CancelCheck, CancelStep, CancelUnlink, CancelLoad,
      CancelTruncate,
    CancelFill, spent, TypeOK
<1>3. \A t \in Token : Spent(t) => Spent(t)'
  BY <1>1, <1>2 DEF Spent
<1>4. \A a \in ApiOp : Authorised(a)' <=> Authorised(a)
  BY <1>1 DEF Authorised, Cleared
<1>5. \A a \in ApiOp : TokenOf[a] \in Token
  BY PipelineAssumption
<1> QED
  BY <1>1, <1>3, <1>4, <1>5 DEF TokenInv

(* A nonce is forgotten when its token has expired, and not before.        *)
LEMMA SpentStays ==
  ASSUME TypeOK, PhaseInv, NEW p \in Proc, Worked(p), NEW t \in Token, Spent(t)
  PROVE  Spent(t)' /\ late \subseteq late'
<1> USE DEF TypeOK
<1>1. UNCHANGED expiry
  BY ProcessFrame DEF PhaseInv
<1>2. CASE UNCHANGED <<now, nonces, late>>
  BY <1>1, <1>2 DEF Spent
<1>3. CASE p \in Runner /\ Consume(p)
  <2>1. job[p] \in ApiOp /\ TokenOf[job[p]] \in Token
    BY <1>3, PipelineAssumption DEF Consume, PhaseInv, Placed
  <2>2. now \in Nat /\ now' \in Nat /\ now <= now' /\ expiry[t] \in Nat /\ nonces[t] \in Nat
    BY <1>3, PipelineAssumption DEF Consume
  <2>3. \/ nonces'[t] = nonces[t]
        \/ nonces'[t] = 0 /\ nonces[t] < now'
        \/ nonces'[t] = KeptUntil(t)
    <3>1. Purged[t] = nonces[t] \/ (Purged[t] = 0 /\ nonces[t] < now')
      BY <2>2 DEF Purged
    <3>2. \/ nonces' = Purged
          \/ nonces' = [Purged EXCEPT ![TokenOf[job[p]]] = KeptUntil(TokenOf[job[p]])]
      BY <1>3 DEF Consume
    <3>3. nonces'[t] = Purged[t] \/ nonces'[t] = KeptUntil(t)
      BY <3>2 DEF Purged
    <3> QED
      BY <3>1, <3>3
  <2>4. KeptUntil(t) >= expiry[t]
    BY <2>2, PipelineAssumption DEF KeptUntil
  <2>5. Spent(t)'
    BY <1>1, <2>2, <2>3, <2>4 DEF Spent
  <2>6. late \subseteq late'
    BY <1>3 DEF Consume
  <2> QED
    BY <2>5, <2>6
<1> QED
  BY <1>2, <1>3 DEF Worked, Step, Claim, Recheck, Verify, Restart, LoadRecord, Start, TakeLock,
      Create,
    LockRefused, Truncate, Fill, Body, Unlock, End, Settle, LetGo, Audit, Crash, spent

(* An operation is authorised by consuming its token, and in no other way. *)
Redeem(p) ==
  /\ p \in Runner /\ Consume(p)
  /\ ~Consumed(TokenOf[job[p]])
  /\ nonces' = [Purged EXCEPT ![TokenOf[job[p]]] = KeptUntil(TokenOf[job[p]])]
  /\ late' = IF Expired(TokenOf[job[p]]) THEN late \cup {TokenOf[job[p]]} ELSE late

LEMMA Authorisation ==
  ASSUME TypeOK, PhaseInv, NEW p \in Proc, Worked(p), NEW o \in ApiOp, Authorised(o)'
  PROVE  Authorised(o) \/ (Redeem(p) /\ job[p] = o)
<1> USE Sorts, PipelineAssumption DEF GoTo
<1>1. Elsewhere(p) /\ Placed /\ Phase(p)
  BY ProcessFrame DEF PhaseInv
<1>2. /\ pc \in [Proc -> Location] /\ job \in [Runner -> ApiOp \cup {NoOp}] /\ ran \in [Op -> Nat]
      /\ outcome \in [Proc -> Outcome]
  BY DEF TypeOK
<1>3. CASE ran'[o] > 0 /\ ~(ran[o] > 0)
  <2>1. Body(p)
    BY <1>3 DEF Worked, Step, Claim, Recheck, Verify, Consume, Restart, LoadRecord, Start,
        TakeLock, Create,
      LockRefused, Truncate, Fill, Unlock, End, Settle, LetGo, Audit, Crash, history
  <2>2. OpOf(p) = o
    BY <1>2, <1>3, <2>1 DEF Body
  <2>3. p \in Runner /\ job[p] = o
    BY <1>1, <2>1, <2>2, Operating DEF Body, Busy
  <2>4. Cleared(p)
    BY <1>1, <2>1 DEF Cleared, Body, Phase, Fresh, Entering
  <2> QED
    BY <2>3, <2>4 DEF Authorised
<1>4. CASE \E r \in Runner \ {p} : job'[r] = o /\ Cleared(r)'
  BY <1>1, <1>4 DEF Authorised, Cleared, Elsewhere, OpOf
<1>5. CASE p \in Runner /\ job'[p] = o /\ Cleared(p)'
  <2>1. ~Die(p) /\ o # NoOp
    BY <1>1, <1>2, <1>5, Dead
  <2>2. CASE Claim(p) \/ Recheck(p) \/ Verify(p) \/ Restart(p)
    BY <1>2, <1>5, <2>1, <2>2 DEF Claim, Recheck, Verify, Restart, Reject, Cleared, Entering
  <2>3. CASE Consume(p)
    BY <1>2, <1>5, <2>1, <2>3 DEF Consume, Reject, Cleared, Redeem
  <2>4. ASSUME ~(Claim(p) \/ Recheck(p) \/ Verify(p) \/ Restart(p) \/ Consume(p))
        PROVE  Authorised(o)
    <3>1. job[p] = o
      BY <1>2, <1>5, <2>1, <2>4 DEF Worked, Step, LoadRecord, Start, TakeLock, Create,
        LockRefused, Truncate, Fill, Body, Unlock, End, Settle, LetGo, Audit, Crash
    <3>2. pc[p] \notin {"idle", "down"} \cup Entering
      BY <1>1, <1>2, <1>5, <2>1, <2>4, <3>1 DEF Worked, Step, LoadRecord, Start, TakeLock, Create,
          Placed, Entering,
        LockRefused, Truncate, Fill, Body, Unlock, End, Settle, LetGo, Audit, Crash
    <3>3. pc[p] \in {"lock", "body"} => outcome[p] # "rejected"
      BY <1>1 DEF Phase, Fresh
    <3>4. outcome[p] # "rejected"
      BY <1>2, <1>5, <2>1, <2>4, <3>3 DEF Cleared, Worked, Step, LoadRecord, Start, TakeLock,
          Create,
        LockRefused, Truncate, Fill, Body, Unlock, End, Settle, LetGo, Audit, Crash
    <3> QED
      BY <1>5, <3>1, <3>2, <3>4 DEF Authorised, Cleared
  <2> QED
    BY <2>2, <2>3, <2>4
<1> QED
  BY <1>3, <1>4, <1>5 DEF Authorised

LEMMA TokenStep ==
  ASSUME TypeOK, PhaseInv, TokenInv, NEW p \in Proc, Worked(p)
  PROVE  TokenInv'
<1>1. late \subseteq late'
  BY DEF Worked, Step, Claim, Recheck, Verify, Consume, Restart, LoadRecord, Start, TakeLock,
      Create,
    LockRefused, Truncate, Fill, Body, Unlock, End, Settle, LetGo, Audit, Crash, spent
<1>2. \A a \in ApiOp : TokenOf[a] \in Token
  BY PipelineAssumption
<1>3. \A a \in ApiOp : TokenOf[a] \notin late /\ Authorised(a) => Spent(TokenOf[a])'
  BY <1>2, SpentStays DEF TokenInv
<1>4. ASSUME Redeem(p), NEW t \in Token, t = TokenOf[job[p]], t \notin late'
      PROVE  Spent(t)' /\ ~Spent(t)
  <2>1. now \in Nat /\ now' \in Nat /\ now <= now' /\ expiry[t] \in Nat /\ nonces[t] \in Nat /\ UNCHANGED expiry
    BY <1>4, PipelineAssumption DEF Redeem, Consume, TypeOK
  <2>2. now' < expiry[t]
    BY <1>4, <2>1 DEF Redeem, Expired
  <2>3. nonces'[t] = KeptUntil(t) /\ KeptUntil(t) >= expiry[t]
    BY <1>4, <2>1, PipelineAssumption DEF Redeem, KeptUntil, Purged
  <2>4. Spent(t)'
    BY <2>1, <2>2, <2>3 DEF Spent
  <2>5. Purged[t] = 0
    BY <1>4 DEF Redeem, Consumed
  <2>6. nonces[t] < expiry[t]
    BY <2>1, <2>2, <2>5 DEF Purged
  <2> QED
    BY <2>1, <2>2, <2>4, <2>6 DEF Spent
<1>5. \A o \in ApiOp : TokenOf[o] \notin late' /\ Authorised(o)' => Spent(TokenOf[o])'
  BY <1>1, <1>2, <1>3, <1>4, Authorisation
<1>6. ASSUME NEW o1 \in ApiOp, NEW o2 \in ApiOp, TokenOf[o1] = TokenOf[o2], TokenOf[o1] \notin late',
             Authorised(o1)', Authorised(o2)'
      PROVE  o1 = o2
  <2>1. TokenOf[o1] \notin late
    BY <1>1, <1>6
  <2>2. (Authorised(o1) \/ Authorised(o2)) => Spent(TokenOf[o1])
    BY <1>6, <2>1 DEF TokenInv
  <2>3. Redeem(p) /\ job[p] \in {o1, o2} => ~Spent(TokenOf[o1])
    BY <1>2, <1>4, <1>6
  <2>4. (Authorised(o1) \/ (Redeem(p) /\ job[p] = o1)) /\ (Authorised(o2) \/ (Redeem(p) /\ job[p] = o2))
    BY <1>6, Authorisation
  <2> QED
    BY <1>6, <2>1, <2>2, <2>3, <2>4 DEF TokenInv
<1> QED
  BY <1>5, <1>6 DEF TokenInv

-----------------------------------------------------------------------------
(* The invariant.                                                          *)
LEMMA Initially ==
  ASSUME Init
  PROVE  IInv
<1> USE Sorts, PipelineAssumption DEF Init
<1>1. TypeOK
  BY DEF TypeOK, Status, Terminal, Outcome, Location
<1>2. PhaseInv
  BY DEF PhaseInv, Placed, Phase, Entering
<1>3. LockInv
  BY DEF LockInv, Inside, InBody
<1>4. OwnerInv
  BY DEF OwnerInv, Busy
<1>5. RecordInv
  BY DEF RecordInv, Settled
<1>6. HiddenInv /\ AuditInv /\ WithdrawnInv /\ RanInv
  BY DEF HiddenInv, Settled, AuditInv, AuditedOnce, Accounted, Over, Began, WithdrawnInv, RanInv
<1>7. TokenInv
  <2>1. \A o \in ApiOp : ~Authorised(o)
    BY DEF Authorised, Cleared
  <2> QED
    BY <2>1 DEF TokenInv
<1> QED
  BY <1>1, <1>2, <1>3, <1>4, <1>5, <1>6, <1>7 DEF IInv

LEMMA Inductive ==
  ASSUME IInv, [Next]_vars
  PROVE  IInv'
<1> USE DEF IInv
<1>1. ASSUME NEW o \in Op, Requested(o)
      PROVE  IInv'
  <2>1. Placed
    BY DEF PhaseInv
  <2>2. TypeOK'
    <3>1. Types'
      BY <1>1, TypeRequest, TypeParts
    <3> QED
      BY <3>1, TypeParts
  <2> QED
    BY <1>1, <2>1, <2>2, PhaseRequest, LockRequest, OwnerRequest, RecordRequest, HiddenRequest,
        AuditRequest,
      WithdrawnRequest, TokenRequest
<1>2. ASSUME NEW p \in Proc, Worked(p)
      PROVE  IInv'
  <2>1. TypeOK'
    <3>1. Types'
      BY <1>2, TypeStep
    <3> QED
      BY <3>1, TypeParts
  <2> QED
    BY <1>2, <2>1, PhaseStep, LockStep, OwnerStep, RecordStep, HiddenStep, AuditStep,
        WithdrawnStep, RanStep, TokenStep
<1>3. CASE UNCHANGED vars
  <2> USE <1>3 DEF vars, store, process, spent, history
  <2>1. TypeOK' /\ PhaseInv'
    BY DEF TypeOK, PhaseInv, Placed, Phase, Fresh, Ended, Rejected, Refused
  <2>2. LockInv' /\ OwnerInv'
    BY DEF LockInv, Inside, InBody, OpOf, OwnerInv, EntryOf, Busy
  <2>3. RecordInv' /\ HiddenInv' /\ AuditInv'
    BY DEF RecordInv, HiddenInv, Hidden, AuditInv, AuditedOnce, Accounted, Began, Unwritten,
        Settled, Over, OpOf
  <2>4. WithdrawnInv' /\ RanInv' /\ TokenInv'
    BY DEF WithdrawnInv, RanInv, TokenInv, Authorised, Cleared, Spent
  <2> QED
    BY <2>1, <2>2, <2>3, <2>4
<1> QED
  BY <1>1, <1>2, <1>3, NextParts

LEMMA Consequences ==
  ASSUME IInv

  PROVE  PipelineInv /\ ExclusiveExecution /\ ClaimHasOneOwner /\ TokenRunsOnce /\ AuditMatchesRecord
<1> USE Sorts, PipelineAssumption DEF IInv
<1>1. HeldAtWork
  BY DEF LockInv, Inside, InBody, HeldAtWork
<1>2. CancelledAtClaimNeverRuns
  BY DEF WithdrawnInv, CancelledAtClaimNeverRuns
<1>3. DiesOnlyOfCancelOrCrash
  BY DEF RecordInv, Unwritten, DiesOnlyOfCancelOrCrash
<1>4. ExclusiveExecution
  BY DEF LockInv, Inside, ExclusiveExecution
<1>5. ClaimHasOneOwner
  BY DEF OwnerInv, ClaimHasOneOwner
<1>6. TokenRunsOnce
  BY DEF RanInv, TokenInv, Authorised, TokenRunsOnce
<1>7. AuditMatchesRecord
  BY DEF AuditInv, AuditedOnce, Accounted, Began, Unwritten, Hidden, AuditMatchesRecord
<1> QED
  BY <1>1, <1>2, <1>3, <1>4, <1>5, <1>6, <1>7 DEF PipelineInv

LEMMA Invariance == Spec => []IInv
BY Initially, Inductive, PTL DEF Spec

(* Values have their types, no outcome of an operation leaves its          *)
(* environment locked, what was cancelled before its claim never runs, and *)
(* without crashes and cancellations no process dies of a torn record      *)
(* (worker.py:251-256, 320-337, engine.py:71-75).                          *)
THEOREM Pipeline == Spec => []PipelineInv
BY Invariance, Consequences, PTL

(* Runners and CLI processes never execute two operations of one           *)
(* environment at the same time (worker.py:320-336, engine.py:71-75).      *)
THEOREM Exclusion == Spec => []ExclusiveExecution
BY Invariance, Consequences, PTL

(* A queue entry is in one runner's hands, or a dead one's, or settled     *)
(* (api/queue.py:105-123).                                                 *)
THEOREM Ownership == Spec => []ClaimHasOneOwner
BY Invariance, Consequences, PTL

(* One token authorises one execution, for any lifetimes and retention     *)
(* (NonceStore.consume, worker.py:294-309).                                *)
THEOREM OneExecution == Spec => []TokenRunsOnce
BY Invariance, Consequences, PTL

(* Every operation a CLI process began and every entry a runner executed   *)
(* has exactly one audit entry when it is over, unless its process died,   *)
(* and the record never has the other outcome (engine.py:65-66,            *)
(* worker.py:339-360).                                                     *)
THEOREM AuditTrail == Spec => []AuditMatchesRecord
BY Invariance, Consequences, PTL
=============================================================================
