------------------------ MODULE RemoteBackups_proofs ------------------------
(***************************************************************************)
(* Proofs about RemoteBackups for any number of hosts, backups, failures   *)
(* and crashes, any grace periods and any retention tiers: what is offered *)
(* on the shared prefix is complete, what retention took has a newer one,  *)
(* the records of a host are true, and no upload loses its payload.        *)
(***************************************************************************)
EXTENDS RemoteBackups, TLAPS

Retaining == {"retention", "delete", "inspectVictim", "fenceVictim"}
Cleaning == {"cleanup", "deleteOrphan"}

(* A run that still writes to its own prefix.                              *)
Writing == Publishing \cup {"verifyMarker", "withdraw", "inspect", "fence"}

(* What a run is deleting, or is going to.                                 *)
Doomed(g) == job[g].victims \cup {job[g].target}

(* No marker was ever written for b, and no deletion can know it.          *)
Untouched(b) ==
  /\ ~Has(b, "marker") /\ ~Has(b, "fence") /\ b \notin late
  /\ \A g \in Host : pc[g] \in Retaining \cup Cleaning => b \notin Doomed(g)

FreshUntouched == \A b \in Backup : b > reserved => Untouched(b)

PublishedUntouched == \A h \in Host : pc[h] \in Publishing => Untouched(job[h].own)

OneWriter ==
  \A h \in Host : pc[h] \in Writing =>
    /\ job[h].own <= reserved
    /\ \A g \in Host : pc[g] \in Writing /\ job[g].own = job[h].own => g = h

PayloadBeforeMarker ==
  \A h \in Host : pc[h] = "put" => Artifact \subseteq Objects(job[h].own)

(* A marker under way finds its payload, or a fence that hides it.         *)
LateComplete ==
  \A b \in late :
    /\ ~Has(b, "marker")
    /\ Has(b, "fence") \/ Artifact \subseteq Objects(b)
    /\ \A g \in Host : pc[g] \in Retaining => b \notin Doomed(g)

OrphansFenced ==
  \A g \in Host : pc[g] \in Cleaning => \A b \in Doomed(g) \ {None} : Has(b, "fence")

MarkerGone ==
  \A g \in Host : pc[g] = "delete" /\ Head(job[g].todo) # "marker" =>
    ~Advertised(job[g].target)

(* The inductive invariant.                                                *)
Shared ==
  /\ FreshUntouched /\ PublishedUntouched /\ OneWriter
  /\ PayloadBeforeMarker /\ LateComplete
  /\ OrphansFenced /\ MarkerGone

IInv == TypeOK /\ Shared /\ AdvertisedComplete

-----------------------------------------------------------------------------
(* Type correctness: what is stored, and where a run is.                   *)

DataTyped ==
  /\ reserved \in 0..MaxBackups
  /\ age \in [Backup -> [Object -> Gone..MaxAge]]
  /\ late \subseteq Backup
  /\ dirs \in [Host -> SUBSET Backup] /\ index \in [Host -> SUBSET Backup]
  /\ status \in [Backup -> {"none", "pending", "complete", "failed"}]
  /\ retired \subseteq Backup /\ withdrawn \subseteq Backup
  /\ faults \in 0..MaxFaults

Targeting == Deleting \cup {"inspectVictim", "fenceVictim"}

RunTyped(l, j) ==
  /\ l \in Location /\ j \in Job
  /\ l \in Owning => j.own \in Backup
  /\ (j.target # None) <=> (l \in Targeting)
  /\ l \in Deleting => j.todo # <<>>

(* Artifacts, markers and fences are objects, and times are ages.          *)
LEMMA ObjectTypes ==
  /\ Artifact \subseteq Object \ {"fence"} /\ "marker" \in Object \ {"fence"} /\ "fence" \in Object
  /\ "db.dump" \in Artifact /\ "filestore.tar" \in Artifact
  /\ "marker" \notin Artifact /\ "fence" \notin Artifact
  /\ MaxAge \in Nat /\ 0 \in Gone..MaxAge /\ Gone \in Gone..MaxAge
BY BackupAssumption DEF Artifact, Object, MaxAge, Gone

(* TypeOK, taken apart.                                                    *)
LEMMA TypeParts ==
  TypeOK <=> /\ DataTyped
             /\ pc \in [Host -> Location] /\ job \in [Host -> Job]
             /\ \A h \in Host : RunTyped(pc[h], job[h])
BY DEF TypeOK, DataTyped, RunTyped, Targeting

(* Which places publish, and which have a target.                          *)
LEMMA Places ==
  /\ "removeDirs" \in Owning \ Targeting /\ "select" \in Owning \ Targeting
  /\ \A l \in {"idle", "retention", "cleanup"} :
       l \in Location /\ l \notin Owning /\ l \notin Targeting
  /\ \A l \in Targeting : l \in Location /\ l \notin Owning
  /\ \A l \in Owning : l \in Location /\ l \notin Targeting
  /\ \A l \in Deleting : l \in Targeting
BY DEF Location, Owning, Publishing, Targeting, Deleting

(* Fields of Job take the values of their types.                           *)
LEMMA JobFields ==
  ASSUME NEW j \in Job, NEW S \in SUBSET Backup, NEW t \in Seq(Object \ {"fence"})
  PROVE  /\ [j EXCEPT !.victims = S] \in Job
         /\ [j EXCEPT !.todo = t] \in Job
BY DEF Job

LEMMA JobReset == \A j \in Job : [j EXCEPT !.target = None, !.todo = <<>>] \in Job
<1>1. <<>> \in Seq(Object \ {"fence"})
  OBVIOUS
<1> QED BY <1>1 DEF Job, None

(* A step of one run to a place and variables that fit keeps the types.    *)
LEMMA Move ==
  ASSUME TypeOK, DataTyped', NEW h \in Host, NEW l, NEW j, RunTyped(l, j),
         pc' = [pc EXCEPT ![h] = l], job' = [job EXCEPT ![h] = j]
  PROVE  TypeOK'
<1>1. pc' \in [Host -> Location] /\ job' \in [Host -> Job]
  BY TypeParts DEF RunTyped
<1>2. ASSUME NEW g \in Host PROVE RunTyped(pc[g], job[g])'
  <2>1. RunTyped(pc'[g], job'[g])
    BY TypeParts
  <2> QED BY <2>1 DEF RunTyped
<1> QED BY <1>1, <1>2 DEF TypeOK, DataTyped, RunTyped, Targeting

(* So does a step of a publisher that keeps its variables.                 *)
LEMMA Walk ==
  ASSUME TypeOK, DataTyped', NEW h \in Host, pc[h] \in Owning, job' = job,
         NEW l \in Owning, pc' = [pc EXCEPT ![h] = l]
  PROVE  TypeOK'
<1>1. job' = [job EXCEPT ![h] = job[h]] /\ job[h] \in Job
  BY DEF TypeOK
<1>2. RunTyped(l, job[h])
  BY <1>1, TypeParts DEF RunTyped, Location, Owning, Publishing, Targeting, Deleting
<1> QED BY <1>1, <1>2, Move

LEMMA RemoteTyped ==
  ASSUME DataTyped, NEW b \in Backup, NEW o \in Object, Put(b, o) \/ Delete(b, o)
  PROVE  age' \in [Backup -> [Object -> Gone..MaxAge]] /\ late' \subseteq Backup
<1>1. PICK n \in Gone..MaxAge : age' = [age EXCEPT ![b][o] = n]
  BY ObjectTypes DEF Put, Delete
<1>2. [age[b] EXCEPT ![o] = n] \in [Object -> Gone..MaxAge]
  BY DEF DataTyped
<1> QED BY <1>1, <1>2 DEF DataTyped, Put, Delete

LEMMA OrderTyped ==
  ASSUME NEW b
  PROVE  /\ DeleteOrder(b) \in Seq(Object \ {"fence"}) /\ DeleteOrder(b) # <<>>
         /\ Head(DeleteOrder(b)) = "marker"
<1> DEFINE L == Listed(b, "db.dump")  M == Listed(b, "filestore.tar")
<1>1. L \in Seq(Object \ {"fence"}) /\ M \in Seq(Object \ {"fence"})
  <2>1. ASSUME NEW o \in Object \ {"fence"} PROVE Listed(b, o) \in Seq(Object \ {"fence"})
    <3>1. <<o>> \in Seq(Object \ {"fence"}) /\ <<>> \in Seq(Object \ {"fence"})
      OBVIOUS
    <3> QED BY <3>1 DEF Listed
  <2> QED BY <2>1, ObjectTypes
<1> HIDE DEF L, M
<1>2. L \o M \in Seq(Object \ {"fence"})
  BY <1>1
<1>3. <<"marker">> \in Seq(Object \ {"fence"}) /\ Len(<<"marker">>) = 1 /\ <<"marker">>[1] = "marker"
  BY ObjectTypes
<1>4. DeleteOrder(b) = <<"marker">> \o (L \o M)
  BY DEF DeleteOrder, MarkerAnd, L, M
<1> QED BY <1>2, <1>3, <1>4

(* The steps of a publisher, and of a run that verified, keep the types.   *)
LEMMA WalkTyped ==
  ASSUME TypeOK, NEW h \in Host, Publish(h) \/ Link(h), ~Reserve(h), ~PublishLocal(h)
  PROVE  TypeOK'
<1> USE DEF GoTo, OwnKept, remote, local, history
<1>0. DataTyped /\ job[h] \in Job /\ (pc[h] \in Owning => job[h].own \in Backup)
  BY TypeParts DEF RunTyped
<1>f. Ok \/ Fail => faults' \in 0..MaxFaults
  BY <1>0, BackupAssumption DEF DataTyped, Ok, Fail
<1>w. ASSUME DataTyped', job' = job, pc[h] \in Owning,
             \E l \in Owning : pc' = [pc EXCEPT ![h] = l]
      PROVE  TypeOK'
  BY <1>w, Walk
<1>1. CASE Index(h)
  <2>1. pc[h] \in Owning /\ job' = job /\ \E l \in Owning : pc' = [pc EXCEPT ![h] = l]
    BY <1>1 DEF Index, Owning, Publishing
  <2>2. DataTyped'
    BY <1>1, <1>0, <1>f, <2>1 DEF Index, DataTyped
  <2> QED BY <1>w, <2>1, <2>2
<1>2. CASE UploadDump(h)
  <2>1. pc[h] \in Owning /\ job' = job /\ \E l \in Owning : pc' = [pc EXCEPT ![h] = l]
    BY <1>2 DEF UploadDump, Request, Owning, Publishing
  <2>2. \/ UNCHANGED age /\ late' \subseteq Backup
        \/ Put(job[h].own, "db.dump") \/ Delete(job[h].own, "db.dump")
    BY <1>2, <1>0, <2>1 DEF UploadDump, Request, DataTyped, Put
  <2>3. age' \in [Backup -> [Object -> Gone..MaxAge]] /\ late' \subseteq Backup
    BY <1>0, <2>1, <2>2, RemoteTyped, ObjectTypes DEF DataTyped
  <2>4. DataTyped'
    BY <1>2, <1>0, <1>f, <2>1, <2>3 DEF UploadDump, Request, DataTyped
  <2> QED BY <1>w, <2>1, <2>4
<1>3. CASE UploadFilestore(h)
  <2>1. pc[h] \in Owning /\ job' = job /\ \E l \in Owning : pc' = [pc EXCEPT ![h] = l]
    BY <1>3 DEF UploadFilestore, Request, Owning, Publishing
  <2>2. \/ UNCHANGED age /\ late' \subseteq Backup
        \/ Put(job[h].own, "filestore.tar") \/ Delete(job[h].own, "filestore.tar")
    BY <1>3, <1>0, <2>1 DEF UploadFilestore, Request, DataTyped, Put
  <2>3. age' \in [Backup -> [Object -> Gone..MaxAge]] /\ late' \subseteq Backup
    BY <1>0, <2>1, <2>2, RemoteTyped, ObjectTypes DEF DataTyped
  <2>4. DataTyped'
    BY <1>3, <1>0, <1>f, <2>1, <2>3 DEF UploadFilestore, Request, DataTyped
  <2> QED BY <1>w, <2>1, <2>4
<1>4. CASE CheckPayload(h)
  <2>1. pc[h] \in Owning /\ job' = job /\ \E l \in Owning : pc' = [pc EXCEPT ![h] = l]
    BY <1>4 DEF CheckPayload, Answer, Owning, Publishing
  <2>2. DataTyped'
    BY <1>4, <1>0, <1>f, <2>1 DEF CheckPayload, Answer, DataTyped
  <2> QED BY <1>w, <2>1, <2>2
<1>5. CASE CheckFence(h)
  <2>1. pc[h] \in Owning /\ job' = job /\ \E l \in Owning : pc' = [pc EXCEPT ![h] = l]
    BY <1>5 DEF CheckFence, Answer, Owning, Publishing
  <2>2. DataTyped'
    BY <1>5, <1>0, <1>f, <2>1 DEF CheckFence, Answer, DataTyped
  <2> QED BY <1>w, <2>1, <2>2
<1>6. CASE PutMarker(h)
  <2>1. pc[h] \in Owning /\ job' = job /\ \E l \in Owning : pc' = [pc EXCEPT ![h] = l]
    BY <1>6 DEF PutMarker, OnMarkerError, Request, Owning, Publishing
  <2>2. \/ UNCHANGED age /\ late' \subseteq Backup
        \/ Put(job[h].own, "marker") \/ Delete(job[h].own, "marker")
    BY <1>6, <1>0, <2>1 DEF PutMarker, OnMarkerError, Request, DataTyped, Put
  <2>3. age' \in [Backup -> [Object -> Gone..MaxAge]] /\ late' \subseteq Backup
    BY <1>0, <2>1, <2>2, RemoteTyped, ObjectTypes DEF DataTyped
  <2>4. DataTyped'
    BY <1>6, <1>0, <1>f, <2>1, <2>3 DEF PutMarker, OnMarkerError, Request, DataTyped
  <2> QED BY <1>w, <2>1, <2>4
<1>7. CASE VerifyMarker(h)
  <2>1. pc[h] \in Owning /\ job' = job /\ \E l \in Owning : pc' = [pc EXCEPT ![h] = l]
    BY <1>7 DEF VerifyMarker, Answer, Owning, Publishing
  <2>2. DataTyped'
    BY <1>7, <1>0, <1>f, <2>1 DEF VerifyMarker, Answer, DataTyped
  <2> QED BY <1>w, <2>1, <2>2
<1>8. CASE PersistComplete(h)
  <2>1. pc[h] \in Owning /\ job' = job /\ \E l \in Owning : pc' = [pc EXCEPT ![h] = l]
    BY <1>8 DEF PersistComplete, SetStatus, Owning, Publishing
  <2>2. DataTyped'
    BY <1>8, <1>0, <1>f, <2>1 DEF PersistComplete, SetStatus, DataTyped
  <2> QED BY <1>w, <2>1, <2>2
<1>9. CASE RemoveMarker(h)
  <2>1. pc[h] \in Owning /\ job' = job /\ \E l \in Owning : pc' = [pc EXCEPT ![h] = l]
    BY <1>9 DEF RemoveMarker, Request, Owning, Publishing
  <2>2. \/ UNCHANGED age /\ late' \subseteq Backup
        \/ Put(job[h].own, "marker") \/ Delete(job[h].own, "marker")
    BY <1>9, <1>0 DEF RemoveMarker, Request, DataTyped
  <2>3. age' \in [Backup -> [Object -> Gone..MaxAge]] /\ late' \subseteq Backup
    BY <1>0, <2>1, <2>2, RemoteTyped, ObjectTypes DEF DataTyped
  <2>4. DataTyped'
    BY <1>9, <1>0, <1>f, <2>1, <2>3 DEF RemoveMarker, Request, DataTyped
  <2> QED BY <1>w, <2>1, <2>4
<1>10. CASE Inspect(h)
  <2>1. pc[h] \in Owning /\ job' = job /\ \E l \in Owning : pc' = [pc EXCEPT ![h] = l]
    BY <1>10 DEF Inspect, Answer, Owning, Publishing
  <2>2. DataTyped'
    BY <1>10, <1>0, <1>f, <2>1 DEF Inspect, Answer, DataTyped
  <2> QED BY <1>w, <2>1, <2>2
<1>11. CASE PutFence(h)
  <2>1. pc[h] \in Owning /\ job' = job /\ \E l \in Owning : pc' = [pc EXCEPT ![h] = l]
    BY <1>11 DEF PutFence, Request, Owning, Publishing
  <2>2. \/ UNCHANGED age /\ late' \subseteq Backup
        \/ Put(job[h].own, "fence") \/ Delete(job[h].own, "fence")
    BY <1>11, <1>0, <2>1 DEF PutFence, Request, DataTyped, Put
  <2>3. age' \in [Backup -> [Object -> Gone..MaxAge]] /\ late' \subseteq Backup
    BY <1>0, <2>1, <2>2, RemoteTyped, ObjectTypes DEF DataTyped
  <2>4. DataTyped'
    BY <1>11, <1>0, <1>f, <2>1, <2>3 DEF PutFence, Request, DataTyped
  <2> QED BY <1>w, <2>1, <2>4
<1>12. CASE PersistFailed(h)
  <2>1. pc[h] \in Owning /\ job' = job /\ \E l \in Owning : pc' = [pc EXCEPT ![h] = l]
    BY <1>12 DEF PersistFailed, SetStatus, Owning, Publishing
  <2>2. DataTyped'
    BY <1>12, <1>0, <1>f, <2>1 DEF PersistFailed, SetStatus, DataTyped
  <2> QED BY <1>w, <2>1, <2>2
<1>13. CASE Link(h)
  <2>1. pc[h] \in Owning /\ job' = job /\ \E l \in Owning : pc' = [pc EXCEPT ![h] = l]
    BY <1>13 DEF Link, SetStatus, Owning, Publishing
  <2>2. DataTyped'
    BY <1>13, <1>0, <1>f, <2>1 DEF Link, SetStatus, DataTyped
  <2> QED BY <1>w, <2>1, <2>2
<1> QED BY <1>1, <1>2, <1>3, <1>4, <1>5, <1>6, <1>7, <1>8, <1>9, <1>10, <1>11, <1>12, <1>13 DEF Publish

(* The steps of retention keep the types.                                  *)
LEMMA RetainTyped ==
  ASSUME TypeOK, NEW h \in Host, Retain(h), ~Link(h)
  PROVE  TypeOK'
<1> USE DEF GoTo, remote, local, history
<1>0. DataTyped /\ RunTyped(pc[h], job[h]) /\ job \in [Host -> Job] /\ pc \in [Host -> Location]
  BY TypeParts
<1>f. Ok \/ Fail => faults' \in 0..MaxFaults
  BY <1>0, BackupAssumption DEF DataTyped, Ok, Fail
<1>n. ASSUME DataTyped', job' = job,
             NEW l \in Location, l \notin Targeting, pc[h] \notin Targeting,
             l \in Owning => pc[h] \in Owning, pc' = [pc EXCEPT ![h] = l]
      PROVE  TypeOK'
  <2>1. RunTyped(l, job[h]) /\ job' = [job EXCEPT ![h] = job[h]]
    BY <1>n, <1>0 DEF RunTyped, Targeting
  <2> QED BY <1>n, <2>1, Move
<1>1. CASE SynchronizeIndex(h)
  <2>1. PICK fresh \in SUBSET dirs[h] :
          LET kept == Retained(dirs[h]) \cup {job[h].own} \cup fresh IN
          /\ index' = [index EXCEPT ![h] = kept]
          /\ job' = [job EXCEPT ![h].victims = dirs[h] \ kept]
    BY <1>1 DEF SynchronizeIndex, IndexOf
  <2>2. job[h].own \in Backup /\ Retained(dirs[h]) \subseteq dirs[h] /\ dirs[h] \subseteq Backup
    BY <1>0, <1>1 DEF RunTyped, SynchronizeIndex, Owning, Retained, Newest, TierKeeps, DataTyped
  <2>3. DataTyped'
    BY <1>0, <1>1, <1>f, <2>1, <2>2 DEF SynchronizeIndex, DataTyped
  <2>4. PICK S \in SUBSET Backup : job' = [job EXCEPT ![h] = [job[h] EXCEPT !.victims = S]]
    BY <2>1, <2>2
  <2>5. RunTyped("removeDirs", [job[h] EXCEPT !.victims = S])
    <3>1. [job[h] EXCEPT !.victims = S] \in Job /\ [job[h] EXCEPT !.victims = S].own = job[h].own
             /\ [job[h] EXCEPT !.victims = S].target = job[h].target
      BY <1>0, JobFields DEF Job, RunTyped
    <3>2. pc[h] \in Owning
      BY <1>1 DEF SynchronizeIndex, Owning
    <3> QED BY <1>0, <2>2, <3>1, <3>2, Places DEF RunTyped
  <2> QED BY <2>3, <2>4, <2>5, <1>1, Move DEF SynchronizeIndex
<1>2. CASE RemoveDirectory(h)
  <2>1. PICK S \in SUBSET Backup, D \in SUBSET Backup :
          /\ job' = [job EXCEPT ![h] = [job[h] EXCEPT !.victims = S]]
          /\ dirs' = [dirs EXCEPT ![h] = D]
    BY <1>0, <1>2 DEF RemoveDirectory, DataTyped, RunTyped, Job
  <2>2. DataTyped' /\ pc' = [pc EXCEPT ![h] = pc[h]]
    BY <1>0, <1>2, <1>f, <2>1 DEF RemoveDirectory, DataTyped
  <2>3. RunTyped(pc[h], [job[h] EXCEPT !.victims = S])
    BY <1>0 DEF RunTyped, Job
  <2> QED BY <2>1, <2>2, <2>3, Move
<1>3. CASE LocallyPruned(h)
  <2>1. DataTyped'
    BY <1>0, <1>3, <1>f DEF LocallyPruned, DataTyped
  <2>2. RunTyped("idle", NoJob) /\ pc[h] \in Owning \ Targeting /\ "select" \in Owning \ Targeting
    BY <1>3, BackupAssumption DEF RunTyped, NoJob, Job, Location, Owning, Publishing, Targeting, Deleting,
                                  LocallyPruned
  <2> QED BY <1>3, <1>n, <2>1, <2>2, Move DEF LocallyPruned, Finish, Location
<1>4. CASE Select(h)
  <2>1. DataTyped'
    BY <1>0, <1>4, <1>f DEF Select, DataTyped
  <2>2. PICK S \in SUBSET Backup, O \in SUBSET Backup :
          job' = [job EXCEPT ![h] = [job[h] EXCEPT !.victims = S, !.old = O]]
    BY <1>0, <1>4 DEF Select
  <2>3. RunTyped("retention", [job[h] EXCEPT !.victims = S, !.old = O])
    BY <1>0, <1>4 DEF RunTyped, Job, Location, Owning, Publishing, Targeting, Deleting, Select
  <2> QED BY <1>4, <2>1, <2>2, <2>3, Move DEF Select
<1>5. CASE Recheck(h)
  <2>1. DataTyped'
    BY <1>0, <1>5, <1>f DEF Recheck, DataTyped
  <2>2. PICK v \in job[h].victims :
          \/ /\ job' = [job EXCEPT ![h] = [job[h] EXCEPT !.victims = @ \ {v}, !.target = v,
                                             !.todo = DeleteOrder(v), !.attempted = @ \cup {v}]]
             /\ pc' = [pc EXCEPT ![h] = "delete"]
          \/ /\ job' = [job EXCEPT ![h] = [job[h] EXCEPT !.victims = @ \ {v}, !.target = v]]
             /\ pc' = [pc EXCEPT ![h] = "inspectVictim"]
    BY <1>0, <1>5 DEF Recheck
  <2>3. v \in Backup /\ v # None /\ job[h] \in Job
    BY <1>0 DEF RunTyped, Job, Backup, None
  <2>4. RunTyped("delete", [job[h] EXCEPT !.victims = @ \ {v}, !.target = v,
                                          !.todo = DeleteOrder(v), !.attempted = @ \cup {v}])
    BY <2>3, OrderTyped DEF RunTyped, Job, Location, Owning, Publishing, Targeting, Deleting
  <2>5. RunTyped("inspectVictim", [job[h] EXCEPT !.victims = @ \ {v}, !.target = v])
    BY <2>3 DEF RunTyped, Job, Location, Owning, Publishing, Targeting, Deleting
  <2> QED BY <2>1, <2>2, <2>4, <2>5, Move
<1>6. CASE DeleteVictim(h) \/ DeleteOrphan(h)
  <2> DEFINE o == Head(job[h].todo)
  <2>1. o \in Object /\ job[h].target \in Backup /\ Tail(job[h].todo) \in Seq(Object \ {"fence"})
    BY <1>0, <1>6 DEF RunTyped, Job, Targeting, Deleting, DeleteVictim, DeleteOrphan, None
  <2>2. /\ Delete(job[h].target, o) \/ UNCHANGED remote
        /\ UNCHANGED <<reserved, local, withdrawn>> /\ (Ok \/ Fail)
        /\ retired' = retired \/ retired' = retired \cup {job[h].target}
    BY <1>6 DEF DeleteVictim, DeleteOrphan, DeleteNext
  <2>3. DataTyped'
    BY <1>0, <1>f, <2>1, <2>2, RemoteTyped DEF DataTyped
  <2>4. PICK l \in {"delete", "inspectVictim", "retention", "deleteOrphan", "cleanup"}, j \in Job :
          /\ pc' = [pc EXCEPT ![h] = l] /\ job' = [job EXCEPT ![h] = j]
          /\ (j.target # None) <=> (l \in Targeting)
          /\ l \in Deleting => j.todo # <<>>
    <3>1. job[h] \in Job /\ job[h].target # None
      BY <1>0, <1>6 DEF RunTyped, Targeting, Deleting, DeleteVictim, DeleteOrphan
    <3>2. /\ [job[h] EXCEPT !.todo = <<>>] \in Job /\ [job[h] EXCEPT !.todo = Tail(job[h].todo)] \in Job
          /\ [job[h] EXCEPT !.target = None, !.todo = <<>>] \in Job
      <4>1. <<>> \in Seq(Object \ {"fence"})
        OBVIOUS
      <4> QED BY <2>1, <3>1, <4>1, JobFields, JobReset
    <3>t. /\ [job[h] EXCEPT !.todo = <<>>].target = job[h].target
          /\ [job[h] EXCEPT !.todo = Tail(job[h].todo)].target = job[h].target
          /\ [job[h] EXCEPT !.todo = Tail(job[h].todo)].todo = Tail(job[h].todo)
          /\ [job[h] EXCEPT !.target = None, !.todo = <<>>].target = None
      BY <3>1 DEF Job
    <3>3. CASE DeleteVictim(h)
      <4>1. \/ pc' = [pc EXCEPT ![h] = "retention"] /\ NoTarget(h)
            \/ /\ pc' = pc /\ Tail(job[h].todo) # <<>>
               /\ job' = [job EXCEPT ![h].todo = Tail(job[h].todo)]
            \/ pc' = [pc EXCEPT ![h] = "inspectVictim"] /\ job' = [job EXCEPT ![h].todo = <<>>]
        BY <3>3 DEF DeleteVictim, DeleteNext
      <4>2. pc = [pc EXCEPT ![h] = "delete"]
        BY <1>0, <3>3 DEF DeleteVictim
      <4> QED BY <1>0, <3>1, <3>2, <3>t, <4>1, <4>2 DEF NoTarget, Targeting, Deleting
    <3>4. CASE DeleteOrphan(h)
      <4>1. \/ pc' = [pc EXCEPT ![h] = "cleanup"] /\ NoTarget(h)
            \/ /\ pc' = pc /\ Tail(job[h].todo) # <<>>
               /\ job' = [job EXCEPT ![h].todo = Tail(job[h].todo)]
        BY <3>4 DEF DeleteOrphan, DeleteNext
      <4>2. pc = [pc EXCEPT ![h] = "deleteOrphan"]
        BY <1>0, <3>4 DEF DeleteOrphan
      <4>3. CASE pc' = [pc EXCEPT ![h] = "cleanup"] /\ NoTarget(h)
        BY <1>0, <3>1, <3>2, <3>t, <4>3 DEF NoTarget, Targeting, Deleting
      <4>4. CASE /\ pc' = pc /\ Tail(job[h].todo) # <<>>
                 /\ job' = [job EXCEPT ![h].todo = Tail(job[h].todo)]
        BY <1>0, <3>1, <3>2, <3>t, <4>2, <4>4 DEF Targeting, Deleting
      <4> QED BY <4>1, <4>3, <4>4
    <3> QED BY <1>6, <3>3, <3>4
  <2>5. RunTyped(l, j)
    BY <2>4 DEF RunTyped, Location, Owning, Publishing, Targeting, Deleting
  <2> QED BY <2>3, <2>4, <2>5, Move
<1>7. CASE InspectVictim(h) \/ FenceVictim(h)
  <2>1. job[h].target \in Backup /\ "fence" \in Object /\ job[h] \in Job
    BY <1>0, <1>7, ObjectTypes DEF RunTyped, Job, Targeting, InspectVictim, FenceVictim, None
  <2>2. UNCHANGED remote \/ Put(job[h].target, "fence")
    BY <1>7 DEF InspectVictim, FenceVictim, Request
  <2>3. DataTyped'
    BY <1>0, <1>7, <1>f, <2>1, <2>2, RemoteTyped DEF InspectVictim, FenceVictim, Request, DataTyped
  <2>4. \/ job' = job /\ pc' = [pc EXCEPT ![h] = "fenceVictim"] /\ pc[h] = "inspectVictim"
        \/ /\ job' = [job EXCEPT ![h] = [job[h] EXCEPT !.target = None, !.todo = <<>>]]
           /\ pc' = [pc EXCEPT ![h] = "retention"]
    BY <1>0, <1>7 DEF InspectVictim, FenceVictim, Request, NoTarget
  <2>5. RunTyped("retention", [job[h] EXCEPT !.target = None, !.todo = <<>>])
    <3>1. [job[h] EXCEPT !.target = None, !.todo = <<>>].target = None
      BY <2>1 DEF Job
    <3> QED BY <2>1, <3>1, JobReset, Places DEF RunTyped
  <2>6. pc[h] = "inspectVictim" => RunTyped("fenceVictim", job[h])
    BY <1>0 DEF RunTyped, Job, Location, Owning, Publishing, Targeting, Deleting
  <2>7. job = [job EXCEPT ![h] = job[h]]
    BY <1>0
  <2> QED BY <2>3, <2>4, <2>5, <2>6, <2>7, Move
<1>8. CASE Orphans(h)
  <2>1. DataTyped'
    BY <1>0, <1>8, <1>f DEF Orphans, DataTyped
  <2>2. PICK j \in Job : job' = [job EXCEPT ![h] = j] /\ j.target = job[h].target
    <3>1. [job[h] EXCEPT !.victims = {b \in job[h].old : Stale(b)} \ job[h].attempted] \in Job
      BY <1>0 DEF RunTyped, Job
    <3> QED BY <1>0, <1>8, <3>1 DEF Orphans, Job
  <2>3. RunTyped("cleanup", j)
    BY <1>0, <1>8, <2>2 DEF RunTyped, Location, Owning, Publishing, Targeting, Deleting, Orphans
  <2> QED BY <1>8, <2>1, <2>2, <2>3, Move DEF Orphans
<1>9. CASE RecheckOrphan(h)
  <2>1. DataTyped'
    BY <1>0, <1>9, <1>f DEF RecheckOrphan, DataTyped
  <2>2. PICK v \in job[h].victims :
          \/ /\ job' = [job EXCEPT ![h] = [job[h] EXCEPT !.victims = @ \ {v}, !.target = v,
                                             !.todo = DeleteOrder(v)]]
             /\ pc' = [pc EXCEPT ![h] = "deleteOrphan"]
          \/ /\ job' = [job EXCEPT ![h] = [job[h] EXCEPT !.victims = @ \ {v}]]
             /\ pc' = [pc EXCEPT ![h] = "cleanup"]
    BY <1>0, <1>9 DEF RecheckOrphan
  <2>3. v \in Backup /\ v # None /\ job[h] \in Job /\ job[h].target = None
    BY <1>0, <1>9 DEF RunTyped, Job, Backup, None, Targeting, Deleting, RecheckOrphan
  <2>4. RunTyped("deleteOrphan", [job[h] EXCEPT !.victims = @ \ {v}, !.target = v, !.todo = DeleteOrder(v)])
    BY <2>3, OrderTyped DEF RunTyped, Job, Location, Owning, Publishing, Targeting, Deleting
  <2>5. RunTyped("cleanup", [job[h] EXCEPT !.victims = @ \ {v}])
    BY <2>3 DEF RunTyped, Job, Location, Owning, Publishing, Targeting, Deleting
  <2> QED BY <2>1, <2>2, <2>4, <2>5, Move
<1>10. CASE EndRetention(h)
  <2>1. DataTyped'
    BY <1>0, <1>10, <1>f DEF EndRetention, DataTyped
  <2>2. RunTyped("idle", NoJob)
    BY BackupAssumption DEF RunTyped, NoJob, Job, Location, Owning, Publishing, Targeting, Deleting
  <2> QED BY <1>10, <2>1, <2>2, Move DEF EndRetention, Finish
<1> QED BY <1>1, <1>2, <1>3, <1>4, <1>5, <1>6, <1>7, <1>8, <1>9, <1>10 DEF Retain

(* The first states have their types, and every step keeps them.           *)
LEMMA TypeInit == Init => TypeOK
<1> SUFFICES ASSUME Init PROVE TypeOK
  OBVIOUS
<1>1. DataTyped
  BY BackupAssumption, ObjectTypes DEF Init, DataTyped
<1>2. ASSUME NEW h \in Host PROVE RunTyped(pc[h], job[h])
  BY DEF Init, RunTyped, NoJob, Job, Location, Owning, Publishing, Targeting, Deleting
<1>3. pc \in [Host -> Location] /\ job \in [Host -> Job]
  BY DEF Init, NoJob, Job, Location
<1> QED BY <1>1, <1>2, <1>3, TypeParts

LEMMA TypeStep == TypeOK /\ [Next]_vars => TypeOK'
<1> SUFFICES ASSUME TypeOK, [Next]_vars PROVE TypeOK'
  OBVIOUS
<1> USE DEF GoTo, remote, local, history
<1>0. DataTyped /\ pc \in [Host -> Location] /\ job \in [Host -> Job] /\ \A h \in Host : RunTyped(pc[h], job[h])
  BY TypeParts
<1>f. Ok \/ Fail => faults' \in 0..MaxFaults
  BY <1>0, BackupAssumption DEF DataTyped, Ok, Fail
<1>1. ASSUME NEW h \in Host, Reserve(h) PROVE TypeOK'
  <2>1. DataTyped' /\ NewBackup \in Backup
    BY <1>0, <1>1, <1>f, BackupAssumption DEF Reserve, NewBackup, DataTyped, Backup
  <2>2. RunTyped("dump", [job[h] EXCEPT !.own = NewBackup])
    <3>1. pc[h] = "idle" /\ job[h] \in Job
      BY <1>0, <1>1 DEF Reserve
    <3>2. /\ [job[h] EXCEPT !.own = NewBackup] \in Job
          /\ [job[h] EXCEPT !.own = NewBackup].own = NewBackup
          /\ [job[h] EXCEPT !.own = NewBackup].target = job[h].target
      BY <2>1, <3>1 DEF Job
    <3>3. "dump" \in Owning
      BY DEF Owning, Publishing
    <3> QED BY <1>0, <2>1, <3>1, <3>2, <3>3, Places DEF RunTyped
  <2> QED BY <1>1, <2>1, <2>2, Move DEF Reserve
<1>2. ASSUME NEW h \in Host, PublishLocal(h) PROVE TypeOK'
  <2>1. pc[h] = "dump" /\ job[h].own \in Backup /\ "dump" \in Owning /\ "index" \in Owning
    BY <1>0, <1>2 DEF PublishLocal, RunTyped, Owning, Publishing
  <2>2. DataTyped'
    BY <1>0, <1>2, <1>f, <2>1 DEF PublishLocal, DataTyped
  <2>3. RunTyped("idle", NoJob)
    BY DEF RunTyped, NoJob, Job, Location, Owning, Publishing, Targeting, Deleting
  <2> QED BY <1>2, <2>1, <2>2, <2>3, Move, Walk DEF PublishLocal
<1>3. ASSUME NEW h \in Host, Crash(h) PROVE TypeOK'
  <2>1. DataTyped'
    BY <1>0, <1>3, <1>f DEF Crash, DataTyped
  <2>2. RunTyped("idle", NoJob)
    BY DEF RunTyped, NoJob, Job, Location, Owning, Publishing, Targeting, Deleting
  <2> QED BY <1>3, <2>1, <2>2, Move DEF Crash, Finish
<1>4. ASSUME NEW h \in Host, NEW b \in Backup, Verify(h, b) PROVE TypeOK'
  <2>1. DataTyped'
    <3>1. /\ UNCHANGED <<reserved, age, late, dirs, retired, withdrawn>> /\ (Ok \/ Fail)
          /\ UNCHANGED <<index, status>> \/ SetStatus(h, b, "failed")
      BY <1>4 DEF Verify
    <3>2. CASE SetStatus(h, b, "failed")
      BY <1>0, <1>f, <3>1, <3>2 DEF SetStatus, DataTyped
    <3>3. CASE UNCHANGED <<index, status>>
      BY <1>0, <1>f, <3>1, <3>3 DEF DataTyped
    <3> QED BY <3>1, <3>2, <3>3
  <2>2. CASE UNCHANGED <<pc, job>>
    <3>1. pc' = [pc EXCEPT ![h] = pc[h]] /\ job' = [job EXCEPT ![h] = job[h]]
      BY <1>0, <2>2
    <3> QED BY <1>0, <2>1, <3>1, Move
  <2>3. CASE job' = [job EXCEPT ![h].own = b] /\ GoTo(h, "link")
    <3>1. pc[h] = "idle" /\ job[h] \in Job
      BY <1>0, <1>4 DEF Verify
    <3>2. /\ [job[h] EXCEPT !.own = b] \in Job /\ [job[h] EXCEPT !.own = b].own = b
          /\ [job[h] EXCEPT !.own = b].target = job[h].target
      BY <3>1 DEF Job
    <3>3. "link" \in Owning
      BY DEF Owning
    <3>4. RunTyped("link", [job[h] EXCEPT !.own = b])
      BY <1>0, <3>1, <3>2, <3>3, Places DEF RunTyped
    <3> QED BY <2>1, <2>3, <3>4, Move
  <2> QED BY <1>4, <2>2, <2>3 DEF Verify
<1>5. ASSUME NEW b \in Backup, ServeLate(b) PROVE TypeOK'
  <2>1. PICK n \in Gone..MaxAge : age' = [age EXCEPT ![b]["marker"] = n]
    BY <1>5, ObjectTypes DEF ServeLate
  <2>2. [age[b] EXCEPT !["marker"] = n] \in [Object -> Gone..MaxAge]
    BY <1>0 DEF DataTyped
  <2>3. DataTyped' /\ pc' = pc /\ job' = job
    BY <1>0, <1>5, <2>1, <2>2 DEF ServeLate, DataTyped
  <2> QED BY <2>3 DEF TypeOK, DataTyped
<1>6. CASE Tick
  <2>1. \A b \in Backup, o \in Object :
          (IF Has(b, o) /\ age[b][o] < MaxAge THEN age[b][o] + 1 ELSE age[b][o]) \in Gone..MaxAge
    BY <1>0, ObjectTypes DEF DataTyped, Has, Gone
  <2>2. DataTyped' /\ pc' = pc /\ job' = job
    BY <1>0, <1>6, <2>1 DEF Tick, DataTyped
  <2> QED BY <2>2 DEF TypeOK, DataTyped
<1>7. CASE UNCHANGED vars
  <2>1. DataTyped' /\ pc' = pc /\ job' = job
    BY <1>0, <1>7 DEF vars, DataTyped
  <2> QED BY <2>1 DEF TypeOK, DataTyped
<1> QED BY <1>1, <1>2, <1>3, <1>4, <1>5, <1>6, <1>7, WalkTyped, RetainTyped DEF Next, Publish, Retain

(* Every run keeps to its places and every request to the objects of a     *)
(* backup, in any number of hosts and backups (services/remote_backup.py). *)
THEOREM TypeCorrect == Spec => []TypeOK
BY TypeInit, TypeStep, PTL DEF Spec

-----------------------------------------------------------------------------
(* What is offered is complete.                                            *)

(* A step that writes artifacts at most.                                   *)
Grown ==
  /\ late' = late
  /\ \A b \in Backup :
       /\ Has(b, "marker")' <=> Has(b, "marker")
       /\ Has(b, "fence")' <=> Has(b, "fence")
       /\ \A o \in Artifact : Has(b, o) => Has(b, o)'

(* Where a run may go in a step that writes artifacts at most: nowhere; on *)
(* as a publisher; to deletions of what is marked, or is fenced.           *)
Stays(g) == pc'[g] = pc[g] /\ job'[g] = job[g]

GoesOn(g) ==
  /\ pc'[g] \notin Retaining \cup Cleaning
  /\ pc'[g] \in Writing => pc[g] \in Writing /\ job'[g].own = job[g].own
  /\ pc'[g] \in Publishing => pc[g] \in Publishing
  /\ pc'[g] = "put" => Artifact \subseteq Objects(job[g].own)

Retains(g) ==
  /\ pc'[g] \in Retaining
  /\ \A b \in Doomed(g)' \ {None} :
       Has(b, "marker") \/ (pc[g] \in Retaining /\ b \in Doomed(g))
  /\ pc'[g] = "delete" =>
       \/ Head(job'[g].todo) = "marker"
       \/ ~Advertised(job'[g].target)

Cleans(g) ==
  /\ pc'[g] \in Cleaning
  /\ \A b \in Doomed(g)' \ {None} : Has(b, "fence")

LEMMA DoomedTyped ==
  ASSUME TypeOK, NEW g \in Host
  PROVE  Doomed(g) \ {None} \subseteq Backup /\ (pc[g] = "delete" => job[g].target \in Backup)
BY DEF TypeOK, Doomed, Job, Deleting, None

LEMMA PlacesApart ==
  /\ Publishing \subseteq Writing /\ Publishing \subseteq Owning /\ Writing \subseteq Owning
  /\ Owning \cap (Retaining \cup Cleaning) = {} /\ Retaining \cap Cleaning = {}
  /\ "put" \in Publishing /\ "delete" \in Retaining
BY DEF Publishing, Writing, Owning, Retaining, Cleaning

(* Such a step keeps the invariant.                                        *)
LEMMA QuietStep ==
  ASSUME TypeOK, TypeOK', Shared, AdvertisedComplete, Grown, reserved' = reserved,
         \A g \in Host : Stays(g) \/ GoesOn(g) \/ Retains(g) \/ Cleans(g)
  PROVE  Shared' /\ AdvertisedComplete'
<1>1. \A b \in Backup : b # None /\ b \in Nat
  BY DEF Backup, None
<1>2. \A g \in Host : pc[g] \in Owning => job[g].own \in Backup
  BY DEF TypeOK
<1>3. \A b \in Backup : Untouched(b) => Untouched(b)'
  BY <1>1, PlacesApart DEF Untouched, LateComplete, Grown, Stays, GoesOn, Retains, Cleans, Doomed, Shared
<1>4. FreshUntouched'
  BY <1>3 DEF FreshUntouched, Shared
<1>5. PublishedUntouched'
  BY <1>2, <1>3, PlacesApart DEF PublishedUntouched, Stays, GoesOn, Retains, Cleans, Shared
<1>6. OneWriter'
  BY PlacesApart DEF OneWriter, Stays, GoesOn, Retains, Cleans, Shared
<1>7. \A b \in Backup : Artifact \subseteq Objects(b) => (Artifact \subseteq Objects(b))'
  BY ObjectTypes DEF Objects, Grown
<1>8. PayloadBeforeMarker'
  BY <1>2, <1>7, PlacesApart DEF PayloadBeforeMarker, Stays, GoesOn, Retains, Cleans, Shared
<1>9. LateComplete'
  <2> SUFFICES ASSUME NEW b \in late'
               PROVE  /\ ~Has(b, "marker")'
                      /\ Has(b, "fence")' \/ (Artifact \subseteq Objects(b))'
                      /\ \A g \in Host : pc'[g] \in Retaining => b \notin Doomed(g)'
    BY DEF LateComplete
  <2>1. b \in late /\ b \in Backup
    BY DEF Grown, TypeOK
  <2>2. ~Has(b, "marker") /\ (Has(b, "fence") \/ Artifact \subseteq Objects(b))
        /\ \A g \in Host : pc[g] \in Retaining => b \notin Doomed(g)
    BY <2>1 DEF LateComplete, Shared
  <2>3. ~Has(b, "marker")' /\ (Has(b, "fence")' \/ (Artifact \subseteq Objects(b))')
    BY <1>7, <2>1, <2>2 DEF Grown
  <2>4. \A g \in Host : pc'[g] \in Retaining => b \notin Doomed(g)'
    BY <1>1, <2>1, <2>2, PlacesApart DEF Stays, GoesOn, Retains, Cleans, Doomed
  <2> QED BY <2>3, <2>4
<1>d. \A g \in Host : Doomed(g)' \ {None} \subseteq Backup
                     /\ (pc'[g] = "delete" => job'[g].target \in Backup)
  <2> SUFFICES ASSUME NEW g \in Host
               PROVE  (Doomed(g) \ {None} \subseteq Backup /\ (pc[g] = "delete" => job[g].target \in Backup))'
    BY DEF None
  <2> QED BY DEF TypeOK, Doomed, Job, Deleting, None
<1>10. OrphansFenced'
  <2> SUFFICES ASSUME NEW g \in Host, pc'[g] \in Cleaning, NEW b \in Doomed(g)' \ {None}
               PROVE  Has(b, "fence")'
    BY DEF OrphansFenced, None
  <2>1. Has(b, "fence")
    BY PlacesApart DEF Stays, GoesOn, Retains, Cleans, OrphansFenced, Doomed, Shared
  <2> QED BY <1>d, <2>1 DEF Grown
<1>11. MarkerGone'
  <2> SUFFICES ASSUME NEW g \in Host, pc'[g] = "delete", Head(job'[g].todo) # "marker"
               PROVE  (~Advertised(job[g].target))'
    BY DEF MarkerGone
  <2>1. ~Advertised(job'[g].target)
    BY PlacesApart DEF Stays, GoesOn, Retains, Cleans, MarkerGone, Shared
  <2> QED BY <1>d, <2>1 DEF Grown, Advertised
<1>12. AdvertisedComplete'
  BY <1>7 DEF AdvertisedComplete, Advertised, Grown
<1> QED BY <1>4, <1>5, <1>6, <1>8, <1>9, <1>10, <1>11, <1>12 DEF Shared

(* What a PUT and a DELETE do to the objects.                              *)
LEMMA PutHas ==
  ASSUME TypeOK, NEW v \in Backup, NEW o \in Object, age' = [age EXCEPT ![v][o] = 0]
  PROVE  \A c \in Backup, p \in Object : Has(c, p)' <=> Has(c, p) \/ (c = v /\ p = o)
<1>1. \A c \in Backup, p \in Object : age'[c][p] = IF c = v /\ p = o THEN 0 ELSE age[c][p]
  BY DEF TypeOK
<1> QED BY <1>1 DEF Has, Gone

LEMMA DeleteHas ==
  ASSUME TypeOK, NEW v \in Backup, NEW o \in Object, Delete(v, o)
  PROVE  \A c \in Backup, p \in Object : Has(c, p)' <=> Has(c, p) /\ ~(c = v /\ p = o)
<1>1. \A c \in Backup, p \in Object : age'[c][p] = IF c = v /\ p = o THEN Gone ELSE age[c][p]
  BY DEF TypeOK, Delete
<1> QED BY <1>1 DEF Has, Gone

(* The PUT of a marker keeps the invariant: its payload is complete and no *)
(* deletion knows its backup.                                              *)
LEMMA MarkerWritten ==
  ASSUME TypeOK, TypeOK', Shared, AdvertisedComplete, reserved' = reserved,
         NEW h \in Host, PutMarker(h)
  PROVE  Shared' /\ AdvertisedComplete'
<1>0. job[h].own \in Backup
  BY DEF PutMarker, TypeOK, Owning, Publishing
<1>v. PICK v \in Backup : v = job[h].own
  BY <1>0
<1>1. v \in Backup /\ pc[h] = "put" /\ Artifact \subseteq Objects(v) /\ Untouched(v) /\ v <= reserved
  BY <1>v DEF PutMarker, TypeOK, Owning, Publishing, Shared, PayloadBeforeMarker, PublishedUntouched,
         OneWriter, Writing
<1>2. /\ job' = job /\ \A g \in Host : g # h => pc'[g] = pc[g]
      /\ pc'[h] \in {"verifyMarker", "withdraw"}
  BY DEF PutMarker, OnMarkerError, Request, GoTo, OwnKept, TypeOK
<1>3. /\ \A c \in Backup, o \in Object : (c # v \/ o # "marker") => (Has(c, o)' <=> Has(c, o))
      /\ late' \subseteq late \cup {v} /\ (v \in late' => ~Has(v, "marker")')
  <2>1. CASE late' \subseteq late \cup {v} /\ age' = age
    BY <1>1, <2>1 DEF Has, Untouched
  <2>2. CASE age' = [age EXCEPT ![v]["marker"] = 0] /\ late' = late
    <3>1. v \notin late'
      BY <1>1, <2>2 DEF Untouched
    <3> QED BY <1>1, <2>2, <3>1, PutHas, ObjectTypes
  <2> QED BY <1>v, <2>1, <2>2 DEF PutMarker, Request, Put, remote
<1>o. \A g \in Host : pc[g] \in Writing /\ job[g].own = v => g = h
  BY <1>1, <1>v DEF OneWriter, Shared, Writing, Publishing
<1>r. \A g \in Host : pc'[g] \in Retaining \cup Cleaning =>
        /\ pc'[g] = pc[g] /\ Doomed(g)' = Doomed(g) /\ v \notin Doomed(g)
  BY <1>1, <1>2 DEF Retaining, Cleaning, Doomed, Untouched
<1>4. \A c \in Backup \ {v} : Untouched(c) => Untouched(c)'
  BY <1>3, <1>r, ObjectTypes DEF Untouched
<1>5. FreshUntouched'
  BY <1>1, <1>4 DEF FreshUntouched, Shared, TypeOK, Backup
<1>6. PublishedUntouched'
  <2>1. \A g \in Host : pc'[g] \in Publishing => g # h /\ pc[g] \in Publishing /\ job[g].own \in Backup \ {v}
    BY <1>1, <1>2, <1>o DEF Publishing, Writing, Owning, TypeOK
  <2> QED BY <1>2, <1>4, <2>1 DEF PublishedUntouched, Shared
<1>7. OneWriter'
  BY <1>1, <1>2 DEF OneWriter, Shared, Writing, Publishing
<1>8. \A c \in Backup : Artifact \subseteq Objects(c) => (Artifact \subseteq Objects(c))'
  BY <1>3, ObjectTypes DEF Objects
<1>9. PayloadBeforeMarker'
  BY <1>2, <1>8 DEF PayloadBeforeMarker, Shared, TypeOK, Owning, Publishing
<1>10. LateComplete'
  <2> SUFFICES ASSUME NEW b \in late'
               PROVE  /\ ~Has(b, "marker")'
                      /\ Has(b, "fence")' \/ (Artifact \subseteq Objects(b))'
                      /\ \A g \in Host : pc'[g] \in Retaining => b \notin Doomed(g)'
    BY DEF LateComplete
  <2>1. CASE b = v
    BY <1>1, <1>3, <1>8, <1>r, <2>1
  <2>2. CASE b # v
    <3>1. b \in late /\ b \in Backup
      BY <1>3, <2>2 DEF TypeOK
    <3> QED BY <1>3, <1>8, <1>r, <2>2, <3>1, ObjectTypes DEF LateComplete, Shared
  <2> QED BY <2>1, <2>2
<1>11. OrphansFenced'
  BY <1>3, <1>r, DoomedTyped, ObjectTypes DEF OrphansFenced, Shared
<1>12. MarkerGone'
  BY <1>2, <1>3, <1>r, DoomedTyped, ObjectTypes
     DEF MarkerGone, Shared, Advertised, Retaining, Doomed
<1>13. AdvertisedComplete'
  BY <1>1, <1>3, <1>8, ObjectTypes DEF AdvertisedComplete, Advertised
<1> QED BY <1>5, <1>6, <1>7, <1>9, <1>10, <1>11, <1>12, <1>13 DEF Shared

(* S3 serves the PUT of a marker late.                                     *)
LEMMA LateServed ==
  ASSUME TypeOK, TypeOK', Shared, AdvertisedComplete, NEW v \in Backup, ServeLate(v)
  PROVE  Shared' /\ AdvertisedComplete'
<1>1. /\ v \in late /\ late' = late \ {v} /\ reserved' = reserved /\ job' = job /\ pc' = pc
      /\ ~Has(v, "marker") /\ (Has(v, "fence") \/ Artifact \subseteq Objects(v))
      /\ \A g \in Host : pc[g] \in Retaining => v \notin Doomed(g)
  BY DEF ServeLate, Shared, LateComplete
<1>2. \A c \in Backup, p \in Object : Has(c, p)' <=> Has(c, p) \/ (c = v /\ p = "marker")
  BY PutHas, ObjectTypes DEF ServeLate
<1>3. \A g \in Host : Doomed(g)' = Doomed(g)
  BY <1>1 DEF Doomed
<1>4. \A c \in Backup : Untouched(c) => Untouched(c)'
  BY <1>1, <1>2, <1>3, ObjectTypes DEF Untouched
<1>5. FreshUntouched' /\ PublishedUntouched' /\ OneWriter'
  BY <1>1, <1>4, PlacesApart DEF FreshUntouched, PublishedUntouched, OneWriter, Shared, TypeOK
<1>6. \A c \in Backup : Artifact \subseteq Objects(c) => (Artifact \subseteq Objects(c))'
  BY <1>2, ObjectTypes DEF Objects
<1>7. PayloadBeforeMarker'
  BY <1>1, <1>6, PlacesApart DEF PayloadBeforeMarker, Shared, TypeOK
<1>8. LateComplete'
  <2> SUFFICES ASSUME NEW b \in late'
               PROVE  /\ ~Has(b, "marker")'
                      /\ Has(b, "fence")' \/ (Artifact \subseteq Objects(b))'
                      /\ \A g \in Host : pc'[g] \in Retaining => b \notin Doomed(g)'
    BY DEF LateComplete
  <2>1. b \in late /\ b # v /\ b \in Backup
    BY <1>1 DEF TypeOK
  <2> QED BY <1>1, <1>2, <1>3, <1>6, <2>1, ObjectTypes DEF LateComplete, Shared
<1>9. OrphansFenced'
  BY <1>1, <1>2, <1>3, DoomedTyped, ObjectTypes DEF OrphansFenced, Shared
<1>10. MarkerGone'
  BY <1>1, <1>2, DoomedTyped, ObjectTypes, PlacesApart DEF MarkerGone, Shared, Advertised, Doomed
<1>11. AdvertisedComplete'
  BY <1>1, <1>2, <1>6, ObjectTypes DEF AdvertisedComplete, Advertised
<1> QED BY <1>5, <1>7, <1>8, <1>9, <1>10, <1>11 DEF Shared

(* A DELETE of a marker keeps it, and one of an artifact that is not       *)
(* offered, of a backup that no publisher and no late marker needs.        *)
LEMMA ObjectDeleted ==
  ASSUME TypeOK, TypeOK', Shared, AdvertisedComplete, reserved' = reserved,
         NEW h \in Host, NEW v \in Backup, NEW o \in Object \ {"fence"}, Delete(v, o),
         o \in Artifact => ~Advertised(v) /\ ~Untouched(v) /\ (v \in late => Has(v, "fence")),
         \A g \in Host \ {h} : Stays(g),
         \/ GoesOn(h) /\ pc'[h] # "put"
         \/ /\ pc'[h] \in Retaining /\ pc[h] \in Retaining /\ Doomed(h)' \ {None} \subseteq Doomed(h)
            /\ pc'[h] = "delete" => job'[h].target = v /\ (o = "marker" \/ ~Advertised(v))
         \/ Cleans(h)
  PROVE  Shared' /\ AdvertisedComplete'
<1>1. /\ late' = late
      /\ \A c \in Backup, p \in Object : Has(c, p)' <=> Has(c, p) /\ ~(c = v /\ p = o)
  BY DeleteHas DEF Delete
<1>2. \A c \in Backup : c # None
  BY DEF Backup, None
<1>3. \A c \in Backup : Untouched(c) => Untouched(c)'
  BY <1>1, <1>2, ObjectTypes DEF Untouched, Stays, GoesOn, Cleans, Doomed
<1>4. FreshUntouched'
  BY <1>3 DEF FreshUntouched, Shared
<1>5. PublishedUntouched'
  BY <1>3, PlacesApart DEF PublishedUntouched, Stays, GoesOn, Cleans, Shared, TypeOK
<1>6. OneWriter'
  BY PlacesApart DEF OneWriter, Stays, GoesOn, Cleans, Shared
<1>7. \A c \in Backup : Artifact \subseteq Objects(c) /\ (o \in Artifact => c # v)
                          => (Artifact \subseteq Objects(c))'
  BY <1>1, ObjectTypes DEF Objects
<1>8. PayloadBeforeMarker'
  <2> SUFFICES ASSUME NEW g \in Host, pc'[g] = "put" PROVE (Artifact \subseteq Objects(job[g].own))'
    BY DEF PayloadBeforeMarker
  <2>1. Stays(g) /\ pc[g] = "put"
    BY PlacesApart DEF Stays, Cleans
  <2>2. job'[g].own = job[g].own /\ job[g].own \in Backup /\ Untouched(job[g].own)
          /\ Artifact \subseteq Objects(job[g].own)
    BY <2>1, PlacesApart DEF Stays, TypeOK, PublishedUntouched, PayloadBeforeMarker, Shared
  <2>3. PICK c \in Backup : c = job[g].own
    BY <2>2
  <2> QED BY <1>7, <2>2, <2>3
<1>9. LateComplete'
  <2> SUFFICES ASSUME NEW b \in late'
               PROVE  /\ ~Has(b, "marker")'
                      /\ Has(b, "fence")' \/ (Artifact \subseteq Objects(b))'
                      /\ \A g \in Host : pc'[g] \in Retaining => b \notin Doomed(g)'
    BY DEF LateComplete
  <2>1. b \in late /\ b \in Backup
    BY <1>1 DEF TypeOK
  <2>2. ~Has(b, "marker")' /\ (Has(b, "fence")' \/ (Artifact \subseteq Objects(b))')
    BY <1>1, <1>7, <2>1, ObjectTypes DEF LateComplete, Shared
  <2>3. \A g \in Host : pc'[g] \in Retaining => b \notin Doomed(g)'
    BY <1>2, <2>1, PlacesApart DEF LateComplete, Shared, Stays, GoesOn, Cleans, Doomed
  <2> QED BY <2>2, <2>3
<1>10. OrphansFenced'
  <2> SUFFICES ASSUME NEW g \in Host, pc'[g] \in Cleaning, NEW b \in Doomed(g)' \ {None}
               PROVE  Has(b, "fence")'
    BY DEF OrphansFenced, None
  <2>1. Has(b, "fence")
    BY PlacesApart DEF Stays, GoesOn, Cleans, OrphansFenced, Doomed, Shared
  <2>2. b \in Backup
    BY DEF TypeOK, Doomed, Job, None
  <2> QED BY <1>1, <2>1, <2>2, ObjectTypes
<1>11. MarkerGone'
  <2> SUFFICES ASSUME NEW g \in Host, pc'[g] = "delete", Head(job'[g].todo) # "marker",
                      NEW b, b = job'[g].target
               PROVE  ~Advertised(b)'
    BY DEF MarkerGone
  <2>1. b \in Backup
    BY DEF TypeOK, Job, Deleting, None
  <2>2. CASE Stays(g)
    BY <1>1, <2>1, <2>2, ObjectTypes DEF Stays, MarkerGone, Shared, Advertised
  <2>3. CASE b = v /\ (o = "marker" \/ ~Advertised(v))
    BY <1>1, <2>1, <2>3, ObjectTypes DEF Advertised
  <2> QED BY <2>2, <2>3, PlacesApart DEF GoesOn, Cleans
<1>12. AdvertisedComplete'
  BY <1>1, <1>7, ObjectTypes DEF AdvertisedComplete, Advertised
<1> QED BY <1>4, <1>5, <1>6, <1>8, <1>9, <1>10, <1>11, <1>12 DEF Shared

(* The PUT of a fence keeps it, for a backup that no run is publishing.    *)
LEMMA FenceWritten ==
  ASSUME TypeOK, TypeOK', Shared, AdvertisedComplete, reserved' = reserved,
         NEW h \in Host, NEW v \in Backup, Put(v, "fence"), v <= reserved,
         \A g \in Host : pc[g] \in Publishing => job[g].own # v,
         \A g \in Host \ {h} : Stays(g),
         \/ pc'[h] = "failed"
         \/ pc'[h] = "retention" /\ pc[h] \in Retaining /\ Doomed(h)' \ {None} \subseteq Doomed(h)
  PROVE  Shared' /\ AdvertisedComplete'
<1>1. /\ late' = late
      /\ \A c \in Backup, p \in Object : Has(c, p)' <=> Has(c, p) \/ (c = v /\ p = "fence")
  BY PutHas, ObjectTypes DEF Put
<1>2. \A c \in Backup : c # None
  BY DEF Backup, None
<1>p. /\ {"failed", "retention"} \cap (Writing \cup Publishing \cup Cleaning \cup {"put", "delete"}) = {}
      /\ "failed" \notin Retaining
  BY DEF Writing, Publishing, Cleaning, Retaining
<1>3. \A c \in Backup \ {v} : Untouched(c) => Untouched(c)'
  BY <1>1, <1>2, <1>p, ObjectTypes DEF Untouched, Stays, Doomed
<1>4. FreshUntouched'
  BY <1>3 DEF FreshUntouched, Shared, Backup, TypeOK
<1>5. PublishedUntouched'
  <2> SUFFICES ASSUME NEW g \in Host, pc'[g] \in Publishing, NEW c, c = job'[g].own
               PROVE  Untouched(c)'
    BY DEF PublishedUntouched
  <2>1. Stays(g) /\ pc[g] \in Publishing /\ c = job[g].own
    BY <1>p DEF Stays
  <2>2. c \in Backup \ {v}
    BY <2>1, PlacesApart DEF TypeOK
  <2> QED BY <1>3, <2>1, <2>2 DEF PublishedUntouched, Shared
<1>6. OneWriter'
  BY <1>p, PlacesApart DEF OneWriter, Stays, Shared
<1>7. \A c \in Backup : Artifact \subseteq Objects(c) => (Artifact \subseteq Objects(c))'
  BY <1>1, ObjectTypes DEF Objects
<1>8. PayloadBeforeMarker'
  BY <1>7, <1>p, PlacesApart DEF PayloadBeforeMarker, Stays, Shared, TypeOK
<1>9. LateComplete'
  <2> SUFFICES ASSUME NEW b \in late'
               PROVE  /\ ~Has(b, "marker")'
                      /\ Has(b, "fence")' \/ (Artifact \subseteq Objects(b))'
                      /\ \A g \in Host : pc'[g] \in Retaining => b \notin Doomed(g)'
    BY DEF LateComplete
  <2>1. b \in late /\ b \in Backup
    BY <1>1 DEF TypeOK
  <2>2. ~Has(b, "marker")' /\ (Has(b, "fence")' \/ (Artifact \subseteq Objects(b))')
    BY <1>1, <1>7, <2>1, ObjectTypes DEF LateComplete, Shared
  <2>3. \A g \in Host : pc'[g] \in Retaining => b \notin Doomed(g)'
    BY <1>2, <1>p, <2>1 DEF LateComplete, Shared, Stays, Doomed
  <2> QED BY <2>2, <2>3
<1>10. OrphansFenced'
  <2> SUFFICES ASSUME NEW g \in Host, pc'[g] \in Cleaning, NEW b \in Doomed(g)' \ {None}
               PROVE  Has(b, "fence")'
    BY DEF OrphansFenced, None
  <2>1. Has(b, "fence")
    BY <1>p DEF Stays, OrphansFenced, Doomed, Shared
  <2>2. b \in Backup
    BY DEF TypeOK, Doomed, Job, None
  <2> QED BY <1>1, <2>1, <2>2, ObjectTypes
<1>11. MarkerGone'
  <2> SUFFICES ASSUME NEW g \in Host, pc'[g] = "delete", Head(job'[g].todo) # "marker",
                      NEW b, b = job'[g].target
               PROVE  ~Advertised(b)'
    BY DEF MarkerGone
  <2>1. b \in Backup
    BY DEF TypeOK, Job, Deleting, None
  <2>2. Stays(g)
    BY <1>p
  <2> QED BY <1>1, <2>1, <2>2, ObjectTypes DEF Stays, MarkerGone, Shared, Advertised
<1>12. AdvertisedComplete'
  BY <1>1, <1>7, ObjectTypes DEF AdvertisedComplete, Advertised
<1> QED BY <1>4, <1>5, <1>6, <1>8, <1>9, <1>10, <1>11, <1>12 DEF Shared

(* A reservation keeps it: nothing knows the new identifier.               *)
LEMMA Reserved ==
  ASSUME TypeOK, TypeOK', Shared, AdvertisedComplete, NEW h \in Host, Reserve(h)
  PROVE  Shared' /\ AdvertisedComplete'
<1>1. /\ reserved' = reserved + 1 /\ reserved + 1 \in Backup /\ age' = age /\ late' = late
      /\ pc[h] = "idle" /\ pc' = [pc EXCEPT ![h] = "dump"]
      /\ job' = [job EXCEPT ![h].own = reserved + 1]
  BY BackupAssumption DEF Reserve, NewBackup, TypeOK, Backup, GoTo, remote
<1>2. /\ \A g \in Host \ {h} : Stays(g)
      /\ pc'[h] = "dump" /\ job'[h].own = reserved + 1
      /\ \A c \in Backup, p \in Object : Has(c, p)' <=> Has(c, p)
  BY <1>1 DEF Stays, TypeOK, Job, Has
<1>p. "dump" \in Publishing /\ "dump" \in Writing /\ "dump" \notin Retaining \cup Cleaning
        /\ "dump" # "put" /\ "dump" # "delete"
  BY DEF Publishing, Writing, Retaining, Cleaning
<1>3. \A c \in Backup : Untouched(c) => Untouched(c)'
  BY <1>1, <1>2, <1>p, ObjectTypes DEF Untouched, Stays, Doomed
<1>4. Untouched(reserved + 1)
  BY <1>1 DEF FreshUntouched, Shared, TypeOK
<1>5. FreshUntouched'
  BY <1>1, <1>3 DEF FreshUntouched, Shared, TypeOK, Backup
<1>6. PublishedUntouched'
  <2> SUFFICES ASSUME NEW g \in Host, pc'[g] \in Publishing, NEW c, c = job'[g].own
               PROVE  Untouched(c)'
    BY DEF PublishedUntouched
  <2>1. c \in Backup /\ Untouched(c)
    BY <1>1, <1>2, <1>4, PlacesApart DEF Stays, TypeOK, PublishedUntouched, Shared
  <2> QED BY <1>3, <2>1
<1>7. OneWriter'
  BY <1>1, <1>2, PlacesApart DEF OneWriter, Stays, Shared, TypeOK, Backup
<1>8. \A c \in Backup : (Artifact \subseteq Objects(c)) => (Artifact \subseteq Objects(c))'
  BY <1>2, ObjectTypes DEF Objects
<1>9. PayloadBeforeMarker'
  BY <1>2, <1>8, <1>p, PlacesApart DEF PayloadBeforeMarker, Stays, Shared, TypeOK
<1>10. LateComplete'
  BY <1>1, <1>2, <1>8, <1>p, ObjectTypes DEF LateComplete, Stays, Doomed, Shared, TypeOK
<1>11. OrphansFenced'
  <2> SUFFICES ASSUME NEW g \in Host, pc'[g] \in Cleaning, NEW b \in Doomed(g)' \ {None}
               PROVE  Has(b, "fence")'
    BY DEF OrphansFenced, None
  <2>1. Has(b, "fence")
    BY <1>2, <1>p DEF Stays, OrphansFenced, Doomed, Shared
  <2>2. b \in Backup
    BY DEF TypeOK, Doomed, Job, None
  <2> QED BY <1>2, <2>1, <2>2, ObjectTypes
<1>12. MarkerGone'
  <2> SUFFICES ASSUME NEW g \in Host, pc'[g] = "delete", Head(job'[g].todo) # "marker",
                      NEW b, b = job'[g].target
               PROVE  ~Advertised(b)'
    BY DEF MarkerGone
  <2>1. b \in Backup
    BY DEF TypeOK, Job, Deleting, None
  <2>2. Stays(g)
    BY <1>2, <1>p
  <2> QED BY <1>2, <2>1, <2>2, ObjectTypes DEF Stays, MarkerGone, Shared, Advertised
<1>13. AdvertisedComplete'
  BY <1>2, <1>8, ObjectTypes DEF AdvertisedComplete, Advertised
<1> QED BY <1>5, <1>6, <1>7, <1>9, <1>10, <1>11, <1>12, <1>13 DEF Shared

(* The other steps of a publisher are quiet.                               *)
LEMMA PublisherQuiet ==
  ASSUME TypeOK, NEW h \in Host, Publish(h) \/ Link(h),
         ~Reserve(h), ~PutMarker(h), ~RemoveMarker(h), ~PutFence(h)
  PROVE  Grown /\ reserved' = reserved /\ \A g \in Host : Stays(g) \/ GoesOn(g)
<1> USE DEF GoTo, Ok, Fail, OwnKept, remote, local, history
<1>1. ASSUME UNCHANGED age, UNCHANGED late PROVE Grown
  BY <1>1 DEF Grown, Has
<1>2. ASSUME NEW v \in Backup, NEW o \in Artifact, Put(v, o) PROVE Grown
  <2>1. \A c \in Backup, p \in Object : Has(c, p)' <=> Has(c, p) \/ (c = v /\ p = o)
    BY <1>2, PutHas, ObjectTypes DEF Put
  <2> QED BY <1>2, <2>1, ObjectTypes DEF Put, Grown
<1>3. ASSUME job' = job, NEW l, pc' = [pc EXCEPT ![h] = l],
             l \notin Retaining \cup Cleaning, l \in Writing => pc[h] \in Writing,
             l \in Publishing => pc[h] \in Publishing,
             l = "put" => Artifact \subseteq Objects(job[h].own)
      PROVE  \A g \in Host : Stays(g) \/ GoesOn(g)
  BY <1>3 DEF Stays, GoesOn, TypeOK
<1>o. pc[h] \in Publishing => job[h].own \in Backup
  BY PlacesApart DEF TypeOK
<1> USE DEF Publishing, Writing, Retaining, Cleaning
<1>4. CASE PublishLocal(h)
  BY <1>1, <1>4 DEF PublishLocal, Stays, GoesOn, TypeOK
<1>5. CASE Index(h) \/ CheckPayload(h) \/ VerifyMarker(h) \/ PersistComplete(h) \/ Inspect(h)
             \/ PersistFailed(h) \/ Link(h)
  <2>1. /\ UNCHANGED age /\ UNCHANGED late /\ job' = job /\ reserved' = reserved
        /\ \E l \in {"uploadDump", "marker", "withdraw", "persist", "sync", "fence", "failed", "select"} :
             /\ pc' = [pc EXCEPT ![h] = l] /\ (l \in Writing => pc[h] \in Writing)
             /\ (l \in Publishing => pc[h] \in Publishing)
    BY <1>5 DEF Index, CheckPayload, VerifyMarker, PersistComplete, Inspect, PersistFailed, Link, Answer
  <2> QED BY <1>1, <1>3, <2>1
<1>6. CASE CheckFence(h)
  <2>1. /\ UNCHANGED age /\ UNCHANGED late /\ job' = job /\ reserved' = reserved /\ pc[h] = "marker"
        /\ \/ pc' = [pc EXCEPT ![h] = "put"] /\ Artifact \subseteq Objects(job[h].own)
           \/ pc' = [pc EXCEPT ![h] = "withdraw"]
    BY <1>6 DEF CheckFence, Answer
  <2> QED BY <1>1, <1>3, <2>1
<1>7. CASE UploadDump(h)
  <2>1. /\ UNCHANGED remote \/ Put(job[h].own, "db.dump")
        /\ job' = job /\ reserved' = reserved /\ pc[h] \in Publishing
        /\ \E l \in {"uploadFilestore", "withdraw"} : pc' = [pc EXCEPT ![h] = l]
    BY <1>7 DEF UploadDump, Request
  <2> QED BY <1>1, <1>2, <1>3, <1>o, <2>1, ObjectTypes
<1>8. CASE UploadFilestore(h)
  <2>1. /\ UNCHANGED remote \/ Put(job[h].own, "filestore.tar")
        /\ job' = job /\ reserved' = reserved /\ pc[h] \in Publishing
        /\ \E l \in {"check", "withdraw"} : pc' = [pc EXCEPT ![h] = l]
    BY <1>8 DEF UploadFilestore, Request
  <2> QED BY <1>1, <1>2, <1>3, <1>o, <2>1, ObjectTypes
<1> QED BY <1>4, <1>5, <1>6, <1>7, <1>8 DEF Publish

(* The quiet steps of retention: it chooses among what is offered, and the *)
(* orphan cleanup among what is fenced.                                    *)
LEMMA RetentionQuiet ==
  ASSUME TypeOK, TypeOK', Shared, NEW h \in Host,
         Retain(h) \/ Crash(h), ~Link(h), ~DeleteVictim(h), ~FenceVictim(h), ~DeleteOrphan(h)
  PROVE  Grown /\ reserved' = reserved
           /\ \A g \in Host : Stays(g) \/ GoesOn(g) \/ Retains(g) \/ Cleans(g)
<1> USE DEF GoTo, Ok, Fail, remote, local, history
<1>1. UNCHANGED <<age, late, reserved>> /\ \A g \in Host \ {h} : Stays(g)
  <2> USE DEF Stays, TypeOK
  <2>1. CASE SynchronizeIndex(h)
    BY <2>1 DEF SynchronizeIndex
  <2>2. CASE RemoveDirectory(h)
    BY <2>2 DEF RemoveDirectory
  <2>3. CASE LocallyPruned(h)
    BY <2>3 DEF LocallyPruned, Finish
  <2>4. CASE Select(h)
    BY <2>4 DEF Select
  <2>5. CASE Recheck(h)
    BY <2>5 DEF Recheck
  <2>6. CASE InspectVictim(h)
    BY <2>6 DEF InspectVictim, NoTarget
  <2>7. CASE Orphans(h)
    BY <2>7 DEF Orphans
  <2>8. CASE RecheckOrphan(h)
    BY <2>8 DEF RecheckOrphan
  <2>9. CASE EndRetention(h)
    BY <2>9 DEF EndRetention, Finish
  <2>10. CASE Crash(h)
    BY <2>10 DEF Crash, Finish
  <2> QED BY <2>1, <2>2, <2>3, <2>4, <2>5, <2>6, <2>7, <2>8, <2>9, <2>10 DEF Retain
<1>2. Grown
  BY <1>1 DEF Grown, Has
<1>3. /\ job[h] \in Job /\ pc[h] \in Location /\ job \in [Host -> Job] /\ pc \in [Host -> Location]
      /\ Doomed(h) \ {None} \subseteq Backup
      /\ job[h].target # None => pc[h] \in Deleting \cup {"inspectVictim", "fenceVictim"}
  BY DoomedTyped DEF TypeOK
<1> USE DEF Publishing, Writing, Retaining, Cleaning
<1>4. CASE SynchronizeIndex(h) \/ RemoveDirectory(h) \/ EndRetention(h) \/ Crash(h) \/ LocallyPruned(h)
  <2>1. pc'[h] \in {"removeDirs", "idle", "select"}
    BY <1>3, <1>4 DEF SynchronizeIndex, RemoveDirectory, EndRetention, Crash, LocallyPruned, Finish
  <2> QED BY <1>1, <1>2, <2>1 DEF GoesOn
<1>5. CASE Select(h)
  <2>1. /\ pc'[h] = "retention" /\ job'[h].target = None
        /\ \A b \in job'[h].victims : Has(b, "marker")
    BY <1>3, <1>5 DEF Select, Advertised, Job, Deleting
  <2> QED BY <1>1, <1>2, <2>1 DEF Retains, Doomed, None
<1>6. CASE Recheck(h)
  <2>1. PICK v \in job[h].victims :
          /\ job'[h].victims = job[h].victims \ {v} /\ job'[h].target = v
          /\ \/ pc'[h] = "delete" /\ job'[h].todo = DeleteOrder(v)
             \/ pc'[h] = "inspectVictim"
    BY <1>3, <1>6 DEF Recheck, Job
  <2>2. pc[h] = "retention" /\ Doomed(h)' \subseteq Doomed(h)
    BY <1>6, <2>1 DEF Recheck, Doomed
  <2> QED BY <1>1, <1>2, <2>1, <2>2, OrderTyped DEF Retains, None
<1>7. CASE InspectVictim(h)
  <2>1. /\ pc[h] = "inspectVictim" /\ pc'[h] \in {"fenceVictim", "retention"}
        /\ job'[h].victims = job[h].victims /\ job'[h].target \in {job[h].target, None}
    BY <1>3, <1>7 DEF InspectVictim, NoTarget, Job
  <2> QED BY <1>1, <1>2, <2>1 DEF Retains, Doomed, None
<1>8. CASE Orphans(h)
  <2>1. /\ pc'[h] = "cleanup" /\ job'[h].target = None
        /\ \A b \in job'[h].victims : Has(b, "fence")
    BY <1>3, <1>8 DEF Orphans, Stale, Job, Deleting
  <2> QED BY <1>1, <1>2, <2>1 DEF Cleans, Doomed, None
<1>9. CASE RecheckOrphan(h)
  <2>1. /\ pc[h] = "cleanup" /\ pc'[h] \in {"cleanup", "deleteOrphan"}
        /\ job'[h].victims \subseteq job[h].victims
        /\ job'[h].target \in job[h].victims \cup {job[h].target}
    BY <1>3, <1>9 DEF RecheckOrphan, Job
  <2> QED BY <1>1, <1>2, <2>1 DEF Cleans, Doomed, None, OrphansFenced, Shared
<1> QED BY <1>1, <1>2, <1>4, <1>5, <1>6, <1>7, <1>8, <1>9 DEF Retain

(* The deletions of retention keep the invariant.                          *)
LEMMA RetentionDeletes ==
  ASSUME TypeOK, TypeOK', Shared, AdvertisedComplete, NEW h \in Host,
         DeleteVictim(h) \/ DeleteOrphan(h)
  PROVE  Shared' /\ AdvertisedComplete'
<1> USE DEF GoTo, remote, local, history
<1>1. PICK v \in Backup, o \in Object \ {"fence"} :
        v = job[h].target /\ o = Head(job[h].todo) /\ job[h].todo # <<>>
  BY DEF TypeOK, Job, Deleting, None, DeleteVictim, DeleteOrphan
<1>2. /\ \A g \in Host \ {h} : Stays(g)
      /\ reserved' = reserved
      /\ Delete(v, o) \/ UNCHANGED remote
      /\ job'[h].victims = job[h].victims /\ job'[h].target \in {v, None}
  <2>1. /\ reserved' = reserved /\ (Delete(v, o) \/ UNCHANGED remote)
        /\ \E l : pc' = [pc EXCEPT ![h] = l]
        /\ \/ job' = [job EXCEPT ![h].target = None, ![h].todo = <<>>]
           \/ \E t : job' = [job EXCEPT ![h].todo = t]
    <3>1. CASE DeleteVictim(h)
      <4>1. pc = [pc EXCEPT ![h] = pc[h]]
        BY DEF TypeOK
      <4> QED BY <1>1, <3>1, <4>1 DEF DeleteVictim, DeleteNext, NoTarget
    <3>2. CASE DeleteOrphan(h)
      <4>1. pc = [pc EXCEPT ![h] = pc[h]]
        BY DEF TypeOK
      <4> QED BY <1>1, <3>2, <4>1 DEF DeleteOrphan, DeleteNext, NoTarget
    <3> QED BY <3>1, <3>2
  <2>2. job \in [Host -> Job] /\ pc \in [Host -> Location]
    BY DEF TypeOK
  <2> QED BY <1>1, <2>1, <2>2 DEF Stays, Job
<1>3. Doomed(h)' \ {None} \subseteq Doomed(h) /\ v \in Doomed(h)
  BY <1>1, <1>2 DEF Doomed, None
<1>4. UNCHANGED remote => Grown
  BY DEF Grown, Has
<1>5. CASE DeleteVictim(h)
  <2>1. pc[h] = "delete" /\ pc'[h] \in {"delete", "retention", "inspectVictim"}
    BY <1>5 DEF DeleteVictim, DeleteNext, TypeOK
  <2>2. pc'[h] \in Retaining /\ pc[h] \in Retaining
    BY <2>1 DEF Retaining
  <2>3. pc'[h] = "delete" => Delete(v, o) /\ job'[h].target = v
    BY <1>1, <1>5 DEF DeleteVictim, DeleteNext, NoTarget, TypeOK, Job
  <2>4. o = "marker" \/ ~Advertised(v)
    BY <1>1, <2>1 DEF MarkerGone, Shared
  <2>5. ~Untouched(v) /\ v \notin late
    BY <1>3, <2>2 DEF Untouched, LateComplete, Shared
  <2>6. CASE Delete(v, o)
    BY <1>2, <1>3, <2>2, <2>3, <2>4, <2>5, <2>6, ObjectTypes, ObjectDeleted
  <2>7. CASE UNCHANGED remote /\ ~Delete(v, o)
    <3>1. Retains(h)
      BY <1>3, <2>2, <2>3, <2>7 DEF Retains, None
    <3> QED BY <1>2, <1>4, <2>7, <3>1, QuietStep
  <2> QED BY <1>2, <2>6, <2>7
<1>6. CASE DeleteOrphan(h)
  <2>1. pc[h] = "deleteOrphan" /\ pc'[h] \in {"deleteOrphan", "cleanup"}
    BY <1>6 DEF DeleteOrphan, DeleteNext, TypeOK
  <2>2. v # None /\ \A b \in Doomed(h) \ {None} : Has(b, "fence")
    BY <2>1 DEF OrphansFenced, Shared, Cleaning, Backup, None
  <2>3. Cleans(h)
    BY <1>3, <2>1, <2>2 DEF Cleans, Cleaning, None
  <2>4. ~Untouched(v) /\ ~Advertised(v) /\ Has(v, "fence")
    BY <1>3, <2>2 DEF Untouched, Advertised
  <2>5. CASE Delete(v, o)
    BY <1>2, <2>3, <2>4, <2>5, ObjectDeleted
  <2>6. CASE UNCHANGED remote
    BY <1>2, <1>4, <2>3, <2>6, QuietStep
  <2> QED BY <1>2, <2>5, <2>6
<1> QED BY <1>5, <1>6

LEMMA SharedInit == Init => Shared /\ AdvertisedComplete
<1> SUFFICES ASSUME Init PROVE Shared /\ AdvertisedComplete
  OBVIOUS
<1>1. \A b \in Backup, o \in Object : ~Has(b, o)
  BY DEF Init, Has
<1>2. /\ \A g \in Host : pc[g] = "idle"
      /\ "idle" \notin Retaining \cup Cleaning \cup Publishing \cup Writing \cup {"put", "delete"}
  BY DEF Init, Retaining, Cleaning, Publishing, Writing
<1>3. \A b \in Backup : Untouched(b)
  BY <1>1, <1>2, ObjectTypes DEF Init, Untouched
<1> QED BY <1>1, <1>2, <1>3, ObjectTypes
       DEF Init, Shared, FreshUntouched, PublishedUntouched, OneWriter, PayloadBeforeMarker,
           LateComplete, OrphansFenced, MarkerGone, AdvertisedComplete, Advertised

LEMMA SharedStep ==
  ASSUME TypeOK, TypeOK', Shared, AdvertisedComplete, [Next]_vars
  PROVE  Shared' /\ AdvertisedComplete'
<1> USE DEF GoTo, remote, local, history
<1>1. ASSUME NEW h \in Host, Publish(h) \/ Link(h) PROVE Shared' /\ AdvertisedComplete'
  <2>1. CASE Reserve(h)
    BY <2>1, Reserved
  <2>2. CASE PutMarker(h)
    BY <2>2, MarkerWritten DEF PutMarker, OwnKept
  <2>3. CASE RemoveMarker(h)
    <3>1. /\ reserved' = reserved /\ job' = job /\ pc' = [pc EXCEPT ![h] = "inspect"]
          /\ Delete(job[h].own, "marker") \/ UNCHANGED remote
          /\ pc[h] = "withdraw" /\ job[h].own \in Backup
      BY <2>3 DEF RemoveMarker, Request, TypeOK, Owning
    <3>2. (\A g \in Host \ {h} : Stays(g)) /\ GoesOn(h) /\ pc'[h] # "put"
      BY <3>1 DEF Stays, GoesOn, TypeOK, Retaining, Cleaning, Writing, Publishing
    <3>3. CASE UNCHANGED remote
      <4>1. Grown
        BY <3>3 DEF Grown, Has
      <4> QED BY <3>1, <3>2, <4>1, QuietStep
    <3>4. CASE Delete(job[h].own, "marker")
      BY <3>1, <3>2, <3>4, ObjectTypes, ObjectDeleted
    <3> QED BY <3>1, <3>3, <3>4
  <2>4. CASE PutFence(h)
    <3>1. /\ reserved' = reserved /\ job' = job /\ pc' = [pc EXCEPT ![h] = "failed"]
          /\ Put(job[h].own, "fence") \/ UNCHANGED remote
          /\ pc[h] = "fence" /\ job[h].own \in Backup
      BY <2>4 DEF PutFence, Request, TypeOK, Owning, OwnKept
    <3>2. (\A g \in Host \ {h} : Stays(g)) /\ GoesOn(h) /\ pc'[h] = "failed"
      BY <3>1 DEF Stays, GoesOn, TypeOK, Retaining, Cleaning, Writing, Publishing
    <3>3. CASE UNCHANGED remote
      <4>1. Grown
        BY <3>3 DEF Grown, Has
      <4> QED BY <3>1, <3>2, <4>1, QuietStep
    <3>4. CASE Put(job[h].own, "fence")
      <4>1. job[h].own <= reserved /\ \A g \in Host : pc[g] \in Publishing => job[g].own # job[h].own
        BY <3>1 DEF OneWriter, Shared, Writing, Publishing
      <4> QED BY <3>1, <3>2, <3>4, <4>1, FenceWritten
    <3> QED BY <3>1, <3>3, <3>4
  <2>5. CASE ~Reserve(h) /\ ~PutMarker(h) /\ ~RemoveMarker(h) /\ ~PutFence(h)
    BY <1>1, <2>5, PublisherQuiet, QuietStep
  <2> QED BY <2>1, <2>2, <2>3, <2>4, <2>5
<1>2. ASSUME NEW h \in Host, Retain(h) \/ Crash(h), ~Link(h) PROVE Shared' /\ AdvertisedComplete'
  <2>1. CASE DeleteVictim(h) \/ DeleteOrphan(h)
    BY <2>1, RetentionDeletes
  <2>2. CASE FenceVictim(h)
    <3>1. /\ reserved' = reserved /\ pc' = [pc EXCEPT ![h] = "retention"] /\ NoTarget(h)
          /\ Put(job[h].target, "fence") \/ UNCHANGED remote
          /\ pc[h] = "fenceVictim" /\ job[h].target \in Backup
      BY <2>2 DEF FenceVictim, Request, TypeOK, Job, None
    <3>2. /\ \A g \in Host \ {h} : Stays(g)
          /\ pc'[h] = "retention" /\ pc[h] \in Retaining /\ Doomed(h)' \ {None} \subseteq Doomed(h)
      <4>1. job[h] \in Job /\ pc \in [Host -> Location] /\ job \in [Host -> Job]
        BY DEF TypeOK
      <4>2. job'[h].victims = job[h].victims /\ job'[h].target = None /\ \A g \in Host \ {h} : Stays(g)
        BY <3>1, <4>1 DEF NoTarget, Stays, Job
      <4> QED BY <3>1, <4>1, <4>2 DEF Retaining, Doomed, None
    <3>3. CASE UNCHANGED remote
      <4>1. Grown /\ Retains(h)
        BY <3>2, <3>3 DEF Grown, Has, Retains, Retaining, None
      <4> QED BY <3>1, <3>2, <4>1, QuietStep
    <3>4. CASE Put(job[h].target, "fence")
      <4>1. ~Untouched(job[h].target)
        BY <3>2 DEF Untouched, Doomed
      <4>2. job[h].target <= reserved /\ \A g \in Host : pc[g] \in Publishing => job[g].own # job[h].target
        BY <3>1, <4>1 DEF FreshUntouched, PublishedUntouched, Shared, TypeOK, Backup
      <4> QED BY <3>1, <3>2, <3>4, <4>2, FenceWritten
    <3> QED BY <3>1, <3>3, <3>4
  <2>3. CASE ~DeleteVictim(h) /\ ~FenceVictim(h) /\ ~DeleteOrphan(h)
    BY <1>2, <2>3, RetentionQuiet, QuietStep
  <2> QED BY <2>1, <2>2, <2>3
<1>3. ASSUME NEW h \in Host, NEW b \in Backup, Verify(h, b) PROVE Shared' /\ AdvertisedComplete'
  <2>1. /\ age' = age /\ late' = late /\ reserved' = reserved
        /\ \/ UNCHANGED <<pc, job>>
           \/ pc' = [pc EXCEPT ![h] = "link"] /\ job' = [job EXCEPT ![h].own = b]
    BY <1>3 DEF Verify
  <2>2. Grown /\ \A g \in Host : Stays(g) \/ GoesOn(g)
    BY <2>1 DEF Grown, Has, Stays, GoesOn, TypeOK, Retaining, Cleaning, Writing, Publishing
  <2> QED BY <2>1, <2>2, QuietStep
<1>4. ASSUME NEW b \in Backup, ServeLate(b) PROVE Shared' /\ AdvertisedComplete'
  BY <1>4, LateServed
<1>5. CASE Tick \/ UNCHANGED vars
  <2>1. late' = late /\ reserved' = reserved /\ \A g \in Host : Stays(g)
    BY <1>5 DEF Tick, vars, Stays
  <2>2. \A b \in Backup, o \in Object : Has(b, o)' <=> Has(b, o)
    <3>1. CASE Tick
      BY <3>1, ObjectTypes DEF Tick, Has, Gone, TypeOK
    <3>2. CASE UNCHANGED vars
      BY <3>2 DEF vars, Has
    <3> QED BY <1>5, <3>1, <3>2
  <2>3. Grown
    BY <2>1, <2>2, ObjectTypes DEF Grown
  <2> QED BY <2>1, <2>3, QuietStep
<1> QED BY <1>1, <1>2, <1>3, <1>4, <1>5 DEF Next, Retain

(* A backup that list, latest, verify and download offer has its payload,  *)
(* however many hosts publish, retire and clean up, whatever fails or is   *)
(* served late (publish_remote_backup, prune_remote_backups).              *)
THEOREM Completeness == Spec => []AdvertisedComplete
<1>1. Init => IInv
  BY TypeInit, SharedInit DEF IInv
<1>2. IInv /\ [Next]_vars => IInv'
  BY TypeStep, SharedStep DEF IInv
<1>3. IInv => AdvertisedComplete
  BY DEF IInv
<1> QED BY <1>1, <1>2, <1>3, PTL DEF Spec

-----------------------------------------------------------------------------
(* What retention takes, and what the records of a host say.               *)

(* The marker of what is fenced as an incomplete deletion is gone for good. *)
VictimGone == \A g \in Host : pc[g] = "fenceVictim" => ~Has(job[g].target, "marker")

(* Retention takes a backup for a newer one, which only its own retention  *)
(* or its publisher takes away again.                                      *)
Superseded(v) == \E b \in Backup : b > v /\ (Advertised(b) \/ b \in withdrawn)

RetiredInv ==
  /\ \A v \in retired : Superseded(v)
  /\ \A g \in Host : pc[g] \in Retaining => \A v \in Doomed(g) \ {None} : Superseded(v)
  /\ \A h \in Host : pc[h] \in {"inspect", "fence"} => job[h].own \in withdrawn

(* A run has the directory of what it publishes, until it has pruned; it   *)
(* is the only one that has it and still publishes it.                     *)
LocalRun == (Publishing \ {"dump"}) \cup
  {"verifyMarker", "persist", "withdraw", "inspect", "fence", "failed", "sync", "removeDirs"}

DirectoriesOf(h) ==
  /\ index[h] \subseteq dirs[h]
  /\ pc[h] \in LocalRun => job[h].own \in dirs[h]
  /\ pc[h] = "removeDirs" => job[h].own \notin job[h].victims /\ index[h] \cap job[h].victims = {}
  /\ \A b \in dirs[h] : b <= reserved

DirectoryInv ==
  /\ \A h \in Host : DirectoriesOf(h)
  /\ \A g, h \in Host : pc[g] \in Writing /\ job[g].own \in dirs[h] => g = h

(* What may be recorded as complete is offered, or was taken by retention. *)
Claimed(b) == Advertised(b) \/ b \in retired

StatusInv ==
  /\ StatusTrue
  /\ \A h \in Host : pc[h] \in Writing \ {"dump"} => status[job[h].own] # "complete"
  /\ \A h \in Host : pc[h] \in {"verifyMarker", "persist"} => Claimed(job[h].own)
  /\ \A h \in Host : pc[h] = "link" /\ job[h].own \in dirs[h] => Claimed(job[h].own)

RecordInv == IInv /\ VictimGone /\ RetiredInv /\ DirectoryInv /\ StatusInv

(* A backup is offered until its publisher withdraws it or retention takes it. *)
LEMMA MarkerMoves ==
  ASSUME TypeOK, TypeOK', Shared, VictimGone, Next, NEW b \in Backup, Advertised(b), ~Advertised(b)'
  PROVE  \/ \E h \in Host : job[h].own = b /\ (RemoveMarker(h) \/ PutFence(h))
         \/ \E h \in Host : job[h].target = b /\ DeleteVictim(h)
<1> USE DEF GoTo, remote, local, history
<1>0. {"marker", "fence"} \subseteq Object /\ "marker" # "fence"
  BY ObjectTypes
<1>1. ~Grown /\ ~UNCHANGED age
  BY DEF Grown, Advertised, Has
<1>2. ASSUME NEW v \in Backup, NEW o \in Object, Put(v, o)
      PROVE  v = b /\ o = "fence"
  <2>1. \A c \in Backup, p \in Object : Has(c, p)' <=> Has(c, p) \/ (c = v /\ p = o)
    BY <1>2, PutHas DEF Put
  <2> QED BY <1>0, <2>1 DEF Advertised
<1>3. ASSUME NEW v \in Backup, NEW o \in Object, Delete(v, o)
      PROVE  v = b /\ o = "marker"
  <2>1. \A c \in Backup, p \in Object : Has(c, p)' <=> Has(c, p) /\ ~(c = v /\ p = o)
    BY <1>3, DeleteHas
  <2> QED BY <1>0, <2>1 DEF Advertised
<1>4. ASSUME NEW h \in Host, Publish(h) \/ Link(h)
      PROVE  job[h].own = b /\ (RemoveMarker(h) \/ PutFence(h))
  <2>1. ~Reserve(h)
    BY <1>1 DEF Reserve
  <2>2. ~PutMarker(h)
    <3> SUFFICES ASSUME PutMarker(h) PROVE FALSE
      OBVIOUS
    <3>1. job[h].own \in Backup
      BY DEF PutMarker, TypeOK, Owning, Publishing
    <3> QED BY <1>0, <1>1, <1>2, <3>1 DEF PutMarker, Request
  <2>3. RemoveMarker(h) \/ PutFence(h)
    BY <1>1, <1>4, <2>1, <2>2, PublisherQuiet
  <2>4. job[h].own \in Backup
    BY <2>3 DEF RemoveMarker, PutFence, TypeOK, Owning
  <2> QED BY <1>0, <1>1, <1>2, <1>3, <2>3, <2>4 DEF RemoveMarker, PutFence, Request
<1>5. ASSUME NEW h \in Host, Retain(h) \/ Crash(h), ~Link(h)
      PROVE  job[h].target = b /\ DeleteVictim(h)
  <2>1. DeleteVictim(h) \/ FenceVictim(h) \/ DeleteOrphan(h)
    BY <1>1, <1>5, RetentionQuiet
  <2>2. job[h].target \in Backup
    BY <2>1 DEF DeleteVictim, FenceVictim, DeleteOrphan, TypeOK, Job, Deleting, None
  <2>3. ~FenceVictim(h)
    BY <1>0, <1>1, <1>2, <2>2 DEF FenceVictim, Request, VictimGone, Advertised
  <2>4. job[h].todo # <<>> /\ Head(job[h].todo) \in Object
    BY <2>1, <2>3 DEF DeleteVictim, DeleteOrphan, TypeOK, Job, Deleting
  <2>5. Delete(job[h].target, Head(job[h].todo))
    BY <1>1, <2>1, <2>3 DEF DeleteVictim, DeleteOrphan, DeleteNext
  <2>6. job[h].target = b
    BY <1>3, <2>2, <2>4, <2>5
  <2>7. ~DeleteOrphan(h)
    BY <2>6 DEF DeleteOrphan, OrphansFenced, Shared, Cleaning, Doomed, Advertised, None, Backup
  <2> QED BY <2>1, <2>3, <2>6, <2>7
<1>6. ~\E h \in Host, c \in Backup : Verify(h, c)
  BY <1>1 DEF Verify
<1>7. ~\E c \in Backup : ServeLate(c)
  <2> SUFFICES ASSUME NEW c \in Backup, ServeLate(c) PROVE FALSE
    OBVIOUS
  <2>1. \A d \in Backup, p \in Object : Has(d, p)' <=> Has(d, p) \/ (d = c /\ p = "marker")
    BY <1>0, PutHas DEF ServeLate
  <2> QED BY <1>0, <2>1 DEF Advertised
<1>8. ~Tick
  BY <1>0, ObjectTypes DEF Tick, Has, Gone, TypeOK, Advertised
<1> QED BY <1>4, <1>5, <1>6, <1>7, <1>8 DEF Next, Retain

(* A marker is new on a prefix that no retention is about to delete.       *)
LEMMA MarkersNew ==
  ASSUME TypeOK, TypeOK', Shared, Next, NEW b \in Backup, ~Has(b, "marker"), Has(b, "marker")'
  PROVE  \A g \in Host : pc[g] \in Retaining => b \notin Doomed(g)
<1> USE DEF GoTo, remote, local, history
<1>0. {"marker", "fence"} \subseteq Object /\ "marker" # "fence"
  BY ObjectTypes
<1>1. ~Grown /\ ~UNCHANGED age
  BY DEF Grown, Has
<1>2. ASSUME NEW v \in Backup, NEW o \in Object, age' = [age EXCEPT ![v][o] = 0]
      PROVE  v = b /\ o = "marker"
  BY <1>0, <1>2, PutHas
<1>3. ASSUME NEW v \in Backup, NEW o \in Object
      PROVE  ~Delete(v, o)
  BY <1>0, DeleteHas
<1>4. ASSUME NEW h \in Host, Publish(h) \/ Link(h)
      PROVE  PutMarker(h) /\ job[h].own = b
  <2>1. ~Reserve(h)
    BY <1>1 DEF Reserve
  <2>2. pc[h] \in Owning => job[h].own \in Backup
    BY DEF TypeOK
  <2>3. ~RemoveMarker(h)
    BY <1>0, <1>1, <1>3, <2>2 DEF RemoveMarker, Request, Owning
  <2>4. ~PutFence(h)
    BY <1>0, <1>1, <1>2, <2>2 DEF PutFence, Request, Put, Owning
  <2>5. PutMarker(h)
    BY <1>1, <1>4, <2>1, <2>3, <2>4, PublisherQuiet
  <2> QED BY <1>0, <1>1, <1>2, <2>2, <2>5 DEF PutMarker, Request, Put, Owning, Publishing
<1>5. ASSUME NEW h \in Host, Retain(h) \/ Crash(h), ~Link(h)
      PROVE  FALSE
  <2>1. DeleteVictim(h) \/ FenceVictim(h) \/ DeleteOrphan(h)
    BY <1>1, <1>5, RetentionQuiet
  <2>2. job[h].target \in Backup
    BY <2>1 DEF DeleteVictim, FenceVictim, DeleteOrphan, TypeOK, Job, Deleting, None
  <2>3. ~FenceVictim(h)
    BY <1>0, <1>1, <1>2, <2>2 DEF FenceVictim, Request, Put
  <2>4. job[h].todo # <<>> /\ Head(job[h].todo) \in Object
    BY <2>1, <2>3 DEF DeleteVictim, DeleteOrphan, TypeOK, Job, Deleting
  <2> QED BY <1>1, <1>3, <2>1, <2>2, <2>3, <2>4 DEF DeleteVictim, DeleteOrphan, DeleteNext
<1>6. ~\E h \in Host, c \in Backup : Verify(h, c)
  BY <1>1 DEF Verify
<1>7. ASSUME NEW c \in Backup, ServeLate(c)
      PROVE  c = b /\ b \in late
  BY <1>0, <1>2, <1>7 DEF ServeLate
<1>8. ~Tick
  BY <1>0, ObjectTypes DEF Tick, Has, Gone, TypeOK
<1>9. (\E h \in Host : PutMarker(h) /\ job[h].own = b) \/ b \in late
  BY <1>4, <1>5, <1>6, <1>7, <1>8 DEF Next, Retain
<1> QED BY <1>9 DEF PutMarker, Shared, PublishedUntouched, Untouched, LateComplete, Publishing

(* A step of one host leaves the others where they are.                    *)
Apart(g) == Stays(g) /\ dirs'[g] = dirs[g] /\ index'[g] = index[g]

Steps(h) == Publish(h) \/ Retain(h) \/ Crash(h) \/ \E b \in Backup : Verify(h, b)

LEMMA Others ==
  ASSUME TypeOK, NEW h \in Host, Steps(h), NEW g \in Host, g # h
  PROVE  Apart(g)
<1> USE DEF Apart, Stays, GoTo, remote, local, history
<1>0. /\ pc \in [Host -> Location] /\ job \in [Host -> Job]
      /\ dirs \in [Host -> SUBSET Backup] /\ index \in [Host -> SUBSET Backup]
  BY DEF TypeOK
<1>1. CASE Publish(h)
  <2>1. UploadDump(h) \/ UploadFilestore(h) \/ CheckPayload(h) \/ CheckFence(h) \/ PutMarker(h) \/ VerifyMarker(h) => Apart(g)
    BY <1>0 DEF OwnKept, UploadDump, UploadFilestore, CheckPayload, CheckFence, PutMarker, VerifyMarker, Request, Answer
  <2>2. RemoveMarker(h) \/ Inspect(h) \/ PutFence(h) => Apart(g)
    BY <1>0 DEF OwnKept, RemoveMarker, Inspect, PutFence, Request, Answer
  <2>3. Reserve(h) \/ PublishLocal(h) \/ Index(h) \/ PersistComplete(h) \/ PersistFailed(h) => Apart(g)
    BY <1>0 DEF OwnKept, Reserve, PublishLocal, Index, PersistComplete, PersistFailed, SetStatus
  <2> QED BY <1>1, <2>1, <2>2, <2>3 DEF Publish
<1>2. CASE Retain(h)
  <2>1. SynchronizeIndex(h) \/ RemoveDirectory(h) \/ LocallyPruned(h) \/ Link(h) \/ Select(h) => Apart(g)
    BY <1>0 DEF OwnKept, SynchronizeIndex, RemoveDirectory, LocallyPruned, Link, Select, SetStatus, Finish
  <2>2. Recheck(h) \/ InspectVictim(h) \/ Orphans(h) \/ RecheckOrphan(h) \/ EndRetention(h) => Apart(g)
    BY <1>0 DEF Recheck, InspectVictim, Orphans, RecheckOrphan, EndRetention, NoTarget, Finish
  <2>3. DeleteVictim(h) \/ FenceVictim(h) \/ DeleteOrphan(h) => Apart(g)
    BY <1>0 DEF DeleteVictim, FenceVictim, DeleteOrphan, DeleteNext, Request, NoTarget
  <2> QED BY <1>2, <2>1, <2>2, <2>3 DEF Retain
<1>3. CASE Crash(h)
  BY <1>0, <1>3 DEF Crash, Finish
<1>4. ASSUME NEW b \in Backup, Verify(h, b)
      PROVE  Apart(g)
  BY <1>0, <1>4 DEF Verify, SetStatus
<1> QED BY <1>1, <1>2, <1>3, <1>4 DEF Steps

LEMMA Alone ==
  ASSUME TypeOK, Next, NEW g \in Host
  PROVE  Steps(g) \/ Apart(g)
<1>1. ASSUME NEW b \in Backup, ServeLate(b)
      PROVE  Apart(g)
  BY <1>1 DEF ServeLate, local, Apart, Stays
<1>2. CASE Tick
  BY <1>2 DEF Tick, local, Apart, Stays
<1>3. ASSUME NEW h \in Host, Steps(h)
      PROVE  Steps(g) \/ Apart(g)
  BY <1>3, Others
<1> QED BY <1>1, <1>2, <1>3 DEF Next, Steps

(* What the history records.                                               *)
LEMMA HistoryMoves ==
  ASSUME Next
  PROVE  /\ retired \subseteq retired' /\ withdrawn \subseteq withdrawn'
         /\ \A v \in retired' \ retired : \E h \in Host : DeleteVictim(h) /\ v = job[h].target
<1> USE DEF OwnKept, history
<1>1. ASSUME UNCHANGED history
      PROVE  /\ retired \subseteq retired' /\ withdrawn \subseteq withdrawn'
             /\ \A v \in retired' \ retired : \E h \in Host : DeleteVictim(h) /\ v = job[h].target
  BY <1>1
<1>2. ASSUME NEW h \in Host, Publish(h), ~RemoveMarker(h)
      PROVE  UNCHANGED history
  BY <1>2 DEF Publish, Reserve, PublishLocal, Index, UploadDump, UploadFilestore, CheckPayload, CheckFence, PutMarker,
    VerifyMarker, PersistComplete, Inspect, PutFence, PersistFailed
<1>3. ASSUME NEW h \in Host, Retain(h) \/ Crash(h) \/ (\E b \in Backup : Verify(h, b)), ~DeleteVictim(h)
      PROVE  UNCHANGED history
  BY <1>3 DEF Retain, SynchronizeIndex, RemoveDirectory, LocallyPruned, Link, Select, Recheck, InspectVictim, FenceVictim,
    Orphans, RecheckOrphan, DeleteOrphan, EndRetention, Crash, Verify
<1>4. ASSUME NEW h \in Host, RemoveMarker(h)
      PROVE  retired' = retired /\ withdrawn \subseteq withdrawn'
  BY <1>4 DEF RemoveMarker
<1>5. ASSUME NEW h \in Host, DeleteVictim(h)
      PROVE  retired' = retired \cup {job[h].target} /\ withdrawn' = withdrawn
  BY <1>5 DEF DeleteVictim
<1>6. (\E b \in Backup : ServeLate(b)) \/ Tick => UNCHANGED history
  BY DEF ServeLate, Tick
<1> QED BY <1>1, <1>2, <1>3, <1>4, <1>5, <1>6 DEF Next

-----------------------------------------------------------------------------
(* Retention took a backup for a newer one.                                *)
LEMMA SupersededKept ==
  ASSUME TypeOK, TypeOK', Shared, VictimGone, RetiredInv, Next, NEW v \in Backup, Superseded(v)
  PROVE  Superseded(v)'
<1>1. PICK b \in Backup : b > v /\ (Advertised(b) \/ b \in withdrawn)
  BY DEF Superseded
<1>2. withdrawn \subseteq withdrawn'
  BY HistoryMoves
<1>3. CASE b \in withdrawn \/ Advertised(b)'
  BY <1>1, <1>2, <1>3 DEF Superseded
<1>4. CASE Advertised(b) /\ ~Advertised(b)'
  <2>1. ASSUME NEW h \in Host, job[h].own = b, RemoveMarker(h)
        PROVE  b \in withdrawn'
    BY <2>1 DEF RemoveMarker
  <2>2. ASSUME NEW h \in Host, job[h].own = b, PutFence(h)
        PROVE  b \in withdrawn'
    BY <1>2, <2>2 DEF PutFence, RetiredInv
  <2>3. ASSUME NEW h \in Host, job[h].target = b, DeleteVictim(h)
        PROVE  Superseded(v)'
    <3>1. b \in Doomed(h) \ {None} /\ pc[h] \in Retaining
      BY <1>1, <2>3 DEF DeleteVictim, Doomed, Retaining, Backup, None
    <3>2. PICK c \in Backup : c > b /\ (Advertised(c) \/ c \in withdrawn)
      BY <3>1 DEF RetiredInv, Superseded
    <3>3. c > v /\ c # b
      BY <1>1, <3>2 DEF Backup
    <3>4. CASE c \in withdrawn
      BY <1>2, <3>3, <3>4 DEF Superseded
    <3>5. CASE Advertised(c)
      <4>1. job[h].todo # <<>> /\ Head(job[h].todo) \in Object
        BY <2>3 DEF DeleteVictim, TypeOK, Job, Deleting
      <4>2. Delete(b, Head(job[h].todo)) \/ UNCHANGED age
        BY <2>3 DEF DeleteVictim, DeleteNext, remote
      <4>3. \A p \in Object : Has(c, p)' <=> Has(c, p)
        BY <3>3, <4>1, <4>2, DeleteHas DEF Has
      <4>4. Advertised(c)'
        BY <3>5, <4>3, ObjectTypes DEF Advertised
      <4> QED BY <3>3, <4>4 DEF Superseded
    <3> QED BY <3>2, <3>4, <3>5
  <2> QED BY <1>1, <1>4, <2>1, <2>2, <2>3, MarkerMoves DEF Superseded
<1> QED BY <1>1, <1>3, <1>4

(* A run fences only a prefix it saw without a marker, and none comes.     *)
LEMMA VictimGoneKept ==
  ASSUME TypeOK, TypeOK', Shared, VictimGone, Next
  PROVE  VictimGone'
<1> SUFFICES ASSUME NEW g \in Host, pc'[g] = "fenceVictim"
             PROVE  (~Has(job[g].target, "marker"))'
  BY DEF VictimGone
<1>1. job'[g].target \in Backup
  BY DEF TypeOK, Job, None
<1>2. CASE Stays(g)
  <2>1. ~Has(job[g].target, "marker") /\ job'[g].target = job[g].target /\ job[g].target \in Doomed(g) /\ pc[g] \in Retaining
    BY <1>2 DEF Stays, VictimGone, Doomed, Retaining
  <2> QED BY <1>1, <2>1, MarkersNew
<1>3. CASE Steps(g) /\ ~Stays(g)
  <2> USE DEF GoTo, remote, local, history, Deleting
  <2>1. pc \in [Host -> Location] /\ job \in [Host -> Job]
    BY DEF TypeOK
  <2>2. ASSUME Publish(g) \/ (\E b \in Backup : Verify(g, b)) \/ Crash(g)
        PROVE  FALSE
    <3>1. ~Publish(g)
      BY <2>1 DEF Publish, OwnKept, Reserve, PublishLocal, Index, UploadDump, UploadFilestore, CheckPayload, CheckFence, PutMarker,
        OnMarkerError, VerifyMarker, PersistComplete, RemoveMarker, Inspect, PutFence, PersistFailed, Request, Answer
    <3> QED BY <1>3, <2>1, <2>2, <3>1 DEF Verify, Crash, Finish, Stays
  <2>3. InspectVictim(g)
    BY <1>3, <2>1, <2>2 DEF Steps, Retain, SynchronizeIndex, RemoveDirectory, LocallyPruned, Link, Select, Recheck, DeleteVictim,
      DeleteNext, FenceVictim, Request, Orphans, RecheckOrphan, DeleteOrphan, EndRetention, Finish
  <2>4. ~Has(job[g].target, "marker") /\ UNCHANGED <<age, job>>
    BY <2>1, <2>3 DEF InspectVictim, Incomplete
  <2> QED BY <2>4 DEF Has
<1> QED BY <1>2, <1>3, Alone DEF Apart

(* What a run in its retention is about to delete, it had selected.        *)
LEMMA RetainingMoves ==
  ASSUME TypeOK, NEW g \in Host, Steps(g), pc'[g] \in Retaining, ~Select(g)
  PROVE  pc[g] \in Retaining /\ Doomed(g)' \ {None} \subseteq Doomed(g)
<1> USE DEF GoTo, remote, local, history, Deleting
<1>0. /\ pc \in [Host -> Location] /\ job \in [Host -> Job] /\ job[g] \in Job
      /\ (job[g].target # None) <=> (pc[g] \in Deleting \cup {"inspectVictim", "fenceVictim"})
  BY DEF TypeOK
<1>1. ~Publish(g)
  BY <1>0 DEF Retaining, Publish, OwnKept, Reserve, PublishLocal, Index, UploadDump, UploadFilestore, CheckPayload, CheckFence,
    PutMarker, OnMarkerError, VerifyMarker, PersistComplete, RemoveMarker, Inspect, PutFence, PersistFailed, Request, Answer
<1>2. ~Crash(g) /\ ~Link(g) /\ ~SynchronizeIndex(g) /\ ~RemoveDirectory(g) /\ ~LocallyPruned(g)
  BY <1>0 DEF Retaining, Crash, Link, SynchronizeIndex, RemoveDirectory, LocallyPruned, Finish
<1>3. ~Orphans(g) /\ ~RecheckOrphan(g) /\ ~EndRetention(g)
  BY <1>0 DEF Retaining, Orphans, RecheckOrphan, EndRetention, Finish
<1>4. ~DeleteOrphan(g) /\ ~\E b \in Backup : Verify(g, b)
  BY <1>0 DEF Retaining, DeleteOrphan, DeleteNext, Verify
<1>5. CASE Recheck(g)
  <2>1. PICK v \in job[g].victims : job'[g].victims = job[g].victims \ {v} /\ job'[g].target = v
    BY <1>0, <1>5 DEF Recheck, Job
  <2> QED BY <1>5, <2>1 DEF Recheck, Retaining, Doomed
<1>6. CASE InspectVictim(g) \/ FenceVictim(g) \/ DeleteVictim(g)
  <2>1. pc[g] \in Retaining
    BY <1>6 DEF InspectVictim, FenceVictim, DeleteVictim, Retaining
  <2>2. \/ job' = job \/ NoTarget(g)
        \/ \E t : job' = [job EXCEPT ![g].todo = t]
    BY <1>6 DEF InspectVictim, FenceVictim, DeleteVictim, DeleteNext, Request
  <2>3. job'[g].victims = job[g].victims /\ job'[g].target \in {job[g].target, None}
    BY <1>0, <2>2 DEF NoTarget, Job
  <2> QED BY <2>1, <2>3 DEF Doomed
<1> QED BY <1>1, <1>2, <1>3, <1>4, <1>5, <1>6 DEF Steps, Retain

(* The newest of what was loaded is kept, whatever the tiers say.          *)
LEMMA Selected ==
  ASSUME TypeOK, NEW g \in Host, Select(g)
  PROVE  \A v \in Doomed(g)' \ {None} : v \in Backup /\ Superseded(v)
<1>1. PICK loaded \in SUBSET {b \in Backup : Advertised(b)} :
        LET kept == Retained(loaded) \cup Protected(g) \cup {b \in loaded : age[b]["marker"] <= Grace} IN
        job' = [job EXCEPT ![g].victims = loaded \ kept, ![g].old = {b \in Backup : Stale(b)}]
  BY DEF Select
<1>2. job[g].target = None /\ job \in [Host -> Job] /\ job[g] \in Job
  BY DEF Select, TypeOK, Deleting
<1>3. job'[g].victims \subseteq loaded \ Newest(loaded) /\ job'[g].target = None
  BY <1>1, <1>2 DEF Retained, Job
<1>4. ASSUME NEW v \in loaded \ Newest(loaded)
      PROVE  v \in Backup /\ Superseded(v)
  <2>1. PICK c \in loaded : ~(c <= v)
    BY <1>4 DEF Newest
  <2>2. v \in Nat /\ c \in Nat /\ v \in Backup /\ c \in Backup /\ Advertised(c)
    BY <1>1, <2>1 DEF Backup
  <2>3. c > v
    BY <2>1, <2>2
  <2> QED BY <2>2, <2>3 DEF Superseded
<1> QED BY <1>3, <1>4 DEF Doomed

(* What is retired or selected stays superseded.                           *)
LEMMA RetiredKept ==
  ASSUME TypeOK, TypeOK', Shared, VictimGone, RetiredInv, Next
  PROVE  RetiredInv'
<1>1. ASSUME NEW v \in retired'
      PROVE  Superseded(v)'
  <2>1. CASE v \in retired
    BY <2>1, SupersededKept DEF RetiredInv, TypeOK
  <2>2. CASE v \notin retired
    <3>1. PICK h \in Host : DeleteVictim(h) /\ v = job[h].target
      BY <2>2, HistoryMoves
    <3>2. v \in Backup /\ v # None /\ v \in Doomed(h) /\ pc[h] \in Retaining
      BY <3>1 DEF DeleteVictim, Doomed, Retaining, TypeOK, Job, Deleting, Backup, None
    <3> QED BY <3>2, SupersededKept DEF RetiredInv
  <2> QED BY <2>1, <2>2
<1>2. ASSUME NEW g \in Host, pc'[g] \in Retaining, NEW v \in Doomed(g)' \ {None}
      PROVE  Superseded(v)'
  <2>1. v \in Backup /\ Superseded(v)
    <3>1. CASE Stays(g)
      BY <1>2, <3>1, DoomedTyped DEF Stays, Doomed, RetiredInv
    <3>2. CASE Select(g)
      BY <3>2, Selected
    <3>3. CASE Steps(g) /\ ~Select(g)
      BY <1>2, <3>3, RetainingMoves, DoomedTyped DEF RetiredInv
    <3> QED BY <3>1, <3>2, <3>3, Alone DEF Apart
  <2> QED BY <2>1, SupersededKept
<1>3. ASSUME NEW h \in Host, pc'[h] \in {"inspect", "fence"}
      PROVE  job'[h].own \in withdrawn'
  <2> USE DEF GoTo
  <2>0. /\ withdrawn \subseteq withdrawn' /\ pc \in [Host -> Location] /\ job \in [Host -> Job]
        /\ pc[h] \in {"inspect", "fence"} => job[h].own \in withdrawn
    BY HistoryMoves DEF TypeOK, RetiredInv
  <2>1. CASE Stays(h)
    BY <1>3, <2>0, <2>1 DEF Stays
  <2>2. CASE RemoveMarker(h)
    BY <2>2 DEF RemoveMarker
  <2>3. CASE Publish(h) /\ ~RemoveMarker(h)
    <3>1. pc[h] = "inspect" /\ job' = job
      BY <1>3, <2>0, <2>3 DEF Publish, OwnKept, Reserve, PublishLocal, Index, UploadDump, UploadFilestore, CheckPayload, CheckFence,
        PutMarker, OnMarkerError, VerifyMarker, PersistComplete, Inspect, PutFence, PersistFailed, Request, Answer
    <3> QED BY <2>0, <3>1
  <2>4. CASE Steps(h) /\ ~Publish(h) /\ ~Stays(h)
    <3>1. ~Retain(h)
      BY <1>3, <2>0 DEF Retain, SynchronizeIndex, RemoveDirectory, LocallyPruned, Link, Select, Recheck, InspectVictim, DeleteVictim,
        DeleteNext, FenceVictim, Request, Orphans, RecheckOrphan, DeleteOrphan, EndRetention, Finish
    <3> QED BY <1>3, <2>0, <2>4, <3>1 DEF Steps, Crash, Finish, Verify, Stays
  <2> QED BY <2>1, <2>2, <2>3, <2>4, Alone DEF Apart
<1> QED BY <1>1, <1>2, <1>3 DEF RetiredInv

-----------------------------------------------------------------------------
(* The directories and the index of a host.                                *)

(* The steps of a run that leave its records alone: it publishes on, or it *)
(* is done with its directory.                                             *)
Onward(g) ==
  /\ UNCHANGED <<reserved, dirs, index, status>>
  /\ \/ Stays(g)
     \/ pc'[g] \notin LocalRun \cup {"dump", "link"}
     \/ /\ pc[g] \in Writing \ {"dump"} /\ pc'[g] \in LocalRun \ {"sync", "removeDirs"}
        /\ job'[g] = job[g]
        /\ pc'[g] = "persist" => pc[g] = "verifyMarker"
        /\ pc'[g] = "verifyMarker" => Put(job[g].own, "marker") /\ pc[g] \in Publishing

Recording(g) ==
  \/ Reserve(g) \/ PublishLocal(g) \/ Index(g) \/ PersistComplete(g) \/ PersistFailed(g)
  \/ SynchronizeIndex(g) \/ RemoveDirectory(g) \/ Link(g) \/ \E b \in Backup : Verify(g, b)

(* Every other step of a run leaves its records alone.                     *)
LEMMA Moves ==
  ASSUME TypeOK, NEW g \in Host, Steps(g), ~Recording(g)
  PROVE  Onward(g)
<1> USE DEF GoTo, OwnKept, local, Onward, LocalRun, Publishing, Writing
<1>0. pc \in [Host -> Location] /\ job \in [Host -> Job]
  BY DEF TypeOK
<1>1. CASE UploadDump(g) \/ UploadFilestore(g) \/ PutMarker(g) \/ RemoveMarker(g) \/ PutFence(g)
  <2>1. CASE PutMarker(g)
    BY <1>0, <2>1 DEF PutMarker, OnMarkerError, Request
  <2> QED BY <1>0, <1>1, <2>1 DEF UploadDump, UploadFilestore, RemoveMarker, PutFence, Request
<1>2. CASE CheckPayload(g) \/ CheckFence(g) \/ VerifyMarker(g) \/ Inspect(g)
  BY <1>0, <1>2 DEF CheckPayload, CheckFence, VerifyMarker, Inspect, Answer
<1>3. CASE LocallyPruned(g) \/ Select(g) \/ EndRetention(g) \/ Crash(g)
  BY <1>0, <1>3 DEF LocallyPruned, Select, EndRetention, Crash, Finish
<1>4. CASE Recheck(g) \/ InspectVictim(g) \/ Orphans(g) \/ RecheckOrphan(g)
  BY <1>0, <1>4 DEF Recheck, InspectVictim, Orphans, RecheckOrphan
<1>5. CASE DeleteVictim(g) \/ FenceVictim(g) \/ DeleteOrphan(g)
  BY <1>0, <1>5 DEF DeleteVictim, FenceVictim, DeleteOrphan, DeleteNext, Request
<1> QED BY <1>1, <1>2, <1>3, <1>4, <1>5 DEF Steps, Recording, Publish, Retain

(* The steps of a run keep what holds of its own directories.              *)
LEMMA DirectoriesKept ==
  ASSUME TypeOK, Shared, NEW g \in Host, DirectoriesOf(g), Steps(g)
  PROVE  DirectoriesOf(g)'
<1> USE DEF GoTo, OwnKept, SetStatus
<1>0. /\ pc \in [Host -> Location] /\ job \in [Host -> Job] /\ job[g] \in Job
      /\ dirs \in [Host -> SUBSET Backup] /\ index \in [Host -> SUBSET Backup] /\ reserved \in Nat
  BY BackupAssumption DEF TypeOK
<1>1. CASE Onward(g)
  BY <1>0, <1>1 DEF Onward, Stays, DirectoriesOf, LocalRun, Writing, Publishing
<1>2. CASE Reserve(g)
  <2>1. pc'[g] = "dump" /\ UNCHANGED <<dirs, index>> /\ reserved' = reserved + 1
    BY <1>0, <1>2 DEF Reserve, local
  <2>2. \A b \in dirs[g] : b <= reserved'
    BY <1>0, <2>1 DEF DirectoriesOf, Backup
  <2> QED BY <2>1, <2>2 DEF DirectoriesOf, LocalRun, Publishing
<1>3. CASE PublishLocal(g)
  <2>1. job[g].own <= reserved
    BY <1>3 DEF PublishLocal, OneWriter, Shared, Writing, Publishing
  <2> QED BY <1>0, <1>3, <2>1 DEF PublishLocal, DirectoriesOf, LocalRun, Publishing
<1>4. CASE Index(g) \/ PersistComplete(g) \/ PersistFailed(g)
  BY <1>0, <1>4 DEF Index, PersistComplete, PersistFailed, DirectoriesOf, LocalRun, Publishing
<1>5. CASE SynchronizeIndex(g)
  <2>1. PICK kept : /\ kept \subseteq dirs[g] /\ job[g].own \in kept
                    /\ index' = [index EXCEPT ![g] = kept] /\ job' = [job EXCEPT ![g].victims = dirs[g] \ kept]
    <3>1. PICK fresh \in SUBSET dirs[g] :
            LET kept == Retained(dirs[g]) \cup {job[g].own} \cup fresh IN
            /\ index' = [index EXCEPT ![g] = kept] /\ job' = [job EXCEPT ![g].victims = dirs[g] \ kept]
      BY <1>5 DEF SynchronizeIndex, IndexOf
    <3>2. job[g].own \in dirs[g] /\ Retained(dirs[g]) \subseteq dirs[g]
      BY <1>5 DEF SynchronizeIndex, DirectoriesOf, LocalRun, Retained, Newest, TierKeeps
    <3> QED BY <3>1, <3>2
  <2>2. index'[g] = kept /\ job'[g].victims = dirs[g] \ kept /\ job'[g].own = job[g].own
    BY <1>0, <2>1 DEF Job
  <2> QED BY <1>5, <2>1, <2>2 DEF SynchronizeIndex, DirectoriesOf
<1>6. CASE RemoveDirectory(g)
  <2>1. PICK v \in job[g].victims : /\ dirs'[g] = dirs[g] \ {v} /\ job'[g].victims = job[g].victims \ {v}
                                    /\ job'[g].own = job[g].own /\ UNCHANGED <<pc, index, reserved>>
    BY <1>0, <1>6 DEF RemoveDirectory, Job
  <2>2. pc[g] = "removeDirs"
    BY <1>6 DEF RemoveDirectory
  <2> QED BY <2>1, <2>2 DEF DirectoriesOf, LocalRun
<1>7. CASE Link(g)
  BY <1>0, <1>7 DEF Link, DirectoriesOf, LocalRun, Publishing
<1>8. ASSUME NEW b \in Backup, Verify(g, b)
      PROVE  DirectoriesOf(g)'
  BY <1>0, <1>8 DEF Verify, local, DirectoriesOf, LocalRun, Publishing
<1> QED BY <1>1, <1>2, <1>3, <1>4, <1>5, <1>6, <1>7, <1>8, Moves DEF Recording

(* Who steps, publishes on or begins; only its own step gives a host a     *)
(* directory.                                                              *)
LEMMA StillWriting ==
  ASSUME TypeOK, NEW g \in Host, Steps(g), pc'[g] \in Writing
  PROVE  \/ Reserve(g) \/ (pc[g] \in Writing /\ job'[g].own = job[g].own)
<1> USE DEF GoTo, OwnKept
<1>0. pc \in [Host -> Location] /\ job \in [Host -> Job]
  BY DEF TypeOK
<1>1. CASE Onward(g)
  BY <1>1 DEF Onward, Stays, LocalRun, Writing, Publishing
<1>2. CASE PublishLocal(g) \/ Index(g) \/ PersistComplete(g) \/ PersistFailed(g)
  BY <1>0, <1>2 DEF PublishLocal, Index, PersistComplete, PersistFailed, Writing, Publishing
<1>3. ~SynchronizeIndex(g) /\ ~RemoveDirectory(g) /\ ~Link(g) /\ ~\E b \in Backup : Verify(g, b)
  BY <1>0 DEF SynchronizeIndex, RemoveDirectory, Link, Verify, Writing, Publishing
<1> QED BY <1>1, <1>2, <1>3, Moves DEF Recording

(* No host gets the directory of a backup that another publishes.          *)
LEMMA DirectoryKept ==
  ASSUME TypeOK, Shared, DirectoryInv, Next
  PROVE  DirectoryInv'
<1>0. reserved \in Nat /\ reserved' \in Nat /\ reserved' >= reserved /\ dirs \in [Host -> SUBSET Backup]
  <2>1. reserved' = reserved \/ \E h \in Host : Reserve(h)
    <3>1. ASSUME NEW h \in Host, Steps(h) PROVE reserved' = reserved \/ Reserve(h)
      <4>1. CASE Onward(h)
        BY <4>1 DEF Onward
      <4> QED BY <3>1, <4>1, Moves DEF Recording, PublishLocal, Index, PersistComplete, PersistFailed, SynchronizeIndex,
        RemoveDirectory, Link, Verify, OwnKept
    <3> QED BY <3>1 DEF Next, Steps, ServeLate, Tick
  <2>2. reserved \in Nat
    BY BackupAssumption DEF TypeOK
  <2> QED BY <2>1, <2>2 DEF Reserve, TypeOK
<1>1. ASSUME NEW g \in Host
      PROVE  DirectoriesOf(g)'
  <2>1. CASE Apart(g)
    <3>1. UNCHANGED <<pc[g], job[g], dirs[g], index[g]>> /\ DirectoriesOf(g)
      BY <2>1 DEF Apart, Stays, DirectoryInv
    <3>2. \A b \in dirs[g] : b <= reserved'
      BY <1>0, <3>1 DEF DirectoriesOf, Backup
    <3> QED BY <3>1, <3>2 DEF DirectoriesOf
  <2>2. CASE Steps(g)
    BY <2>2, DirectoriesKept DEF DirectoryInv
  <2> QED BY <2>1, <2>2, Alone
<1>2. ASSUME NEW g \in Host, NEW h \in Host, pc'[g] \in Writing, job'[g].own \in dirs'[h], g # h
      PROVE  FALSE
  <2>1. CASE Steps(g)
    <3>1. dirs'[h] = dirs[h]
      BY <1>2, <2>1, Others DEF Apart
    <3>2. CASE Reserve(g)
      <4>1. job'[g].own = reserved + 1
        BY <3>2 DEF Reserve, NewBackup, TypeOK, Job
      <4> QED BY <1>0, <1>2, <3>1, <4>1 DEF DirectoryInv, DirectoriesOf, Backup
    <3> QED BY <1>2, <2>1, <3>1, <3>2, StillWriting DEF DirectoryInv
  <2>2. CASE Apart(g)
    <3>1. pc[g] \in Writing /\ job'[g].own = job[g].own
      BY <1>2, <2>2 DEF Apart, Stays
    <3>2. job[g].own \notin dirs[h]
      BY <1>2, <3>1 DEF DirectoryInv
    <3>3. Steps(h)
      BY <1>2, <3>1, <3>2, Alone DEF Apart
    <3>4. CASE PublishLocal(h)
      <4>1. pc[h] \in Writing /\ dirs'[h] \subseteq dirs[h] \cup {job[h].own}
        BY <1>0, <3>4 DEF PublishLocal, Writing, Publishing
      <4> QED BY <1>2, <3>1, <3>2, <4>1 DEF OneWriter, Shared
    <3>5. CASE ~PublishLocal(h)
      <4>1. CASE Onward(h)
        BY <4>1, <1>2, <3>1, <3>2 DEF Onward
      <4>2. CASE Recording(h)
        BY <1>0, <1>2, <3>1, <3>2, <3>5, <4>2 DEF Recording, Reserve, Index, PersistComplete, PersistFailed, SynchronizeIndex,
          RemoveDirectory, Link, Verify, local, SetStatus
      <4> QED BY <3>3, <4>1, <4>2, Moves
    <3> QED BY <3>4, <3>5
  <2> QED BY <2>1, <2>2, Alone
<1> QED BY <1>1, <1>2 DEF DirectoryInv

-----------------------------------------------------------------------------
(* What a local manifest says of the prefix.                               *)
LEMMA ClaimKept ==
  ASSUME TypeOK, TypeOK', Shared, VictimGone, Next, NEW b \in Backup, Claimed(b),
         \A h \in Host : job[h].own = b => pc[h] \notin {"withdraw", "fence"}
  PROVE  Claimed(b)'
<1>1. retired \subseteq retired'
  BY HistoryMoves
<1>2. CASE Advertised(b) /\ ~Advertised(b)'
  <2>1. PICK h \in Host : job[h].target = b /\ DeleteVictim(h)
    BY <1>2, MarkerMoves DEF RemoveMarker, PutFence
  <2> QED BY <2>1 DEF DeleteVictim, Claimed
<1> QED BY <1>1, <1>2 DEF Claimed

(* Only a run that saw the marker records complete.                        *)
LEMMA StatusMoves ==
  ASSUME TypeOK, Next, NEW b \in Backup, status'[b] = "complete", status[b] # "complete"
  PROVE  \E h \in Host : job[h].own = b /\ (PersistComplete(h) \/ (Link(h) /\ b \in dirs[h]))
<1> USE DEF SetStatus, OwnKept, local
<1>0. status \in [Backup -> {"none", "pending", "complete", "failed"}]
  BY DEF TypeOK
<1>1. ASSUME NEW h \in Host, Steps(h)
      PROVE  job[h].own = b /\ (PersistComplete(h) \/ (Link(h) /\ b \in dirs[h]))
  <2>1. ~Onward(h)
    BY DEF Onward
  <2>2. ~Reserve(h) /\ ~Index(h) /\ ~SynchronizeIndex(h) /\ ~RemoveDirectory(h)
    BY DEF Reserve, Index, SynchronizeIndex, RemoveDirectory
  <2>3. ~PublishLocal(h) /\ ~PersistFailed(h) /\ ~\E c \in Backup : Verify(h, c)
    BY <1>0 DEF PublishLocal, PersistFailed, Verify
  <2>4. PersistComplete(h) \/ Link(h)
    BY <1>1, <2>1, <2>2, <2>3, Moves DEF Recording
  <2> QED BY <1>0, <2>4 DEF PersistComplete, Link
<1>2. ~(\E c \in Backup : ServeLate(c)) /\ ~Tick
  BY DEF ServeLate, Tick
<1> QED BY <1>1, <1>2 DEF Next, Steps

(* A record stays true while its marker is there.                          *)
LEMMA StatusKept ==
  ASSUME TypeOK, TypeOK', Shared, VictimGone, DirectoryInv, StatusInv, Next
  PROVE  StatusInv'
<1> USE DEF GoTo, OwnKept
<1>0. pc \in [Host -> Location] /\ job \in [Host -> Job] /\ \A g \in Host : pc[g] \in Owning => job[g].own \in Backup
  BY DEF TypeOK
<1>1. ASSUME NEW h \in Host, pc[h] \in {"verifyMarker", "persist", "link"}, job[h].own \in dirs[h],
             NEW b \in Backup, b = job[h].own
      PROVE  Claimed(b)'
  <2>1. Claimed(b)
    BY <1>1 DEF StatusInv
  <2>2. \A g \in Host : job[g].own = b => pc[g] \notin {"withdraw", "fence"}
    BY <1>1 DEF DirectoryInv, Writing
  <2> QED BY <2>1, <2>2, ClaimKept
<1>2. ASSUME NEW b \in Backup, status'[b] = "complete"
      PROVE  Claimed(b)'
  <2>1. CASE status[b] = "complete"
    <3>1. Claimed(b) /\ \A h \in Host : job[h].own = b => pc[h] \notin {"withdraw", "fence"}
      BY <2>1 DEF StatusInv, StatusTrue, Claimed, Writing
    <3> QED BY <3>1, ClaimKept
  <2>2. CASE status[b] # "complete"
    <3>1. PICK h \in Host : job[h].own = b /\ (PersistComplete(h) \/ (Link(h) /\ b \in dirs[h]))
      BY <1>2, <2>2, StatusMoves
    <3>2. pc[h] \in {"verifyMarker", "persist", "link"} /\ job[h].own \in dirs[h]
      BY <3>1 DEF PersistComplete, Link, DirectoryInv, DirectoriesOf, LocalRun
    <3> QED BY <1>1, <3>1, <3>2
  <2> QED BY <2>1, <2>2
<1>3. ASSUME NEW g \in Host, pc'[g] \in Writing \ {"dump"}
      PROVE  status'[job'[g].own] # "complete"
  <2>1. CASE pc[g] \in Writing \ {"dump"} /\ job'[g].own = job[g].own
    <3>1. job[g].own \in Backup /\ status[job[g].own] # "complete"
      BY <1>0, <2>1, PlacesApart DEF StatusInv
    <3> SUFFICES ASSUME status'[job[g].own] = "complete" PROVE FALSE
      BY <2>1
    <3>2. PICK h \in Host : job[h].own = job[g].own /\ (PersistComplete(h) \/ (Link(h) /\ job[g].own \in dirs[h]))
      BY <3>1, StatusMoves
    <3>3. job[g].own \in dirs[h] /\ pc[h] \in {"persist", "link"}
      BY <3>2 DEF PersistComplete, Link, DirectoryInv, DirectoriesOf, LocalRun
    <3> QED BY <2>1, <3>3 DEF DirectoryInv, Writing, Publishing
  <2>2. CASE PublishLocal(g)
    <3>1. job'[g].own = job[g].own /\ job[g].own \in Backup /\ status' = [status EXCEPT ![job[g].own] = "pending"]
      BY <1>0, <1>3, <2>2 DEF PublishLocal, Writing, Owning, Publishing
    <3> QED BY <3>1 DEF TypeOK
  <2>3. CASE ~PublishLocal(g)
    <3>1. CASE Apart(g)
      BY <1>3, <2>1, <3>1 DEF Apart, Stays
    <3>2. CASE Steps(g)
      <4>1. ~Reserve(g) /\ pc[g] # "dump"
        BY <1>0, <1>3, <2>3, <3>2 DEF Reserve, Steps, Publish, Index, UploadDump, UploadFilestore, CheckPayload, CheckFence, PutMarker,
          VerifyMarker, PersistComplete, RemoveMarker, Inspect, PutFence, PersistFailed, Retain, SynchronizeIndex,
          RemoveDirectory, LocallyPruned, Link, Select, Recheck, DeleteVictim, InspectVictim, FenceVictim, Orphans,
          RecheckOrphan, DeleteOrphan, EndRetention, Crash, Finish, Verify, Writing, Publishing
      <4> QED BY <1>3, <2>1, <3>2, <4>1, StillWriting
    <3> QED BY <3>1, <3>2, Alone
  <2> QED BY <2>2, <2>3
<1>4. ASSUME NEW h \in Host, pc'[h] \in {"verifyMarker", "persist"}, NEW b \in Backup, b = job'[h].own
      PROVE  Claimed(b)'
  <2>1. CASE pc[h] \in {"verifyMarker", "persist"} /\ job'[h].own = job[h].own
    <3>1. job[h].own \in dirs[h]
      BY <2>1 DEF DirectoryInv, DirectoriesOf, LocalRun
    <3> QED BY <1>1, <1>4, <2>1, <3>1
  <2>2. CASE Stays(h)
    BY <1>4, <2>1, <2>2 DEF Stays
  <2>3. CASE Onward(h)
    <3>1. CASE pc'[h] = "verifyMarker" /\ pc[h] \in Publishing /\ job'[h] = job[h] /\ Put(job[h].own, "marker")
      <4>1. ~Has(b, "fence")
        BY <1>4, <3>1 DEF Shared, PublishedUntouched, Untouched
      <4>2. age' = [age EXCEPT ![b]["marker"] = 0] /\ {"marker", "fence"} \subseteq Object /\ "marker" # "fence"
        BY <1>4, <3>1, ObjectTypes DEF Put
      <4>3. \A c \in Backup, p \in Object : Has(c, p)' <=> Has(c, p) \/ (c = b /\ p = "marker")
        BY <4>2, PutHas
      <4>4. Has(b, "marker")' /\ ~Has(b, "fence")'
        BY <4>1, <4>2, <4>3
      <4> QED BY <4>4 DEF Claimed, Advertised
    <3> QED BY <1>4, <2>1, <2>2, <2>3, <3>1 DEF Onward, LocalRun
  <2>4. ~Recording(h) \/ Stays(h)
    BY <1>0, <1>4 DEF Recording, Reserve, PublishLocal, Index, PersistComplete, PersistFailed, SynchronizeIndex, RemoveDirectory,
      Link, Verify, Stays
  <2> QED BY <2>2, <2>3, <2>4, Moves, Alone DEF Apart
<1>5. ASSUME NEW h \in Host, pc'[h] = "link", NEW b \in Backup, b = job'[h].own, b \in dirs'[h]
      PROVE  Claimed(b)'
  <2>1. CASE Stays(h) /\ dirs'[h] = dirs[h]
    BY <1>1, <1>5, <2>1 DEF Stays
  <2>2. CASE Onward(h)
    BY <1>5, <2>1, <2>2 DEF Onward, LocalRun, Publishing
  <2>3. ASSUME NEW c \in Backup, Verify(h, c)
        PROVE  Claimed(b)'
    <3>1. CASE UNCHANGED <<pc, job, dirs>>
      BY <2>1, <3>1 DEF Stays
    <3>2. CASE job' = [job EXCEPT ![h].own = c]
      <4>1. Advertised(b) /\ UNCHANGED age
        BY <1>0, <1>5, <2>3, <3>2 DEF Verify, remote, Job
      <4> QED BY <4>1 DEF Claimed, Advertised, Has
    <3> QED BY <2>3, <3>1, <3>2 DEF Verify
  <2>4. CASE Recording(h) /\ ~\E c \in Backup : Verify(h, c)
    <3>1. FALSE
      BY <1>0, <1>5, <2>4 DEF Recording, Reserve, PublishLocal, Index, PersistComplete, PersistFailed, SynchronizeIndex,
        RemoveDirectory, Link
    <3> QED BY <3>1
  <2> QED BY <2>1, <2>2, <2>3, <2>4, Moves, Alone DEF Apart
<1>6. \A h \in Host : /\ pc'[h] \in {"verifyMarker", "persist", "link"} => job'[h].own \in Backup
  BY DEF TypeOK, Owning
<1>7. StatusTrue'
  BY <1>2 DEF StatusTrue, Claimed
<1> QED BY <1>3, <1>4, <1>5, <1>6, <1>7 DEF StatusInv

(* The inductive invariant behind the records.                             *)
LEMMA RecordInit == Init => RecordInv
<1> SUFFICES ASSUME Init PROVE RecordInv
  OBVIOUS
<1>1. IInv
  BY TypeInit, SharedInit DEF IInv
<1>2. \A g \in Host : pc[g] = "idle" /\ dirs[g] = {} /\ index[g] = {}
  BY DEF Init
<1>3. retired = {} /\ \A b \in Backup : status[b] = "none"
  BY DEF Init
<1>4. VictimGone /\ RetiredInv
  BY <1>2, <1>3 DEF VictimGone, RetiredInv, Retaining
<1>5. DirectoryInv
  BY <1>2 DEF DirectoryInv, DirectoriesOf, LocalRun, Publishing
<1>6. StatusInv
  BY <1>2, <1>3 DEF StatusInv, StatusTrue, Writing, Publishing
<1> QED BY <1>1, <1>4, <1>5, <1>6 DEF RecordInv

LEMMA RecordStep == RecordInv /\ [Next]_vars => RecordInv'
<1> SUFFICES ASSUME RecordInv, [Next]_vars PROVE RecordInv'
  OBVIOUS
<1>1. IInv'
  BY TypeStep, SharedStep DEF IInv, RecordInv
<1>2. CASE Next
  <2>1. TypeOK /\ TypeOK' /\ Shared /\ VictimGone /\ RetiredInv /\ DirectoryInv /\ StatusInv
    BY <1>1 DEF IInv, RecordInv
  <2>2. VictimGone' /\ RetiredInv'
    BY <1>2, <2>1, VictimGoneKept, RetiredKept
  <2>3. DirectoryInv' /\ StatusInv'
    BY <1>2, <2>1, DirectoryKept, StatusKept
  <2> QED BY <1>1, <2>2, <2>3 DEF RecordInv
<1>3. CASE UNCHANGED vars
  <2> USE <1>3 DEF vars, remote, local, history, RecordInv
  <2>1. VictimGone'
    BY DEF VictimGone, Has
  <2>2. RetiredInv'
    BY DEF RetiredInv, Superseded, Advertised, Has, Doomed
  <2>3. DirectoryInv'
    BY DEF DirectoryInv, DirectoriesOf
  <2>4. StatusInv'
    BY DEF StatusInv, StatusTrue, Claimed, Advertised, Has
  <2> QED BY <1>1, <2>1, <2>2, <2>3, <2>4
<1> QED BY <1>2, <1>3

(* Retention of any host took a backup only for a newer one, which is      *)
(* still offered unless its publisher gave it up: the newest that a host   *)
(* loaded is always kept (prune_remote_backups).                           *)
THEOREM NewerKept == Spec => []RetiredForNewer
<1>1. RecordInv => RetiredForNewer
  BY DEF RecordInv, RetiredInv, Superseded, RetiredForNewer
<1> QED BY RecordInit, RecordStep, <1>1, PTL DEF Spec

(* A local manifest that says complete names a remote copy that is offered *)
(* or was taken by retention, and the index names directories that are     *)
(* there, also after a crash between any two steps                         *)
(* (_persist_local_manifest, prune_backups_gfs).                           *)
THEOREM TrueRecords == Spec => []RecordsTrue
<1>1. RecordInv => RecordsTrue
  BY DEF RecordInv, IInv, StatusInv, DirectoryInv, DirectoriesOf, RecordsTrue, StatusTrue, Claimed, IndexedExists
<1> QED BY RecordInit, RecordStep, <1>1, PTL DEF Spec

-----------------------------------------------------------------------------
(* What a deletion takes was doomed, and what is being published is not.   *)
LEMMA ArtifactGone ==
  ASSUME TypeOK, TypeOK', Shared, Next, NEW b \in Backup, NEW o \in Artifact, Has(b, o), ~Has(b, o)'
  PROVE  \E h \in Host : job[h].target = b /\ (DeleteVictim(h) \/ DeleteOrphan(h))
<1> USE DEF remote
<1>0. o \in Object /\ "marker" \in Object /\ "fence" \in Object /\ o # "marker"
  BY ObjectTypes
<1>1. ~Grown /\ ~UNCHANGED age
  BY DEF Grown, Has
<1>2. ASSUME NEW v \in Backup, NEW p \in Object
      PROVE  age' # [age EXCEPT ![v][p] = 0]
  BY <1>0, PutHas
<1>3. ASSUME NEW v \in Backup, NEW p \in Object, Delete(v, p)
      PROVE  v = b /\ p = o
  BY <1>0, <1>3, DeleteHas
<1>4. ASSUME NEW h \in Host
      PROVE  ~Publish(h) /\ ~Link(h)
  <2>1. pc[h] \in Owning => job[h].own \in Backup
    BY DEF TypeOK
  <2>2. ~Reserve(h)
    BY <1>1 DEF Reserve
  <2>3. ~PutMarker(h) /\ ~PutFence(h)
    BY <1>0, <1>1, <1>2, <2>1 DEF PutMarker, PutFence, Request, Put, Owning, Publishing
  <2>4. ~RemoveMarker(h)
    BY <1>0, <1>1, <1>3, <2>1 DEF RemoveMarker, Request, Owning
  <2> QED BY <1>1, <2>2, <2>3, <2>4, PublisherQuiet
<1>5. ASSUME NEW h \in Host, Retain(h) \/ Crash(h)
      PROVE  job[h].target = b /\ (DeleteVictim(h) \/ DeleteOrphan(h))
  <2>1. DeleteVictim(h) \/ FenceVictim(h) \/ DeleteOrphan(h)
    BY <1>1, <1>4, <1>5, RetentionQuiet
  <2>2. job[h].target \in Backup
    BY <2>1 DEF DeleteVictim, FenceVictim, DeleteOrphan, TypeOK, Job, Deleting, None
  <2>3. ~FenceVictim(h)
    BY <1>0, <1>1, <1>2, <2>2 DEF FenceVictim, Request, Put
  <2>4. job[h].todo # <<>> /\ Head(job[h].todo) \in Object
    BY <2>1, <2>3 DEF DeleteVictim, DeleteOrphan, TypeOK, Job, Deleting
  <2>5. Delete(job[h].target, Head(job[h].todo))
    BY <1>1, <2>1, <2>3 DEF DeleteVictim, DeleteOrphan, DeleteNext
  <2> QED BY <1>3, <2>1, <2>2, <2>3, <2>4, <2>5
<1>6. ~\E h \in Host, c \in Backup : Verify(h, c)
  BY <1>1 DEF Verify
<1>7. ~\E c \in Backup : ServeLate(c)
  BY <1>0, <1>2 DEF ServeLate
<1>8. ~Tick
  BY <1>0, ObjectTypes DEF Tick, Has, Gone, TypeOK
<1> QED BY <1>4, <1>5, <1>6, <1>7, <1>8 DEF Next

(* No host deletes the payload of a backup that another is still           *)
(* publishing, however slowly: only what is marked or fenced is doomed     *)
(* (orphan cleanup in prune_remote_backups).                               *)
THEOREM UploadsKept == Spec => ActiveUploadKept
<1> DEFINE Kept == \A h \in Host, b \in Backup, o \in Artifact :
                     job[h].own = b /\ pc[h] \in Publishing /\ Has(b, o) => Has(b, o)'
<1>1. ASSUME IInv, IInv', Next
      PROVE  Kept
  <2> SUFFICES ASSUME NEW h \in Host, NEW b \in Backup, NEW o \in Artifact,
                      job[h].own = b, pc[h] \in Publishing, Has(b, o), ~Has(b, o)'
               PROVE  FALSE
    BY DEF Kept
  <2>1. PICK g \in Host : job[g].target = b /\ (DeleteVictim(g) \/ DeleteOrphan(g))
    BY <1>1, ArtifactGone DEF IInv
  <2>2. pc[g] \in Retaining \cup Cleaning /\ b \in Doomed(g)
    BY <2>1 DEF DeleteVictim, DeleteOrphan, Retaining, Cleaning, Doomed
  <2>3. Untouched(b)
    BY <1>1 DEF IInv, Shared, PublishedUntouched
  <2> QED BY <2>2, <2>3 DEF Untouched
<1>2. IInv /\ IInv' /\ [Next]_vars => [Kept]_vars
  BY <1>1
<1>3. Init => IInv
  BY TypeInit, SharedInit DEF IInv
<1>4. IInv /\ [Next]_vars => IInv'
  BY TypeStep, SharedStep DEF IInv
<1> QED BY <1>2, <1>3, <1>4, PTL DEF Spec, ActiveUploadKept
=============================================================================
