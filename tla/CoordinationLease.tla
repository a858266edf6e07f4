------------------------- MODULE CoordinationLease -------------------------
(***************************************************************************)
(* adapters/wal_s3.py: the cross-host lease that plan, restore and         *)
(* retention of one point-in-time-recovery archive take before they change *)
(* it (services/pitr.py, _CoordinationGuard).  The lease is one S3 object, *)
(* created with If-None-Match: *, renewed and deleted with If-Match on its *)
(* ETag.  An expired lease is never stolen; an operator may remove it who  *)
(* attests that its owner has stopped.                                     *)
(*                                                                         *)
(* A request is sent and then served at any later time, or never: its      *)
(* sender may have timed out and gone on before, and a retry by the SDK    *)
(* may have it served twice.  No reply decides anything in this code: after*)
(* every conditional write the client reads the object back.  The two HEAD *)
(* requests around a GET make such a read atomic, or it fails.             *)
(***************************************************************************)
EXTENDS Naturals, FiniteSets

CONSTANTS
  Client,         \* guarded operations, each with a lease_id of its own
  NoClient,       \* no lease object
  MaxGeneration,  \* bound: generations of a lease
  MaxCrashed,     \* bound: crashed clients
  MaxDuplicates   \* bound: requests served twice

ASSUME LeaseAssumption ==
  /\ NoClient \notin Client
  /\ MaxGeneration \in Nat \ {0}
  /\ MaxCrashed \in Nat
  /\ MaxDuplicates \in Nat

VARIABLES
  object,      \* the lease object: owner, generation, whether its TTL is over
  requests,    \* conditional writes that S3 has not served
  at,          \* where each client is
  lease,       \* the generation each client last proved to be its own
  recovering,  \* the ETag an operator has confirmed
  crashed, duplicates

leaseVars == <<object, requests, at, lease, recovering, crashed, duplicates>>

NoLease == [owner |-> NoClient, generation |-> 0, expired |-> FALSE]
Generation == 1..MaxGeneration
LeaseObject == [owner : Client, generation : Generation, expired : BOOLEAN]

(* The ETag: the bytes are the lease_id and the generation.                *)
ETag == [owner : Client, generation : Generation]
NoETag == [owner |-> NoClient, generation |-> 0]
ETagOf(o) == [owner |-> o.owner, generation |-> o.generation]
Request == [op : {"create", "renew", "delete"}, etag : ETag]

LeaseLocation == {"idle", "create", "created", "guarded", "renew", "renewed",
                  "release", "delete", "deleted", "done"}

LeaseTypeOK ==
  /\ object \in LeaseObject \cup {NoLease}
  /\ requests \subseteq Request
  /\ at \in [Client -> LeaseLocation]
  /\ lease \in [Client -> Generation]
  /\ recovering \in ETag \cup {NoETag}
  /\ crashed \in 0..MaxCrashed
  /\ duplicates \in 0..MaxDuplicates

LeaseInit ==
  /\ object = NoLease
  /\ requests = {}
  /\ at = [c \in Client |-> "idle"]
  /\ lease = [c \in Client |-> 1]
  /\ recovering = NoETag
  /\ crashed = 0 /\ duplicates = 0

-----------------------------------------------------------------------------
MoveTo(c, to) == at' = [at EXCEPT ![c] = to]

MyETag(c) == [owner |-> c, generation |-> lease[c]]

(* The object is the lease that c has proved, and c may go on with it.     *)
Mine(c) == ETagOf(object) = MyETag(c)

Send(op, etag) == requests' = requests \cup {[op |-> op, etag |-> etag]}

-----------------------------------------------------------------------------
(* S3                                                                      *)

NextGeneration(g) == g + 1

Issued(owner, g) == [owner |-> owner, generation |-> g, expired |-> FALSE]

(* Mutant: the lease is created without If-None-Match.                     *)
Mutant_NoneMatches == TRUE
NoneMatches == object = NoLease

(* The precondition holds and the write is done, or it is refused.         *)
Serve(r) ==
  CASE r.op = "create" /\ NoneMatches -> Issued(r.etag.owner, 1)
    [] r.op = "renew" /\ r.etag = ETagOf(object) ->
         Issued(r.etag.owner, NextGeneration(r.etag.generation))
    [] r.op = "delete" /\ r.etag = ETagOf(object) -> NoLease
    [] OTHER -> object

Served(r) ==
  /\ r \in requests
  /\ object' = Serve(r)
  /\ \/ requests' = requests \ {r} /\ UNCHANGED duplicates
     \/ duplicates < MaxDuplicates /\ duplicates' = duplicates + 1 /\ UNCHANGED requests
  /\ UNCHANGED <<at, lease, recovering, crashed>>

(* The TTL passes: LastModified + ttl_seconds is over by the server clock. *)
Expire ==
  /\ object # NoLease
  /\ object' = [object EXCEPT !.expired = TRUE]
  /\ UNCHANGED <<requests, at, lease, recovering, crashed, duplicates>>

-----------------------------------------------------------------------------
(* acquire_coordination_lease                                              *)

(* A lease object, active or expired, refuses the attempt.                 *)
LookFirst(c) ==
  /\ at[c] = "idle"
  /\ MoveTo(c, IF object = NoLease THEN "create" ELSE "done")
  /\ UNCHANGED <<object, requests, lease, recovering, crashed, duplicates>>

Create(c) ==
  /\ at[c] = "create"
  /\ Send("create", [owner |-> c, generation |-> 1])
  /\ MoveTo(c, "created")
  /\ UNCHANGED <<object, lease, recovering, crashed, duplicates>>

ReadCreated(c) ==
  /\ at[c] = "created"
  /\ \/ Mine(c) /\ ~object.expired /\ MoveTo(c, "guarded")
     \/ MoveTo(c, "done")
  /\ UNCHANGED <<object, requests, lease, recovering, crashed, duplicates>>

-----------------------------------------------------------------------------
(* renew_coordination_lease: assert_coordination_lease, then the write     *)

AssertLease(c) ==
  /\ at[c] = "guarded"
  /\ \/ Mine(c) /\ ~object.expired /\ lease[c] < MaxGeneration /\ MoveTo(c, "renew")
     \/ MoveTo(c, "release")
  /\ UNCHANGED <<object, requests, lease, recovering, crashed, duplicates>>

Renew(c) ==
  /\ at[c] = "renew"
  /\ Send("renew", MyETag(c))
  /\ MoveTo(c, "renewed")
  /\ UNCHANGED <<object, lease, recovering, crashed, duplicates>>

(* A failed renewal leaves the guard by an exception, with the old lease.  *)
ReadRenewed(c) ==
  /\ at[c] = "renewed"
  /\ \/ /\ object.owner = c /\ object.generation = lease[c] + 1 /\ ~object.expired
        /\ lease' = [lease EXCEPT ![c] = @ + 1]
        /\ MoveTo(c, "guarded")
     \/ MoveTo(c, "release") /\ UNCHANGED lease
  /\ UNCHANGED <<object, requests, recovering, crashed, duplicates>>

-----------------------------------------------------------------------------
(* release_coordination_lease                                              *)

(* Only the exact lease, expired or not, may be released.                  *)
CheckRelease(c) ==
  /\ at[c] = "release"
  /\ \/ Mine(c) /\ MoveTo(c, "delete")
     \/ MoveTo(c, "done")
  /\ UNCHANGED <<object, requests, lease, recovering, crashed, duplicates>>

Delete(c) ==
  /\ at[c] = "delete"
  /\ Send("delete", MyETag(c))
  /\ MoveTo(c, "deleted")
  /\ UNCHANGED <<object, lease, recovering, crashed, duplicates>>

(* _conditional_delete looks at the object again; either way it is over.   *)
LookDeleted(c) ==
  /\ at[c] = "deleted"
  /\ MoveTo(c, "done")
  /\ UNCHANGED <<object, requests, lease, recovering, crashed, duplicates>>

CrashClient(c) ==
  /\ crashed < MaxCrashed
  /\ at[c] \notin {"idle", "done"}
  /\ crashed' = crashed + 1
  /\ MoveTo(c, "done")
  /\ UNCHANGED <<object, requests, lease, recovering, duplicates>>

-----------------------------------------------------------------------------
(* recover_expired_coordination_lease                                      *)

(* Mutant: like every other read, this one refuses an expired lease.       *)
Mutant_Recoverable == object # NoLease /\ ~object.expired
Recoverable == object # NoLease /\ object.expired

(* Mutant: nobody has to attest that the owner has stopped.                *)
Mutant_OwnerStopped == TRUE
OwnerStopped == at[object.owner] = "done"

(* The operator names the exact expired lease and attests OWNER_STOPPED.   *)
Confirm ==
  /\ recovering = NoETag
  /\ Recoverable
  /\ OwnerStopped
  /\ recovering' = ETagOf(object)
  /\ UNCHANGED <<object, requests, at, lease, crashed, duplicates>>

Recover ==
  /\ recovering # NoETag
  /\ Send("delete", recovering)
  /\ recovering' = NoETag
  /\ UNCHANGED <<object, at, lease, crashed, duplicates>>

-----------------------------------------------------------------------------
Step(c) ==
  \/ LookFirst(c) \/ Create(c) \/ ReadCreated(c)
  \/ AssertLease(c) \/ Renew(c) \/ ReadRenewed(c)
  \/ CheckRelease(c) \/ Delete(c) \/ LookDeleted(c)

LeaseNext ==
  \/ \E c \in Client : Step(c) \/ CrashClient(c)
  \/ \E r \in requests : Served(r)
  \/ Expire \/ Confirm \/ Recover

LeaseSpec == LeaseInit /\ [][LeaseNext]_leaseVars

(* A guarded operation comes to its end, time passes, and the operator     *)
(* recovers an expired lease, repeating requests that were not served.     *)
LeaseFairSpec ==
  /\ LeaseSpec
  /\ \A c \in Client : WF_leaseVars(Step(c))
  /\ WF_leaseVars(Expire) /\ WF_leaseVars(Confirm) /\ WF_leaseVars(Recover)
  /\ \A e \in ETag : WF_leaseVars(Served([op |-> "delete", etag |-> e]))

-----------------------------------------------------------------------------
Guarded(c) == at[c] \in {"guarded", "renew", "renewed"}

(* Whoever is inside the guard has its lease on S3, expired or not: nobody *)
(* steals it, a late delete or create of an earlier lease misses it, and so*)
(* no other operation of the archive is inside (_CoordinationGuard).       *)
GuardedOwnsObject == \A c \in Client : Guarded(c) => object.owner = c

(* An orphaned lease, left by a crash, a failed release or a create that   *)
(* was served after its sender had given up, can always be recovered.      *)
LeaseClears == (object # NoLease) ~> (object = NoLease)

(* Refinement: whatever is delayed, repeated, lost or crashes, the lease is*)
(* the non-blocking lock its users rely on.                                *)
LeaseHolder == IF \E c \in Client : Guarded(c)
               THEN CHOOSE c \in Client : Guarded(c) ELSE NoClient

LeaseLock == INSTANCE TryLock WITH Actor <- Client, NoActor <- NoClient, holder <- LeaseHolder

LeaseImplementsTryLock == LeaseLock!Spec
=============================================================================
