-------------------------- MODULE Deployment_proofs --------------------------
(***************************************************************************)
(* Deployments keep data, records and what is served.                      *)
(*                                                                         *)
(* An environment's command is related to its workload and its database    *)
(* only, besides the commit that HEAD is at: a command of another one      *)
(* leaves the first two alone, and marks this one as moved when it changes *)
(* HEAD.  So the inductive invariant is one of an environment, and a step  *)
(* is checked for the environment that takes it (a lemma for each action)  *)
(* and once for all others (Other).                                        *)
(***************************************************************************)
EXTENDS Deployment, WellFoundedInduction, TLAPS

Entry == [commit : Commit, image : Commit, status : {"success", "failed"}]
Operation ==
  [at : Location, kind : Kind, image : Commit \cup {None}, label : Commit \cup {None},
   target : Commit \cup {None}, base : Commit \cup {None}, saved : 0..MaxCommit + 1, was : SUBSET Commit,
   prev : Selector(Commit), revision : Commit \cup {None}, state : BOOLEAN, promoted : BOOLEAN,
   db : BOOLEAN, service : BOOLEAN, attempted : BOOLEAN, undone : BOOLEAN, ok : BOOLEAN,
   changed : BOOLEAN, missed : {"no", "failed", "interrupted"}, moved : BOOLEAN]

Types ==
  /\ <<runtime, strategy>> \in Supported /\ autoRollback \in BOOLEAN
  /\ origin \in [Env -> Commit] /\ local \in [Env -> Commit]
  /\ branch \in Env \cup {Detached} /\ detached \in Commit
  /\ work \in [Env -> Workload(Commit)]
  /\ schema \in [Env -> Commit \cup {Mixed}]
  /\ records \in [Env -> Seq(Entry)]
  /\ op \in [Env -> Operation]
  /\ runs \in 0..MaxRuns /\ faults \in 0..MaxFaults /\ crashes \in 0..MaxCrashes

(* Where a command has not begun to change its environment.                *)
Early == {"backup", "checkout", "pull", "merge", "begin"}

(* What a command knows of itself wherever it is.                          *)
Shape(o) ==
  /\ o.at # "idle" => o.image \in Commit /\ o.label \in Commit
  /\ o.kind # "rollback" => o.label = o.image
  /\ o.state => o.revision \in Commit
  /\ o.at \in Early => ~o.db /\ ~o.state /\ ~o.promoted
  /\ o.at \in {"update", "promote"} => ~o.promoted
  /\ o.at \in {"verify", "finalize", "cleanup"} /\ o.kind # "rollback" => o.promoted
  /\ o.at \in {"promote", "verify", "finalize", "cleanup"} /\ o.kind # "rollback" => o.db
  /\ o.kind = "promote" /\ o.at \notin {"idle", "backup"} => o.saved # None
  /\ o.kind = "rollback" =>
       /\ ~o.state /\ o.saved = None /\ o.target \in Commit
       /\ o.at \in {"checkout", "begin", "verify", "record"}
  /\ o.at = "idle" => o.saved = None
  /\ o.ok => o.at = "record"
  /\ o.undone => o.at \in {"restore", "restart", "reset", "redeploy", "record"}
  /\ o.at = "reset" => o.base \in Commit
  /\ o.at \in {"finalize", "cleanup"} => Progressive

(* The database is the one saved until it may have changed, and again once *)
(* it is restored; in between it is the one that the code to be recorded   *)
(* updated.                                                                *)
Succeeding(o) == o.at = "record" /\ o.ok
Updated(o, s) ==
  o.kind # "rollback" /\ (o.at \in {"promote", "verify", "finalize", "cleanup"} \/ Succeeding(o)) =>
    IF Compose THEN o.moved \/ s = HeadCommit ELSE s = o.image
Recovering == {"restart", "reset", "redeploy", "record"}
Data(o, s) ==
  /\ o.saved # None /\ ~o.db => s = Decoded(o.saved)
  /\ o.at \in Recovering /\ ~o.ok /\ o.saved # None /\ o.missed = "no" => s = Decoded(o.saved)
  /\ Updated(o, s)

(* What is served, and what a rollback of the rollout would bring back.    *)
Under(w, selector) == [w EXCEPT !.selector = selector]
Served(o, w) ==
  /\ ~Progressive => w.selector = Stable
  /\ o.at \in Early => o.was = Serving(w)
  /\ Progressive =>
       /\ o.at \in {"update", "promote"} => w.selector = o.prev
       /\ o.at \in {"update", "promote", "verify", "finalize"} /\ o.kind # "rollback" => ~o.changed
  /\ o.at \in {"update", "promote", "verify", "finalize", "cleanup", "undo"} /\ o.state =>
       /\ Rolling /\ o.changed => {w.past} = o.was
       /\ Progressive =>
            /\ o.prev.revision # o.revision /\ (~o.changed \/ o.prev # Stable) =>
                 Serving(Under(w, o.prev)) = o.was
            /\ o.promoted => w.selector.revision = o.revision
            /\ ~o.promoted => ~o.changed /\ w.selector \in {o.prev, CandidateSelector(o.revision)}

(* The image that a deployment is to be recorded with.                     *)
Runs(o, w) ==
  /\ o.kind = "rollback" /\ (o.at \in {"begin", "verify"} \/ Succeeding(o)) =>
       o.moved \/ HeadCommit = o.target
  /\ runtime = "compose_image" /\ (o.at \in {"update", "promote", "verify"} \/ Succeeding(o)) =>
       o.moved \/ w.template = HeadCommit
  /\ runtime = "kubernetes" /\ (\/ o.at \in {"update", "promote"} /\ ~Progressive
                                \/ o.at = "verify" /\ (o.kind = "rollback" \/ ~Progressive)
                                \/ o.at = "cleanup" \/ Succeeding(o)) =>
       w.template = o.image

EnvInv(e) ==
  Shape(op[e]) /\ Data(op[e], schema[e]) /\ Served(op[e], work[e]) /\ Runs(op[e], work[e])

(* The inductive invariant.                                                *)
IInv == Types /\ \A e \in Env : EnvInv(e)

-----------------------------------------------------------------------------
(* Values                                                                  *)

LEMMA Constants ==
  /\ MaxCommit \in Nat \ {0} /\ MaxRuns \in Nat /\ MaxFaults \in Nat /\ MaxCrashes \in Nat
  /\ Source \in Env /\ Target \in Env /\ Detached \notin Env
  /\ Commit \subseteq Nat /\ 0 \notin Commit /\ 1 \in Commit
BY DeploymentAssumption DEF Commit

LEMMA HeadTyped ==
  ASSUME Types
  PROVE  HeadCommit \in Commit
BY DEF Types, HeadCommit

LEMMA IdleTyped ==
  /\ Idle \in Operation /\ Idle.at = "idle" /\ Idle.kind = "none" /\ Idle.saved = None
  /\ Idle.label = Idle.image /\ ~Idle.promoted /\ ~Idle.state /\ ~Idle.ok /\ ~Idle.undone /\ ~Idle.db /\ ~Idle.moved
BY Constants DEF Idle, Operation, None, Stable, Selector, NoRevision, Location, Kind

LEMMA IdleKept ==
  ASSUME NEW w, NEW s, ~Progressive => w.selector = Stable
  PROVE  Shape(Idle) /\ Data(Idle, s) /\ Served(Idle, w) /\ Runs(Idle, w)
BY IdleTyped DEF Shape, Data, Updated, Recovering, Served, Runs, Early, Succeeding

(* The selectors of a workload, and what is done to it.                    *)
LEMMA Selectors ==
  ASSUME NEW s \in Selector(Commit), NEW p \in Selector(Commit)
  PROVE  /\ Stable \in Selector(Commit)
         /\ \A r \in Commit \cup {None} : CandidateSelector(r) \in Selector(Commit)
         /\ Merged(s, p) \in Selector(Commit)
         /\ Merged(p, p) = p /\ Merged(Stable, Stable) = Stable
BY DEF Selector, Stable, CandidateSelector, Merged, NoRevision, None

LEMMA WorkloadTyped ==
  ASSUME NEW w \in Workload(Commit), NEW image \in Commit, NEW revision \in Commit,
         NEW p \in Selector(Commit)
  PROVE  /\ [w EXCEPT !.template = image] \in Workload(Commit)
         /\ NewRevision(w, image) \in Workload(Commit)
         /\ Selecting(w, p) \in Workload(Commit)
         /\ Up(w, image) \in Workload(Commit)
         /\ Restarted(w) \in Workload(Commit)
         /\ Candidate(w, revision, image) \in Workload(Commit)
         /\ CanUndo(w) => Undone(w) \in Workload(Commit)
<1>1. ASSUME NEW v \in Workload(Commit)
      PROVE  Selecting(v, p) \in Workload(Commit) /\ Selecting(v, Stable) \in Workload(Commit)
  <2>1. v.selector \in Selector(Commit)
    BY DEF Workload
  <2>2. Merged(v.selector, p) \in Selector(Commit) /\ Merged(v.selector, Stable) \in Selector(Commit)
    BY <2>1, Selectors
  <2> QED BY <2>2 DEF Workload, Selecting
<1>2. NewRevision(w, image) \in Workload(Commit)
  BY DEF Workload, NewRevision
<1>3. Candidate(w, revision, image) \in Workload(Commit)
  BY DEF Workload, Candidate
<1>4. CanUndo(w) => Undone(w) \in Workload(Commit)
  BY DEF Workload, CanUndo, Undone
<1>5. Restarted(w) \in Workload(Commit) /\ [w EXCEPT !.template = image] \in Workload(Commit)
  BY DEF Workload, Restarted
<1> QED BY <1>1, <1>2, <1>3, <1>4, <1>5 DEF Up

LEMMA DeletedTyped ==
  ASSUME NEW w \in Workload(Commit), NEW revision
  PROVE  Deleted(w, revision) \in Workload(Commit)
BY DEF Workload, Deleted

(* What a command brings up has the image it is to run, leaves the         *)
(* selector of the Service as stable as it was, and keeps the image before.*)
LEMMA BroughtUp ==
  ASSUME NEW w \in Workload(Commit), NEW image \in Commit
  PROVE  /\ Up(w, image).template = image
         /\ w.selector = Stable => Up(w, image).selector = Stable
         /\ w.template # image => Up(w, image).past = w.template
BY Selectors DEF Workload, Up, Selecting, NewRevision

(* It leaves the candidates and the revision that the Service selects.     *)
LEMMA UpServed ==
  ASSUME NEW w \in Workload(Commit), NEW image \in Commit
  PROVE  /\ Up(w, image).selector.revision = w.selector.revision
         /\ \A s : s # Stable => Serving(Under(Up(w, image), s)) = Serving(Under(w, s))
<1>1. w.selector \in Selector(Commit)
  BY DEF Workload
<1>2. Up(w, image).selector = Merged(w.selector, Stable)
  BY DEF Up, Selecting, NewRevision, Workload
<1>3. Merged(w.selector, Stable).revision = w.selector.revision
  BY <1>1 DEF Merged, Stable, Selector
<1>4. ASSUME NEW s, s # Stable
      PROVE  Serving(Under(Up(w, image), s)) = Serving(Under(w, s))
  <2>1. Up(w, image).candidates = w.candidates
    BY DEF Up, Selecting, NewRevision, Workload
  <2>2. /\ Under(Up(w, image), s).candidates = Up(w, image).candidates
        /\ Under(Up(w, image), s).selector = s
        /\ Under(w, s).candidates = w.candidates /\ Under(w, s).selector = s
    BY DEF Under, Up, Selecting, NewRevision, Workload
  <2> QED BY <1>4, <2>1, <2>2 DEF Serving
<1> QED BY <1>2, <1>3, <1>4

(* Steps                                                                   *)

(* What a step of one environment does to the others.                      *)
Frame(e) ==
  /\ UNCHANGED configuration
  /\ \A f \in Env \ {e} :
       /\ work'[f] = work[f] /\ schema'[f] = schema[f]
       /\ \/ op'[f] = op[f] /\ (HeadCommit' = HeadCommit \/ op[f].at = "idle")
          \/ op'[f] = [op[f] EXCEPT !.moved = TRUE]

LEMMA Other ==
  ASSUME IInv, NEW e \in Env, Frame(e), NEW f \in Env \ {e}
  PROVE  EnvInv(f)'
<1>0. /\ EnvInv(f) /\ op[f] \in Operation /\ UNCHANGED configuration
      /\ work'[f] = work[f] /\ schema'[f] = schema[f]
      /\ \/ op'[f] = op[f] /\ (HeadCommit' = HeadCommit \/ op[f].at = "idle")
         \/ op'[f] = [op[f] EXCEPT !.moved = TRUE]
  BY DEF IInv, Types, Frame
<1> USE DEF configuration
<1>1. Shape(op[f])'
  BY <1>0 DEF EnvInv, Shape, Operation, Progressive
<1>2. Data(op[f], schema[f])'
  BY <1>0 DEF EnvInv, Shape, Data, Updated, Recovering, Succeeding, Operation, Compose
<1>3. Served(op[f], work[f])'
  BY <1>0 DEF EnvInv, Served, Operation, Progressive, Rolling
<1>4. Runs(op[f], work[f])'
  BY <1>0 DEF EnvInv, Shape, Runs, Succeeding, Operation, Progressive
<1> QED BY <1>1, <1>2, <1>3, <1>4 DEF EnvInv

(* A step that sets the command of one environment only.                   *)
LEMMA SetFrame ==
  ASSUME Types, NEW e \in Env, NEW o \in Operation, Set(e, o)
  PROVE  op' \in [Env -> Operation] /\ op'[e] = o /\ \A f \in Env \ {e} : op'[f] = op[f]
BY DEF Types, Set

LEMMA MoveFrame ==
  ASSUME Types, NEW e \in Env, NEW o \in Operation, Move(e, o)
  PROVE  /\ op' \in [Env -> Operation] /\ op'[e] = o
         /\ \A f \in Env \ {e} :
              \/ op'[f] = op[f] /\ op[f].at = "idle"
              \/ op'[f] = [op[f] EXCEPT !.moved = TRUE]
<1>1. \A p \in Operation : [p EXCEPT !.moved = TRUE] \in Operation
  BY DEF Operation
<1> QED BY <1>1 DEF Types, Move

(* What a step has to show.                                                *)
Kept(e) == Types' /\ EnvInv(e)' /\ Frame(e)

LEMMA OpTyped ==
  ASSUME IInv, NEW e \in Env
  PROVE  /\ op[e] \in Operation /\ work[e] \in Workload(Commit) /\ schema[e] \in Commit \cup {Mixed}
         /\ work[e].selector \in Selector(Commit) /\ EnvInv(e)
BY DEF IInv, Types, Workload

-----------------------------------------------------------------------------
(* Beginning a command                                                     *)

Less == {ss \in Nat \X Nat : ss[1] < ss[2]}

LEMMA LessWellFounded == IsWellFoundedOn(Less, Nat)
BY NatLessThanWellFounded DEF Less, OpToRel

(* Of some positions in a sequence one is the last.                        *)
LEMMA Largest ==
  ASSUME NEW n \in Nat, NEW S \in SUBSET (1..n), S # {}
  PROVE  \E i \in S : \A j \in S : j <= i
<1> DEFINE T == {k \in Nat : k <= n /\ n - k \in S}
<1>1. T \subseteq Nat /\ T # {}
  <2>1. PICK i \in S : TRUE
    OBVIOUS
  <2>2. n - i \in Nat /\ n - (n - i) = i
    BY <2>1
  <2> QED BY <2>1, <2>2
<1>2. PICK m \in T : \A k \in T : ~(<<k, m>> \in Less)
  <2> HIDE DEF T
  <2> QED BY <1>1, LessWellFounded, WFMin
<1>3. ASSUME NEW j \in S
      PROVE  j <= n - m
  <2>1. n - j \in T /\ n - j \in Nat /\ j \in Nat /\ m \in Nat
    <3>1. n - j \in Nat /\ n - (n - j) = j /\ j \in Nat
      OBVIOUS
    <3> QED BY <3>1
  <2>2. ~(n - j < m)
    BY <1>2, <2>1 DEF Less
  <2> QED BY <2>1, <2>2
<1> QED BY <1>3

LEMMA PreviousTyped ==
  ASSUME Types, NEW e \in Env, PreviousSuccesses(e) # {}
  PROVE  PreviousSuccess(e) \in Entry
<1> DEFINE before == PreviousSuccesses(e)
           last == CHOOSE i \in before : \A j \in before : j <= i
<1>1. records[e] \in Seq(Entry) /\ Len(records[e]) \in Nat
  BY DEF Types
<1>2. before \in SUBSET (1..Len(records[e]))
  BY <1>1 DEF PreviousSuccesses
<1>3. \E i \in before : \A j \in before : j <= i
  <2> HIDE DEF before
  <2> QED BY <1>1, <1>2, Largest DEF before
<1>4. last \in before
  BY <1>3
<1>5. PreviousSuccess(e) = records[e][last]
  BY DEF PreviousSuccess
<1>6. records[e][last] \in Entry
  <2> HIDE DEF last
  <2> QED BY <1>1, <1>2, <1>4
<1> QED BY <1>5, <1>6

(* Serving images are commits.                                             *)
LEMMA ServingTyped ==
  ASSUME NEW w \in Workload(Commit)
  PROVE  Serving(w) \subseteq Commit
BY DEF Workload, Serving

LEMMA StartKept ==
  ASSUME IInv, NEW e \in Env, NEW kind \in {"deploy", "promote", "rollback"},
         NEW pc \in {"backup", "checkout"}, NEW target \in Commit \cup {None},
         NEW label \in Commit,
         kind = "promote" => pc = "backup",
         kind = "rollback" => target \in Commit /\ pc = "checkout",
         kind # "rollback" => label = HeadCommit,
         Start(e, kind, pc, target, label)
  PROVE  Kept(e)
<1> DEFINE n == [Idle EXCEPT !.at = pc, !.kind = kind, !.image = HeadCommit, !.label = label,
                             !.target = target, !.was = Serving(work[e])]
<1>0. Types /\ HeadCommit \in Commit /\ Serving(work[e]) \in SUBSET Commit
  BY OpTyped, HeadTyped, ServingTyped DEF IInv
<1>1. n \in Operation
  <2>1. pc \in Location /\ kind \in Kind /\ HeadCommit \in Commit \cup {None}
    BY <1>0 DEF Location, Kind
  <2> QED BY <1>0, <2>1, IdleTyped DEF Operation
<1>2. op' \in [Env -> Operation] /\ op'[e] = n /\ \A f \in Env \ {e} : op'[f] = op[f]
  BY <1>0, <1>1, SetFrame DEF Start
<1>3. /\ UNCHANGED <<configuration, origin, git, work, schema, records, faults, crashes>>
      /\ runs' = runs + 1 /\ runs < MaxRuns
  BY DEF Start
<1>4. Types'
  <2>1. runs' \in 0..MaxRuns
    BY <1>0, <1>3, Constants DEF Types
  <2> QED BY <1>0, <1>2, <1>3, <2>1 DEF Types, configuration, git
<1>5. HeadCommit' = HeadCommit
  BY <1>3 DEF HeadCommit, git
<1>6. Frame(e)
  BY <1>2, <1>3, <1>5 DEF Frame
<1>7. EnvInv(e)'
  <2>1. /\ n.at = pc /\ n.kind = kind /\ n.image = HeadCommit /\ n.target = target /\ n.was = Serving(work[e])
        /\ n.saved = None /\ ~n.state /\ ~n.ok /\ ~n.undone /\ ~n.db /\ n.label = label /\ ~n.promoted
    BY IdleTyped DEF Operation
  <2>2. ~Progressive => work[e].selector = Stable
    BY OpTyped DEF EnvInv, Served
  <2> HIDE DEF n
  <2>3. Shape(n) /\ Data(n, schema[e]) /\ Served(n, work[e])
    BY <1>0, <2>1, <2>2 DEF Shape, Data, Updated, Recovering, Succeeding, Served, Early
  <2>4. Runs(n, work[e])
    BY <2>1 DEF Runs, Succeeding
  <2>5. work'[e] = work[e] /\ schema'[e] = schema[e] /\ UNCHANGED configuration /\ HeadCommit' = HeadCommit
    BY <1>3, <1>5
  <2> QED BY <1>2, <2>3, <2>4, <2>5 DEF EnvInv, Shape, Data, Updated, Recovering, Succeeding,
      Served, Runs, Progressive, Rolling, Compose, configuration
<1> QED BY <1>4, <1>6, <1>7 DEF Kept

-----------------------------------------------------------------------------
(* Steps of a command                                                      *)

LEMMA Counters ==
  ASSUME Types
  PROVE  /\ UNCHANGED faults \/ Faulty => faults' \in 0..MaxFaults
         /\ UNCHANGED runs => runs' \in 0..MaxRuns
         /\ UNCHANGED crashes => crashes' \in 0..MaxCrashes
<1>1. Faulty => faults' \in 0..MaxFaults
  BY Constants DEF Types, Faulty
<1> QED BY <1>1 DEF Types

(* One that leaves HEAD where it is.                                       *)
LEMMA OwnKept ==
  ASSUME IInv, NEW e \in Env,
         NEW n \in Operation, NEW w \in Workload(Commit), NEW s \in Commit \cup {Mixed},
         Set(e, n),
         work' = [work EXCEPT ![e] = w] \/ (work' = work /\ w = work[e]),
         schema' = [schema EXCEPT ![e] = s] \/ (schema' = schema /\ s = schema[e]),
         UNCHANGED <<configuration, origin, git>>, records' \in [Env -> Seq(Entry)],
         runs' \in 0..MaxRuns, faults' \in 0..MaxFaults, crashes' \in 0..MaxCrashes,
         Shape(n), Data(n, s), Served(n, w), Runs(n, w)
  PROVE  Kept(e)
<1>0. Types
  BY DEF IInv
<1>1. op' \in [Env -> Operation] /\ op'[e] = n /\ \A f \in Env \ {e} : op'[f] = op[f]
  BY <1>0, SetFrame
<1>2. work' \in [Env -> Workload(Commit)] /\ work'[e] = w /\ \A f \in Env \ {e} : work'[f] = work[f]
  BY <1>0 DEF Types
<1>3. schema' \in [Env -> Commit \cup {Mixed}] /\ schema'[e] = s /\ \A f \in Env \ {e} : schema'[f] = schema[f]
  BY <1>0 DEF Types
<1>4. HeadCommit' = HeadCommit
  BY DEF HeadCommit, git
<1>5. Types'
  BY <1>0, <1>1, <1>2, <1>3 DEF Types, configuration, git
<1>6. Frame(e)
  BY <1>1, <1>2, <1>3, <1>4 DEF Frame
<1>7. EnvInv(e)'
  BY <1>1, <1>2, <1>3, <1>4 DEF EnvInv, Shape, Data, Updated, Recovering, Succeeding, Served, Runs,
      Progressive, Rolling, Compose, configuration
<1> QED BY <1>5, <1>6, <1>7 DEF Kept

(* A command that recovers.                                                *)
Proceeding == {"backup", "checkout", "pull", "merge", "begin", "update", "promote", "verify",
               "finalize", "cleanup", "undo"}

LEMMA Recovered ==
  ASSUME NEW o \in Operation, NEW w, NEW s, NEW e,
         Shape(o), Data(o, s), Served(o, w), o.at \in Proceeding, ~(o.kind = "promote" /\ o.at = "backup")
  PROVE  /\ Recovery(e, o) \in Operation
         /\ Shape(Recovery(e, o)) /\ Data(Recovery(e, o), s)
         /\ Served(Recovery(e, o), w) /\ Runs(Recovery(e, o), w)
<1> DEFINE n == Recovery(e, o)
<1>1. n = [o EXCEPT !.at = IF o.kind = "rollback" THEN "record" ELSE "undo"]
  BY DEF Recovery
<1>2. n \in Operation
  BY <1>1 DEF Operation, Location
<1>3. ~o.ok /\ ~o.undone
  BY DEF Shape, Proceeding
<1>4. n.at = (IF o.kind = "rollback" THEN "record" ELSE "undo")
  BY <1>1 DEF Operation
<1>5. /\ n.image = o.image /\ n.label = o.label /\ n.state = o.state /\ n.revision = o.revision /\ n.db = o.db
      /\ n.kind = o.kind /\ n.saved = o.saved /\ n.target = o.target /\ n.ok = o.ok
      /\ n.undone = o.undone /\ n.changed = o.changed /\ n.was = o.was
      /\ n.prev = o.prev /\ n.promoted = o.promoted /\ n.missed = o.missed /\ n.moved = o.moved
  BY <1>1 DEF Operation
<1> HIDE DEF n
<1>6. Shape(n) /\ Data(n, s)
  BY <1>3, <1>4, <1>5 DEF Shape, Data, Updated, Recovering, Succeeding, Proceeding, Early
<1>7. Served(n, w)
  BY <1>3, <1>4, <1>5 DEF Shape, Served, Proceeding, Early
<1>8. Runs(n, w)
  BY <1>3, <1>4, <1>5 DEF Runs, Succeeding
<1> QED BY <1>2, <1>6, <1>7, <1>8 DEF n

(* A step fails: what the command knows by then still holds, and it        *)
(* recovers.                                                               *)
LEMMA FailedKept ==
  ASSUME IInv, NEW e \in Env,
         NEW o \in Operation, NEW w \in Workload(Commit), NEW s \in Commit \cup {Mixed},
         Shape(o), Data(o, s), Served(o, w), o.at \in Proceeding, ~(o.kind = "promote" /\ o.at = "backup"),
         Set(e, Recovery(e, o)), UNCHANGED faults \/ Faulty,
         work' = [work EXCEPT ![e] = w] \/ (work' = work /\ w = work[e]),
         schema' = [schema EXCEPT ![e] = s] \/ (schema' = schema /\ s = schema[e]),
         UNCHANGED <<configuration, origin, git, records, runs, crashes>>
  PROVE  Kept(e)
<1>1. /\ records' \in [Env -> Seq(Entry)]
      /\ runs' \in 0..MaxRuns /\ faults' \in 0..MaxFaults /\ crashes' \in 0..MaxCrashes
  BY Counters DEF IInv, Types
<1>2. /\ Recovery(e, o) \in Operation
      /\ Shape(Recovery(e, o)) /\ Data(Recovery(e, o), s)
      /\ Served(Recovery(e, o), w) /\ Runs(Recovery(e, o), w)
  BY Recovered
<1>3. UNCHANGED <<configuration, origin, git>>
  OBVIOUS
<1> QED BY <1>1, <1>2, <1>3, OwnKept

LEMMA BackupKept ==
  ASSUME IInv, NEW e \in Env, Backup(e)
  PROVE  Kept(e)
<1> DEFINE n == [op[e] EXCEPT !.at = "checkout", !.saved = IF schema[e] = Mixed THEN MaxCommit + 1
                                                          ELSE schema[e]]
<1>0. /\ op[e] \in Operation /\ work[e] \in Workload(Commit) /\ schema[e] \in Commit \cup {Mixed}
      /\ EnvInv(e) /\ op[e].at = "backup" /\ Types /\ op[e].kind # "rollback"
      /\ UNCHANGED <<configuration, origin, git, records, runs, crashes>> /\ UNCHANGED <<work, schema>>
      /\ UNCHANGED faults \/ Faulty
  BY OpTyped DEF Backup, At, IInv, EnvInv, Shape
<1>1. CASE Set(e, n)
  <2>1. n.saved \in 1..MaxCommit + 1 /\ n.saved # None /\ schema[e] = Decoded(n.saved)
    BY <1>0, Constants DEF Operation, Mixed, None, Decoded, Commit
  <2>2. n \in Operation
    <3>1. \A v \in 0..MaxCommit + 1 : [op[e] EXCEPT !.at = "checkout", !.saved = v] \in Operation
      BY <1>0 DEF Operation, Location
    <3>2. (IF schema[e] = Mixed THEN MaxCommit + 1 ELSE schema[e]) \in 0..MaxCommit + 1
      BY <1>0, Constants DEF Commit, Mixed
    <3> QED BY <3>1, <3>2
  <2>3. /\ n.at = "checkout" /\ n.image = op[e].image /\ n.label = op[e].label /\ n.kind = op[e].kind /\ n.was = op[e].was
        /\ n.state = op[e].state /\ n.db = op[e].db /\ n.ok = op[e].ok /\ n.undone = op[e].undone
        /\ n.promoted = op[e].promoted
    BY <1>0 DEF Operation
  <2> HIDE DEF n
  <2>4. Shape(n) /\ Data(n, schema[e])
    BY <1>0, <2>1, <2>3 DEF EnvInv, Shape, Data, Updated, Recovering, Succeeding, Early
  <2>5. Served(n, work[e]) /\ Runs(n, work[e])
    BY <1>0, <2>3 DEF EnvInv, Shape, Served, Runs, Early, Succeeding
  <2>6. /\ records' \in [Env -> Seq(Entry)]
        /\ runs' \in 0..MaxRuns /\ faults' \in 0..MaxFaults /\ crashes' \in 0..MaxCrashes
    BY <1>0, Counters DEF Types
  <2> QED BY <1>0, <1>1, <2>2, <2>4, <2>5, <2>6, OwnKept
<1>2. CASE Set(e, Idle)
  <2>1. ~Progressive => work[e].selector = Stable
    BY <1>0 DEF EnvInv, Served
  <2>2. Idle \in Operation /\ Shape(Idle) /\ Data(Idle, schema[e]) /\ Served(Idle, work[e]) /\ Runs(Idle, work[e])
    BY <2>1, IdleTyped, IdleKept
  <2>6. /\ records' \in [Env -> Seq(Entry)]
        /\ runs' \in 0..MaxRuns /\ faults' \in 0..MaxFaults /\ crashes' \in 0..MaxCrashes
    BY <1>0, Counters DEF Types
  <2> QED BY <1>0, <1>2, <2>2, <2>6, OwnKept
<1>3. CASE Set(e, Recovery(e, op[e])) /\ op[e].kind # "promote"
  BY <1>0, <1>3, FailedKept DEF EnvInv, Proceeding
<1> QED BY <1>1, <1>2, <1>3 DEF Backup, Is

(* One that moves HEAD marks the others.                                   *)
LEMMA MovedKept ==
  ASSUME IInv, NEW e \in Env,
         NEW n \in Operation, NEW w \in Workload(Commit),
         Move(e, n),
         work' = [work EXCEPT ![e] = w] \/ (work' = work /\ w = work[e]),
         branch' \in Env \cup {Detached}, local' \in [Env -> Commit], detached' \in Commit,
         UNCHANGED <<configuration, origin, schema, records, runs, crashes>>,
         UNCHANGED faults \/ Faulty,
         Shape(n), Data(n, schema[e]), Served(n, w), n.at \notin {"update", "promote", "verify", "finalize", "cleanup"},
         ~n.ok, n.kind # "rollback"
  PROVE  Kept(e)
<1>0. Types
  BY DEF IInv
<1>1. /\ op' \in [Env -> Operation] /\ op'[e] = n
      /\ \A f \in Env \ {e} :
           (op'[f] = op[f] /\ op[f].at = "idle") \/ op'[f] = [op[f] EXCEPT !.moved = TRUE]
  BY <1>0, MoveFrame
<1>2. work' \in [Env -> Workload(Commit)] /\ work'[e] = w /\ \A f \in Env \ {e} : work'[f] = work[f]
  BY <1>0 DEF Types
<1>3. runs' \in 0..MaxRuns /\ faults' \in 0..MaxFaults /\ crashes' \in 0..MaxCrashes
  BY <1>0, Counters
<1>4. Types'
  BY <1>0, <1>1, <1>2, <1>3 DEF Types, configuration
<1>5. Frame(e)
  BY <1>1, <1>2 DEF Frame
<1>6. schema'[e] = schema[e] /\ UNCHANGED configuration
  OBVIOUS
<1>7. Runs(op[e], work[e])'
  BY <1>1 DEF Runs, Succeeding
<1>8. EnvInv(e)'
  BY <1>1, <1>2, <1>6, <1>7 DEF EnvInv, Shape, Data, Updated, Recovering, Succeeding, Served,
      Progressive, Rolling, Compose, configuration
<1> QED BY <1>4, <1>5, <1>8 DEF Kept

(* git checkout, of a commit by a rollback.                                *)
LEMMA CheckoutKept ==
  ASSUME IInv, NEW e \in Env, Checkout(e)
  PROVE  Kept(e)
<1>0. /\ op[e] \in Operation /\ work[e] \in Workload(Commit) /\ schema[e] \in Commit \cup {Mixed}
      /\ EnvInv(e) /\ op[e].at = "checkout" /\ Types
      /\ UNCHANGED <<configuration, origin, work, schema, records, runs, crashes>>
      /\ local[e] \in Commit /\ local \in [Env -> Commit] /\ detached \in Commit
  BY OpTyped DEF Checkout, At, IInv, Types
<1> DEFINE pc == CASE Is(e, "deploy") -> "pull" [] Is(e, "promote") -> "merge" [] OTHER -> "begin"
           base == IF Is(e, "promote") THEN local[e] ELSE None
           n == [op[e] EXCEPT !.at = pc, !.base = base]
<1>1. CASE Faulty /\ Set(e, Recovery(e, op[e])) /\ UNCHANGED git
  BY <1>0, <1>1, FailedKept DEF EnvInv, Proceeding
<1>2. CASE /\ IF Is(e, "rollback") THEN branch' = Detached /\ detached' = op[e].target
              ELSE branch' = e /\ UNCHANGED detached
           /\ Move(e, n) /\ UNCHANGED <<local, faults>>
  <2>1. pc \in Early /\ pc \in Location /\ base \in Commit \cup {None}
    BY <1>0 DEF Early, Location
  <2>2. n \in Operation
    <3> HIDE DEF pc, base
    <3> QED BY <1>0, <2>1 DEF Operation
  <2>3. /\ n.at = pc /\ n.image = op[e].image /\ n.label = op[e].label /\ n.kind = op[e].kind /\ n.was = op[e].was
        /\ n.state = op[e].state /\ n.db = op[e].db /\ n.ok = op[e].ok /\ n.undone = op[e].undone
        /\ n.saved = op[e].saved /\ n.target = op[e].target /\ n.promoted = op[e].promoted
    BY <1>0 DEF Operation
  <2>4. op[e].kind = "rollback" => pc = "begin"
    BY DEF Is
  <2> HIDE DEF n, pc
  <2>5. Shape(n) /\ Data(n, schema[e])
    BY <1>0, <2>1, <2>3, <2>4 DEF EnvInv, Shape, Data, Updated, Recovering, Succeeding, Early
  <2>6. Served(n, work[e])
    BY <1>0, <2>1, <2>3 DEF EnvInv, Shape, Served, Early
  <2>7. ~n.ok /\ n.at \notin {"update", "promote", "verify", "finalize", "cleanup"}
    BY <1>0, <2>1, <2>3 DEF EnvInv, Shape, Early
  <2>8. CASE op[e].kind # "rollback"
    <3>1. branch' \in Env /\ local' \in [Env -> Commit] /\ detached' \in Commit
      BY <1>0, <1>2, <2>8 DEF Is
    <3> QED BY <1>0, <1>2, <2>2, <2>3, <2>5, <2>6, <2>7, <2>8, <3>1, MovedKept
  <2>9. CASE op[e].kind = "rollback"
    <3>0. branch' = Detached /\ detached' = op[e].target /\ op[e].target \in Commit
      BY <1>0, <1>2, <2>9 DEF Is, EnvInv, Shape
    <3>1. HeadCommit' = n.target
      BY <2>3, <3>0 DEF HeadCommit
    <3>2. /\ op' \in [Env -> Operation] /\ op'[e] = n
          /\ \A f \in Env \ {e} :
               (op'[f] = op[f] /\ op[f].at = "idle") \/ op'[f] = [op[f] EXCEPT !.moved = TRUE]
      BY <1>0, <1>2, <2>2, MoveFrame
    <3>3. runs' \in 0..MaxRuns /\ faults' \in 0..MaxFaults /\ crashes' \in 0..MaxCrashes
      BY <1>0, <1>2, Counters
    <3>4. Types'
      BY <1>0, <1>2, <3>0, <3>2, <3>3 DEF Types, configuration
    <3>5. Frame(e)
      BY <1>0, <3>2 DEF Frame
    <3>6. Runs(op[e], work[e])'
      BY <2>7, <3>1, <3>2 DEF Runs, Succeeding
    <3>7. EnvInv(e)'
      BY <1>0, <2>3, <2>5, <2>6, <2>9, <3>2, <3>6 DEF EnvInv, Shape, Data, Updated, Recovering,
          Succeeding, Served, Progressive, Rolling, Compose, configuration
    <3> QED BY <3>4, <3>5, <3>7 DEF Kept
  <2> QED BY <2>8, <2>9
<1> QED BY <1>1, <1>2 DEF Checkout

(* HEAD, or the branch it is on, comes to another commit.                  *)
LEMMA HeadMoved ==
  ASSUME Types, NEW c \in Commit, HeadAt(c)
  PROVE  branch' \in Env \cup {Detached} /\ local' \in [Env -> Commit] /\ detached' \in Commit
BY DEF Types, HeadAt

LEMMA LaterTyped ==
  ASSUME NEW c \in Commit, NEW d \in Commit
  PROVE  Later(c, d) \in Commit
BY DEF Later

(* git pull or git merge.                                                  *)
LEMMA PullMergeKept ==
  ASSUME IInv, NEW e \in Env, Pull(e) \/ Merge(e)
  PROVE  Kept(e)
<1>0. /\ op[e] \in Operation /\ work[e] \in Workload(Commit) /\ schema[e] \in Commit \cup {Mixed}
      /\ EnvInv(e) /\ Types /\ op[e].kind # "rollback" /\ op[e].at \in {"pull", "merge"}
      /\ HeadCommit \in Commit /\ local[Source] \in Commit
      /\ UNCHANGED <<configuration, origin, work, schema, records, runs, crashes>>
  BY OpTyped, HeadTyped, Constants DEF IInv, EnvInv, Shape, Types, Pull, Merge, At
<1>1. CASE (UNCHANGED faults \/ Faulty) /\ Set(e, Recovery(e, op[e])) /\ UNCHANGED git
  BY <1>0, <1>1, FailedKept DEF EnvInv, Proceeding
<1>2. ASSUME NEW c \in Commit, HeadAt(c), UNCHANGED faults, NEW b \in BOOLEAN,
             Move(e, [op[e] EXCEPT !.at = "begin", !.service = b])
      PROVE  Kept(e)
  <2> DEFINE n == [op[e] EXCEPT !.at = "begin", !.service = b]
  <2>1. branch' \in Env \cup {Detached} /\ local' \in [Env -> Commit] /\ detached' \in Commit
    BY <1>0, <1>2, HeadMoved
  <2>2. /\ n \in Operation /\ n.at = "begin" /\ n.image = op[e].image /\ n.label = op[e].label
        /\ n.kind = op[e].kind /\ n.was = op[e].was /\ n.state = op[e].state /\ n.db = op[e].db
        /\ n.ok = op[e].ok /\ n.undone = op[e].undone /\ n.saved = op[e].saved
        /\ n.target = op[e].target /\ n.promoted = op[e].promoted
    BY <1>0 DEF Operation, Location
  <2> HIDE DEF n
  <2>3. Shape(n) /\ Data(n, schema[e]) /\ ~n.ok
    BY <1>0, <2>2 DEF EnvInv, Shape, Data, Updated, Recovering, Succeeding, Early
  <2>4. Served(n, work[e])
    BY <1>0, <2>2 DEF EnvInv, Shape, Served, Early
  <2> QED BY <1>0, <1>2, <2>1, <2>2, <2>3, <2>4, MovedKept DEF n
<1>3. CASE Pull(e)
  <2>1. CASE /\ branch # Detached /\ HeadAt(Later(HeadCommit, origin[branch]))
             /\ Move(e, [op[e] EXCEPT !.at = "begin", !.service = TRUE]) /\ UNCHANGED faults
    <3>1. Later(HeadCommit, origin[branch]) \in Commit
      BY <1>0, <2>1, LaterTyped DEF Types
    <3> QED BY <1>2, <2>1, <3>1
  <2> QED BY <1>1, <1>3, <2>1 DEF Pull
<1>4. CASE Merge(e)
  <2>1. CASE /\ HeadAt(Later(HeadCommit, local[Source])) /\ UNCHANGED faults
             /\ Move(e, [op[e] EXCEPT !.at = "begin"])
    <3>1. Later(HeadCommit, local[Source]) \in Commit
      BY <1>0, LaterTyped
    <3>2. [op[e] EXCEPT !.at = "begin"] = [op[e] EXCEPT !.at = "begin", !.service = op[e].service]
          /\ op[e].service \in BOOLEAN
      BY <1>0 DEF Operation
    <3> QED BY <1>2, <2>1, <3>1, <3>2
  <2> QED BY <1>1, <1>4, <2>1 DEF Merge
<1> QED BY <1>3, <1>4

-----------------------------------------------------------------------------
(* The rollout                                                             *)

(* A strategy other than recreate is one of Kubernetes.                    *)
LEMMA Strategies ==
  ASSUME Types
  PROVE  /\ Progressive \/ Rolling => runtime = "kubernetes" /\ ~Compose
         /\ ~(Progressive /\ Rolling)
         /\ runtime = "compose_image" => Compose /\ ~Mounted /\ ~Progressive
         /\ runtime = "kubernetes" => ~Compose
BY DEF Types, Supported, Progressive, Rolling, Compose, Mounted

LEMMA BroughtTyped ==
  ASSUME Types, NEW e \in Env, work[e] \in Workload(Commit), op[e].image \in Commit
  PROVE  /\ Brought(e) \in Workload(Commit)
         /\ RestartedService(e) \in Workload(Commit)
         /\ work[e].selector = Stable => Brought(e).selector = Stable
         /\ RestartedService(e).selector = work[e].selector
         /\ runtime = "compose_image" => Brought(e).template = HeadCommit
         /\ runtime = "kubernetes" => Brought(e) = Up(work[e], op[e].image)
<1>1. HeadCommit \in Commit /\ Stable \in Selector(Commit)
  BY HeadTyped DEF Stable, Selector
<1>2. Brought(e) \in Workload(Commit) /\ RestartedService(e) \in Workload(Commit)
  BY <1>1, WorkloadTyped DEF Brought, RestartedService
<1>3. (work[e].selector = Stable => Brought(e).selector = Stable) /\ RestartedService(e).selector = work[e].selector
  BY <1>1, BroughtUp DEF Brought, RestartedService, Restarted, Workload
<1>4. runtime = "compose_image" => Brought(e).template = HeadCommit
  BY Strategies DEF Brought, Workload
<1>5. runtime = "kubernetes" => Brought(e) = Up(work[e], op[e].image)
  BY Strategies DEF Brought
<1> QED BY <1>2, <1>3, <1>4, <1>5

(* A candidate that the Service does not select serves nothing.            *)
LEMMA CandidateServed ==
  ASSUME NEW w \in Workload(Commit), NEW r \in Commit, NEW image \in Commit, w.selector.revision # r
  PROVE  Serving(Candidate(w, r, image)) = Serving(w)
<1>1. CandidateSelector(r) # w.selector
  BY DEF CandidateSelector
<1>2. /\ Candidate(w, r, image).selector = w.selector /\ Candidate(w, r, image).template = w.template
      /\ Candidate(w, r, image).candidates = {c \in w.candidates : c.revision # r}
                                             \cup {[revision |-> r, image |-> image]}
  BY DEF Candidate, Workload
<1>3. {d \in Candidate(w, r, image).candidates : CandidateSelector(d.revision) = w.selector}
        = {d \in w.candidates : CandidateSelector(d.revision) = w.selector}
  BY <1>1, <1>2
<1> QED BY <1>2, <1>3 DEF Serving

LEMMA DeletedServed ==
  ASSUME NEW w \in Workload(Commit), NEW r \in Commit, w.selector.revision # r
  PROVE  Serving(Deleted(w, r)) = Serving(w)
<1>1. CandidateSelector(r) # w.selector
  BY DEF CandidateSelector
<1>2. /\ Deleted(w, r).selector = w.selector /\ Deleted(w, r).template = w.template
      /\ Deleted(w, r).candidates = {c \in w.candidates : c.revision # r}
  BY DEF Deleted, Workload
<1>3. {d \in Deleted(w, r).candidates : CandidateSelector(d.revision) = w.selector}
        = {d \in w.candidates : CandidateSelector(d.revision) = w.selector}
  BY <1>1, <1>2
<1> QED BY <1>2, <1>3 DEF Serving

LEMMA RecoverySame ==
  ASSUME NEW o \in Operation, NEW e, NEW pc
  PROVE  Recovery(e, [o EXCEPT !.at = pc]) = Recovery(e, o)
BY DEF Operation, Recovery

LEMMA RolloutTyped ==
  ASSUME NEW e \in Env, op[e] \in Operation, HeadCommit \in Commit, work[e].selector \in Selector(Commit)
  PROVE  Rollout(e) \in Operation
BY DEF Operation, Rollout

(* What the adapter returns of a rollout that it began, or failed to.      *)
Began(e, v) == [Rollout(e) EXCEPT !.at = "update", !.changed = v.template # work[e].template]

LEMMA Rewritten ==
  ASSUME NEW r \in Operation, NEW c \in BOOLEAN
  PROVE  /\ [r EXCEPT !.changed = c] \in Operation
         /\ [r EXCEPT !.at = "update", !.changed = c] \in Operation
         /\ [r EXCEPT !.at = "update", !.changed = c] = [[r EXCEPT !.changed = c] EXCEPT !.at = "update"]
<1>1. [r EXCEPT !.changed = c] \in Operation
  BY DEF Operation
<1>3. [r EXCEPT !.at = "update", !.changed = c] \in Operation
  <2>1. "update" \in Location
    BY DEF Location
  <2> QED BY <2>1 DEF Operation
<1>2. [r EXCEPT !.at = "update", !.changed = c] = [[r EXCEPT !.changed = c] EXCEPT !.at = "update"]
  BY DEF Operation
<1> QED BY <1>1, <1>2, <1>3

LEMMA RolloutKept ==
  ASSUME IInv, NEW e \in Env, op[e].at = "begin", op[e].kind # "rollback", NEW v \in {work[e], Begun(e)}
  PROVE  /\ v \in Workload(Commit) /\ Began(e, v) \in Operation
         /\ Began(e, v).at = "update" /\ Began(e, v).kind = op[e].kind /\ Began(e, v).image = op[e].image /\ Began(e, v).label = op[e].label
         /\ Shape(Began(e, v)) /\ Data(Began(e, v), schema[e]) /\ Served(Began(e, v), v)
<1> DEFINE m == Began(e, v)
<1>0. /\ op[e] \in Operation /\ work[e] \in Workload(Commit) /\ schema[e] \in Commit \cup {Mixed}
      /\ EnvInv(e) /\ Types /\ HeadCommit \in Commit /\ op[e].image \in Commit
      /\ work[e].selector \in Selector(Commit)
  BY OpTyped, HeadTyped DEF IInv, EnvInv, Shape
<1>1. Begun(e) = IF Progressive THEN Candidate(work[e], HeadCommit, op[e].image) ELSE Brought(e)
  BY DEF Begun, Is
<1>2. v \in Workload(Commit)
  BY <1>0, <1>1, WorkloadTyped, BroughtTyped
<1>3. m \in Operation
  <2>1. Rollout(e) \in Operation
    BY <1>0, RolloutTyped
  <2> QED BY <2>1, Rewritten DEF Began
<1>4. /\ m.at = "update" /\ m.image = op[e].image /\ m.label = op[e].label /\ m.kind = op[e].kind /\ m.was = op[e].was
      /\ m.db = op[e].db /\ m.ok = op[e].ok /\ m.undone = op[e].undone
      /\ m.saved = op[e].saved /\ m.target = op[e].target
      /\ m.state = TRUE /\ m.revision = HeadCommit /\ m.prev = work[e].selector
      /\ m.promoted = op[e].promoted /\ m.moved = op[e].moved
      /\ m.changed = (v.template # work[e].template)
  <2> DEFINE q(c) ==
        [[op[e] EXCEPT !.revision = HeadCommit, !.prev = work[e].selector, !.state = TRUE]
           EXCEPT !.at = "update", !.changed = c]
      Known(o, c) ==
        /\ o.at = "update" /\ o.image = op[e].image /\ o.label = op[e].label /\ o.kind = op[e].kind /\ o.was = op[e].was
        /\ o.db = op[e].db /\ o.ok = op[e].ok /\ o.undone = op[e].undone
        /\ o.saved = op[e].saved /\ o.target = op[e].target
        /\ o.state = TRUE /\ o.revision = HeadCommit /\ o.prev = work[e].selector
        /\ o.promoted = op[e].promoted /\ o.moved = op[e].moved /\ o.changed = c
  <2>1. \A c : Known(q(c), c)
    BY <1>0 DEF Operation
  <2>2. m = q(v.template # work[e].template)
    BY DEF Began, Rollout
  <2> HIDE DEF q, m
  <2>3. Known(m, v.template # work[e].template)
    <3> HIDE DEF Known
    <3> QED BY <2>1, <2>2, Zenon
  <2> QED BY <2>3, Zenon
<1> HIDE DEF m
<1>5. Shape(m)
  BY <1>0, <1>4 DEF EnvInv, Shape, Early
<1>6. Data(m, schema[e])
  BY <1>0, <1>4 DEF EnvInv, Data, Updated, Recovering, Succeeding
<1>7. op[e].was = Serving(work[e]) /\ (~Progressive => work[e].selector = Stable)
  BY <1>0 DEF EnvInv, Served, Early
<1>8. Served(m, v)
  <2>1. ~Progressive => v.selector = Stable
    BY <1>0, <1>1, <1>7, BroughtTyped
  <2>2. Progressive => v.selector = m.prev /\ ~m.changed
    <3>1. ASSUME Progressive
          PROVE  v.selector = work[e].selector /\ v.template = work[e].template
      BY <1>0, <1>1, <3>1 DEF Candidate, Workload
    <3> QED BY <1>4, <3>1
  <2>3. ASSUME Rolling, m.changed
        PROVE  {v.past} = m.was
    <3>1. v = Up(work[e], op[e].image) /\ v.template # work[e].template
      BY <1>0, <1>1, <1>4, <2>3, Strategies, BroughtTyped
    <3>2. v.past = work[e].template
      <4>1. work[e].template # op[e].image
        BY <1>0, <3>1, BroughtUp
      <4>2. Up(work[e], op[e].image).past = work[e].template
        BY <1>0, <4>1, BroughtUp
      <4> QED BY <3>1, <4>2
    <3>3. work[e].selector = Stable
      BY <1>0, <1>7, <2>3, Strategies
    <3> QED BY <1>4, <1>7, <3>2, <3>3 DEF Serving
  <2>4. ASSUME Progressive, m.prev.revision # m.revision
        PROVE  Serving(Under(v, m.prev)) = m.was
    <3>2. Under(v, m.prev) = v
      BY <1>2, <2>2, <2>4 DEF Under, Workload
    <3>3. Serving(v) = Serving(work[e])
      BY <1>0, <1>1, <1>4, <2>4, CandidateServed
    <3> QED BY <1>4, <1>7, <3>2, <3>3
  <2>5. ~m.promoted
    BY <1>0, <1>4 DEF EnvInv, Shape, Early
  <2> QED BY <1>4, <2>1, <2>2, <2>3, <2>4, <2>5 DEF Served, Early
<1> QED BY <1>2, <1>3, <1>4, <1>5, <1>6, <1>8 DEF m

LEMMA BeginKept ==
  ASSUME IInv, NEW e \in Env, Begin(e)
  PROVE  Kept(e)
<1>0. /\ op[e] \in Operation /\ work[e] \in Workload(Commit) /\ schema[e] \in Commit \cup {Mixed}
      /\ EnvInv(e) /\ Types /\ HeadCommit \in Commit /\ op[e].image \in Commit /\ op[e].at = "begin"
      /\ work[e].selector \in Selector(Commit)
      /\ UNCHANGED <<configuration, origin, git, records, runs, crashes>> /\ UNCHANGED schema
  BY OpTyped, HeadTyped DEF IInv, EnvInv, Shape, Begin, At
<1>1. /\ records' \in [Env -> Seq(Entry)] /\ runs' \in 0..MaxRuns /\ crashes' \in 0..MaxCrashes
      /\ UNCHANGED faults \/ Faulty => faults' \in 0..MaxFaults
  BY <1>0, Counters DEF Types
<1>2. CASE op[e].kind = "rollback"
  <2> DEFINE n == [op[e] EXCEPT !.at = "verify"]
  <2>1. /\ n \in Operation /\ n.at = "verify" /\ n.image = op[e].image /\ n.label = op[e].label /\ n.kind = op[e].kind
        /\ n.was = op[e].was /\ n.db = op[e].db /\ n.ok = op[e].ok /\ n.undone = op[e].undone
        /\ n.saved = op[e].saved /\ n.target = op[e].target /\ n.state = op[e].state /\ n.moved = op[e].moved
    BY <1>0 DEF Operation, Location
  <2>2. Begun(e) = Brought(e)
    BY <1>2 DEF Begun, Is
  <2> HIDE DEF n
  <2>3. Shape(n) /\ Data(n, schema[e])
    BY <1>0, <1>2, <2>1 DEF EnvInv, Shape, Data, Updated, Recovering, Succeeding, Early
  <2>4. ASSUME NEW v \in {work[e], Begun(e)}
        PROVE  v \in Workload(Commit) /\ Served(n, v)
    <3>1. v \in Workload(Commit) /\ (work[e].selector = Stable => v.selector = Stable)
      BY <1>0, <2>2, BroughtTyped
    <3> QED BY <1>0, <1>2, <2>1, <3>1 DEF EnvInv, Shape, Served, Early
  <2>5. CASE Set(e, n) /\ UNCHANGED faults /\ work' = [work EXCEPT ![e] = Begun(e)]
    <3>1. runtime = "compose_image" => Begun(e).template = HeadCommit
      BY <1>0, <2>2, BroughtTyped
    <3>2. runtime = "kubernetes" => Begun(e).template = op[e].image
      BY <1>0, <2>2, BroughtTyped, BroughtUp
    <3>3. Runs(n, Begun(e))
      BY <1>0, <1>2, <2>1, <3>1, <3>2 DEF EnvInv, Shape, Runs, Succeeding
    <3>4. Begun(e) \in Workload(Commit) /\ Served(n, Begun(e))
      BY <2>4
    <3> QED BY <1>0, <1>1, <2>1, <2>3, <2>5, <3>3, <3>4, OwnKept
  <2>6. ASSUME NEW v \in {work[e], Begun(e)}, work' = [work EXCEPT ![e] = v], Faulty, Set(e, Recovery(e, op[e]))
        PROVE  Kept(e)
    <3>1. Recovery(e, op[e]) = Recovery(e, n)
      BY <1>0, RecoverySame DEF n
    <3>2. v \in Workload(Commit) /\ Served(n, v) /\ n.at \in Proceeding /\ n.at # "backup"
      BY <2>1, <2>4 DEF Proceeding
    <3> QED BY <1>0, <2>1, <2>3, <2>6, <3>1, <3>2, FailedKept
  <2> QED BY <1>2, <2>5, <2>6 DEF Begin, Is, n
<1>3. CASE op[e].kind # "rollback"
  <2>1. CASE /\ work' = [work EXCEPT ![e] = Begun(e)] /\ UNCHANGED faults
             /\ Set(e, [Rollout(e) EXCEPT !.at = "update", !.changed = Begun(e).template # work[e].template])
    <3> DEFINE n == Began(e, Begun(e))
    <3>1. /\ Begun(e) \in Workload(Commit) /\ n \in Operation /\ n.at = "update" /\ n.kind = op[e].kind
          /\ n.image = op[e].image /\ n.label = op[e].label /\ Shape(n) /\ Data(n, schema[e]) /\ Served(n, Begun(e))
      BY <1>0, <1>3, RolloutKept
    <3> HIDE DEF n
    <3>2. ~Progressive => Begun(e) = Brought(e)
      BY DEF Begun
    <3>3. runtime = "compose_image" => Begun(e).template = HeadCommit
      BY <1>0, <3>2, BroughtTyped, Strategies
    <3>4. runtime = "kubernetes" /\ ~Progressive => Begun(e).template = op[e].image
      BY <1>0, <3>2, BroughtTyped, BroughtUp
    <3>5. Runs(n, Begun(e))
      BY <1>3, <3>1, <3>3, <3>4 DEF Runs, Succeeding
    <3>6. Set(e, n)
      BY <2>1 DEF n, Began
    <3> QED BY <1>0, <1>1, <2>1, <3>1, <3>5, <3>6, OwnKept
  <2>2. ASSUME NEW v \in {work[e], Begun(e)}, work' = [work EXCEPT ![e] = v], Faulty, ~Compose,
               Set(e, Recovery(e, [Rollout(e) EXCEPT !.changed = v.template # work[e].template]))
        PROVE  Kept(e)
    <3> DEFINE p == [Rollout(e) EXCEPT !.changed = v.template # work[e].template]
               n == Began(e, v)
    <3>1. /\ v \in Workload(Commit) /\ n \in Operation /\ n.at = "update" /\ n.kind = op[e].kind
          /\ Shape(n) /\ Data(n, schema[e]) /\ Served(n, v)
      BY <1>0, <1>3, RolloutKept
    <3>2. p \in Operation /\ n = [p EXCEPT !.at = "update"]
      <4>1. Rollout(e) \in Operation
        BY <1>0, RolloutTyped
      <4> QED BY <4>1, Rewritten DEF Began
    <3>3. Recovery(e, p) = Recovery(e, n)
      <4> HIDE DEF n, p
      <4> QED BY <3>2, RecoverySame
    <3>4. n.at \in Proceeding /\ n.at # "backup"
      BY <3>1 DEF Proceeding
    <3>5. Set(e, Recovery(e, n))
      BY <2>2, <3>3
    <3> HIDE DEF n, p
    <3> QED BY <1>0, <2>2, <3>1, <3>4, <3>5, FailedKept
  <2>3. ASSUME NEW v \in {work[e], Begun(e)}, work' = [work EXCEPT ![e] = v], Faulty, Compose,
               Set(e, Recovery(e, op[e]))
        PROVE  Kept(e)
    <3> DEFINE n == [op[e] EXCEPT !.at = "update"]
    <3>1. /\ n \in Operation /\ n.at = "update" /\ n.image = op[e].image /\ n.label = op[e].label /\ n.kind = op[e].kind
          /\ n.was = op[e].was /\ n.db = op[e].db /\ n.ok = op[e].ok /\ n.undone = op[e].undone
          /\ n.saved = op[e].saved /\ n.target = op[e].target /\ n.state = op[e].state
          /\ n.promoted = op[e].promoted
      BY <1>0 DEF Operation, Location
    <3>2. ~Progressive /\ Begun(e) = Brought(e)
      BY <1>0, <2>3, Strategies DEF Begun
    <3>3. v \in Workload(Commit) /\ (work[e].selector = Stable => v.selector = Stable)
      BY <1>0, <3>2, BroughtTyped
    <3>4. Recovery(e, op[e]) = Recovery(e, n)
      BY <1>0, RecoverySame
    <3> HIDE DEF n
    <3>5. Shape(n) /\ Data(n, schema[e])
      BY <1>0, <1>3, <3>1 DEF EnvInv, Shape, Data, Updated, Recovering, Succeeding, Early
    <3>6. Served(n, v)
      BY <1>0, <3>1, <3>2, <3>3 DEF EnvInv, Shape, Served, Early
    <3>7. n.at \in Proceeding /\ n.at # "backup"
      BY <3>1 DEF Proceeding
    <3> QED BY <1>0, <2>3, <3>1, <3>3, <3>4, <3>5, <3>6, <3>7, FailedKept
  <2>4. CASE Faulty /\ Set(e, Recovery(e, op[e])) /\ UNCHANGED work
    <3>1. op[e].at \in Proceeding /\ op[e].at # "backup"
      BY <1>0 DEF Proceeding
    <3> QED BY <1>0, <2>4, <3>1, FailedKept DEF EnvInv
  <2> QED BY <1>3, <2>1, <2>2, <2>3, <2>4 DEF Begin, Is
<1> QED BY <1>2, <1>3

(* update_modules_compose: from here on the database counts as changed.    *)
LEMMA UpdateKept ==
  ASSUME IInv, NEW e \in Env, Update(e)
  PROVE  Kept(e)
<1> DEFINE m == Mutating(op[e])
           n == [Mutating(op[e]) EXCEPT !.at = "promote"]
<1>0. /\ op[e] \in Operation /\ work[e] \in Workload(Commit) /\ schema[e] \in Commit \cup {Mixed}
      /\ EnvInv(e) /\ Types /\ HeadCommit \in Commit /\ op[e].image \in Commit /\ op[e].at = "update"
      /\ UNCHANGED <<configuration, origin, git, records, runs, crashes>> /\ UNCHANGED work
      /\ op[e].kind # "rollback"
  BY OpTyped, HeadTyped DEF IInv, EnvInv, Shape, Update, At
<1>1. /\ records' \in [Env -> Seq(Entry)] /\ runs' \in 0..MaxRuns /\ crashes' \in 0..MaxCrashes
      /\ UNCHANGED faults \/ Faulty => faults' \in 0..MaxFaults
  BY <1>0, Counters DEF Types
<1>2. /\ m \in Operation /\ m.at = "update" /\ m.image = op[e].image /\ m.label = op[e].label /\ m.kind = op[e].kind
      /\ m.was = op[e].was /\ m.db = TRUE /\ m.ok = op[e].ok /\ m.undone = op[e].undone
      /\ m.saved = op[e].saved /\ m.target = op[e].target /\ m.state = op[e].state
      /\ m.revision = op[e].revision /\ m.prev = op[e].prev
      /\ m.changed = op[e].changed /\ m.moved = op[e].moved /\ m.promoted = op[e].promoted
  BY <1>0 DEF Operation, Mutating
<1> HIDE DEF m
<1>3. /\ n \in Operation /\ n.at = "promote" /\ n.image = m.image /\ n.label = m.label /\ n.kind = m.kind
      /\ n.was = m.was /\ n.db = TRUE /\ n.ok = m.ok /\ n.undone = m.undone
      /\ n.saved = m.saved /\ n.target = m.target /\ n.state = m.state
      /\ n.revision = m.revision /\ n.prev = m.prev
      /\ n.changed = m.changed /\ n.moved = m.moved /\ n.promoted = m.promoted
  <2>1. \A o \in Operation : o.db = TRUE => LET p == [o EXCEPT !.at = "promote"] IN
          /\ p \in Operation /\ p.at = "promote" /\ p.image = o.image /\ p.label = o.label /\ p.kind = o.kind
          /\ p.was = o.was /\ p.db = TRUE /\ p.ok = o.ok /\ p.undone = o.undone
          /\ p.saved = o.saved /\ p.target = o.target /\ p.state = o.state
          /\ p.revision = o.revision /\ p.prev = o.prev
          /\ p.changed = o.changed /\ p.moved = o.moved /\ p.promoted = o.promoted
    BY DEF Operation, Location
  <2>2. n = [m EXCEPT !.at = "promote"]
    BY DEF m
  <2> HIDE DEF n
  <2> QED BY <1>2, <2>1, <2>2
<1> HIDE DEF n
<1>4. /\ Shape(m) /\ Served(m, work[e]) /\ Shape(n) /\ Served(n, work[e]) /\ Runs(n, work[e])
  BY <1>0, <1>2, <1>3 DEF EnvInv, Shape, Served, Runs, Early, Succeeding
<1>5. \A s : Data(m, s)
  BY <1>2 DEF Data, Updated, Recovering, Succeeding
<1>6. CASE schema' = [schema EXCEPT ![e] = CommandImage(e)] /\ Set(e, n) /\ UNCHANGED faults
  <2>1. CommandImage(e) \in Commit \cup {Mixed}
    BY <1>0 DEF CommandImage, Workload
  <2>2. CASE Compose
    <3>1. ~Mounted => op[e].moved \/ work[e].template = HeadCommit
      BY <1>0, <2>2 DEF EnvInv, Runs, Compose, Mounted
    <3>2. ~Progressive
      BY <1>0, <2>2, Strategies
    <3>3. op[e].moved \/ CommandImage(e) = HeadCommit
      BY <3>1, <3>2 DEF CommandImage
    <3> QED BY <1>0, <1>1, <1>2, <1>3, <1>4, <1>6, <2>1, <2>2, <3>3, OwnKept DEF Data, Updated,
        Recovering, Succeeding
  <2>3. CASE ~Compose
    <3>1. ~Progressive => work[e].template = op[e].image
      BY <1>0, <2>3 DEF EnvInv, Runs, Compose, Types, Supported
    <3>2. ~Mounted
      BY <2>3 DEF Compose, Mounted
    <3>3. CommandImage(e) = op[e].image
      BY <3>1, <3>2 DEF CommandImage
    <3>4. Data(n, CommandImage(e))
      BY <1>2, <1>3, <2>3, <3>3 DEF Data, Updated, Recovering, Succeeding
    <3> QED BY <1>0, <1>1, <1>3, <1>4, <1>6, <2>1, <3>4, OwnKept
  <2> QED BY <2>2, <2>3
<1>7. CASE Faulty /\ schema' \in {schema, [schema EXCEPT ![e] = Mixed]} /\ Set(e, Recovery(e, m))
  <2>1. m.at \in Proceeding /\ m.at # "backup"
    BY <1>2 DEF Proceeding
  <2>2. PICK s \in Commit \cup {Mixed} :
          schema' = [schema EXCEPT ![e] = s] \/ (schema' = schema /\ s = schema[e])
    BY <1>0, <1>7
  <2> QED BY <1>0, <1>2, <1>4, <1>5, <1>7, <2>1, <2>2, FailedKept
<1> QED BY <1>6, <1>7 DEF Update, m, n

(* promote_rollout switches the Service and nothing else.                  *)
LEMMA PromoteKept ==
  ASSUME IInv, NEW e \in Env, Promote(e)
  PROVE  Kept(e)
<1> DEFINE n == [op[e] EXCEPT !.at = "verify", !.promoted = TRUE]
           m == [op[e] EXCEPT !.at = "undo"]
<1>0. /\ op[e] \in Operation /\ work[e] \in Workload(Commit) /\ schema[e] \in Commit \cup {Mixed}
      /\ EnvInv(e) /\ Types /\ op[e].at = "promote" /\ op[e].kind # "rollback"
      /\ UNCHANGED <<configuration, origin, git, records, runs, crashes>> /\ UNCHANGED schema
  BY OpTyped DEF IInv, EnvInv, Shape, Promote, At
<1>1. /\ records' \in [Env -> Seq(Entry)] /\ runs' \in 0..MaxRuns /\ crashes' \in 0..MaxCrashes
      /\ UNCHANGED faults \/ Faulty => faults' \in 0..MaxFaults
  BY <1>0, Counters DEF Types
<1> DEFINE Same(p) ==
      /\ p \in Operation /\ p.image = op[e].image /\ p.label = op[e].label /\ p.kind = op[e].kind
      /\ p.was = op[e].was /\ p.db = op[e].db /\ p.ok = op[e].ok /\ p.undone = op[e].undone
      /\ p.saved = op[e].saved /\ p.target = op[e].target /\ p.state = op[e].state
      /\ p.revision = op[e].revision /\ p.prev = op[e].prev
      /\ p.changed = op[e].changed /\ p.moved = op[e].moved
<1>2. /\ Same(m) /\ m.at = "undo" /\ m.promoted = op[e].promoted
      /\ Same(n) /\ n.at = "verify" /\ n.promoted = TRUE
  BY <1>0 DEF Operation, Location
<1>3. Recovery(e, op[e]) = Recovery(e, m)
  BY <1>0, RecoverySame
<1> HIDE DEF n, m
<1>4. /\ Shape(m) /\ Data(m, schema[e])
      /\ Shape(n) /\ Data(n, schema[e])
  BY <1>0, <1>2 DEF EnvInv, Shape, Data, Updated, Recovering, Succeeding, Early
<1>5. ASSUME NEW v \in {work[e], Promoted(e)}
      PROVE  /\ v \in Workload(Commit) /\ (~Progressive => v = work[e])
             /\ Served(m, v) /\ (v = Promoted(e) => Served(n, v))
  <2>1. CandidateSelector(op[e].revision) \in Selector(Commit)
    BY <1>0 DEF Operation, Selector, CandidateSelector, NoRevision, None
  <2>2. v \in Workload(Commit) /\ v.template = work[e].template /\ (~Progressive => v = work[e])
        /\ v.past = work[e].past /\ v.candidates = work[e].candidates
    <3>1. Promoted(e) \in Workload(Commit)
      BY <1>0, <2>1, WorkloadTyped, Constants DEF Promoted
    <3> QED BY <1>0, <3>1 DEF Promoted, Selecting, Workload
  <2>3. \A s : Under(v, s) = Under(work[e], s)
    BY <1>0, <2>2 DEF Under, Workload
  <2>4. Progressive /\ op[e].state => Promoted(e).selector = CandidateSelector(op[e].revision)
    <3>1. op[e].state => op[e].revision \in Commit /\ op[e].revision # NoRevision
      BY <1>0, Constants DEF EnvInv, Shape, NoRevision
    <3> QED BY <1>0, <3>1 DEF Promoted, Selecting, Merged, CandidateSelector, Workload
  <2>5. ~op[e].promoted
    BY <1>0 DEF EnvInv, Shape
  <2>6. CandidateSelector(op[e].revision).revision = op[e].revision
    BY DEF CandidateSelector
  <2>7. Progressive => work[e].selector = op[e].prev /\ ~op[e].changed
    BY <1>0 DEF EnvInv, Served
  <2>8. Served(m, v)
    BY <1>0, <1>2, <2>2, <2>3, <2>4, <2>5, <2>7 DEF EnvInv, Served, Early
  <2>9. ASSUME v = Promoted(e)
        PROVE  Served(n, v)
    BY <1>0, <1>2, <2>2, <2>3, <2>4, <2>6, <2>7, <2>9 DEF EnvInv, Served, Early
  <2> QED BY <2>2, <2>8, <2>9
<1>6. CASE work' = [work EXCEPT ![e] = Promoted(e)] /\ Set(e, n) /\ UNCHANGED faults
  <2>1. Runs(n, Promoted(e))
    BY <1>0, <1>2, <1>5, Strategies DEF EnvInv, Shape, Runs, Succeeding
  <2> QED BY <1>0, <1>1, <1>2, <1>4, <1>5, <1>6, <2>1, OwnKept
<1>7. ASSUME NEW v \in {work[e], Promoted(e)}, UNCHANGED faults \/ Faulty, Set(e, Recovery(e, op[e])),
             work' = [work EXCEPT ![e] = v] \/ (work' = work /\ v = work[e])
      PROVE  Kept(e)
  <2>1. m.at \in Proceeding /\ m.at # "backup"
    BY <1>2 DEF Proceeding
  <2> QED BY <1>0, <1>2, <1>3, <1>4, <1>5, <1>7, <2>1, FailedKept
<1> QED BY <1>6, <1>7 DEF Promote, n

(* check_url, and what follows a success of it.                            *)
LEMMA VerifyKept ==
  ASSUME IInv, NEW e \in Env, Verify(e)
  PROVE  Kept(e)
<1>0. /\ op[e] \in Operation /\ work[e] \in Workload(Commit) /\ schema[e] \in Commit \cup {Mixed}
      /\ EnvInv(e) /\ Types /\ op[e].at = "verify"
      /\ UNCHANGED <<configuration, origin, git, records, runs, crashes>> /\ UNCHANGED <<work, schema>>
  BY OpTyped DEF IInv, EnvInv, Verify, At
<1>1. /\ records' \in [Env -> Seq(Entry)] /\ runs' \in 0..MaxRuns /\ crashes' \in 0..MaxCrashes
      /\ UNCHANGED faults \/ Faulty => faults' \in 0..MaxFaults
  BY <1>0, Counters DEF Types
<1>2. CASE (UNCHANGED faults \/ Faulty) /\ Set(e, Recovery(e, op[e]))
  BY <1>0, <1>2, FailedKept DEF EnvInv, Proceeding
<1>3. CASE /\ op[e].kind = "rollback" \/ ~Progressive
           /\ Set(e, [op[e] EXCEPT !.at = "record", !.ok = TRUE]) /\ UNCHANGED faults
  <2> DEFINE n == [op[e] EXCEPT !.at = "record", !.ok = TRUE]
  <2>1. /\ n \in Operation /\ n.at = "record" /\ n.image = op[e].image /\ n.label = op[e].label /\ n.kind = op[e].kind
        /\ n.db = op[e].db /\ n.ok = TRUE /\ n.undone = op[e].undone
        /\ n.saved = op[e].saved /\ n.target = op[e].target /\ n.state = op[e].state
        /\ n.revision = op[e].revision /\ n.moved = op[e].moved
    BY <1>0 DEF Operation, Location
  <2> HIDE DEF n
  <2>2. Shape(n) /\ Data(n, schema[e])
    BY <1>0, <2>1 DEF EnvInv, Shape, Data, Updated, Recovering, Succeeding, Early
  <2>3. Served(n, work[e]) /\ Runs(n, work[e])
    BY <1>0, <1>3, <2>1 DEF EnvInv, Served, Runs, Early, Succeeding
  <2> QED BY <1>0, <1>1, <1>3, <2>1, <2>2, <2>3, OwnKept DEF n
<1>4. CASE op[e].kind # "rollback" /\ Progressive /\ Goto(e, "finalize") /\ UNCHANGED faults
  <2> DEFINE n == [op[e] EXCEPT !.at = "finalize"]
  <2>1. /\ n \in Operation /\ n.at = "finalize" /\ n.image = op[e].image /\ n.label = op[e].label /\ n.kind = op[e].kind
        /\ n.was = op[e].was /\ n.db = op[e].db /\ n.ok = op[e].ok /\ n.undone = op[e].undone
        /\ n.saved = op[e].saved /\ n.target = op[e].target /\ n.state = op[e].state
        /\ n.revision = op[e].revision /\ n.prev = op[e].prev
        /\ n.changed = op[e].changed /\ n.promoted = op[e].promoted /\ n.moved = op[e].moved
    BY <1>0 DEF Operation, Location
  <2> HIDE DEF n
  <2>2. Shape(n) /\ Data(n, schema[e])
    BY <1>0, <1>4, <2>1 DEF EnvInv, Shape, Data, Updated, Recovering, Succeeding, Early
  <2>3. Served(n, work[e]) /\ Runs(n, work[e])
    BY <1>0, <1>4, <2>1 DEF EnvInv, Shape, Served, Runs, Early, Succeeding
  <2> QED BY <1>0, <1>1, <1>4, <2>1, <2>2, <2>3, OwnKept DEF n, Goto
<1> QED BY <1>2, <1>3, <1>4 DEF Verify, Is

(* finalize_rollout                                                        *)
LEMMA FinalizeKept ==
  ASSUME IInv, NEW e \in Env, Finalize(e)
  PROVE  Kept(e)
<1>0. /\ op[e] \in Operation /\ work[e] \in Workload(Commit) /\ schema[e] \in Commit \cup {Mixed}
      /\ EnvInv(e) /\ Types /\ op[e].at = "finalize" /\ op[e].kind # "rollback" /\ Progressive
      /\ op[e].image \in Commit /\ op[e].promoted
      /\ UNCHANGED <<configuration, origin, git, records, runs, crashes>> /\ UNCHANGED schema
  BY OpTyped DEF IInv, EnvInv, Shape, Finalize, At
<1>1. /\ records' \in [Env -> Seq(Entry)] /\ runs' \in 0..MaxRuns /\ crashes' \in 0..MaxCrashes
      /\ UNCHANGED faults \/ Faulty => faults' \in 0..MaxFaults
  BY <1>0, Counters DEF Types
<1>2. /\ Brought(e) \in Workload(Commit) /\ runtime = "kubernetes" /\ Brought(e).template = op[e].image
  BY <1>0, Strategies, BroughtTyped, BroughtUp
<1>5. /\ Brought(e).selector.revision = work[e].selector.revision
      /\ \A s : s # Stable => Serving(Under(Brought(e), s)) = Serving(Under(work[e], s))
  BY <1>0, <1>2, BroughtTyped, UpServed
<1>3. CASE work' = [work EXCEPT ![e] = Brought(e)] /\ UNCHANGED faults
           /\ Set(e, [op[e] EXCEPT !.at = "cleanup", !.changed = TRUE])
  <2> DEFINE n == [op[e] EXCEPT !.at = "cleanup", !.changed = TRUE]
  <2>1. /\ n \in Operation /\ n.at = "cleanup" /\ n.image = op[e].image /\ n.label = op[e].label /\ n.kind = op[e].kind
        /\ n.was = op[e].was /\ n.db = op[e].db /\ n.ok = op[e].ok /\ n.undone = op[e].undone
        /\ n.saved = op[e].saved /\ n.target = op[e].target /\ n.state = op[e].state
        /\ n.revision = op[e].revision /\ n.prev = op[e].prev
        /\ n.changed = TRUE /\ n.promoted = op[e].promoted /\ n.moved = op[e].moved
    BY <1>0 DEF Operation, Location
  <2> HIDE DEF n
  <2>2. Shape(n) /\ Data(n, schema[e])
    BY <1>0, <2>1 DEF EnvInv, Shape, Data, Updated, Recovering, Succeeding, Early
  <2>3. Served(n, Brought(e))
    BY <1>0, <1>2, <1>5, <2>1, Strategies DEF EnvInv, Served, Early
  <2>4. Runs(n, Brought(e))
    BY <1>0, <1>2, <2>1, Strategies DEF EnvInv, Shape, Runs, Succeeding
  <2> QED BY <1>0, <1>1, <1>2, <1>3, <2>1, <2>2, <2>3, <2>4, OwnKept DEF n
<1>4. ASSUME NEW v \in {work[e], Brought(e)}, work' = [work EXCEPT ![e] = v], Faulty,
             Set(e, Recovery(e, [op[e] EXCEPT !.changed = v # work[e]]))
      PROVE  Kept(e)
  <2> DEFINE p == [op[e] EXCEPT !.changed = v # work[e]]
             n == [p EXCEPT !.at = "cleanup"]
  <2>1. \A c \in BOOLEAN : LET q == [op[e] EXCEPT !.changed = c] IN
        /\ q \in Operation /\ q.at = "finalize" /\ q.image = op[e].image /\ q.label = op[e].label /\ q.kind = op[e].kind
        /\ q.was = op[e].was /\ q.db = op[e].db /\ q.ok = op[e].ok /\ q.undone = op[e].undone
        /\ q.saved = op[e].saved /\ q.target = op[e].target /\ q.state = op[e].state
        /\ q.revision = op[e].revision /\ q.prev = op[e].prev
        /\ q.changed = c /\ q.promoted = op[e].promoted /\ q.moved = op[e].moved
    BY <1>0 DEF Operation
  <2>2. /\ p \in Operation /\ p.image = op[e].image /\ p.label = op[e].label /\ p.kind = op[e].kind
        /\ p.was = op[e].was /\ p.db = op[e].db /\ p.ok = op[e].ok /\ p.undone = op[e].undone
        /\ p.saved = op[e].saved /\ p.target = op[e].target /\ p.state = op[e].state
        /\ p.revision = op[e].revision /\ p.prev = op[e].prev
        /\ p.changed = (v # work[e]) /\ p.promoted = op[e].promoted /\ p.moved = op[e].moved
    BY <2>1, Zenon
  <2> HIDE DEF p
  <2>3. /\ n \in Operation /\ n.at = "cleanup" /\ n.image = op[e].image /\ n.label = op[e].label /\ n.kind = op[e].kind
        /\ n.was = op[e].was /\ n.db = op[e].db /\ n.ok = op[e].ok /\ n.undone = op[e].undone
        /\ n.saved = op[e].saved /\ n.target = op[e].target /\ n.state = op[e].state
        /\ n.revision = op[e].revision /\ n.prev = op[e].prev
        /\ (~n.changed => v = work[e]) /\ n.promoted = op[e].promoted /\ n.moved = op[e].moved
    BY <2>2 DEF Operation, Location
  <2> HIDE DEF n
  <2>4. Shape(n) /\ Data(n, schema[e])
    BY <1>0, <2>3 DEF EnvInv, Shape, Data, Updated, Recovering, Succeeding, Early
  <2>5. Served(n, v)
    <3>1. ~Rolling
      BY <1>0, Strategies
    <3>2. /\ v.selector.revision = work[e].selector.revision
          /\ \A s : s # Stable => Serving(Under(v, s)) = Serving(Under(work[e], s))
      BY <1>5
    <3>3. ~op[e].changed
      BY <1>0 DEF EnvInv, Served
    <3> QED BY <1>0, <2>3, <3>1, <3>2, <3>3 DEF EnvInv, Served, Early
  <2>6. n.at \in Proceeding /\ n.at # "backup" /\ v \in Workload(Commit)
    BY <1>0, <1>2, <2>3 DEF Proceeding
  <2>7. Set(e, Recovery(e, n))
    BY <1>4, <2>2, RecoverySame DEF n, p
  <2> QED BY <1>0, <1>4, <2>3, <2>4, <2>5, <2>6, <2>7, FailedKept
<1> QED BY <1>3, <1>4 DEF Finalize

LEMMA CleanupKept ==
  ASSUME IInv, NEW e \in Env, Cleanup(e)
  PROVE  Kept(e)
<1>0. /\ op[e] \in Operation /\ work[e] \in Workload(Commit) /\ schema[e] \in Commit \cup {Mixed}
      /\ EnvInv(e) /\ Types /\ op[e].at = "cleanup" /\ op[e].kind # "rollback" /\ Progressive
      /\ UNCHANGED <<configuration, origin, git, records, runs, crashes>> /\ UNCHANGED schema
  BY OpTyped DEF IInv, EnvInv, Shape, Cleanup, At
<1>1. /\ records' \in [Env -> Seq(Entry)] /\ runs' \in 0..MaxRuns /\ crashes' \in 0..MaxCrashes
      /\ UNCHANGED faults \/ Faulty => faults' \in 0..MaxFaults
  BY <1>0, Counters DEF Types
<1>2. CASE Faulty /\ Set(e, Recovery(e, op[e])) /\ UNCHANGED work
  BY <1>0, <1>2, FailedKept DEF EnvInv, Proceeding
<1>3. CASE work' = [work EXCEPT ![e] = Deleted(@, op[e].revision)] /\ UNCHANGED faults
           /\ Set(e, [op[e] EXCEPT !.at = "record", !.ok = TRUE])
  <2> DEFINE n == [op[e] EXCEPT !.at = "record", !.ok = TRUE]
             v == Deleted(work[e], op[e].revision)
  <2>1. /\ n \in Operation /\ n.at = "record" /\ n.image = op[e].image /\ n.label = op[e].label /\ n.kind = op[e].kind
        /\ n.db = op[e].db /\ n.ok = TRUE /\ n.undone = op[e].undone
        /\ n.saved = op[e].saved /\ n.target = op[e].target /\ n.state = op[e].state
        /\ n.revision = op[e].revision /\ n.moved = op[e].moved
    BY <1>0 DEF Operation, Location
  <2>2. v \in Workload(Commit) /\ v.template = work[e].template
    BY <1>0, DeletedTyped DEF Deleted, Workload
  <2> HIDE DEF n, v
  <2>3. Shape(n) /\ Data(n, schema[e])
    BY <1>0, <2>1 DEF EnvInv, Shape, Data, Updated, Recovering, Succeeding, Early
  <2>4. Served(n, v) /\ Runs(n, v)
    BY <1>0, <2>1, <2>2, Strategies DEF EnvInv, Served, Runs, Early, Succeeding
  <2> QED BY <1>0, <1>1, <1>3, <2>1, <2>2, <2>3, <2>4, OwnKept DEF n, v
<1> QED BY <1>2, <1>3 DEF Cleanup

-----------------------------------------------------------------------------
(* The recovery                                                            *)

(* What is rolled back stays a workload, with a stable Service where there *)
(* was no candidate.                                                       *)
LEMMA RolledBackTyped ==
  ASSUME IInv, NEW e \in Env, op[e].image \in Commit
  PROVE  /\ (Rolling => CanUndo(work[e])) => RolledBack(e) \in Workload(Commit)
         /\ Unselected(e) \in Workload(Commit)
         /\ ~Progressive => RolledBack(e).selector = work[e].selector
<1>0. /\ op[e] \in Operation /\ work[e] \in Workload(Commit) /\ Types /\ HeadCommit \in Commit
      /\ op[e].prev \in Selector(Commit)
  BY OpTyped, HeadTyped DEF IInv, Operation
<1>1. Unselected(e) \in Workload(Commit)
  BY <1>0, WorkloadTyped DEF Unselected
<1>2. Undone(work[e]).selector = work[e].selector /\ (CanUndo(work[e]) => Undone(work[e]) \in Workload(Commit))
  BY <1>0 DEF Undone, CanUndo, Workload
<1>3. RestartedService(e) \in Workload(Commit) /\ RestartedService(e).selector = work[e].selector
  BY <1>0, BroughtTyped
<1> QED BY <1>1, <1>2, <1>3, DeletedTyped DEF RolledBack

LEMMA UndoKept ==
  ASSUME IInv, NEW e \in Env, Undo(e)
  PROVE  Kept(e)
<1>0. /\ op[e] \in Operation /\ work[e] \in Workload(Commit) /\ schema[e] \in Commit \cup {Mixed}
      /\ EnvInv(e) /\ Types /\ op[e].at = "undo" /\ op[e].kind # "rollback" /\ op[e].image \in Commit
      /\ UNCHANGED <<configuration, origin, git, records, runs, crashes>> /\ UNCHANGED schema
      /\ ~Progressive => work[e].selector = Stable
  BY OpTyped DEF IInv, EnvInv, Shape, Served, Undo, At
<1>1. /\ records' \in [Env -> Seq(Entry)] /\ runs' \in 0..MaxRuns /\ crashes' \in 0..MaxCrashes
      /\ UNCHANGED faults \/ Faulty => faults' \in 0..MaxFaults
  BY <1>0, Counters DEF Types
<1>2. ASSUME NEW n \in Operation, n.at = "restore", n.image = op[e].image, n.label = op[e].label, n.kind = op[e].kind,
             n.db = op[e].db, n.ok = op[e].ok, n.saved = op[e].saved, n.state = op[e].state,
             n.revision = op[e].revision, n.target = op[e].target,
             NEW v \in Workload(Commit), ~Progressive => v.selector = Stable,
             Set(e, n), UNCHANGED faults \/ Faulty,
             work' = [work EXCEPT ![e] = v] \/ (work' = work /\ v = work[e])
      PROVE  Kept(e)
  <2>1. Shape(n) /\ Data(n, schema[e])
    BY <1>0, <1>2 DEF EnvInv, Shape, Data, Updated, Recovering, Succeeding, Early
  <2>2. Served(n, v) /\ Runs(n, v)
    BY <1>0, <1>2 DEF Served, Runs, Early, Succeeding
  <2> QED BY <1>0, <1>1, <1>2, <2>1, <2>2, OwnKept
<1>3. CASE /\ Rolling => CanUndo(work[e])
           /\ work' = [work EXCEPT ![e] = RolledBack(e)]
           /\ Set(e, [op[e] EXCEPT !.at = "restore", !.attempted = TRUE, !.undone = TRUE])
           /\ UNCHANGED faults
  <2> DEFINE n == [op[e] EXCEPT !.at = "restore", !.attempted = TRUE, !.undone = TRUE]
  <2>1. /\ n \in Operation /\ n.at = "restore" /\ n.image = op[e].image /\ n.label = op[e].label /\ n.kind = op[e].kind
        /\ n.db = op[e].db /\ n.ok = op[e].ok /\ n.saved = op[e].saved /\ n.state = op[e].state
        /\ n.revision = op[e].revision /\ n.target = op[e].target
    BY <1>0 DEF Operation, Location
  <2>2. RolledBack(e) \in Workload(Commit) /\ (~Progressive => RolledBack(e).selector = Stable)
    BY <1>0, <1>3, RolledBackTyped
  <2> HIDE DEF n
  <2> QED BY <1>2, <1>3, <2>1, <2>2 DEF n
<1>4. ASSUME UNCHANGED faults \/ Faulty,
             work' \in {work, [work EXCEPT ![e] = IF Progressive THEN Unselected(e) ELSE @]},
             Set(e, [op[e] EXCEPT !.at = "restore", !.attempted = TRUE])
      PROVE  Kept(e)
  <2> DEFINE n == [op[e] EXCEPT !.at = "restore", !.attempted = TRUE]
  <2>1. /\ n \in Operation /\ n.at = "restore" /\ n.image = op[e].image /\ n.label = op[e].label /\ n.kind = op[e].kind
        /\ n.db = op[e].db /\ n.ok = op[e].ok /\ n.saved = op[e].saved /\ n.state = op[e].state
        /\ n.revision = op[e].revision /\ n.target = op[e].target
    BY <1>0 DEF Operation, Location
  <2>2. Unselected(e) \in Workload(Commit)
    BY <1>0, RolledBackTyped
  <2>3. PICK v \in Workload(Commit) :
          /\ ~Progressive => v.selector = Stable
          /\ work' = [work EXCEPT ![e] = v] \/ (work' = work /\ v = work[e])
    BY <1>0, <1>4, <2>2
  <2> HIDE DEF n
  <2> QED BY <1>2, <1>4, <2>1, <2>3 DEF n
<1>5. CASE Goto(e, "restore") /\ UNCHANGED <<work, faults>>
  <2> DEFINE n == [op[e] EXCEPT !.at = "restore"]
  <2>1. /\ n \in Operation /\ n.at = "restore" /\ n.image = op[e].image /\ n.label = op[e].label /\ n.kind = op[e].kind
        /\ n.db = op[e].db /\ n.ok = op[e].ok /\ n.saved = op[e].saved /\ n.state = op[e].state
        /\ n.revision = op[e].revision /\ n.target = op[e].target
    BY <1>0 DEF Operation, Location
  <2> HIDE DEF n
  <2> QED BY <1>0, <1>2, <1>5, <2>1 DEF n, Goto
<1> QED BY <1>3, <1>4, <1>5 DEF Undo

(* The backup is restored, or that fails, or there was nothing to restore. *)
LEMMA RestoreKept ==
  ASSUME IInv, NEW e \in Env, RestoreData(e)
  PROVE  Kept(e)
<1>0. /\ op[e] \in Operation /\ work[e] \in Workload(Commit) /\ schema[e] \in Commit \cup {Mixed}
      /\ EnvInv(e) /\ Types /\ op[e].at = "restore" /\ op[e].kind # "rollback"
      /\ UNCHANGED <<configuration, origin, git, records, runs, crashes>> /\ UNCHANGED work
      /\ ~Progressive => work[e].selector = Stable
  BY OpTyped DEF IInv, EnvInv, Shape, Served, RestoreData, At
<1>1. /\ records' \in [Env -> Seq(Entry)] /\ runs' \in 0..MaxRuns /\ crashes' \in 0..MaxCrashes
      /\ UNCHANGED faults \/ Faulty => faults' \in 0..MaxFaults
  BY <1>0, Counters DEF Types
<1>2. ASSUME NEW n \in Operation, n.at = "restart", n.image = op[e].image, n.label = op[e].label, n.kind = op[e].kind,
             n.db = op[e].db, n.ok = op[e].ok, n.saved = op[e].saved, n.state = op[e].state,
             n.revision = op[e].revision, n.target = op[e].target, n.undone = op[e].undone,
             NEW s \in Commit \cup {Mixed}, Data(n, s),
             Set(e, n), UNCHANGED faults \/ Faulty,
             schema' = [schema EXCEPT ![e] = s] \/ (schema' = schema /\ s = schema[e])
      PROVE  Kept(e)
  <2>1. Shape(n)
    BY <1>0, <1>2 DEF EnvInv, Shape, Early
  <2>2. Served(n, work[e]) /\ Runs(n, work[e])
    BY <1>0, <1>2 DEF Served, Runs, Early, Succeeding
  <2> QED BY <1>0, <1>1, <1>2, <2>1, <2>2, OwnKept
<1> DEFINE n == [op[e] EXCEPT !.at = "restart"]
<1>3. /\ n \in Operation /\ n.at = "restart" /\ n.image = op[e].image /\ n.label = op[e].label /\ n.kind = op[e].kind
      /\ n.db = op[e].db /\ n.ok = op[e].ok /\ n.saved = op[e].saved /\ n.state = op[e].state
      /\ n.revision = op[e].revision /\ n.target = op[e].target /\ n.undone = op[e].undone
  BY <1>0 DEF Operation, Location
<1>4. CASE schema' = [schema EXCEPT ![e] = Decoded(op[e].saved)] /\ op[e].saved # None
           /\ Set(e, n) /\ UNCHANGED faults
  <2>1. Decoded(op[e].saved) \in Commit \cup {Mixed}
    BY <1>0, <1>4, Constants DEF Operation, Decoded, Commit, None
  <2>2. Data(n, Decoded(op[e].saved))
    BY <1>3 DEF Data, Updated, Recovering, Succeeding
  <2> HIDE DEF n
  <2> QED BY <1>2, <1>3, <1>4, <2>1, <2>2
<1>5. CASE UNCHANGED <<schema, faults>> /\ Set(e, n) /\ (op[e].saved = None \/ ~op[e].db)
  <2>1. Data(n, schema[e])
    BY <1>0, <1>3, <1>5 DEF EnvInv, Data, Updated, Recovering, Succeeding
  <2> HIDE DEF n
  <2> QED BY <1>0, <1>2, <1>3, <1>5, <2>1
<1>6. CASE Faulty /\ Set(e, [op[e] EXCEPT !.at = "restart", !.missed = "failed"]) /\ UNCHANGED schema
  <2> DEFINE m == [op[e] EXCEPT !.at = "restart", !.missed = "failed"]
  <2>1. /\ m \in Operation /\ m.at = "restart" /\ m.image = op[e].image /\ m.label = op[e].label /\ m.kind = op[e].kind
        /\ m.db = op[e].db /\ m.ok = op[e].ok /\ m.saved = op[e].saved /\ m.state = op[e].state
        /\ m.revision = op[e].revision /\ m.target = op[e].target /\ m.undone = op[e].undone /\ m.missed = "failed"
    BY <1>0 DEF Operation, Location
  <2> HIDE DEF m
  <2>2. Data(m, schema[e])
    BY <1>0, <2>1 DEF EnvInv, Data, Updated, Recovering, Succeeding
  <2> QED BY <1>0, <1>2, <1>6, <2>1, <2>2 DEF m
<1> QED BY <1>4, <1>5, <1>6 DEF RestoreData, Goto, Decoded

(* From the restart on, a command is to be recorded as failed.             *)
LEMMA Onward ==
  ASSUME IInv, NEW e \in Env, op[e].at \in {"restart", "reset", "redeploy"},
         NEW pc \in {"reset", "redeploy", "record"}, pc = "reset" => op[e].base \in Commit
  PROVE  LET n == [op[e] EXCEPT !.at = pc] IN
         /\ n \in Operation /\ n.at = pc /\ ~n.ok /\ n.kind # "rollback"
         /\ Shape(n) /\ Data(n, schema[e])
         /\ \A w : (~Progressive => w.selector = Stable) => Served(n, w) /\ Runs(n, w)
<1> DEFINE n == [op[e] EXCEPT !.at = pc]
<1>0. op[e] \in Operation /\ EnvInv(e) /\ ~op[e].ok /\ op[e].kind # "rollback"
  BY OpTyped DEF EnvInv, Shape
<1>1. /\ n \in Operation /\ n.at = pc /\ n.image = op[e].image /\ n.label = op[e].label
      /\ n.kind = op[e].kind /\ n.db = op[e].db /\ n.ok = op[e].ok /\ n.saved = op[e].saved
      /\ n.state = op[e].state /\ n.revision = op[e].revision /\ n.target = op[e].target
      /\ n.undone = op[e].undone /\ n.missed = op[e].missed /\ n.base = op[e].base
  BY <1>0 DEF Operation, Location
<1> HIDE DEF n
<1>2. Shape(n) /\ Data(n, schema[e])
  BY <1>0, <1>1 DEF EnvInv, Shape, Data, Updated, Recovering, Succeeding, Early
<1>3. \A w : (~Progressive => w.selector = Stable) => Served(n, w) /\ Runs(n, w)
  BY <1>0, <1>1 DEF Served, Runs, Early, Succeeding
<1> QED BY <1>0, <1>1, <1>2, <1>3 DEF n

LEMMA RestartKept ==
  ASSUME IInv, NEW e \in Env, RestartService(e)
  PROVE  Kept(e)
<1> DEFINE n == [op[e] EXCEPT !.at = "record"]
<1>0. /\ op[e] \in Operation /\ work[e] \in Workload(Commit) /\ schema[e] \in Commit \cup {Mixed}
      /\ EnvInv(e) /\ Types /\ op[e].at = "restart" /\ op[e].image \in Commit
      /\ UNCHANGED <<configuration, origin, git, records, runs, crashes>> /\ UNCHANGED schema
      /\ ~Progressive => work[e].selector = Stable
      /\ Set(e, n) /\ (UNCHANGED faults \/ Faulty)
      /\ work' = work \/ work' = [work EXCEPT ![e] = RestartedService(e)]
  BY OpTyped DEF IInv, EnvInv, Shape, Served, RestartService, At, Goto
<1>1. /\ records' \in [Env -> Seq(Entry)] /\ runs' \in 0..MaxRuns /\ crashes' \in 0..MaxCrashes
      /\ faults' \in 0..MaxFaults
  BY <1>0, Counters DEF Types
<1>2. RestartedService(e) \in Workload(Commit) /\ RestartedService(e).selector = work[e].selector
  BY <1>0, BroughtTyped
<1>3. PICK v \in Workload(Commit) :
        /\ ~Progressive => v.selector = Stable
        /\ work' = [work EXCEPT ![e] = v] \/ (work' = work /\ v = work[e])
  BY <1>0, <1>2
<1>4. n \in Operation /\ Shape(n) /\ Data(n, schema[e]) /\ Served(n, v) /\ Runs(n, v)
  BY <1>0, <1>3, Onward
<1> HIDE DEF n
<1> QED BY <1>0, <1>1, <1>3, <1>4, OwnKept

(* promote resets the branch and brings the service up again.              *)
LEMMA ResetKept ==
  ASSUME IInv, NEW e \in Env, ResetCheckout(e) \/ ResetCode(e) \/ Redeploy(e)
  PROVE  Kept(e)
<1> DEFINE n(pc) == [op[e] EXCEPT !.at = pc]
<1>0. /\ op[e] \in Operation /\ work[e] \in Workload(Commit) /\ schema[e] \in Commit \cup {Mixed}
      /\ EnvInv(e) /\ Types /\ op[e].at \in {"restart", "reset", "redeploy"} /\ op[e].image \in Commit
      /\ UNCHANGED <<configuration, origin, schema, records, runs, crashes>>
      /\ ~Progressive => work[e].selector = Stable
      /\ op[e].base \in Commit \cup {None} /\ (op[e].at = "reset" => op[e].base \in Commit)
  BY OpTyped DEF IInv, EnvInv, Shape, Served, ResetCheckout, ResetCode, Redeploy, At, Operation
<1>1. /\ records' \in [Env -> Seq(Entry)] /\ runs' \in 0..MaxRuns /\ crashes' \in 0..MaxCrashes
      /\ UNCHANGED faults \/ Faulty => faults' \in 0..MaxFaults
  BY <1>0, Counters DEF Types
<1>2. ASSUME NEW pc \in {"reset", "redeploy", "record"}, pc = "reset" => op[e].base \in Commit
      PROVE  /\ n(pc) \in Operation /\ n(pc).at = pc /\ ~n(pc).ok /\ n(pc).kind # "rollback"
             /\ Shape(n(pc)) /\ Data(n(pc), schema[e])
             /\ \A w : (~Progressive => w.selector = Stable) => Served(n(pc), w) /\ Runs(n(pc), w)
  BY <1>0, <1>2, Onward
<1> HIDE DEF n
<1>3. ASSUME NEW v \in Workload(Commit), ~Progressive => v.selector = Stable,
             UNCHANGED faults \/ Faulty, Set(e, n("record")), UNCHANGED git,
             work' = [work EXCEPT ![e] = v] \/ (work' = work /\ v = work[e])
      PROVE  Kept(e)
  BY <1>0, <1>1, <1>2, <1>3, OwnKept
<1>4. ASSUME NEW pc \in {"reset", "redeploy"}, pc = "reset" => op[e].base \in Commit,
             Move(e, n(pc)), UNCHANGED <<work, faults>>,
             branch' \in Env \cup {Detached}, local' \in [Env -> Commit], detached' \in Commit
      PROVE  Kept(e)
  BY <1>0, <1>2, <1>4, MovedKept
<1>5. CASE ResetCheckout(e)
  <2>1. CASE Goto(e, "record") /\ UNCHANGED git
    BY <1>0, <1>3, <1>5, <2>1 DEF ResetCheckout, Goto, n
  <2>2. CASE op[e].base # None /\ branch' = e /\ Move(e, n("reset")) /\ UNCHANGED <<local, detached, faults>>
    BY <1>0, <1>4, <1>5, <2>2 DEF Types, ResetCheckout
  <2> QED BY <1>5, <2>1, <2>2 DEF ResetCheckout, n
<1>6. CASE ResetCode(e)
  <2>1. CASE Goto(e, "record") /\ UNCHANGED git
    BY <1>0, <1>3, <1>6, <2>1 DEF ResetCode, Goto, n
  <2>2. CASE HeadAt(op[e].base) /\ Move(e, n("redeploy")) /\ UNCHANGED faults
    <3>1. branch' \in Env \cup {Detached} /\ local' \in [Env -> Commit] /\ detached' \in Commit
      BY <1>0, <1>6, <2>2, HeadMoved DEF ResetCode, At
    <3> QED BY <1>0, <1>4, <1>6, <2>2, <3>1 DEF ResetCode
  <2> QED BY <1>6, <2>1, <2>2 DEF ResetCode, n
<1>7. CASE Redeploy(e)
  <2>1. Brought(e) \in Workload(Commit) /\ (~Progressive => Brought(e).selector = Stable)
    BY <1>0, BroughtTyped
  <2>2. PICK v \in Workload(Commit) :
          /\ ~Progressive => v.selector = Stable
          /\ work' = [work EXCEPT ![e] = v] \/ (work' = work /\ v = work[e])
    BY <1>0, <1>7, <2>1 DEF Redeploy
  <2> QED BY <1>0, <1>3, <1>7, <2>2 DEF Redeploy, Goto, n
<1> QED BY <1>5, <1>6, <1>7

(* An interrupt leaves everything to be recorded as failed.                *)
LEMMA InterruptKept ==
  ASSUME IInv, NEW e \in Env, Interrupt(e)
  PROVE  Kept(e)
<1> DEFINE missed == IF op[e].db /\ op[e].at \notin {"restart", "reset", "redeploy"}
                     THEN "interrupted" ELSE op[e].missed
           n == [op[e] EXCEPT !.at = "record", !.missed = missed]
<1>0. /\ op[e] \in Operation /\ work[e] \in Workload(Commit) /\ schema[e] \in Commit \cup {Mixed}
      /\ EnvInv(e) /\ Types /\ op[e].at \notin {"idle", "record"}
      /\ ~(op[e].kind = "promote" /\ op[e].at = "backup") /\ ~op[e].ok
      /\ UNCHANGED <<configuration, origin, git, work, schema, records, runs, faults>>
      /\ Set(e, n) /\ crashes' = crashes + 1 /\ crashes < MaxCrashes
      /\ ~Progressive => work[e].selector = Stable
  BY OpTyped DEF IInv, EnvInv, Shape, Served, Interrupt, At, Is
<1>1. /\ records' \in [Env -> Seq(Entry)] /\ runs' \in 0..MaxRuns /\ faults' \in 0..MaxFaults
      /\ crashes' \in 0..MaxCrashes
  <2>1. crashes \in 0..MaxCrashes /\ crashes < MaxCrashes /\ crashes' = crashes + 1
    BY <1>0 DEF Types
  <2>2. records' \in [Env -> Seq(Entry)] /\ runs' \in 0..MaxRuns /\ faults' \in 0..MaxFaults
    BY <1>0 DEF Types
  <2> QED BY <2>1, <2>2, Constants
<1>2. missed \in {"no", "failed", "interrupted"} /\ (missed = "no" => op[e].missed = "no")
      /\ (missed = "no" => ~op[e].db \/ op[e].at \in {"restart", "reset", "redeploy"})
  BY <1>0 DEF Operation
<1> HIDE DEF missed
<1>3. /\ n \in Operation /\ n.at = "record" /\ n.image = op[e].image /\ n.label = op[e].label
      /\ n.kind = op[e].kind /\ n.db = op[e].db /\ n.ok = op[e].ok /\ n.saved = op[e].saved
      /\ n.state = op[e].state /\ n.revision = op[e].revision /\ n.target = op[e].target
      /\ n.undone = op[e].undone /\ n.missed = missed
  <2>1. \A x \in {"no", "failed", "interrupted"} : LET p == [op[e] EXCEPT !.at = "record", !.missed = x] IN
          /\ p \in Operation /\ p.at = "record" /\ p.image = op[e].image /\ p.label = op[e].label
          /\ p.kind = op[e].kind /\ p.db = op[e].db /\ p.ok = op[e].ok /\ p.saved = op[e].saved
          /\ p.state = op[e].state /\ p.revision = op[e].revision /\ p.target = op[e].target
          /\ p.undone = op[e].undone /\ p.missed = x
    BY <1>0 DEF Operation, Location
  <2> QED BY <1>2, <2>1, Zenon
<1> HIDE DEF n
<1>4. Shape(n)
  BY <1>0, <1>3 DEF EnvInv, Shape, Early
<1>5. Data(n, schema[e])
  BY <1>0, <1>2, <1>3 DEF EnvInv, Shape, Data, Updated, Recovering, Succeeding
<1>6. Served(n, work[e]) /\ Runs(n, work[e])
  BY <1>0, <1>3 DEF Served, Runs, Early, Succeeding
<1> QED BY <1>0, <1>1, <1>3, <1>4, <1>5, <1>6, OwnKept

(* save_deployment, and the command ends; or it is killed.                 *)
LEMMA EndKept ==
  ASSUME IInv, NEW e \in Env, Record(e) \/ Crash(e)
  PROVE  Kept(e)
<1>0. /\ op[e] \in Operation /\ work[e] \in Workload(Commit) /\ schema[e] \in Commit \cup {Mixed}
      /\ EnvInv(e) /\ Types /\ HeadCommit \in Commit
      /\ UNCHANGED <<configuration, origin, git, work, schema, runs, faults>> /\ Set(e, Idle)
      /\ ~Progressive => work[e].selector = Stable
  BY OpTyped, HeadTyped DEF IInv, EnvInv, Served, Record, Crash
<1>1. /\ Idle \in Operation /\ Shape(Idle) /\ Data(Idle, schema[e])
      /\ Served(Idle, work[e]) /\ Runs(Idle, work[e])
  BY <1>0, IdleTyped, IdleKept
<1>2. runs' \in 0..MaxRuns /\ faults' \in 0..MaxFaults
  BY <1>0, Counters
<1>3. crashes' \in 0..MaxCrashes
  <2>1. CASE Record(e)
    BY <1>0, <2>1, Counters DEF Record
  <2>2. CASE Crash(e)
    <3>1. crashes \in 0..MaxCrashes /\ crashes < MaxCrashes /\ crashes' = crashes + 1
      BY <1>0, <2>2 DEF Types, Crash
    <3> QED BY <3>1, Constants
  <2> QED BY <2>1, <2>2
<1>4. records' \in [Env -> Seq(Entry)]
  <2>1. CASE Record(e)
    <3>1. Recorded(e) \in Commit
      BY <1>0 DEF Recorded, Is, EnvInv, Shape
    <3> DEFINE entry == [commit |-> Recorded(e), image |-> op[e].label,
                         status |-> IF op[e].ok THEN "success" ELSE "failed"]
    <3>2. entry \in Entry
      <4>1. op[e].label \in Commit
        BY <1>0, <2>1 DEF EnvInv, Shape, Record, At
      <4> QED BY <3>1, <4>1 DEF Entry
    <3>3. records \in [Env -> Seq(Entry)] /\ records' = [records EXCEPT ![e] = Append(@, entry)]
      BY <1>0, <2>1 DEF Types, Record
    <3> HIDE DEF entry
    <3>4. Append(records[e], entry) \in Seq(Entry)
      BY <3>2, <3>3
    <3> QED BY <3>3, <3>4
  <2>2. CASE Crash(e)
    BY <1>0, <2>2 DEF Types, Crash
  <2> QED BY <2>1, <2>2
<1> QED BY <1>0, <1>1, <1>2, <1>3, <1>4, OwnKept

-----------------------------------------------------------------------------
(* Every step                                                              *)

LEMMA StartsKept ==
  ASSUME IInv, NEW e \in Env, StartDeploy(e) \/ StartSync(e) \/ StartRollback(e) \/ (StartPromote /\ e = Target)
  PROVE  Kept(e)
<1>0. Types
  BY DEF IInv
<1>1. CASE StartDeploy(e) \/ StartSync(e)
  BY <1>0, <1>1, StartKept, HeadTyped DEF StartDeploy, StartSync
<1>2. CASE StartRollback(e)
  <2>1. PreviousSuccess(e).commit \in Commit /\ PreviousSuccess(e).image \in Commit
    BY <1>0, <1>2, PreviousTyped DEF StartRollback, Entry
  <2> QED BY <1>0, <1>2, <2>1, StartKept DEF StartRollback
<1>3. CASE StartPromote /\ e = Target
  BY <1>0, <1>3, StartKept, HeadTyped DEF StartPromote
<1> QED BY <1>1, <1>2, <1>3

(* What a step of the command of an environment is.                        *)
Acts(e) ==
  \/ StartDeploy(e) \/ StartSync(e) \/ StartRollback(e) \/ (StartPromote /\ e = Target)
  \/ Backup(e) \/ Checkout(e) \/ Pull(e) \/ Merge(e)
  \/ Begin(e) \/ Update(e) \/ Promote(e) \/ Verify(e) \/ Finalize(e) \/ Cleanup(e)
  \/ Undo(e) \/ RestoreData(e) \/ RestartService(e) \/ ResetCheckout(e) \/ ResetCode(e) \/ Redeploy(e)
  \/ Record(e) \/ Interrupt(e) \/ Crash(e)

LEMMA ActsKept ==
  ASSUME IInv, NEW e \in Env, Acts(e)
  PROVE  Kept(e)
BY StartsKept, BackupKept, CheckoutKept, PullMergeKept, BeginKept, UpdateKept, PromoteKept,
    VerifyKept,
  FinalizeKept, CleanupKept, UndoKept, RestoreKept, RestartKept, ResetKept, InterruptKept,
      EndKept DEF Acts

LEMMA Steps ==
  ASSUME Next
  PROVE  \E e \in Env : Acts(e) \/ Push(e)
BY Constants DEF Next, Acts

(* A push, or no step at all, concerns no command.                         *)
LEMMA IdleStep ==
  ASSUME IInv, UNCHANGED <<configuration, git, work, schema, records, op, runs, faults, crashes>>,
         origin' \in [Env -> Commit]
  PROVE  IInv'
<1>1. Types'
  BY DEF IInv, Types, configuration, git
<1>2. HeadCommit' = HeadCommit
  BY DEF HeadCommit, git
<1>3. ASSUME NEW f \in Env
      PROVE  EnvInv(f)'
  <2>1. EnvInv(f)
    BY DEF IInv
  <2> QED BY <1>2, <2>1 DEF EnvInv, Shape, Data, Updated, Recovering, Succeeding, Served, Runs,
      Progressive, Rolling, Compose, configuration
<1> QED BY <1>1, <1>3 DEF IInv

LEMMA NextKept ==
  ASSUME IInv, Next
  PROVE  IInv'
<1>1. PICK e \in Env : Acts(e) \/ Push(e)
  BY Steps
<1>2. CASE Acts(e)
  <2>1. Types' /\ EnvInv(e)' /\ Frame(e)
    BY <1>2, ActsKept DEF Kept
  <2>2. \A f \in Env \ {e} : EnvInv(f)'
    BY <2>1, Other
  <2> QED BY <2>1, <2>2 DEF IInv
<1>3. CASE Push(e)
  <2>1. origin' \in [Env -> Commit]
    <3>1. origin \in [Env -> Commit] /\ origin[e] + 1 \in Commit
      BY <1>3, Constants DEF IInv, Types, Push, Commit
    <3> QED BY <1>3, <3>1 DEF Push
  <2> QED BY <1>3, <2>1, IdleStep DEF Push
<1> QED BY <1>1, <1>2, <1>3

LEMMA Initial ==
  ASSUME Init
  PROVE  IInv
<1>1. Stable \in Selector(Commit)
  BY DEF Stable, Selector
<1>2. Types
  <2>1. <<runtime, strategy>> \in Supported
    BY DEF Init, Supported
  <2>2. work \in [Env -> Workload(Commit)]
    BY <1>1, Constants DEF Init, Workload
  <2>3. records \in [Env -> Seq(Entry)]
    <3>1. <<[commit |-> 1, image |-> 1, status |-> "success"]>> \in Seq(Entry)
      BY Constants DEF Entry
    <3> QED BY <3>1 DEF Init
  <2>4. op \in [Env -> Operation]
    BY IdleTyped DEF Init
  <2>5. runs \in 0..MaxRuns /\ faults \in 0..MaxFaults /\ crashes \in 0..MaxCrashes
    BY Constants DEF Init
  <2> QED BY <2>1, <2>2, <2>3, <2>4, <2>5, Constants DEF Init, Types
<1>3. ASSUME NEW e \in Env
      PROVE  EnvInv(e)
  <2>1. op[e] = Idle /\ work[e].selector = Stable
    BY DEF Init
  <2> QED BY <2>1, IdleKept DEF EnvInv
<1> QED BY <1>2, <1>3 DEF IInv

LEMMA Inductive == Spec => []IInv
<1>1. Init => IInv
  BY Initial
<1>2. IInv /\ [Next]_vars => IInv'
  <2>1. ASSUME IInv, UNCHANGED vars
        PROVE  IInv'
    BY <2>1, IdleStep DEF vars, IInv, Types
  <2> QED BY <2>1, NextKept
<1> QED BY <1>1, <1>2, PTL DEF Spec

-----------------------------------------------------------------------------
(* Theorems                                                                *)

(* deploy_environment, promote_environment and a rollback, however their   *)
(* commands interleave in the one worktree, fail or are killed, leave what *)
(* the Service serves alone until a progressive rollout is promoted, and   *)
(* every value has its type.                                               *)
THEOREM DeploymentCorrect == Spec => []DeploymentInv
<1>1. ASSUME IInv
      PROVE  DeploymentInv
  <2>1. ASSUME NEW e \in Env
        PROVE  /\ Shape(op[e]) /\ op[e] \in Operation
               /\ \A i \in 1..Len(records[e]) : records[e][i] \in Entry
    BY <1>1 DEF IInv, EnvInv, Types
  <2>2. TypeOK
    BY <1>1, <2>1 DEF IInv, Types, TypeOK, Shape, Operation, Entry
  <2>3. ASSUME NEW e \in Env, Progressive, op[e].state, Fresh(e), op[e].at \in {"update", "promote"}
        PROVE  Serving(work[e]) = op[e].was
    <3>1. EnvInv(e) /\ work[e] \in Workload(Commit)
      BY <1>1, OpTyped
    <3>2. ~op[e].promoted /\ ~op[e].changed /\ work[e].selector = op[e].prev
      BY <2>3, <3>1 DEF EnvInv, Shape, Served
    <3>3. Under(work[e], op[e].prev) = work[e]
      BY <3>1, <3>2 DEF Under, Workload
    <3> QED BY <2>3, <3>1, <3>2, <3>3 DEF EnvInv, Served, Fresh
  <2> QED BY <2>2, <2>3 DEF DeploymentInv, StableUntilPromoted
<1> QED BY <1>1, Inductive, PTL

(* A deploy or a promote that is recorded as failed, and whose backup was  *)
(* at hand, leaves the schema it found, unless the restore failed, or an   *)
(* interrupt came between the update of the database and the restore.      *)
THEOREM FailureKeepsData == Spec => DataKept
<1>1. IInv /\ [Next]_vars => [\A e \in Env :
        Finishing(e) /\ ~op[e].ok /\ op[e].saved # None /\ op[e].missed = "no"
          => schema[e] = Decoded(op[e].saved)]_vars
  BY DEF IInv, EnvInv, Data, Recovering, Finishing, At
<1> QED BY <1>1, Inductive, PTL DEF Spec, DataKept

(* Records are added by save_deployment only.                              *)
LEMMA Recording ==
  ASSUME IInv, [Next]_vars, NEW e \in Env, records'[e] # records[e]
  PROVE  Record(e)
<1>1. PICK f \in Env : Acts(f)
  BY Steps DEF vars, Push
<1>2. Record(f)
  BY <1>1 DEF Acts, StartDeploy, StartSync, StartRollback, StartPromote, Start,
      Backup, Checkout, Pull, Merge, Begin, Update, Promote, Verify, Finalize, Cleanup, Undo,
          RestoreData,
      RestartService, ResetCheckout, ResetCode, Redeploy, Interrupt, Crash
<1> QED BY <1>2 DEF Record, IInv, Types

(* What save_deployment records as a success is what updated the database  *)
(* and what the workload runs: on Kubernetes the image recorded, unless by *)
(* a rollback, on Compose the commit recorded, as long as no command of    *)
(* another environment moved the worktree meanwhile.                       *)
THEOREM SuccessRuns == Spec => RecordedRuns
<1>1. ASSUME IInv, [Next]_vars, NEW e \in Env, Finishing(e), op[e].ok, Compose => ~op[e].moved
      PROVE  LET record == records'[e][Len(records'[e])]
                 deployed == IF Compose THEN record.commit ELSE record.image
             IN /\ ~Is(e, "rollback") => schema[e] = deployed
                /\ ~Mounted /\ (Compose \/ ~Is(e, "rollback")) => work[e].template = deployed
  <2> DEFINE entry == [commit |-> Recorded(e), image |-> op[e].label, status |-> "success"]
             last == records'[e][Len(records'[e])]
  <2>1. EnvInv(e) /\ Succeeding(op[e]) /\ Types
    BY <1>1, OpTyped DEF IInv, Succeeding, Finishing, At
  <2>2. last = entry
    <3>1. Record(e) /\ records \in [Env -> Seq(Entry)]
      BY <1>1, <2>1, Recording DEF Finishing, Types
    <3>2. records'[e] = Append(records[e], entry) /\ records[e] \in Seq(Entry)
      BY <1>1, <3>1 DEF Record
    <3> HIDE DEF entry
    <3> QED BY <3>2
  <2>3. last.commit = Recorded(e) /\ last.image = op[e].label
    BY <2>2
  <2>4. op[e].kind # "rollback" => op[e].label = op[e].image
    BY <2>1 DEF EnvInv, Shape
  <2>5. Compose => Recorded(e) = HeadCommit
    BY <1>1, <2>1 DEF EnvInv, Runs, Recorded, Is
  <2>6. op[e].kind # "rollback" => schema[e] = IF Compose THEN HeadCommit ELSE op[e].image
    BY <1>1, <2>1 DEF EnvInv, Data, Updated
  <2>7. Compose /\ ~Mounted => work[e].template = HeadCommit
    BY <1>1, <2>1 DEF EnvInv, Runs, Compose, Mounted
  <2>8. ~Compose => work[e].template = op[e].image
    BY <2>1 DEF EnvInv, Runs, Compose, Types, Supported
  <2> HIDE DEF last
  <2> QED BY <2>3, <2>4, <2>5, <2>6, <2>7, <2>8 DEF Is, last
<1>2. IInv /\ [Next]_vars => [\A e \in Env :
        Finishing(e) /\ op[e].ok /\ (Compose => ~op[e].moved)
          => LET record == records'[e][Len(records'[e])]
                 deployed == IF Compose THEN record.commit ELSE record.image
             IN /\ ~Is(e, "rollback") => schema[e] = deployed
                /\ ~Mounted /\ (Compose \/ ~Is(e, "rollback")) => work[e].template = deployed]_vars
  BY <1>1
<1> QED BY <1>2, Inductive, PTL DEF Spec, RecordedRuns

(* A step that rolls a rollout back is rollback_rollout.                   *)
LEMMA Undoing ==
  ASSUME IInv, [Next]_vars, NEW e \in Env, At(e, "undo"), op'[e].undone
  PROVE  op[e].state /\ work'[e] = RolledBack(e)
<1>0. /\ op[e] \in Operation /\ Types /\ op[e].at = "undo" /\ ~op[e].undone
  BY OpTyped DEF IInv, EnvInv, Shape, At
<1>1. Undo(e)
  <2>1. op' # op
    BY <1>0
  <2>2. PICK f \in Env : Acts(f)
    BY <2>1, Steps DEF vars, Push
  <2>3. f = e
    <3>1. ASSUME f # e
          PROVE  FALSE
      <4>1. Frame(f)
        BY <2>2, ActsKept DEF Kept
      <4>2. op'[e] = op[e] \/ op'[e] = [op[e] EXCEPT !.moved = TRUE]
        BY <3>1, <4>1 DEF Frame
      <4> QED BY <1>0, <4>2 DEF Operation
    <3> QED BY <3>1
  <2>4. ~Crash(e)
    BY <1>0, IdleTyped DEF Crash, Set, Types
  <2>5. ~Interrupt(e)
    <3>1. \A x : ~[op[e] EXCEPT !.at = "record", !.missed = x].undone
      BY <1>0 DEF Operation
    <3>2. ASSUME Interrupt(e)
          PROVE  \E x : op'[e] = [op[e] EXCEPT !.at = "record", !.missed = x]
      BY <1>0, <3>2 DEF Interrupt, Set, Types
    <3>3. ASSUME Interrupt(e)
          PROVE  FALSE
      <4>1. PICK x : op'[e] = [op[e] EXCEPT !.at = "record", !.missed = x]
        BY <3>2, <3>3
      <4>2. ~[op[e] EXCEPT !.at = "record", !.missed = x].undone
        BY <3>1
      <4> QED BY <4>1, <4>2, Zenon
    <3> QED BY <3>3
  <2> QED BY <1>0, <2>2, <2>3, <2>4, <2>5 DEF Acts, StartDeploy, StartSync, StartRollback,
      StartPromote, Start,
      Backup, Checkout, Pull, Merge, Begin, Update, Promote, Verify, Finalize, Cleanup, RestoreData,
      RestartService, ResetCheckout, ResetCode, Redeploy, Record, At
<1>2. op[e].state /\ work' = [work EXCEPT ![e] = RolledBack(e)]
  <2>1. \A pc \in Location, a \in BOOLEAN :
          ~[op[e] EXCEPT !.at = pc].undone /\ ~[op[e] EXCEPT !.at = pc, !.attempted = a].undone
    BY <1>0 DEF Operation
  <2>2. ~Set(e, [op[e] EXCEPT !.at = "restore", !.attempted = TRUE]) /\ ~Goto(e, "restore")
    BY <1>0, <2>1 DEF Set, Goto, Types, Location
  <2> QED BY <1>1, <2>2 DEF Undo
<1> QED BY <1>0, <1>2 DEF Types

(* Without its candidate, a Service that selects it has no pods.           *)
LEMMA GoneServed ==
  ASSUME NEW w \in Workload(Commit), NEW r \in Commit, w.selector.revision = r
  PROVE  Serving(Deleted(w, r)) = {}
<1>1. w.selector # Stable
  BY Constants DEF Stable, NoRevision
<1>2. Deleted(w, r).selector = w.selector /\ \A d \in Deleted(w, r).candidates : d.revision # r
  BY DEF Deleted, Workload
<1>3. \A d \in Deleted(w, r).candidates : CandidateSelector(d.revision) # w.selector
  BY <1>2 DEF CandidateSelector
<1> QED BY <1>1, <1>2, <1>3 DEF Serving

LEMMA UndoneServes ==
  ASSUME IInv, NEW e \in Env, At(e, "undo"), op[e].state
  PROVE  Serving(RolledBack(e)) = Returned(e)
<1>0. /\ op[e] \in Operation /\ work[e] \in Workload(Commit) /\ EnvInv(e) /\ Types
      /\ op[e].at = "undo" /\ op[e].prev \in Selector(Commit) /\ op[e].revision \in Commit
      /\ work[e].selector \in Selector(Commit) /\ HeadCommit \in Commit
      /\ ~Progressive => work[e].selector = Stable
  BY OpTyped, HeadTyped DEF IInv, EnvInv, Shape, Served, At, Operation
<1>1. CASE Rolling
  <2>1. op[e].changed => {work[e].past} = op[e].was
    BY <1>0, <1>1 DEF EnvInv, Served
  <2>2. RolledBack(e).template = work[e].past /\ RolledBack(e).selector = Stable
    BY <1>0, <1>1, Strategies DEF RolledBack, Undone, Workload
  <2>3. ~Progressive
    BY <1>0, <1>1, Strategies
  <2> QED BY <1>1, <2>1, <2>2, <2>3 DEF Serving, Returned
<1>2. CASE Progressive
  <2> DEFINE w == Unselected(e)
  <2>0. RolledBack(e) = Deleted(w, op[e].revision) /\ ~Rolling
    BY <1>0, <1>2, Strategies DEF RolledBack
  <2>1. /\ Fresh(e) /\ (~op[e].changed \/ op[e].prev # Stable) => Serving(Under(work[e], op[e].prev)) = op[e].was
        /\ op[e].promoted => work[e].selector.revision = op[e].revision
        /\ ~op[e].promoted => ~op[e].changed /\ work[e].selector \in {op[e].prev, CandidateSelector(op[e].revision)}
    BY <1>0, <1>2 DEF EnvInv, Served, Fresh
  <2>2. w \in Workload(Commit)
    BY <1>0, WorkloadTyped, Constants DEF Unselected
  <2>3. op[e].promoted => w.selector = Merged(work[e].selector, op[e].prev) /\ w = Under(work[e], w.selector)
    BY <1>0 DEF Unselected, Selecting, Under, Workload
  <2>4. ~op[e].promoted => w = work[e]
    BY DEF Unselected
  <2>5. work[e].selector = op[e].prev => work[e] = Under(work[e], op[e].prev)
    BY <1>0 DEF Under, Workload
  <2> HIDE DEF w
  <2>6. CASE Restorable(e)
    <3>1. op[e].prev.revision # op[e].revision
      BY <2>6 DEF Restorable, Fresh
    <3>2. w.selector = op[e].prev /\ w = Under(work[e], op[e].prev) /\ (~op[e].changed \/ op[e].prev # Stable)
      <4>1. CASE ~Switched(e)
        BY <2>1, <2>4, <2>5, <3>1, <4>1 DEF Switched
      <4>2. CASE Switched(e)
        <5>1. op[e].promoted /\ op[e].prev.revision # NoRevision
          BY <2>6, <4>2 DEF Restorable
        <5>2. Merged(work[e].selector, op[e].prev) = op[e].prev
          BY <1>0, <5>1 DEF Merged, Selector
        <5> QED BY <2>3, <5>1, <5>2 DEF Stable
      <4> QED BY <4>1, <4>2
    <3>3. Serving(w) = op[e].was
      BY <2>1, <2>6, <3>2 DEF Restorable
    <3>4. Serving(Deleted(w, op[e].revision)) = Serving(w)
      BY <1>0, <2>2, <3>1, <3>2, DeletedServed
    <3> QED BY <1>2, <2>0, <2>6, <3>3, <3>4 DEF Returned
  <2>7. CASE ~Restorable(e)
    <3>1. w.selector.revision = op[e].revision
      <4>1. CASE op[e].promoted
        <5>1. op[e].prev.revision = op[e].revision \/ op[e].prev.revision = NoRevision
          BY <2>1, <2>7, <4>1 DEF Restorable, Fresh, Switched
        <5>2. w.selector.revision = IF op[e].prev.revision = NoRevision THEN work[e].selector.revision
                                    ELSE op[e].prev.revision
          BY <1>0, <2>3, <4>1 DEF Merged, Selector
        <5> QED BY <2>1, <4>1, <5>1, <5>2
      <4>2. CASE ~op[e].promoted
        <5>1. work[e].selector = CandidateSelector(op[e].revision) \/ op[e].prev.revision = op[e].revision
          BY <2>1, <2>7, <4>2 DEF Restorable, Fresh, Switched
        <5> QED BY <2>1, <2>4, <4>2, <5>1 DEF CandidateSelector
      <4> QED BY <4>1, <4>2
    <3> QED BY <1>0, <1>2, <2>0, <2>2, <2>7, <3>1, GoneServed DEF Returned
  <2> QED BY <2>6, <2>7
<1>3. CASE ~Rolling /\ ~Progressive
  <2>1. RolledBack(e) = RestartedService(e) /\ work[e].selector = Stable
    BY <1>0, <1>3 DEF RolledBack
  <2>2. /\ RestartedService(e).selector = Stable
        /\ RestartedService(e).template = IF Mounted THEN HeadCommit ELSE work[e].template
    BY <1>0, <2>1 DEF RestartedService, Restarted, Compose, Mounted, Workload
  <2>3. Serving(RestartedService(e)) = {RestartedService(e).template}
    BY <2>2 DEF Serving
  <2> QED BY <1>3, <2>1, <2>2, <2>3 DEF Returned
<1> QED BY <1>1, <1>2, <1>3

(* What is served once auto_rollback has undone a rollout, whichever the   *)
(* strategy and wherever it failed: what the command found, or nothing     *)
(* where the Service is left to select no pod.                             *)
THEOREM RollbackServes == Spec => RollbackRestores
<1>1. IInv /\ [Next]_vars => [\A e \in Env :
        At(e, "undo") /\ op'[e].undone => Serving(work'[e]) = Returned(e)]_vars
  BY Undoing, UndoneServes
<1> QED BY <1>1, Inductive, PTL DEF Spec, RollbackRestores
=============================================================================
