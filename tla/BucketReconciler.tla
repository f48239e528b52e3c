-------------------------- MODULE BucketReconciler --------------------------
(***************************************************************************)
(* The GarageBucket controller (internal/controller/bucket_controller.go): *)
(* one worker that takes GarageBucket names off a work queue and brings    *)
(* the Garage cluster, the status of the custom resource (CR) and the two  *)
(* child CRs of the bucket (a GarageAccessKey and a GaragePermission of    *)
(* the same name) in line with its specification.                          *)
(*                                                                         *)
(* Each call the worker makes to the API server or to Garage is one        *)
(* action, so that users, the Garage administrator, the informers and the  *)
(* other controllers interleave between any two calls.  A call may fail    *)
(* before it acts (CallFails), or act and lose its answer (Answered), and  *)
(* the process may restart (Crash): MaxFaults bounds these.  MaxOps bounds *)
(* what users and the administrator do.                                    *)
(*                                                                         *)
(* UIDs, Garage ids and owner references are numbers, 0 meaning none.      *)
(***************************************************************************)
EXTENDS KubeObjects, FiniteSets

CONSTANTS
    Buckets,          \* GarageBucket names (namespace and name)
    NoBucket,         \* the worker holds no request
    Names,            \* global aliases in Garage
    NameOf,           \* metadata.name of each GarageBucket
    NoName,           \* spec.overrideName left empty
    Limits,           \* limits in spec.quotas: 0 is also one left out
    NoQuota,          \* spec.quotas is nil
    NoLimit,          \* null, a limit that Garage does not have
    Cfgs, NoCfg,      \* what a child is asked to be: format, permissions
    NoAccess,         \* spec.bucketAccessKey nil or disabled
    SpecsOf,          \* the specifications users give each GarageBucket
    AdminNames,       \* aliases the Garage administrator handles himself
    ForeignCfgs,      \* what users put in children they handle themselves
    MaxOps, MaxFaults

Kinds == {"key", "perm"}         \* the GarageAccessKey, the GaragePermission
Dims  == {"objects", "size"}     \* what a quota limits

Quotas == [Dims -> Limits]

BucketSpecs ==
    [override: Names \cup {NoName}, retain: BOOLEAN,
     quota: Quotas \cup {NoQuota}, access: [Kinds -> Cfgs] \cup {NoAccess}]

ASSUME NamesAssumption ==
    /\ NameOf \in [Buckets -> Names]
    /\ NoBucket \notin Buckets
    /\ NoName \notin Names
    /\ AdminNames \subseteq Names
ASSUME SpecsAssumption ==
    /\ SpecsOf \in [Buckets -> SUBSET BucketSpecs]
    /\ NoSpec \notin BucketSpecs
    /\ Limits \subseteq Nat /\ 0 \in Limits
    /\ NoQuota \notin Quotas /\ NoLimit \notin Nat
    /\ ForeignCfgs \subseteq Cfgs
    /\ NoCfg \notin Cfgs
ASSUME BoundsAssumption == MaxOps \in Nat /\ MaxFaults \in Nat

VARIABLES
    log,       \* the GarageBucket CRs, stored and cached (KubeObjects)
    queue,     \* the work queue
    w,         \* the worker: its step, request, copy of the CR, bucketInfo
    gb,        \* the buckets of the Garage cluster, by alias
    ids,       \* Garage bucket ids handed out so far
    kid,       \* the child CRs of each name, stored and cached
    cluster,   \* the GarageCluster CR and its admin token can be read
    uids,      \* UIDs handed out to GarageBuckets so far
    doomed,    \* history: UIDs terminating at some time with policy Delete
    ops, faults

vars == <<log, queue, w, gb, ids, kid, cluster, uids, doomed, ops, faults>>

-----------------------------------------------------------------------------
(* The state.  A Garage bucket remembers, for the properties only, the UID *)
(* of the CR it was made for (maker, 0 when made by the administrator).    *)

Unlimited == [d \in Dims |-> NoLimit]

Targets  == [id: Nat, maker: Nat, quota: [Dims -> Limits \cup {NoLimit}]]
NoTarget == [id |-> 0, maker |-> 0, quota |-> Unlimited]
Made(u)  == [id |-> ids + 1, maker |-> u, quota |-> Unlimited]

(* A child has a configuration and the UID in its owner reference to the   *)
(* GarageBucket of its name (0: none, the child is a user's own).          *)
Children == [cfg: Cfgs \cup {NoCfg}, owner: Nat, deleting: BOOLEAN]
NoChild  == [cfg |-> NoCfg, owner |-> 0, deleting |-> FALSE]

Idle == [pc |-> "idle", b |-> NoBucket, mem |-> Absent, info |-> NoTarget]

ReconcileSteps == {"lookup", "create", "status", "quota",
                   "rmKey", "rmPerm", "putKey", "putPerm"}
DeletionSteps  == {"delLookup", "delTarget", "unfinalize"}
Steps == {"idle", "finalize"} \cup ReconcileSteps \cup DeletionSteps

Work == [pc: Steps, b: Buckets \cup {NoBucket},
         mem: Objects(BucketSpecs), info: Targets]

Api(b) == Live(log[b])

(* The API server makes no new version of a write that changes nothing. *)
Write(b, o) == log' = IF o = Api(b) THEN log ELSE [log EXCEPT ![b] = Append(@, o)]
PutKid(b, k, c) == kid' = [kid EXCEPT ![b][k] = Append(@, c)]

TargetName(b, s) == IF s.override = NoName THEN NameOf[b] ELSE s.override

(* HasOwnerReference compares group, kind and name, not the UID. *)
Owned(c) == c.owner # 0

-----------------------------------------------------------------------------
(* The worker: from one call to the next.                                  *)

Fault == faults < MaxFaults /\ faults' = faults + 1

Fail     == w' = Idle /\ queue' = queue \cup {w.b}     \* requeued
Done     == w' = Idle /\ UNCHANGED queue
Goto(pc) == w' = [w EXCEPT !.pc = pc] /\ UNCHANGED queue

(* The call has acted: its answer arrives, or is lost. *)
Answered(outcome) == \/ outcome /\ UNCHANGED faults
                     \/ Fault /\ Fail

At(pc) == w.pc = pc

(* Faulty variants: no finalizer; the reclaim policy is not read. *)
FirstStepUnguarded(m) ==
    IF ~m.deleting THEN "lookup"
    ELSE IF m.spec.retain THEN "unfinalize" ELSE "delLookup"
FirstStepNoPolicy(m) ==
    IF m.deleting THEN IF m.fin THEN "delLookup" ELSE "idle"
    ELSE IF m.fin THEN "lookup" ELSE "finalize"

FirstStep(m) ==
    IF m.deleting
    THEN IF ~m.fin THEN "idle"
         ELSE IF m.spec.retain THEN "unfinalize" ELSE "delLookup"
    ELSE IF m.fin THEN "lookup" ELSE "finalize"

AfterQuota(m)     == IF m.spec.access = NoAccess THEN "rmKey" ELSE "putKey"

(* GetMaxObjects and GetMaxSize answer 0 where Garage has no limit. *)
Seen(l) == IF l = NoLimit THEN 0 ELSE l

QuotaMet(q, t) == q = NoQuota \/ \A d \in Dims : q[d] = Seen(t.quota[d])

AfterStatus(m, i) == IF QuotaMet(m.spec.quota, i) THEN AfterQuota(m) ELSE "quota"
(* Faulty variant: quotas are set with the status only. *)
AfterTargetNoQuota(m, i) == IF m.id = 0 THEN "status" ELSE AfterQuota(m)

AfterTarget(m, i) == IF m.id = 0 THEN "status" ELSE AfterStatus(m, i)

WithTarget(i) ==
    w' = [w EXCEPT !.pc = AfterTarget(w.mem, i), !.info = i] /\ UNCHANGED queue

(* Take a request.  Without its GarageCluster or admin token a reconcile   *)
(* ends in an error and is requeued, which changes nothing.                *)
Begin(b) ==
    LET m == Cached(log[b]) IN
    /\ At("idle") /\ b \in queue
    /\ Exists(m) => cluster
    /\ queue' = queue \ {b}
    /\ w' = IF Exists(m) /\ FirstStep(m) # "idle"
            THEN [pc |-> FirstStep(m), b |-> b, mem |-> m, info |-> NoTarget]
            ELSE Idle
    /\ UNCHANGED <<log, gb, ids, kid, cluster, uids, doomed, ops, faults>>

(* Faulty variant: the error of the update is not returned. *)
AddFinalizerUnchecked ==
    LET m == [w.mem EXCEPT !.fin = TRUE] IN
    /\ At("finalize")
    /\ w' = [w EXCEPT !.pc = "lookup", !.mem = m]
    /\ IF Api(w.b) = w.mem THEN Write(w.b, m) ELSE UNCHANGED log
    /\ UNCHANGED <<queue, gb, ids, kid, cluster, uids, doomed, ops, faults>>

(* AddFinalizer and Update. *)
AddFinalizer ==
    LET m == [w.mem EXCEPT !.fin = TRUE] IN
    /\ At("finalize")
    /\ IF Api(w.b) = w.mem
       THEN /\ Write(w.b, m)
            /\ Answered(w' = [w EXCEPT !.pc = "lookup", !.mem = m]
                        /\ UNCHANGED queue)
       ELSE Fail /\ UNCHANGED <<log, faults>>
    /\ UNCHANGED <<gb, ids, kid, cluster, uids, doomed, ops>>

GetTarget ==
    LET t == gb[TargetName(w.b, w.mem.spec)] IN
    /\ At("lookup")
    /\ IF t.id # 0 THEN WithTarget(t) ELSE Goto("create")
    /\ UNCHANGED <<log, gb, ids, kid, cluster, uids, doomed, ops, faults>>

(* Garage refuses a second bucket with the same global alias. *)
CreateTarget ==
    LET n == TargetName(w.b, w.mem.spec)
        t == Made(w.mem.uid) IN
    /\ At("create")
    /\ IF gb[n].id = 0
       THEN /\ gb' = [gb EXCEPT ![n] = t]
            /\ ids' = ids + 1
            /\ Answered(WithTarget(t))
       ELSE Fail /\ UNCHANGED <<gb, ids, faults>>
    /\ UNCHANGED <<log, kid, cluster, uids, doomed, ops>>

(* A merge patch of status.id has no precondition, and the worker goes on  *)
(* with the object that the API server answers.                            *)
PatchStatus ==
    LET m == [Api(w.b) EXCEPT !.id = w.info.id] IN
    /\ At("status")
    /\ IF Exists(Api(w.b))
       THEN /\ Write(w.b, m)
            /\ Answered(w' = [w EXCEPT !.pc = AfterStatus(m, w.info), !.mem = m]
                        /\ UNCHANGED queue)
       ELSE Fail /\ UNCHANGED <<log, faults>>
    /\ UNCHANGED <<gb, ids, kid, cluster, uids, doomed, ops>>

(* updateBucket addresses the bucket by the id seen earlier, and sends     *)
(* both numbers: a limit that was left out goes as 0, not as null.         *)
SetQuota ==
    /\ At("quota")
    /\ IF \E n \in Names : gb[n].id = w.info.id
       THEN /\ gb' = [n \in Names |-> IF gb[n].id = w.info.id
                                      THEN [gb[n] EXCEPT !.quota = w.mem.spec.quota]
                                      ELSE gb[n]]
            /\ Answered(Goto(AfterQuota(w.mem)))
       ELSE Fail /\ UNCHANGED <<gb, faults>>
    /\ UNCHANGED <<log, ids, kid, cluster, uids, doomed, ops>>

-----------------------------------------------------------------------------
(* The worker: children.  The cached read and the write that follows it    *)
(* are one action: whatever happens between them is as if the cache had    *)
(* lagged behind it.                                                       *)

(* Delete goes by name only, and NotFound is ignored. *)
RemoveChild(k) ==
    LET live   == Live(kid[w.b][k])
        next   == IF k = "key" THEN Goto("rmPerm") ELSE Done
    IN  IF Owned(Cached(kid[w.b][k])) /\ live # NoChild /\ ~live.deleting
        THEN PutKid(w.b, k, [live EXCEPT !.deleting = TRUE]) /\ Answered(next)
        ELSE next /\ UNCHANGED <<kid, faults>>

(* Faulty variant: the owner references are not inspected. *)
PutChildUnchecked(k) ==
    LET c    == Cached(kid[w.b][k])
        new  == [c EXCEPT !.cfg = w.mem.spec.access[k], !.owner = w.mem.uid]
        next == IF k = "key" THEN Goto("putPerm") ELSE Done
    IN  IF new = c THEN next /\ UNCHANGED <<kid, faults>>
        ELSE IF Live(kid[w.b][k]) = c THEN PutKid(w.b, k, new) /\ Answered(next)
        ELSE Fail /\ UNCHANGED <<kid, faults>>

(* controllerutil.CreateOrUpdate: create what the cache does not show,     *)
(* refuse what is not owned, update what differs.                          *)
PutChild(k) ==
    LET c    == Cached(kid[w.b][k])
        new  == [c EXCEPT !.cfg = w.mem.spec.access[k], !.owner = w.mem.uid]
        next == IF k = "key" THEN Goto("putPerm") ELSE Done
    IN  IF c # NoChild /\ Owned(c) /\ new = c
        THEN next /\ UNCHANGED <<kid, faults>>
        ELSE IF (c = NoChild \/ Owned(c)) /\ Live(kid[w.b][k]) = c
        THEN PutKid(w.b, k, new) /\ Answered(next)
        ELSE Fail /\ UNCHANGED <<kid, faults>>

RemoveKey  == At("rmKey")   /\ RemoveChild("key")
              /\ UNCHANGED <<log, gb, ids, cluster, uids, doomed, ops>>
RemovePerm == At("rmPerm")  /\ RemoveChild("perm")
              /\ UNCHANGED <<log, gb, ids, cluster, uids, doomed, ops>>
PutKey     == At("putKey")  /\ PutChild("key")
              /\ UNCHANGED <<log, gb, ids, cluster, uids, doomed, ops>>
PutPerm    == At("putPerm") /\ PutChild("perm")
              /\ UNCHANGED <<log, gb, ids, cluster, uids, doomed, ops>>

-----------------------------------------------------------------------------
(* The worker: deletion.                                                   *)

(* Faulty variants: a search takes the first bucket it finds; a bucket     *)
(* that is gone is an error.                                               *)
LookupForDeletionAny ==
    /\ At("delLookup")
    /\ \E n \in Names :
         IF gb[n].id # 0
         THEN w' = [w EXCEPT !.pc = "delTarget", !.info = gb[n]] /\ UNCHANGED queue
         ELSE Goto("unfinalize")
    /\ UNCHANGED <<log, gb, ids, kid, cluster, uids, doomed, ops, faults>>
LookupForDeletionStrict ==
    LET t == gb[TargetName(w.b, w.mem.spec)] IN
    /\ At("delLookup")
    /\ IF t.id # 0
       THEN w' = [w EXCEPT !.pc = "delTarget", !.info = t] /\ UNCHANGED queue
       ELSE Fail
    /\ UNCHANGED <<log, gb, ids, kid, cluster, uids, doomed, ops, faults>>

LookupForDeletion ==
    LET t == gb[TargetName(w.b, w.mem.spec)] IN
    /\ At("delLookup")
    /\ IF t.id # 0
       THEN w' = [w EXCEPT !.pc = "delTarget", !.info = t] /\ UNCHANGED queue
       ELSE Goto("unfinalize")
    /\ UNCHANGED <<log, gb, ids, kid, cluster, uids, doomed, ops, faults>>

(* deleteBucket goes by id; an id that is gone is an error here. *)
DeleteTarget ==
    /\ At("delTarget")
    /\ IF \E n \in Names : gb[n].id = w.info.id
       THEN /\ gb' = [n \in Names |-> IF gb[n].id = w.info.id
                                      THEN NoTarget ELSE gb[n]]
            /\ Answered(Goto("unfinalize"))
       ELSE Fail /\ UNCHANGED <<gb, faults>>
    /\ UNCHANGED <<log, ids, kid, cluster, uids, doomed, ops>>

(* Faulty variant: the finalizer is removed without optimistic concurrency. *)
RemoveFinalizerBlindly ==
    /\ At("unfinalize")
    /\ IF Api(w.b).uid = w.mem.uid
       THEN Write(w.b, Unfinalized(Api(w.b))) /\ Answered(Done)
       ELSE Fail /\ UNCHANGED <<log, faults>>
    /\ UNCHANGED <<gb, ids, kid, cluster, uids, doomed, ops>>

RemoveFinalizer ==
    /\ At("unfinalize")
    /\ IF Api(w.b) = w.mem
       THEN Write(w.b, Unfinalized(w.mem)) /\ Answered(Done)
       ELSE Fail /\ UNCHANGED <<log, faults>>
    /\ UNCHANGED <<gb, ids, kid, cluster, uids, doomed, ops>>

(* Any call may fail before it has done anything. *)
CallFails ==
    /\ ~At("idle") /\ Fault /\ Fail
    /\ UNCHANGED <<log, gb, ids, kid, cluster, uids, doomed, ops>>

Worker ==
    \/ AddFinalizer \/ GetTarget \/ CreateTarget \/ PatchStatus \/ SetQuota
    \/ RemoveKey \/ RemovePerm \/ PutKey \/ PutPerm
    \/ LookupForDeletion \/ DeleteTarget \/ RemoveFinalizer

-----------------------------------------------------------------------------
(* The manager: watches, resynchronisation, restart.                       *)

Informer(b) ==
    /\ Len(log[b]) > 1
    /\ log' = [log EXCEPT ![b] = Tail(@)]
    /\ queue' = queue \cup {b}
    /\ UNCHANGED <<w, gb, ids, kid, cluster, uids, doomed, ops, faults>>

(* SetupWithManager watches GarageBuckets only: the children's events      *)
(* refresh the cache and enqueue nothing.                                  *)
ChildInformer(b, k) ==
    /\ Len(kid[b][k]) > 1
    /\ kid' = [kid EXCEPT ![b][k] = Tail(@)]
    /\ UNCHANGED <<log, queue, w, gb, ids, cluster, uids, doomed, ops, faults>>

Resync ==
    /\ queue' = queue \cup {b \in Buckets : Exists(Cached(log[b]))}
    /\ UNCHANGED <<log, w, gb, ids, kid, cluster, uids, doomed, ops, faults>>

(* Faulty variant: the request under way is queued even when there is none. *)
CrashRequeue ==
    /\ Fault
    /\ w' = Idle /\ queue' = queue \cup {w.b}
    /\ UNCHANGED <<log, kid, gb, ids, cluster, uids, doomed, ops>>

Crash ==
    /\ Fault
    /\ w' = Idle
    /\ log' = [b \in Buckets |-> Relisted(log[b])]
    /\ kid' = [b \in Buckets |-> [k \in Kinds |-> Relisted(kid[b][k])]]
    /\ queue' = {b \in Buckets : Exists(Api(b))}
    /\ UNCHANGED <<gb, ids, cluster, uids, doomed, ops>>

-----------------------------------------------------------------------------
(* Users, the Garage administrator, Kubernetes, the other controllers.     *)

Op == ops < MaxOps /\ ops' = ops + 1

(* A terminating object whose policy is Delete is doomed. *)
Doom(o) == doomed' = IF o.deleting /\ ~o.spec.retain
                     THEN doomed \cup {o.uid} ELSE doomed

UserCreate(b, s) ==
    /\ Op /\ ~Exists(Api(b))
    /\ uids' = uids + 1
    /\ Write(b, Created(uids + 1, s))
    /\ UNCHANGED <<queue, w, gb, ids, kid, cluster, doomed, faults>>

UserEdit(b, s) ==
    LET o == [Api(b) EXCEPT !.spec = s] IN
    /\ Op /\ Exists(Api(b)) /\ o # Api(b)
    /\ Write(b, o) /\ Doom(o)
    /\ UNCHANGED <<queue, w, gb, ids, kid, cluster, uids, faults>>

UserDelete(b) ==
    LET o == Deleted(Api(b)) IN
    /\ Op /\ Exists(Api(b)) /\ ~Api(b).deleting
    /\ Write(b, o) /\ Doom(o)
    /\ UNCHANGED <<queue, w, gb, ids, kid, cluster, uids, faults>>

AdminCreate(n) ==
    /\ Op /\ gb[n].id = 0
    /\ ids' = ids + 1
    /\ gb' = [gb EXCEPT ![n] = Made(0)]
    /\ UNCHANGED <<log, queue, w, kid, cluster, uids, doomed, faults>>

AdminDelete(n) ==
    /\ Op /\ gb[n].id # 0
    /\ gb' = [gb EXCEPT ![n] = NoTarget]
    /\ UNCHANGED <<log, queue, w, ids, kid, cluster, uids, doomed, faults>>

UserCreateChild(b, k, f) ==
    /\ Op /\ Live(kid[b][k]) = NoChild
    /\ PutKid(b, k, [NoChild EXCEPT !.cfg = f])
    /\ UNCHANGED <<log, queue, w, gb, ids, cluster, uids, doomed, faults>>

UserDeleteChild(b, k) ==
    LET c == Live(kid[b][k]) IN
    /\ Op /\ ForeignCfgs # {} /\ c # NoChild /\ ~c.deleting
    /\ PutKid(b, k, [c EXCEPT !.deleting = TRUE])
    /\ UNCHANGED <<log, queue, w, gb, ids, cluster, uids, doomed, faults>>

(* The child's own controller has reclaimed it and lets it go. *)
ChildFinalized(b, k) ==
    /\ Live(kid[b][k]).deleting
    /\ PutKid(b, k, NoChild)
    /\ UNCHANGED <<log, queue, w, gb, ids, cluster, uids, doomed, ops, faults>>

(* Kubernetes deletes the dependents of an object that is no more. *)
GarbageCollect(b, k) ==
    LET c == Live(kid[b][k]) IN
    /\ Owned(c) /\ ~c.deleting /\ c.owner # Api(b).uid
    /\ PutKid(b, k, [c EXCEPT !.deleting = TRUE])
    /\ UNCHANGED <<log, queue, w, gb, ids, cluster, uids, doomed, ops, faults>>

ClusterLost ==
    /\ Fault /\ cluster /\ cluster' = FALSE
    /\ UNCHANGED <<log, queue, w, gb, ids, kid, uids, doomed, ops>>

ClusterBack ==
    /\ ~cluster /\ cluster' = TRUE
    /\ UNCHANGED <<log, queue, w, gb, ids, kid, uids, doomed, ops, faults>>

-----------------------------------------------------------------------------
Init ==
    /\ log     = [b \in Buckets |-> <<Absent>>]
    /\ queue   = {}
    /\ w       = Idle
    /\ gb      = [n \in Names |-> NoTarget]
    /\ ids     = 0
    /\ kid     = [b \in Buckets |-> [k \in Kinds |-> <<NoChild>>]]
    /\ cluster = TRUE
    /\ uids    = 0
    /\ doomed  = {}
    /\ ops     = 0
    /\ faults  = 0

Manager ==
    \/ Resync \/ Crash
    \/ \E b \in Buckets : Informer(b)
    \/ \E b \in Buckets, k \in Kinds : ChildInformer(b, k)

Environment ==
    \/ \E b \in Buckets : \/ \E s \in SpecsOf[b] : UserCreate(b, s) \/ UserEdit(b, s)
                          \/ UserDelete(b)
    \/ \E n \in AdminNames : AdminCreate(n) \/ AdminDelete(n)
    \/ \E b \in Buckets, k \in Kinds :
         \/ \E f \in ForeignCfgs : UserCreateChild(b, k, f)
         \/ UserDeleteChild(b, k) \/ ChildFinalized(b, k) \/ GarbageCollect(b, k)
    \/ ClusterLost \/ ClusterBack

Next ==
    \/ \E b \in Buckets : Begin(b)
    \/ Worker \/ CallFails \/ Manager \/ Environment

Spec == Init /\ [][Next]_vars

(***************************************************************************)
(* Fairness.  The worker goes on with a request it holds, and the work     *)
(* queue is first-in first-out, so a name that is queued again and again   *)
(* is taken at some time: strong fairness.  Watches deliver, Kubernetes    *)
(* collects garbage, the other controllers finalize children, and the      *)
(* informers resynchronise (every ten hours by default).  Nothing is       *)
(* assumed of users, administrators and faults.                            *)
(***************************************************************************)
Fairness ==
    /\ WF_vars(Worker)
    /\ \A b \in Buckets :
         /\ SF_vars(Begin(b))
         /\ WF_vars(Informer(b))
         /\ \A k \in Kinds : /\ WF_vars(ChildInformer(b, k))
                             /\ WF_vars(ChildFinalized(b, k))
                             /\ WF_vars(GarbageCollect(b, k))

FairSpec     == Spec /\ Fairness
ResyncedSpec == FairSpec /\ WF_vars(Resync)

-----------------------------------------------------------------------------
(* The promise to GarageBuckets (ManagedTarget): the CR of each UID as it  *)
(* is stored, and the aliases of the Garage buckets made for it.           *)

Uids == 1 .. MaxOps

LifeOf(o) == IF o.deleting THEN "terminating" ELSE IF o.fin THEN "held" ELSE "plain"

CrOf(u) ==
    IF \E b \in Buckets : Api(b).uid = u
    THEN LET b == CHOOSE b \in Buckets : Api(b).uid = u IN
         [phase |-> LifeOf(Api(b)), name |-> TargetName(b, Api(b).spec),
          retain |-> Api(b).spec.retain]
    ELSE [phase |-> IF u > uids THEN "unborn" ELSE "gone"]

TargetsOf(u) == {n \in Names : gb[n].maker = u}

Promise == INSTANCE ManagedTarget WITH
               obj     <- [u \in Uids |-> CrOf(u)],
               targets <- [u \in Uids |-> TargetsOf(u)]

-----------------------------------------------------------------------------
(* Properties.                                                             *)

(* Every variable has its type; a log is never empty. *)
TypeOK ==
    /\ log \in [Buckets -> Seq(Objects(BucketSpecs)) \ {<<>>}]
    /\ queue \subseteq Buckets
    /\ w \in Work
    /\ gb \in [Names -> Targets]
    /\ ids \in Nat
    /\ kid \in [Buckets -> [Kinds -> Seq(Children) \ {<<>>}]]
    /\ cluster \in BOOLEAN
    /\ uids \in Nat
    /\ doomed \subseteq Nat
    /\ ops \in 0 .. MaxOps
    /\ faults \in 0 .. MaxFaults

(* What the worker brings about, it brings about for the object stored     *)
(* under that name, which has the finalizer: although reads come from a    *)
(* lagging cache and the status patch has no precondition, no target, no   *)
(* status, quota or child is made for an object that is gone or whose name *)
(* another object bears by now.  (Deletion steps may be repeated for an    *)
(* object that is gone: RemoveFinalizer whose answer was lost.)            *)
HeldObject ==
    w.pc \in ReconcileSteps => Api(w.b).uid = w.mem.uid /\ Api(w.b).fin

(* A Garage bucket made for a CR that is stored has that CR's finalizer to *)
(* reclaim it: the finalizer is there before the Garage bucket is, and     *)
(* goes only with the CR.                                                  *)
FinalizerGuards ==
    \A b \in Buckets, n \in Names :
        Exists(Api(b)) /\ gb[n].maker = Api(b).uid => Api(b).fin

(* Data is deleted only for a CR that a user deleted, and whose reclaim    *)
(* policy was Delete at some time since: a policy of Retain set before the *)
(* deletion and left alone is honoured (reconcileDeletion), whatever the   *)
(* cache shows and whoever bears the same name.                            *)
RetainHonoured ==
    w.pc \in {"delLookup", "delTarget"} => w.mem.uid \in doomed

(* When a CR with policy Delete is gone from the API server, no Garage     *)
(* bucket that was made for it is left under the target name it had last:  *)
(* edits of the specification, lost answers, failed calls, restarts and an *)
(* administrator at work on the same alias included.                       *)
GoneMeansReclaimed ==
    [][\A b \in Buckets :
         Exists(Api(b)) /\ ~Exists(Api(b)') /\ ~Api(b).spec.retain
            => gb'[TargetName(b, Api(b).spec)].maker # Api(b).uid]_vars

(* The worker implements the promise: lagging reads, lost answers and      *)
(* restarts included, each of its calls looks like one atomic step that    *)
(* makes a target for a CR that is there with its finalizer, removes one,  *)
(* or lets a deleted CR go with nothing left to reclaim.                   *)
PromiseKept == Promise!Spec

(* No two GarageBuckets can resolve to one alias: the code does not see to *)
(* this, it is up to the users (spec.overrideName, names in namespaces).   *)
NamesApart ==
    \A b, c \in Buckets : b # c =>
        \A s \in SpecsOf[b], t \in SpecsOf[c] : TargetName(b, s) # TargetName(c, t)

(* As long as no two GarageBuckets can resolve to one alias, the worker    *)
(* never deletes the Garage bucket made for a CR that is not itself being  *)
(* deleted: the id that deleteBucket sends is not one that a rename, or a  *)
(* deletion and creation between the lookup and the call, has given to     *)
(* another CR.                                                             *)
NoCollateral ==
    [][At("delTarget") /\ w' # w =>
         \A n \in Names, b \in Buckets :
            gb[n].maker = Api(b).uid /\ Exists(Api(b)) /\ gb'[n] # gb[n]
                => Api(b).deleting]_vars

(* A user's own GarageAccessKey or GaragePermission that has the name of a *)
(* GarageBucket is never taken over: the worker writes no owner reference  *)
(* and no specification into it, although it decides on a cached copy.     *)
ForeignNeverAdopted ==
    [][\A b \in Buckets, k \in Kinds :
         LET c == Live(kid[b][k])
             d == Live(kid[b][k])'
         IN  c # NoChild /\ ~Owned(c) => ~Owned(d) /\ d.cfg \in {c.cfg, NoCfg}]_vars

(* Comment and log of the code: what is deleted when access is disabled    *)
(* are the managed key resources.                                          *)
OnlyManagedDeleted ==
    [][w.pc \in {"rmKey", "rmPerm"} /\ w' # w =>
         \A k \in Kinds : LET c == Live(kid[w.b][k]) IN
            Live(kid'[w.b][k]) # c => Owned(c)]_vars

(* GarageBucketStatus "defines the observed state": once a reconcile is    *)
(* past the status, it names the Garage bucket that was observed.          *)
StatusIsObserved ==
    w.pc \in {"quota", "rmKey", "rmPerm", "putKey", "putPerm"}
        => w.mem.id = w.info.id

(* maxObjects and maxSize are optional: where one is left out, Garage has  *)
(* no such limit, rather than one of zero that refuses every upload.       *)
LeftOutNotLimited ==
    \A n \in Names, d \in Dims : gb[n].quota[d] # 0

(* A deleted GarageBucket goes, whatever was under way, if its cluster     *)
(* stays reachable and Garage's refusals end (CallFails is bounded, while  *)
(* a bucket is refused for as long as there are objects in it): every      *)
(* failed step is retried, and deletion does not depend on what an earlier *)
(* attempt has already done.                                               *)
DeletionCompletes ==
    <>[]cluster => \A b \in Buckets : Api(b).deleting ~> ~Api(b).deleting

(* What a reconcile is to bring about for one GarageBucket. *)
Settled(b) ==
    LET o == Api(b)
        t == gb[TargetName(b, o.spec)]
    IN  /\ o.fin /\ o.id # 0 /\ t.id # 0
        /\ o.spec.quota # NoQuota =>
             \A d \in Dims : Seen(t.quota[d]) = o.spec.quota[d]
        /\ \/ \E k \in Kinds : LET c == Live(kid[b][k]) IN c # NoChild /\ ~Owned(c)
           \/ \A k \in Kinds :
                LET c == Live(kid[b][k]) IN
                IF o.spec.access = NoAccess THEN c = NoChild
                ELSE c = [cfg |-> o.spec.access[k], owner |-> o.uid, deleting |-> FALSE]

(* Once users, administrators and faults leave it alone, every GarageBucket *)
(* that is not being deleted gets its target, quotas, status and children  *)
(* (unless a user's own child of that name stands in the way), and keeps   *)
(* them; with the periodic resync, for nothing else repairs a child.       *)
Converges ==
    <>[]cluster =>
        \A b \in Buckets :
            <>[](Exists(Api(b)) /\ ~Api(b).deleting => Settled(b))

=============================================================================
