------------------------------ MODULE Operator ------------------------------
(***************************************************************************)
(* The three controllers at work together: GarageBuckets with access, the  *)
(* GarageAccessKey and the GaragePermission that the bucket controller     *)
(* makes for each under its name, the Secret with the key's credentials,   *)
(* and what they stand for in Garage.  The controllers share one informer  *)
(* cache and no lock; each has a queue and one worker, and learns of the   *)
(* others' work from the API server and from Garage only.                  *)
(*                                                                         *)
(* A step is one write together with the reads it depends on: what happens *)
(* between a read and its write, status, quotas, target names and users'   *)
(* own children are in BucketReconciler, KeyReconciler and                 *)
(* PermissionReconciler.  The copy of a custom resource (CR) that a worker *)
(* took from the cache stays with it from step to step.  As there, calls   *)
(* fail or lose their answer, and the process restarts: MaxEvents bounds   *)
(* these and what users and the Garage administrator do, taken together.   *)
(***************************************************************************)
EXTENDS KubeObjects, FiniteSets

CONSTANTS
    Buckets, NoBucket,        \* GarageBucket names, and none
    Rights,                   \* owner, read, write
    NoAccess,                 \* spec.bucketAccessKey nil or disabled
    SpecsOf,                  \* the specifications users give GarageBuckets
    MaxEvents

ChildKinds == {"key", "perm"}
Kinds      == {"bucket"} \cup ChildKinds

(* The rights that access gives, and whether Garage keeps the bucket. *)
BucketSpecs == [access: (SUBSET Rights) \cup {NoAccess}, retain: BOOLEAN]

(* The UID in the owner reference; the rights a GaragePermission asks for. *)
ChildSpecs == [owner: Nat, rights: SUBSET Rights]

ASSUME OperatorNamesAssumption == NoBucket \notin Buckets
ASSUME OperatorSpecsAssumption ==
    /\ SpecsOf \in [Buckets -> SUBSET BucketSpecs]
    /\ NoSpec \notin BucketSpecs \cup ChildSpecs
    /\ \A r \in SUBSET Rights : r # NoAccess
ASSUME OperatorBoundsAssumption == MaxEvents \in Nat

VARIABLES
    log,       \* the CRs of each kind and name, stored and cached
    queue,     \* the work queues: kind and name
    w,         \* the worker of each kind: its step, request, copy of the CR
    gb,        \* the id of the Garage bucket of each name, 0 for none
    gk,        \* the keys of the Garage cluster
    grants,    \* Garage: a key has a right on a bucket
    sec,       \* the Secret of each name
    ids, uids, \* Garage ids and UIDs handed out so far
    events,    \* faults, and operations of users and administrators, so far
    kept       \* history: names whose last held GarageBucket went under Retain

vars == <<log, queue, w, gb, gk, grants, sec, ids, uids, events, kept>>

-----------------------------------------------------------------------------
(* A Garage key bears the UID of its GarageAccessKey in its name. *)
GarageKeys == [id: Nat, uid: Nat]
Grants     == [key: Nat, bucket: Nat, right: Rights]

(* The Garage key whose credentials a Secret holds, and its owner. *)
Secrets  == [cred: Nat, owner: Nat]
NoSecret == [cred |-> 0, owner |-> 0]

Idle  == [pc |-> "idle", b |-> NoBucket, mem |-> Absent]
Steps == {"idle", "finalize", "target", "rmKey", "rmPerm", "putKey", "putPerm",
          "make", "publish", "grant", "reclaim", "unfinalize"}
Work  == [pc: Steps, b: Buckets \cup {NoBucket},
          mem: Objects(BucketSpecs \cup ChildSpecs)]

Api(k, b)   == Live(log[k][b])
Cache(k, b) == Cached(log[k][b])

Write(k, b, o) ==
    log' = IF o = Api(k, b) THEN log ELSE [log EXCEPT ![k][b] = Append(@, o)]

(* The key in Garage of a GarageAccessKey: its name has the UID in it. *)
KeyOf(o)      == {x \in gk : x.uid = o.uid}
Held(key, bucket) ==
    {g.right : g \in {h \in grants : h.key = key /\ h.bucket = bucket}}
Pair(key, bucket, rights) == [key: {key}, bucket: {bucket}, right: rights]

-----------------------------------------------------------------------------
Event == events < MaxEvents /\ events' = events + 1

Stop(k)     == w' = [w EXCEPT ![k] = Idle]
Fail(k)     == Stop(k) /\ queue' = queue \cup {<<k, w[k].b>>}     \* requeued
Done(k)     == Stop(k) /\ UNCHANGED queue
Goto(k, pc) == w' = [w EXCEPT ![k].pc = pc] /\ UNCHANGED queue

(* The call has acted: its answer arrives, or is lost. *)
Answered(k, outcome) == \/ outcome /\ UNCHANGED events
                        \/ Event /\ Fail(k)

At(k, pc) == w[k].pc = pc

(* Where a reconcile of the copy m begins.  A GaragePermission depends on  *)
(* the GarageBucket: found tells whether the cache shows it.  A managed    *)
(* GarageAccessKey has no reclaim policy: its key goes with it.            *)
FirstStep(k, m, found) ==
    IF m.deleting
    THEN IF ~m.fin THEN "idle"
         ELSE IF ~found \/ (k = "bucket" /\ m.spec.retain) THEN "unfinalize"
         ELSE "reclaim"
    ELSE IF ~found THEN "idle"
         ELSE IF ~m.fin THEN "finalize"
         ELSE CASE k = "bucket" -> "target" [] k = "key" -> "make" [] k = "perm" -> "grant"

Begin(k, b) ==
    LET m     == Cache(k, b)
        found == k = "perm" => Exists(Cache("bucket", b))
        pc    == IF Exists(m) THEN FirstStep(k, m, found) ELSE "idle"
    IN
    /\ At(k, "idle") /\ <<k, b>> \in queue
    /\ queue' = queue \ {<<k, b>>}
    /\ w' = [w EXCEPT ![k] = IF pc = "idle" THEN Idle ELSE [pc |-> pc, b |-> b, mem |-> m]]
    /\ UNCHANGED <<log, gb, gk, grants, sec, ids, uids, events, kept>>

(* Only GarageBuckets come without a finalizer. *)
AddFinalizer ==
    LET b == w["bucket"].b
        m == [w["bucket"].mem EXCEPT !.fin = TRUE] IN
    /\ At("bucket", "finalize")
    /\ IF Api("bucket", b) = w["bucket"].mem
       THEN /\ Write("bucket", b, m)
            /\ Answered("bucket", w' = [w EXCEPT !["bucket"].pc = "target",
                                                 !["bucket"].mem = m]
                                  /\ UNCHANGED queue)
       ELSE Fail("bucket") /\ UNCHANGED <<log, events>>
    /\ UNCHANGED <<gb, gk, grants, sec, ids, uids, kept>>

(* The GarageBucket that goes leaves its last reclaim policy behind. *)
Remember(b) ==
    kept' = IF Api("bucket", b).spec.retain THEN kept \cup {b} ELSE kept \ {b}

(* Remove the finalizer from the copy, unless it is no longer current. *)
RemoveFinalizer(k) ==
    /\ At(k, "unfinalize")
    /\ IF Api(k, w[k].b) = w[k].mem
       THEN /\ Write(k, w[k].b, Unfinalized(w[k].mem)) /\ Answered(k, Done(k))
            /\ IF k = "bucket" THEN Remember(w[k].b) ELSE UNCHANGED kept
       ELSE Fail(k) /\ UNCHANGED <<log, events, kept>>
    /\ UNCHANGED <<gb, gk, grants, sec, ids, uids>>

CallFails(k) ==
    /\ ~At(k, "idle") /\ Event /\ Fail(k)
    /\ UNCHANGED <<log, gb, gk, grants, sec, ids, uids, kept>>

-----------------------------------------------------------------------------
(* The bucket controller: the bucket in Garage, then the two children.     *)

AfterTarget == IF w["bucket"].mem.spec.access = NoAccess THEN "rmKey" ELSE "putKey"

MakeBucket ==
    LET b == w["bucket"].b IN
    /\ At("bucket", "target")
    /\ IF gb[b] = 0
       THEN /\ ids' = ids + 1
            /\ gb' = [gb EXCEPT ![b] = ids + 1]
            /\ Answered("bucket", Goto("bucket", AfterTarget))
       ELSE Goto("bucket", AfterTarget) /\ UNCHANGED <<gb, ids, events>>
    /\ UNCHANGED <<log, gk, grants, sec, uids, kept>>

(* Delete by name what the cache shows. *)
RemoveChild(k, pc, next) ==
    LET b == w["bucket"].b IN
    /\ At("bucket", pc)
    /\ IF Exists(Cache(k, b)) /\ Exists(Api(k, b)) /\ ~Api(k, b).deleting
       THEN Write(k, b, Deleted(Api(k, b))) /\ Answered("bucket", next)
       ELSE next /\ UNCHANGED <<log, events>>
    /\ UNCHANGED <<gb, gk, grants, sec, ids, uids, kept>>

(* Faulty variant: one child is left. *)
RemovePermNot == At("bucket", "rmPerm") /\ Done("bucket")
    /\ UNCHANGED <<log, gb, gk, grants, sec, ids, uids, events, kept>>

RemoveKey  == RemoveChild("key", "rmKey", Goto("bucket", "rmPerm"))
RemovePerm == RemoveChild("perm", "rmPerm", Done("bucket"))

(* What a child is to be. *)
Asked(k) == [owner  |-> w["bucket"].mem.uid,
             rights |-> IF k = "perm" THEN w["bucket"].mem.spec.access ELSE {}]

(* CreateOrUpdate of the cached child, with its finalizer from the start.  *)
PutChild(k, pc, next) ==
    LET b   == w["bucket"].b
        c   == Cache(k, b)
        new == IF Exists(c) THEN [c EXCEPT !.spec = Asked(k)]
               ELSE [Created(uids + 1, Asked(k)) EXCEPT !.fin = TRUE]
    IN
    /\ At("bucket", pc)
    /\ IF new = c THEN next /\ UNCHANGED <<log, uids, events>>
       ELSE IF Api(k, b) = c
            THEN /\ Write(k, b, new)
                 /\ uids' = IF Exists(c) THEN uids ELSE uids + 1
                 /\ Answered("bucket", next)
            ELSE Fail("bucket") /\ UNCHANGED <<log, uids, events>>
    /\ UNCHANGED <<gb, gk, grants, sec, ids, kept>>

PutKey  == PutChild("key", "putKey", Goto("bucket", "putPerm"))
PutPerm == PutChild("perm", "putPerm", Done("bucket"))

(* Faulty variant: the bucket in Garage is kept. *)
ReclaimBucketNot == At("bucket", "reclaim") /\ Goto("bucket", "unfinalize")
    /\ UNCHANGED <<log, gb, gk, grants, sec, ids, uids, events, kept>>

(* Rights on a bucket go with it. *)
ReclaimBucket ==
    LET b == w["bucket"].b IN
    /\ At("bucket", "reclaim")
    /\ IF gb[b] # 0
       THEN /\ gb' = [gb EXCEPT ![b] = 0]
            /\ grants' = {g \in grants : g.bucket # gb[b]}
            /\ Answered("bucket", Goto("bucket", "unfinalize"))
       ELSE Goto("bucket", "unfinalize") /\ UNCHANGED <<gb, grants, events>>
    /\ UNCHANGED <<log, gk, sec, ids, uids, kept>>

-----------------------------------------------------------------------------
(* The key controller: the key in Garage, then the Secret.                 *)

MakeKey ==
    /\ At("key", "make")
    /\ IF KeyOf(w["key"].mem) = {}
       THEN /\ ids' = ids + 1
            /\ gk' = gk \cup {[id |-> ids + 1, uid |-> w["key"].mem.uid]}
            /\ Answered("key", Goto("key", "publish"))
       ELSE Goto("key", "publish") /\ UNCHANGED <<gk, ids, events>>
    /\ UNCHANGED <<log, gb, grants, sec, uids, kept>>

PublishKey ==
    LET b == w["key"].b IN
    /\ At("key", "publish")
    /\ \/ \E x \in KeyOf(w["key"].mem) :
            LET new == [cred |-> x.id, owner |-> w["key"].mem.uid] IN
            IF new = sec[b] THEN Done("key") /\ UNCHANGED <<sec, events>>
            ELSE sec' = [sec EXCEPT ![b] = new] /\ Answered("key", Done("key"))
       \/ KeyOf(w["key"].mem) = {} /\ Fail("key") /\ UNCHANGED <<sec, events>>
    /\ UNCHANGED <<log, gb, gk, grants, ids, uids, kept>>

(* Faulty variant: the key in Garage is kept. *)
ReclaimKeyNot == At("key", "reclaim") /\ Goto("key", "unfinalize")
    /\ UNCHANGED <<log, gb, gk, grants, sec, ids, uids, events, kept>>

(* Rights of a key go with it. *)
ReclaimKey ==
    LET mine == KeyOf(w["key"].mem) IN
    /\ At("key", "reclaim")
    /\ IF mine # {}
       THEN /\ gk' = gk \ mine
            /\ grants' = {g \in grants : \A x \in mine : g.key # x.id}
            /\ Answered("key", Goto("key", "unfinalize"))
       ELSE Goto("key", "unfinalize") /\ UNCHANGED <<gk, grants, events>>
    /\ UNCHANGED <<log, gb, sec, ids, uids, kept>>

-----------------------------------------------------------------------------
(* The permission controller: the rights of the key on the bucket.         *)

(* Faulty variant: nothing is to be done for a bucket that is not listed. *)
RightsMetUnlisted(held, asked) == held \in {{}, asked}

(* A bucket on which a key has no right is not listed with the key. *)
RightsMet(held, asked) == held # {} /\ held = asked

(* Without GarageAccessKey or bucket the reconcile ends; without the key   *)
(* in Garage it fails.                                                     *)
Grant ==
    LET b     == w["perm"].b
        key   == Cache("key", b)
        asked == w["perm"].mem.spec.rights
    IN
    /\ At("perm", "grant")
    /\ \/ /\ ~Exists(key) \/ gb[b] = 0
          /\ Done("perm") /\ UNCHANGED <<grants, events>>
       \/ /\ Exists(key) /\ gb[b] # 0 /\ KeyOf(key) = {}
          /\ Fail("perm") /\ UNCHANGED <<grants, events>>
       \/ \E x \in KeyOf(key) :
            /\ gb[b] # 0
            /\ IF RightsMet(Held(x.id, gb[b]), asked)
               THEN Done("perm") /\ UNCHANGED <<grants, events>>
               ELSE /\ grants' = (grants \ Pair(x.id, gb[b], Rights))
                                    \cup Pair(x.id, gb[b], asked)
                    /\ Answered("perm", Done("perm"))
    /\ UNCHANGED <<log, gb, gk, sec, ids, uids, kept>>

(* Without GarageAccessKey, bucket or key there is nothing to revoke. *)
Revoke ==
    LET b   == w["perm"].b
        key == Cache("key", b)
    IN
    /\ At("perm", "reclaim")
    /\ IF Exists(key) /\ KeyOf(key) # {} /\ gb[b] # 0
       THEN \E x \in KeyOf(key) :
              /\ grants' = grants \ Pair(x.id, gb[b], Rights)
              /\ Answered("perm", Goto("perm", "unfinalize"))
       ELSE Goto("perm", "unfinalize") /\ UNCHANGED <<grants, events>>
    /\ UNCHANGED <<log, gb, gk, sec, ids, uids, kept>>

Worker(k) ==
    \/ RemoveFinalizer(k)
    \/ /\ k = "bucket"
       /\ \/ AddFinalizer \/ MakeBucket \/ RemoveKey \/ RemovePerm \/ PutKey
          \/ PutPerm \/ ReclaimBucket
    \/ k = "key"  /\ (MakeKey \/ PublishKey \/ ReclaimKey)
    \/ k = "perm" /\ (Grant \/ Revoke)

-----------------------------------------------------------------------------
(* The manager.  Each controller watches its own kind only. *)

Informer(k, b) ==
    /\ Len(log[k][b]) > 1
    /\ log' = [log EXCEPT ![k][b] = Tail(@)]
    /\ queue' = queue \cup {<<k, b>>}
    /\ UNCHANGED <<w, gb, gk, grants, sec, ids, uids, events, kept>>

(* The informer of each kind resynchronises on its own.  Within ten hours  *)
(* its controller comes to rest: nothing is lost by waiting for that.      *)
Resync(k) ==
    /\ At(k, "idle") /\ \A b \in Buckets : Len(log[k][b]) = 1 /\ <<k, b>> \notin queue
    /\ queue' = queue \cup {<<k, b>> : b \in {c \in Buckets : Exists(Cache(k, c))}}
    /\ UNCHANGED <<log, w, gb, gk, grants, sec, ids, uids, events, kept>>

(* Faulty variant: the requests under way are queued even when there are none. *)
CrashRequeue ==
    /\ Event
    /\ w' = [k \in Kinds |-> Idle]
    /\ queue' = queue \cup {<<k, w[k].b>> : k \in Kinds}
    /\ UNCHANGED <<log, gb, gk, grants, sec, ids, uids, kept>>

(* All three controllers are in one process. *)
Crash ==
    /\ Event
    /\ w' = [k \in Kinds |-> Idle]
    /\ log' = [k \in Kinds |-> [b \in Buckets |-> Relisted(log[k][b])]]
    /\ queue' = {r \in Kinds \X Buckets : Exists(Api(r[1], r[2]))}
    /\ UNCHANGED <<gb, gk, grants, sec, ids, uids, kept>>

-----------------------------------------------------------------------------
(* Users, the Garage administrator, Kubernetes.                            *)

UserCreate(b, s) ==
    /\ Event /\ ~Exists(Api("bucket", b))
    /\ uids' = uids + 1
    /\ Write("bucket", b, Created(uids + 1, s))
    /\ UNCHANGED <<queue, w, gb, gk, grants, sec, ids, kept>>

UserEdit(b, s) ==
    LET o == [Api("bucket", b) EXCEPT !.spec = s] IN
    /\ Event /\ Exists(Api("bucket", b)) /\ o # Api("bucket", b)
    /\ Write("bucket", b, o)
    /\ UNCHANGED <<queue, w, gb, gk, grants, sec, ids, uids, kept>>

(* Other rights in the managed GaragePermission; the GarageBucket's own    *)
(* specification is to prevail.                                            *)
UserEditPerm(b, rights) ==
    LET o == [Api("perm", b) EXCEPT !.spec.rights = rights] IN
    /\ Event /\ Exists(Api("perm", b)) /\ o # Api("perm", b)
    /\ Write("perm", b, o)
    /\ UNCHANGED <<queue, w, gb, gk, grants, sec, ids, uids, kept>>

(* A GarageBucket, or a managed child. *)
UserDelete(k, b) ==
    /\ Event /\ Exists(Api(k, b)) /\ ~Api(k, b).deleting
    /\ Write(k, b, Deleted(Api(k, b)))
    /\ UNCHANGED <<queue, w, gb, gk, grants, sec, ids, uids, kept>>

AdminDeleteBucket(b) ==
    /\ Event /\ gb[b] # 0
    /\ gb' = [gb EXCEPT ![b] = 0]
    /\ grants' = {g \in grants : g.bucket # gb[b]}
    /\ UNCHANGED <<log, queue, w, gk, sec, ids, uids, kept>>

AdminDeleteKey(x) ==
    /\ Event
    /\ gk' = gk \ {x}
    /\ grants' = {g \in grants : g.key # x.id}
    /\ UNCHANGED <<log, queue, w, gb, sec, ids, uids, kept>>

(* Children of a GarageBucket that is no more are deleted. *)
CollectChild(k, b) ==
    LET c == Api(k, b) IN
    /\ Exists(c) /\ ~c.deleting
    /\ c.spec.owner \notin {0, Api("bucket", b).uid}
    /\ Write(k, b, Deleted(c))
    /\ UNCHANGED <<queue, w, gb, gk, grants, sec, ids, uids, events, kept>>

(* And the Secret of a GarageAccessKey that is no more. *)
CollectSecret(b) ==
    /\ sec[b].owner \notin {0, Api("key", b).uid}
    /\ sec' = [sec EXCEPT ![b] = NoSecret]
    /\ UNCHANGED <<log, queue, w, gb, gk, grants, ids, uids, events, kept>>

-----------------------------------------------------------------------------
Init ==
    /\ log    = [k \in Kinds |-> [b \in Buckets |-> <<Absent>>]]
    /\ queue  = {}
    /\ w      = [k \in Kinds |-> Idle]
    /\ gb     = [b \in Buckets |-> 0]
    /\ gk     = {}
    /\ grants = {}
    /\ sec    = [b \in Buckets |-> NoSecret]
    /\ ids    = 0
    /\ uids   = 0
    /\ events = 0
    /\ kept   = {}

Manager ==
    \/ Crash
    \/ \E k \in Kinds : Resync(k) \/ \E b \in Buckets : Informer(k, b)

Environment ==
    \E b \in Buckets :
        \/ \E s \in SpecsOf[b] : UserCreate(b, s) \/ UserEdit(b, s)
        \/ \E k \in Kinds : UserDelete(k, b)
        \/ UserEditPerm(b, Rights)
        \/ AdminDeleteBucket(b)
        \/ \E x \in gk : AdminDeleteKey(x)
        \/ \E k \in ChildKinds : CollectChild(k, b)
        \/ CollectSecret(b)

Next ==
    \/ \E k \in Kinds : \/ \E b \in Buckets : Begin(k, b)
                        \/ Worker(k) \/ CallFails(k)
    \/ Manager \/ Environment

Spec == Init /\ [][Next]_vars

(* As in BucketReconciler, for each worker; Resync is the periodic one. *)
Fairness ==
    /\ \A k \in Kinds : WF_vars(Worker(k)) /\ WF_vars(Resync(k))
    /\ \A k \in Kinds, b \in Buckets : SF_vars(Begin(k, b)) /\ WF_vars(Informer(k, b))
    /\ \A k \in ChildKinds, b \in Buckets : WF_vars(CollectChild(k, b))
    /\ \A b \in Buckets : WF_vars(CollectSecret(b))

FairSpec == Spec /\ Fairness

-----------------------------------------------------------------------------
(* Properties.                                                             *)

(* Every variable has its type; a log is never empty. *)
OperatorTypeOK ==
    /\ log \in [Kinds -> [Buckets ->
                  Seq(Objects(BucketSpecs \cup ChildSpecs)) \ {<<>>}]]
    /\ queue \subseteq Kinds \X Buckets
    /\ w \in [Kinds -> Work]
    /\ gb \in [Buckets -> Nat]
    /\ gk \subseteq GarageKeys
    /\ grants \subseteq Grants
    /\ sec \in [Buckets -> Secrets]
    /\ ids \in Nat /\ uids \in Nat
    /\ events \in 0 .. MaxEvents
    /\ kept \subseteq Buckets

(* Nobody has a right on a bucket whom no CR could take it from again: the *)
(* permission controller lets a GaragePermission go without a revocation   *)
(* when the GarageBucket is gone, and relies on the GarageAccessKey, whose *)
(* finalizer holds it until its key, and with it the rights, are deleted.  *)
RightsHaveACr ==
    \A g \in grants : \E x \in gk, b \in Buckets :
        x.id = g.key /\ x.uid = Api("key", b).uid /\ Api("key", b).fin

(* What a GarageBucket with access is for: an application that reads the   *)
(* Secret can use the bucket, with the rights asked for and no other.      *)
Usable(b) ==
    LET o == Api("bucket", b) IN
    /\ gb[b] # 0
    /\ \E x \in KeyOf(Api("key", b)) : sec[b].cred = x.id
    /\ Held(sec[b].cred, gb[b]) = o.spec.access

(* Nothing is left of access to b: no child, no credentials, no key of a   *)
(* GarageAccessKey that is no more, no right on the bucket.                *)
Withdrawn(b) ==
    /\ \A k \in ChildKinds : ~Exists(Api(k, b))
    /\ sec[b] = NoSecret
    /\ \A x \in gk : \E c \in Buckets : Api("key", c).uid = x.uid
    /\ \A g \in grants : g.bucket # gb[b]

Present(b) == Exists(Api("bucket", b)) /\ ~Api("bucket", b).deleting

(* Once users, administrators and faults leave it alone, access that is    *)
(* switched on works, in whatever order the three controllers learn of the *)
(* GarageBucket, its children and each other's work in Garage.             *)
AccessWorks ==
    \A b \in Buckets :
        <>[](Present(b) /\ Api("bucket", b).spec.access # NoAccess => Usable(b))

(* Access that is switched off is withdrawn: no child, no key, no right    *)
(* and no published credentials stay.                                      *)
AccessWithdrawn ==
    \A b \in Buckets :
        <>[](Present(b) /\ Api("bucket", b).spec.access = NoAccess => Withdrawn(b))

(* When a GarageBucket is deleted it goes in the end, with its children,   *)
(* their key, credentials and rights, and so does its bucket in Garage,    *)
(* unless the last GarageBucket that was held under this name went with    *)
(* the policy Retain.  It is assumed that Garage's refusals end: a bucket  *)
(* is refused for as long as there are objects in it.                      *)
TeardownCompletes ==
    \A b \in Buckets :
        <>[](~Present(b) => /\ ~Exists(Api("bucket", b)) /\ Withdrawn(b)
                            /\ (gb[b] = 0 \/ b \in kept))
=============================================================================
