------------------------ MODULE PermissionReconciler ------------------------
(***************************************************************************)
(* The GaragePermission controller (internal/controller/                   *)
(* permission_controller.go): one worker that gives the key of one CR      *)
(* rights on the bucket of another, as each GaragePermission custom        *)
(* resource (CR) asks, and revokes them when it is deleted.                *)
(*                                                                         *)
(* GarageBuckets and GarageAccessKeys, here references, and what bears     *)
(* their target names in Garage, here targets, belong to others: they come *)
(* and go and are renamed.  As in BucketReconciler each call is one        *)
(* action, MaxFaults bounds failed calls, lost answers and restarts, and   *)
(* MaxOps what users, administrators and the other controllers do.         *)
(***************************************************************************)
EXTENDS KubeObjects, FiniteSets

CONSTANTS
    Perms, NoPerm,            \* GaragePermission names, and none
    BucketRefs, KeyRefs,      \* names of GarageBuckets and GarageAccessKeys
    Targets, NoTarget,        \* aliases and key names in Garage, and none
    TargetsOf,                \* the target names each reference may have
    Rights, NoRight,          \* owner, read, write; none of these
    SpecsOf,                  \* the specifications users give each CR
    MaxOps, MaxFaults

Refs == BucketRefs \cup KeyRefs

(* spec.permissions left out. *)
NoRights == {NoRight}

PermSpecs == [bucket: BucketRefs, key: KeyRefs,
              rights: (SUBSET Rights) \cup {NoRights}]

ASSUME PermNamesAssumption ==
    /\ NoPerm \notin Perms /\ NoTarget \notin Targets
    /\ BucketRefs \cap KeyRefs = {}
    /\ TargetsOf \in [Refs -> SUBSET Targets]
    /\ IsFiniteSet(Targets)
ASSUME PermSpecsAssumption ==
    /\ SpecsOf \in [Perms -> SUBSET PermSpecs]
    /\ NoSpec \notin PermSpecs
    /\ NoRight \notin Rights
ASSUME PermBoundsAssumption == MaxOps \in Nat /\ MaxFaults \in Nat

VARIABLES
    log,       \* the GaragePermission CRs, stored and cached (KubeObjects)
    queue,     \* the work queue
    w,         \* the worker: step, request, copies of the three CRs, ids
    ref,       \* the target name of each reference, stored and cached
    tgt,       \* the id of what bears each target name in Garage, or 0
    ids,       \* Garage ids handed out so far
    grants,    \* Garage: a key has a right on a bucket
    cluster,   \* the GarageCluster CR and its admin token can be read
    uids,      \* UIDs handed out to GaragePermissions so far
    moved,     \* history: references deleted or renamed at some time
    ops, faults

vars == <<log, queue, w, ref, tgt, ids, grants, cluster, uids, moved, ops, faults>>

-----------------------------------------------------------------------------
Grants == [key: Nat, bucket: Nat, right: Rights]

(* bt, kt: target names of bucket and key; bid, kid: their ids in Garage. *)
Idle == [pc |-> "idle", p |-> NoPerm, mem |-> Absent,
         bt |-> NoTarget, kt |-> NoTarget, bid |-> 0, kid |-> 0]

GrantSteps == {"bucketInfo", "keyInfo", "allow", "deny"}
Steps == {"idle", "finalize", "delBucket", "delKey", "revoke", "unfinalize"}
            \cup GrantSteps

Work == [pc: Steps, p: Perms \cup {NoPerm}, mem: Objects(PermSpecs),
         bt: Targets \cup {NoTarget}, kt: Targets \cup {NoTarget},
         bid: Nat, kid: Nat]

Api(p) == Live(log[p])

Write(p, o) == log' = IF o = Api(p) THEN log ELSE [log EXCEPT ![p] = Append(@, o)]

(* spec.permissions left out asks for all. *)
Expected(s) == IF s.rights = NoRights THEN Rights ELSE s.rights

Held(k, b) == {g.right : g \in {h \in grants : h.key = k /\ h.bucket = b}}

Triples(rights) == [key: {w.kid}, bucket: {w.bid}, right: rights]

InGarage(id) == \E t \in Targets : tgt[t] = id

-----------------------------------------------------------------------------
Fault == faults < MaxFaults /\ faults' = faults + 1

Fail     == w' = Idle /\ queue' = queue \cup {w.p}     \* requeued
Done     == w' = Idle /\ UNCHANGED queue
Goto(pc) == w' = [w EXCEPT !.pc = pc] /\ UNCHANGED queue

(* The call has acted: its answer arrives, or is lost. *)
Answered(outcome) == \/ outcome /\ UNCHANGED faults
                     \/ Fault /\ Fail

At(pc) == w.pc = pc

(* Faulty variant: no finalizer. *)
FirstStepUnguarded(m, bt) ==
    IF bt = NoTarget THEN IF m.deleting THEN "unfinalize" ELSE "idle"
    ELSE IF m.deleting THEN "delBucket" ELSE "bucketInfo"

FirstStep(m, bt) ==
    IF m.deleting
    THEN IF ~m.fin THEN "idle"
         ELSE IF bt = NoTarget THEN "unfinalize" ELSE "delBucket"
    ELSE IF bt = NoTarget THEN "idle"
         ELSE IF m.fin THEN "bucketInfo" ELSE "finalize"

(* Take a request: the CR and the GarageBucket it refers to are read from  *)
(* the cache.  Without a GarageBucket there is nothing to do but to let a  *)
(* deleted CR go; with it the cluster is needed.                           *)
Begin(p) ==
    LET m  == Cached(log[p])
        bt == IF Exists(m) THEN Cached(ref[m.spec.bucket]) ELSE NoTarget
    IN
    /\ At("idle") /\ p \in queue
    /\ bt # NoTarget => cluster
    /\ queue' = queue \ {p}
    /\ w' = IF Exists(m) /\ FirstStep(m, bt) # "idle"
            THEN [Idle EXCEPT !.pc = FirstStep(m, bt), !.p = p, !.mem = m, !.bt = bt]
            ELSE Idle
    /\ UNCHANGED <<log, ref, tgt, ids, grants, cluster, uids, moved, ops, faults>>

AddFinalizer ==
    LET m == [w.mem EXCEPT !.fin = TRUE] IN
    /\ At("finalize")
    /\ IF Api(w.p) = w.mem
       THEN /\ Write(w.p, m)
            /\ Answered(w' = [w EXCEPT !.pc = "bucketInfo", !.mem = m]
                        /\ UNCHANGED queue)
       ELSE Fail /\ UNCHANGED <<log, faults>>
    /\ UNCHANGED <<ref, tgt, ids, grants, cluster, uids, moved, ops>>

(* The GarageAccessKey is read from the cache, then the bucket in Garage;  *)
(* when one is missing the reconcile ends without error.                   *)
GetBucket ==
    LET kt == Cached(ref[w.mem.spec.key]) IN
    /\ At("bucketInfo")
    /\ IF kt # NoTarget /\ tgt[w.bt] # 0
       THEN /\ w' = [w EXCEPT !.pc = "keyInfo", !.kt = kt, !.bid = tgt[w.bt]]
            /\ UNCHANGED queue
       ELSE Done
    /\ UNCHANGED <<log, ref, tgt, ids, grants, cluster, uids, moved, ops, faults>>

(* The key in Garage with its rights on the bucket of that alias.  A key   *)
(* that is missing is looked for as an answer 404, but a search answers    *)
(* 400, which is an error here.  A bucket on which a key has no right is   *)
(* not listed with the key.                                                *)
GetKey ==
    LET kid == tgt[w.kt]
        now == Held(kid, tgt[w.bt])
    IN
    /\ At("keyInfo")
    /\ IF kid = 0 THEN Fail
       ELSE IF tgt[w.bt] # 0 /\ now # {} /\ now = Expected(w.mem.spec) THEN Done
       ELSE w' = [w EXCEPT !.pc = "allow", !.kid = kid] /\ UNCHANGED queue
    /\ UNCHANGED <<log, ref, tgt, ids, grants, cluster, uids, moved, ops, faults>>

(* setPermissions: allow what is asked for, then deny the rest. *)
Allow ==
    /\ At("allow")
    /\ IF InGarage(w.kid) /\ InGarage(w.bid)
       THEN /\ grants' = grants \cup Triples(Expected(w.mem.spec))
            /\ Answered(Goto("deny"))
       ELSE Fail /\ UNCHANGED <<grants, faults>>
    /\ UNCHANGED <<log, ref, tgt, ids, cluster, uids, moved, ops>>

(* Faulty variant: the rights that are not asked for are left alone. *)
DenyNothing == At("deny") /\ Done
    /\ UNCHANGED <<log, ref, tgt, ids, grants, cluster, uids, moved, ops, faults>>

Deny ==
    /\ At("deny")
    /\ IF InGarage(w.kid) /\ InGarage(w.bid)
       THEN /\ grants' = grants \ Triples(Rights \ Expected(w.mem.spec))
            /\ Answered(Done)
       ELSE Fail /\ UNCHANGED <<grants, faults>>
    /\ UNCHANGED <<log, ref, tgt, ids, cluster, uids, moved, ops>>

(* Deletion: without the GarageAccessKey, the bucket or the key in Garage  *)
(* there is nothing to revoke.                                             *)
FindBucket ==
    LET kt == Cached(ref[w.mem.spec.key]) IN
    /\ At("delBucket")
    /\ IF kt # NoTarget /\ tgt[w.bt] # 0
       THEN /\ w' = [w EXCEPT !.pc = "delKey", !.kt = kt, !.bid = tgt[w.bt]]
            /\ UNCHANGED queue
       ELSE Goto("unfinalize")
    /\ UNCHANGED <<log, ref, tgt, ids, grants, cluster, uids, moved, ops, faults>>

(* Faulty variant: a key that is missing in Garage is an error. *)
FindKeyStrict ==
    /\ At("delKey")
    /\ IF tgt[w.kt] # 0
       THEN w' = [w EXCEPT !.pc = "revoke", !.kid = tgt[w.kt]] /\ UNCHANGED queue
       ELSE Fail
    /\ UNCHANGED <<log, ref, tgt, ids, grants, cluster, uids, moved, ops, faults>>

FindKey ==
    /\ At("delKey")
    /\ IF tgt[w.kt] # 0
       THEN w' = [w EXCEPT !.pc = "revoke", !.kid = tgt[w.kt]] /\ UNCHANGED queue
       ELSE Goto("unfinalize")
    /\ UNCHANGED <<log, ref, tgt, ids, grants, cluster, uids, moved, ops, faults>>

(* Faulty variant: what the specification grants is revoked. *)
RevokeExpected ==
    /\ At("revoke")
    /\ IF InGarage(w.kid) /\ InGarage(w.bid)
       THEN /\ grants' = grants \ Triples(Expected(w.mem.spec))
            /\ Answered(Goto("unfinalize"))
       ELSE Fail /\ UNCHANGED <<grants, faults>>
    /\ UNCHANGED <<log, ref, tgt, ids, cluster, uids, moved, ops>>

(* denyAllPermissions. *)
Revoke ==
    /\ At("revoke")
    /\ IF InGarage(w.kid) /\ InGarage(w.bid)
       THEN /\ grants' = grants \ Triples(Rights)
            /\ Answered(Goto("unfinalize"))
       ELSE Fail /\ UNCHANGED <<grants, faults>>
    /\ UNCHANGED <<log, ref, tgt, ids, cluster, uids, moved, ops>>

RemoveFinalizer ==
    /\ At("unfinalize")
    /\ IF Api(w.p) = w.mem
       THEN Write(w.p, Unfinalized(w.mem)) /\ Answered(Done)
       ELSE Fail /\ UNCHANGED <<log, faults>>
    /\ UNCHANGED <<ref, tgt, ids, grants, cluster, uids, moved, ops>>

CallFails ==
    /\ ~At("idle") /\ Fault /\ Fail
    /\ UNCHANGED <<log, ref, tgt, ids, grants, cluster, uids, moved, ops>>

Worker == \/ AddFinalizer \/ GetBucket \/ GetKey \/ Allow \/ Deny
          \/ FindBucket \/ FindKey \/ Revoke \/ RemoveFinalizer

-----------------------------------------------------------------------------
(* The manager.  SetupWithManager watches GaragePermissions only: changed  *)
(* GarageBuckets and GarageAccessKeys enqueue nothing.                     *)

Informer(p) ==
    /\ Len(log[p]) > 1
    /\ log' = [log EXCEPT ![p] = Tail(@)]
    /\ queue' = queue \cup {p}
    /\ UNCHANGED <<w, ref, tgt, ids, grants, cluster, uids, moved, ops, faults>>

RefInformer(r) ==
    /\ Len(ref[r]) > 1
    /\ ref' = [ref EXCEPT ![r] = Tail(@)]
    /\ UNCHANGED <<log, queue, w, tgt, ids, grants, cluster, uids, moved, ops, faults>>

Resync ==
    /\ queue' = queue \cup {p \in Perms : Exists(Cached(log[p]))}
    /\ UNCHANGED <<log, w, ref, tgt, ids, grants, cluster, uids, moved, ops, faults>>

(* Faulty variant: the request under way is queued even when there is none. *)
CrashRequeue ==
    /\ Fault
    /\ w' = Idle /\ queue' = queue \cup {w.p}
    /\ UNCHANGED <<log, ref, tgt, ids, grants, cluster, uids, moved, ops>>

Crash ==
    /\ Fault
    /\ w' = Idle
    /\ log' = [p \in Perms |-> Relisted(log[p])]
    /\ ref' = [r \in Refs |-> Relisted(ref[r])]
    /\ queue' = {p \in Perms : Exists(Api(p))}
    /\ UNCHANGED <<tgt, ids, grants, cluster, uids, moved, ops>>

-----------------------------------------------------------------------------
(* Users, administrators, the other controllers. *)

Op == ops < MaxOps /\ ops' = ops + 1

UserCreate(p, s) ==
    /\ Op /\ ~Exists(Api(p))
    /\ uids' = uids + 1
    /\ Write(p, Created(uids + 1, s))
    /\ UNCHANGED <<queue, w, ref, tgt, ids, grants, cluster, moved, faults>>

UserEdit(p, s) ==
    LET o == [Api(p) EXCEPT !.spec = s] IN
    /\ Op /\ Exists(Api(p)) /\ o # Api(p)
    /\ Write(p, o)
    /\ UNCHANGED <<queue, w, ref, tgt, ids, grants, cluster, uids, moved, faults>>

UserDelete(p) ==
    /\ Op /\ Exists(Api(p)) /\ ~Api(p).deleting
    /\ Write(p, Deleted(Api(p)))
    /\ UNCHANGED <<queue, w, ref, tgt, ids, grants, cluster, uids, moved, faults>>

(* A GarageBucket or GarageAccessKey is created, renamed or deleted. *)
RefChanges(r, t) ==
    /\ Op /\ Live(ref[r]) # t
    /\ ref' = [ref EXCEPT ![r] = Append(@, t)]
    /\ moved' = IF Live(ref[r]) # NoTarget THEN moved \cup {r} ELSE moved
    /\ UNCHANGED <<log, queue, w, tgt, ids, grants, cluster, uids, faults>>

TargetMade(t) ==
    /\ Op /\ tgt[t] = 0
    /\ ids' = ids + 1
    /\ tgt' = [tgt EXCEPT ![t] = ids + 1]
    /\ UNCHANGED <<log, queue, w, ref, grants, cluster, uids, moved, faults>>

(* Grants go with the bucket or the key. *)
TargetDeleted(t) ==
    /\ Op /\ tgt[t] # 0
    /\ tgt' = [tgt EXCEPT ![t] = 0]
    /\ grants' = {g \in grants : tgt[t] \notin {g.key, g.bucket}}
    /\ UNCHANGED <<log, queue, w, ref, ids, cluster, uids, moved, faults>>

ClusterLost ==
    /\ Fault /\ cluster /\ cluster' = FALSE
    /\ UNCHANGED <<log, queue, w, ref, tgt, ids, grants, uids, moved, ops>>

ClusterBack ==
    /\ ~cluster /\ cluster' = TRUE
    /\ UNCHANGED <<log, queue, w, ref, tgt, ids, grants, uids, moved, ops, faults>>

-----------------------------------------------------------------------------
(* References and targets may be there before the operator starts. *)
FirstIds == CHOOSE f \in [Targets -> 1 .. Cardinality(Targets)] :
                \A t, u \in Targets : f[t] = f[u] => t = u

Init ==
    /\ log     = [p \in Perms |-> <<Absent>>]
    /\ queue   = {}
    /\ w       = Idle
    /\ ref     \in {[r \in Refs |-> <<f[r]>>] :
                      f \in {g \in [Refs -> Targets \cup {NoTarget}] :
                               \A r \in Refs : g[r] \in TargetsOf[r] \cup {NoTarget}}}
    /\ tgt     \in {[t \in Targets |-> IF t \in T THEN FirstIds[t] ELSE 0] :
                       T \in SUBSET Targets}
    /\ ids     = Cardinality(Targets)
    /\ grants  = {}
    /\ cluster = TRUE
    /\ uids    = 0
    /\ moved   = {}
    /\ ops     = 0
    /\ faults  = 0

Manager ==
    \/ Resync \/ Crash
    \/ \E p \in Perms : Informer(p)
    \/ \E r \in Refs : RefInformer(r)

Environment ==
    \/ \E p \in Perms : \/ \E s \in SpecsOf[p] : UserCreate(p, s) \/ UserEdit(p, s)
                        \/ UserDelete(p)
    \/ \E r \in Refs : \E t \in TargetsOf[r] \cup {NoTarget} : RefChanges(r, t)
    \/ \E t \in Targets : TargetMade(t) \/ TargetDeleted(t)
    \/ ClusterLost \/ ClusterBack

Next ==
    \/ \E p \in Perms : Begin(p)
    \/ Worker \/ CallFails \/ Manager \/ Environment

Spec == Init /\ [][Next]_vars

(* As in BucketReconciler; Resync stands for the periodic one. *)
Fairness ==
    /\ WF_vars(Worker)
    /\ WF_vars(Resync)
    /\ \A p \in Perms : SF_vars(Begin(p)) /\ WF_vars(Informer(p))
    /\ \A r \in Refs : WF_vars(RefInformer(r))

FairSpec == Spec /\ Fairness

-----------------------------------------------------------------------------
(* Properties.                                                             *)

(* Every variable has its type; a log is never empty. *)
PermTypeOK ==
    /\ log \in [Perms -> Seq(Objects(PermSpecs)) \ {<<>>}]
    /\ queue \subseteq Perms
    /\ w \in Work
    /\ ref \in [Refs -> Seq(Targets \cup {NoTarget}) \ {<<>>}]
    /\ tgt \in [Targets -> Nat]
    /\ ids \in Nat
    /\ grants \subseteq Grants
    /\ cluster \in BOOLEAN
    /\ uids \in Nat
    /\ moved \subseteq Refs
    /\ ops \in 0 .. MaxOps
    /\ faults \in 0 .. MaxFaults

(* Rights are granted only on behalf of the GaragePermission stored under  *)
(* that name, which has the finalizer: none is granted late, for one that  *)
(* is gone and has nobody left to revoke it.                               *)
GrantsForHeld ==
    w.pc \in GrantSteps => Api(w.p).uid = w.mem.uid /\ Api(w.p).fin

(* What GrantRevoked needs: no two GarageBuckets or GarageAccessKeys ever  *)
(* have one target name, and each GaragePermission is about a key and a    *)
(* bucket of its own, as those that GarageBuckets have made are.           *)
TargetsApart == \A r, s \in Refs : TargetsOf[r] \cap TargetsOf[s] # {} => r = s

PairsApart ==
    \A p, q \in Perms : \A s \in SpecsOf[p], t \in SpecsOf[q] :
        s.bucket = t.bucket /\ s.key = t.key <=> p = q

(* When a GaragePermission goes whose GarageBucket and GarageAccessKey are *)
(* there and have been under the same target names all along, the key has  *)
(* no right on the bucket any more: whichever rights an earlier            *)
(* specification granted, and whatever failed between allow and deny.      *)
GrantRevoked ==
    [][\A p \in Perms :
         Exists(Api(p)) /\ ~Exists(Live(log'[p])) =>
            LET s == Api(p).spec
                b == Live(ref[s.bucket])
                k == Live(ref[s.key])
            IN  NoTarget \notin {b, k} /\ {s.bucket, s.key} \cap moved = {} =>
                  (tgt[b] # 0 /\ tgt[k] # 0 =>
                     \A g \in grants' : g.key # tgt[k] \/ g.bucket # tgt[b])]_vars

(* A deleted GaragePermission goes, though GarageBucket, GarageAccessKey,  *)
(* bucket or key are missing; with a GarageBucket it needs the cluster.    *)
PermDeletionCompletes ==
    <>[]cluster => \A p \in Perms : Api(p).deleting ~> ~Api(p).deleting

(* What a reconcile is to bring about for one GaragePermission. *)
Granted(p) ==
    LET s == Api(p).spec
        b == Live(ref[s.bucket])
        k == Live(ref[s.key])
    IN  NoTarget \notin {b, k} => (tgt[b] # 0 /\ tgt[k] # 0 =>
            Api(p).fin /\ Held(tgt[k], tgt[b]) = Expected(s))

(* Where no two GaragePermissions are about one key and bucket: once the   *)
(* others leave it alone, each one whose references and targets are there, *)
(* in whatever order they came, has the rights that it asks for and no     *)
(* others.                                                                 *)
PermConverges ==
    <>[]cluster =>
        \A p \in Perms : <>[](Exists(Api(p)) /\ ~Api(p).deleting => Granted(p))

(* "target key not found in Garage, skipping permission grants": a key     *)
(* that is missing in Garage ends the reconcile, without error and retry.  *)
MissingKeySkipped ==
    [][At("keyInfo") /\ tgt[w.kt] = 0 /\ w' # w => w.p \notin queue' \ queue]_vars

=============================================================================
