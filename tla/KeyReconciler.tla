--------------------------- MODULE KeyReconciler ---------------------------
(***************************************************************************)
(* The GarageAccessKey controller (internal/controller/                    *)
(* accesskey_controller.go): one worker that makes a key in the Garage     *)
(* cluster for each GarageAccessKey custom resource (CR), and publishes    *)
(* its credentials in a Secret that the CR owns.                           *)
(*                                                                         *)
(* As in BucketReconciler each call is one action, calls may fail or lose  *)
(* their answer, and the process may restart: MaxFaults bounds these, and  *)
(* MaxOps what users and the administrator do.                             *)
(*                                                                         *)
(* The target name of a key contains the UID of its CR: nobody else uses   *)
(* it.  Garage lets several keys bear one name, and a search by name       *)
(* (GetKeyInfo) answers 400 unless exactly one key matches.                *)
(***************************************************************************)
EXTENDS KubeObjects, FiniteSets

CONSTANTS
    Keys, NoKey,      \* GarageAccessKey names in one namespace, and none
    Names,            \* names of Secrets in that namespace, and overrides
    NameOf,           \* metadata.name of each GarageAccessKey
    NoName,           \* a name left empty
    SpecsOf,          \* the specifications users give each GarageAccessKey
    UserSecrets,      \* names under which users write Secrets themselves
    MaxOps, MaxFaults

Formats == {"", "Default", "AWSConfig"}
Layouts == {"env", "config"}

KeySpecs == [override: Names \cup {NoName}, retain: BOOLEAN,
             secretName: Names \cup {NoName}, format: Formats]

ASSUME KeyNamesAssumption ==
    /\ NameOf \in [Keys -> Names] /\ NoName \notin Names
    /\ NoKey \notin Keys
    /\ UserSecrets \subseteq Names
ASSUME KeySpecsAssumption ==
    SpecsOf \in [Keys -> SUBSET KeySpecs] /\ NoSpec \notin KeySpecs
ASSUME KeyBoundsAssumption == MaxOps \in Nat /\ MaxFaults \in Nat

VARIABLES
    log,       \* the GarageAccessKey CRs, stored and cached (KubeObjects)
    queue,     \* the work queue
    w,         \* the worker: its step, request, copy of the CR, keyInfo
    gk,        \* the keys of the Garage cluster
    ids,       \* access key ids handed out so far
    sec,       \* the Secret of each name, stored and cached
    cluster,   \* the GarageCluster CR and its admin token can be read
    uids,      \* UIDs handed out to GarageAccessKeys so far
    ops, faults

vars == <<log, queue, w, gk, ids, sec, cluster, uids, ops, faults>>

-----------------------------------------------------------------------------
(* A Garage key; uid and name together are its target name. *)
GarageKeys == [id: Nat, uid: Nat, name: Names \cup {NoName}]
NoInfo     == [id |-> 0, uid |-> 0, name |-> NoName]

(* A Secret holds the credentials of a Garage key, or something of the     *)
(* user's (NoInfo), and has an owner reference for each CR name (a UID, 0  *)
(* for none).                                                              *)
Secrets  == [cred: GarageKeys, layout: Layouts \cup {""}, owner: [Keys -> Nat]]
NoOwner  == [k \in Keys |-> 0]
NoSecret == [cred |-> NoInfo, layout |-> "", owner |-> NoOwner]

Idle == [pc |-> "idle", k |-> NoKey, mem |-> Absent, info |-> NoInfo]

Steps == {"idle", "finalize", "find", "create", "statusInfo", "status",
          "secretInfo", "secret", "delInfo", "delKey", "unfinalize"}

Work == [pc: Steps, k: Keys \cup {NoKey}, mem: Objects(KeySpecs), info: GarageKeys]

Api(k) == Live(log[k])

Write(k, o) == log' = IF o = Api(k) THEN log ELSE [log EXCEPT ![k] = Append(@, o)]
PutSec(n, c) == sec' = [sec EXCEPT ![n] = Append(@, c)]

BaseName(k, s) == IF s.override = NoName THEN NameOf[k] ELSE s.override

(* spec.secret.name is not read. *)
SecretName(k, s) == BaseName(k, s)

Layout(s) == IF s.format = "AWSConfig" THEN "config" ELSE "env"

(* What a search for the target name of k, of which o is a copy, matches. *)
Matches(k, o) == {x \in gk : x.uid = o.uid /\ x.name = BaseName(k, o.spec)}

-----------------------------------------------------------------------------
Fault == faults < MaxFaults /\ faults' = faults + 1

Fail     == w' = Idle /\ queue' = queue \cup {w.k}     \* requeued
Done     == w' = Idle /\ UNCHANGED queue
Goto(pc) == w' = [w EXCEPT !.pc = pc] /\ UNCHANGED queue

(* The call has acted: its answer arrives, or is lost. *)
Answered(outcome) == \/ outcome /\ UNCHANGED faults
                     \/ Fault /\ Fail

At(pc) == w.pc = pc

(* Faulty variants: no finalizer; the status tells whether there is a key. *)
FirstStepUnguarded(m) ==
    IF ~m.deleting THEN "find"
    ELSE IF m.spec.retain THEN "unfinalize" ELSE "delInfo"
FirstStepByStatus(m) ==
    IF m.deleting
    THEN IF ~m.fin THEN "idle"
         ELSE IF m.spec.retain THEN "unfinalize" ELSE "delInfo"
    ELSE IF ~m.fin THEN "finalize"
         ELSE IF m.id = 0 THEN "create" ELSE "find"

FirstStep(m) ==
    IF m.deleting
    THEN IF ~m.fin THEN "idle"
         ELSE IF m.spec.retain THEN "unfinalize" ELSE "delInfo"
    ELSE IF m.fin THEN "find" ELSE "finalize"

AfterFind(m) == IF m.id = 0 THEN "statusInfo" ELSE "secretInfo"

(* Take a request; without the cluster it would end in an error. *)
Begin(k) ==
    LET m == Cached(log[k]) IN
    /\ At("idle") /\ k \in queue
    /\ Exists(m) => cluster
    /\ queue' = queue \ {k}
    /\ w' = IF Exists(m) /\ FirstStep(m) # "idle"
            THEN [pc |-> FirstStep(m), k |-> k, mem |-> m, info |-> NoInfo]
            ELSE Idle
    /\ UNCHANGED <<log, gk, ids, sec, cluster, uids, ops, faults>>

AddFinalizer ==
    LET m == [w.mem EXCEPT !.fin = TRUE] IN
    /\ At("finalize")
    /\ IF Api(w.k) = w.mem
       THEN /\ Write(w.k, m)
            /\ Answered(w' = [w EXCEPT !.pc = "find", !.mem = m] /\ UNCHANGED queue)
       ELSE Fail /\ UNCHANGED <<log, faults>>
    /\ UNCHANGED <<gk, ids, sec, cluster, uids, ops>>

FindKey ==
    /\ At("find")
    /\ Goto(IF Matches(w.k, w.mem) = {} THEN "create" ELSE AfterFind(w.mem))
    /\ UNCHANGED <<log, gk, ids, sec, cluster, uids, ops, faults>>

CreateKey ==
    /\ At("create")
    /\ ids' = ids + 1
    /\ gk' = gk \cup {[id |-> ids + 1, uid |-> w.mem.uid,
                       name |-> BaseName(w.k, w.mem.spec)]}
    /\ Answered(Goto(AfterFind(w.mem)))
    /\ UNCHANGED <<log, sec, cluster, uids, ops>>

(* getKeyByID; with the credentials for the status, then for the Secret. *)
GetKey(pc, next) ==
    /\ At(pc)
    /\ \/ \E x \in Matches(w.k, w.mem) :
            /\ Matches(w.k, w.mem) = {x}
            /\ w' = [w EXCEPT !.pc = next, !.info = x] /\ UNCHANGED queue
       \/ Cardinality(Matches(w.k, w.mem)) # 1 /\ Fail
    /\ UNCHANGED <<log, gk, ids, sec, cluster, uids, ops, faults>>

(* A merge patch without precondition; the API server answers the object. *)
PatchStatus ==
    LET m == [Api(w.k) EXCEPT !.id = w.info.id] IN
    /\ At("status")
    /\ IF Exists(Api(w.k))
       THEN /\ Write(w.k, m)
            /\ Answered(w' = [w EXCEPT !.pc = "secretInfo", !.mem = m] /\ UNCHANGED queue)
       ELSE Fail /\ UNCHANGED <<log, faults>>
    /\ UNCHANGED <<gk, ids, sec, cluster, uids, ops>>

(* Faulty variants: an owner reference of that name is taken for one's     *)
(* own; no owner reference; a Secret that is there is left alone.          *)
ExpectedOwnerByName(c) ==
    [c EXCEPT !.cred = w.info, !.layout = Layout(w.mem.spec),
              !.owner[w.k] = IF @ # 0 THEN @ ELSE w.mem.uid]
ExpectedUnowned(c) ==
    [c EXCEPT !.cred = w.info, !.layout = Layout(w.mem.spec)]
ExpectedIfMissing(c) ==
    IF c # NoSecret THEN c
    ELSE [c EXCEPT !.cred = w.info, !.layout = Layout(w.mem.spec),
                   !.owner[w.k] = w.mem.uid]

(* What the Secret c, the user's own too, is to become. *)
ExpectedSecret(c) ==
    [c EXCEPT !.cred = w.info, !.layout = Layout(w.mem.spec),
              !.owner[w.k] = w.mem.uid]

(* controllerutil.CreateOrUpdate: the Secret is read from the cache; a     *)
(* create or an update of a copy that is not current is refused.           *)
PutSecret ==
    LET n   == SecretName(w.k, w.mem.spec)
        c   == Cached(sec[n])
        new == ExpectedSecret(c) IN
    /\ At("secret")
    /\ IF new = c THEN Done /\ UNCHANGED <<sec, faults>>
       ELSE IF Live(sec[n]) = c THEN PutSec(n, new) /\ Answered(Done)
       ELSE Fail /\ UNCHANGED <<sec, faults>>
    /\ UNCHANGED <<log, gk, ids, cluster, uids, ops>>

(* Faulty variants: any error ends a deletion attempt; the id in the       *)
(* status says what to delete.                                             *)
GetKeyForDeletionStrict ==
    /\ At("delInfo")
    /\ \/ \E x \in Matches(w.k, w.mem) :
            /\ Matches(w.k, w.mem) = {x}
            /\ w' = [w EXCEPT !.pc = "delKey", !.info = x] /\ UNCHANGED queue
       \/ Cardinality(Matches(w.k, w.mem)) # 1 /\ Fail
    /\ UNCHANGED <<log, gk, ids, sec, cluster, uids, ops, faults>>
GetKeyForDeletionByStatus ==
    /\ At("delInfo")
    /\ \/ \E x \in gk : /\ x.id = w.mem.id
                        /\ w' = [w EXCEPT !.pc = "delKey", !.info = x] /\ UNCHANGED queue
       \/ (\A x \in gk : x.id # w.mem.id) /\ Goto("unfinalize")
    /\ UNCHANGED <<log, gk, ids, sec, cluster, uids, ops, faults>>

(* The answer 400 is read as: there is no such key. *)
GetKeyForDeletion ==
    /\ At("delInfo")
    /\ \/ \E x \in Matches(w.k, w.mem) :
            /\ Matches(w.k, w.mem) = {x}
            /\ w' = [w EXCEPT !.pc = "delKey", !.info = x] /\ UNCHANGED queue
       \/ Cardinality(Matches(w.k, w.mem)) # 1 /\ Goto("unfinalize")
    /\ UNCHANGED <<log, gk, ids, sec, cluster, uids, ops, faults>>

DeleteKey ==
    /\ At("delKey")
    /\ IF \E x \in gk : x.id = w.info.id
       THEN /\ gk' = {x \in gk : x.id # w.info.id}
            /\ Answered(Goto("unfinalize"))
       ELSE Fail /\ UNCHANGED <<gk, faults>>
    /\ UNCHANGED <<log, ids, sec, cluster, uids, ops>>

RemoveFinalizer ==
    /\ At("unfinalize")
    /\ IF Api(w.k) = w.mem
       THEN Write(w.k, Unfinalized(w.mem)) /\ Answered(Done)
       ELSE Fail /\ UNCHANGED <<log, faults>>
    /\ UNCHANGED <<gk, ids, sec, cluster, uids, ops>>

CallFails ==
    /\ ~At("idle") /\ Fault /\ Fail
    /\ UNCHANGED <<log, gk, ids, sec, cluster, uids, ops>>

Worker ==
    \/ AddFinalizer \/ FindKey \/ CreateKey
    \/ GetKey("statusInfo", "status") \/ PatchStatus
    \/ GetKey("secretInfo", "secret") \/ PutSecret
    \/ GetKeyForDeletion \/ DeleteKey \/ RemoveFinalizer

-----------------------------------------------------------------------------
(* The manager.  SetupWithManager watches GarageAccessKeys only: a Secret  *)
(* that changes refreshes the cache and enqueues nothing.                  *)

Informer(k) ==
    /\ Len(log[k]) > 1
    /\ log' = [log EXCEPT ![k] = Tail(@)]
    /\ queue' = queue \cup {k}
    /\ UNCHANGED <<w, gk, ids, sec, cluster, uids, ops, faults>>

SecretInformer(n) ==
    /\ Len(sec[n]) > 1
    /\ sec' = [sec EXCEPT ![n] = Tail(@)]
    /\ UNCHANGED <<log, queue, w, gk, ids, cluster, uids, ops, faults>>

Resync ==
    /\ queue' = queue \cup {k \in Keys : Exists(Cached(log[k]))}
    /\ UNCHANGED <<log, w, gk, ids, sec, cluster, uids, ops, faults>>

(* Faulty variant: the request under way is queued even when there is none. *)
CrashRequeue ==
    /\ Fault
    /\ w' = Idle /\ queue' = queue \cup {w.k}
    /\ UNCHANGED <<log, sec, gk, ids, cluster, uids, ops>>

Crash ==
    /\ Fault
    /\ w' = Idle
    /\ log' = [k \in Keys |-> Relisted(log[k])]
    /\ sec' = [n \in Names |-> Relisted(sec[n])]
    /\ queue' = {k \in Keys : Exists(Api(k))}
    /\ UNCHANGED <<gk, ids, cluster, uids, ops>>

-----------------------------------------------------------------------------
(* Users, the Garage administrator, Kubernetes. *)

Op == ops < MaxOps /\ ops' = ops + 1

UserCreate(k, s) ==
    /\ Op /\ ~Exists(Api(k))
    /\ uids' = uids + 1
    /\ Write(k, Created(uids + 1, s))
    /\ UNCHANGED <<queue, w, gk, ids, sec, cluster, faults>>

UserEdit(k, s) ==
    LET o == [Api(k) EXCEPT !.spec = s] IN
    /\ Op /\ Exists(Api(k)) /\ o # Api(k)
    /\ Write(k, o)
    /\ UNCHANGED <<queue, w, gk, ids, sec, cluster, uids, faults>>

UserDelete(k) ==
    /\ Op /\ Exists(Api(k)) /\ ~Api(k).deleting
    /\ Write(k, Deleted(Api(k)))
    /\ UNCHANGED <<queue, w, gk, ids, sec, cluster, uids, faults>>

AdminDelete(x) ==
    /\ Op
    /\ gk' = gk \ {x}
    /\ UNCHANGED <<log, queue, w, ids, sec, cluster, uids, faults>>

(* A Secret of the user's own, or data of his in a published one. *)
UserPutSecret(n) ==
    LET c == [Live(sec[n]) EXCEPT !.cred = NoInfo, !.layout = "env"] IN
    /\ Op /\ c # Live(sec[n])
    /\ PutSec(n, c)
    /\ UNCHANGED <<log, queue, w, gk, ids, cluster, uids, faults>>

UserDeleteSecret(n) ==
    /\ Op /\ Live(sec[n]) # NoSecret
    /\ PutSec(n, NoSecret)
    /\ UNCHANGED <<log, queue, w, gk, ids, cluster, uids, faults>>

(* References to owners that are no more are dropped, the last one with    *)
(* the Secret.                                                             *)
GarbageCollect(n) ==
    LET c    == Live(sec[n])
        left == [k \in Keys |-> IF c.owner[k] = Api(k).uid THEN c.owner[k] ELSE 0] IN
    /\ left # c.owner
    /\ PutSec(n, IF left = NoOwner THEN NoSecret ELSE [c EXCEPT !.owner = left])
    /\ UNCHANGED <<log, queue, w, gk, ids, cluster, uids, ops, faults>>

ClusterLost ==
    /\ Fault /\ cluster /\ cluster' = FALSE
    /\ UNCHANGED <<log, queue, w, gk, ids, sec, uids, ops>>

ClusterBack ==
    /\ ~cluster /\ cluster' = TRUE
    /\ UNCHANGED <<log, queue, w, gk, ids, sec, uids, ops, faults>>

-----------------------------------------------------------------------------
Init ==
    /\ log     = [k \in Keys |-> <<Absent>>]
    /\ queue   = {}
    /\ w       = Idle
    /\ gk      = {}
    /\ ids     = 0
    /\ sec     = [n \in Names |-> <<NoSecret>>]
    /\ cluster = TRUE
    /\ uids    = 0
    /\ ops     = 0
    /\ faults  = 0

Manager ==
    \/ Resync \/ Crash
    \/ \E k \in Keys : Informer(k)
    \/ \E n \in Names : SecretInformer(n)

Environment ==
    \/ \E k \in Keys : \/ \E s \in SpecsOf[k] : UserCreate(k, s) \/ UserEdit(k, s)
                       \/ UserDelete(k)
    \/ \E x \in gk : AdminDelete(x)
    \/ \E n \in UserSecrets : UserPutSecret(n) \/ UserDeleteSecret(n)
    \/ \E n \in Names : GarbageCollect(n)
    \/ ClusterLost \/ ClusterBack

Next ==
    \/ \E k \in Keys : Begin(k)
    \/ Worker \/ CallFails \/ Manager \/ Environment

Spec == Init /\ [][Next]_vars

(* As in BucketReconciler; Resync stands for the periodic one. *)
Fairness ==
    /\ WF_vars(Worker)
    /\ WF_vars(Resync)
    /\ \A k \in Keys : SF_vars(Begin(k)) /\ WF_vars(Informer(k))
    /\ \A n \in Names : WF_vars(SecretInformer(n)) /\ WF_vars(GarbageCollect(n))

FairSpec == Spec /\ Fairness

-----------------------------------------------------------------------------
(* The promise to GarageAccessKeys (ManagedTarget): the CR of each UID as  *)
(* it is stored, and the names, which its UID is part of, of its keys.     *)

Uids == 1 .. MaxOps

LifeOf(o) == IF o.deleting THEN "terminating" ELSE IF o.fin THEN "held" ELSE "plain"

CrOf(u) ==
    IF \E k \in Keys : Api(k).uid = u
    THEN LET k == CHOOSE k \in Keys : Api(k).uid = u IN
         [phase |-> LifeOf(Api(k)), name |-> BaseName(k, Api(k).spec),
          retain |-> Api(k).spec.retain]
    ELSE [phase |-> IF u > uids THEN "unborn" ELSE "gone"]

TargetsOf(u) == {x.name : x \in {y \in gk : y.uid = u}}

Promise == INSTANCE ManagedTarget WITH
               obj     <- [u \in Uids |-> CrOf(u)],
               targets <- [u \in Uids |-> TargetsOf(u)]

-----------------------------------------------------------------------------
(* Properties.                                                             *)

(* Every variable has its type; a log is never empty. *)
KeyTypeOK ==
    /\ log \in [Keys -> Seq(Objects(KeySpecs)) \ {<<>>}]
    /\ queue \subseteq Keys
    /\ w \in Work
    /\ gk \subseteq GarageKeys
    /\ ids \in Nat
    /\ sec \in [Names -> Seq(Secrets) \ {<<>>}]
    /\ cluster \in BOOLEAN
    /\ uids \in Nat
    /\ ops \in 0 .. MaxOps
    /\ faults \in 0 .. MaxFaults

(* createKey is not idempotent, and a second key of one name would make    *)
(* every later search answer 400, which ends a deletion as if there were   *)
(* no key.  The list read first prevents it although the answer of an      *)
(* earlier createKey was lost or the process restarted before the status   *)
(* was patched.                                                            *)
OneKeyPerTarget ==
    \A x, y \in gk : x.uid = y.uid /\ x.name = y.name => x = y

(* When a CR with policy Delete is gone, the credentials published under   *)
(* the name it had last have been revoked: there is no Garage key of its   *)
(* target name.                                                            *)
KeyRevoked ==
    [][\A k \in Keys :
         Exists(Api(k)) /\ ~Exists(Api(k)') /\ ~Api(k).spec.retain
            => Matches(k, Api(k)) \cap gk' = {}]_vars

(* The worker implements the promise: each of its calls looks like one     *)
(* atomic step that makes a key for a CR that is there with its finalizer, *)
(* removes one, or lets a deleted CR go with its key revoked.              *)
KeyPromiseKept == Promise!Spec

(* What CredentialsOwned needs: no two CRs ever ask for one Secret name. *)
SecretsApart ==
    \A k, l \in Keys : \A s \in SpecsOf[k], t \in SpecsOf[l] :
        SecretName(k, s) = SecretName(l, t) => k = l

(* Where no two CRs use one Secret name: credentials in a Secret belong to *)
(* the CR that its owner reference names, a former CR of the same name     *)
(* included, so that Kubernetes removes them with it, and not with another *)
(* CR.                                                                     *)
CredentialsOwned ==
    \A n \in Names : LET c == Live(sec[n]) IN
        c.cred.uid # 0 => \E k \in Keys : c.owner[k] = c.cred.uid

(* Once a CR is gone no Secret keeps the credentials it published, under   *)
(* whatever name, and none is written late: the reconcile that was under   *)
(* way cannot publish them again.                                          *)
CredentialsCollected ==
    \A n \in Names, u \in 1 .. MaxOps :
        (Live(sec[n]).cred.uid = u /\ \A k \in Keys : Api(k).uid # u)
            ~> Live(sec[n]).cred.uid # u

(* A deleted GarageAccessKey goes, if its cluster stays reachable, though  *)
(* the key has been deleted by an earlier attempt or by the administrator. *)
KeyDeletionCompletes ==
    <>[]cluster => \A k \in Keys : Api(k).deleting ~> ~Api(k).deleting

(* What a reconcile is to bring about for one GarageAccessKey. *)
Published(k) ==
    LET o == Api(k)
        c == Live(sec[SecretName(k, o.spec)])
    IN  /\ o.fin /\ o.id # 0
        /\ \E x \in Matches(k, o) :
             c = [cred |-> x, layout |-> Layout(o.spec),
                  owner |-> [NoOwner EXCEPT ![k] = o.uid]]

(* Once users, administrators and faults leave it alone, every             *)
(* GarageAccessKey that is not being deleted has its Garage key, and the   *)
(* Secret has that key's credentials in the format asked for: the          *)
(* credentials of a key that was deleted and made again do not stay.       *)
KeyConverges ==
    <>[]cluster =>
        \A k \in Keys : <>[](Exists(Api(k)) /\ ~Api(k).deleting => Published(k))

(* The sample GarageAccessKey names the Secret it wants in spec.secret.    *)
(* name: what is published is published there.                             *)
SecretWhereAsked ==
    [][\A n \in Names :
         At("secret") /\ sec'[n] # sec[n] /\ w' # w
            /\ w.mem.spec.secretName # NoName => n = w.mem.spec.secretName]_vars

=============================================================================
