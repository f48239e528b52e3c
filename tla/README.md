# A formal model of the Garage S3 operator

The operator (`src/cmd/main.go`, `src/internal/controller`) turns Kubernetes
custom resources (CRs) into buckets, access keys and grants of a Garage object
store. It is three level-triggered controllers over two systems that fail
independently, a Kubernetes API server read through a lagging cache and the
Garage admin API, and it deletes data. This project models the controllers call
by call in TLA+, checks them with TLC on small instances, and proves with TLAPS, for
every instance, each safety property that the runs check: everything but
liveness.

## Inventory

| Part | State it keeps | Operations | Interacts with |
|---|---|---|---|
| GarageBucket controller, `bucket_controller.go` | none of its own: finalizer and `status.id` in the CR; the bucket and its quotas in Garage; two child CRs | `Reconcile`: finalizer, `reconcile` (look up, create, status, quotas, children), `reconcileDeletion`, finalizer off | Garage, child CRs (owner references), garbage collector |
| GarageAccessKey controller, `accesskey_controller.go` | finalizer, `status.id`; the key in Garage; a Secret | list, create, status, Secret; search, delete, finalizer off | Garage, Secrets; is a child of a GarageBucket |
| GaragePermission controller, `permission_controller.go` | finalizer; the grant of a key on a bucket in Garage | compare and set the grant; revoke, finalizer off | reads GarageBucket and GarageAccessKey CRs; is a child of a GarageBucket |
| Garage client, `garage.go` | HTTP client for one reconcile | one call of the admin API each; `setPermissions` makes two | the three controllers |
| Helpers, `helper.go` | none | cached reads of CRs and Secrets | the three controllers |
| API types, `api/v1alpha1` | specifications and status | target names, selectors | all |
| Manager, `cmd/main.go` | informer caches, one work queue and one worker for each controller | start, watches, resynchronisation, leader election | all |

Left aside: generated deep copies and registration, manifests, charts and
scripts under `deploy/` and `hack/`, and the tests, which serve as documentation
of what Garage answers.

**What is hard.** A reconcile starts from a copy of the CR that may be old: the
object may be terminating, gone or replaced by another of the same name. Each
call may fail, or act and lose its answer, and the process may restart between
any two. Users edit name, policy, quotas and access at any time, during a
deletion too; an administrator handles the same buckets and keys; the garbage
collector and the other controllers delete the children. Only CRs are watched:
what happens to a child, a Secret or anything in Garage is noticed at the
resynchronisation at the latest. `PROJECT.json` lists every hazard with its line
and the properties about it.

**What makes the parts correct.** Buckets: nothing is made without a finalizer
to reclaim it; `Retain` is honoured; when a CR is gone so is its target; nobody
else's data or child CRs are touched; deletion completes; specification and
target converge; a limit that nobody set is not set. Keys: never two keys of one name; revoked with the CR; the
Secret follows key and owner. Permissions: the grant is what the specification
says and is revoked when the CR goes. All three together:
access that is switched on works in the end, with the credentials in the Secret;
access that is switched off, or whose GarageBucket is deleted, leaves nothing; nobody
has a right that no CR could take away.

## Modules

| Module | Contents |
|---|---|
| `KubeObjects` | objects with UID, deletion mark, finalizer; stored and cached versions of one name |
| `BucketReconciler` | the GarageBucket controller, the bucket side of Garage, the children as far as this controller handles them, users, administrator, manager; its properties |
| `MCBucketReconciler` | instances for TLC |
| `KubeObjectsProofs` | lemmas on version logs: what a write, the informer and a restart make of them, and the order of versions |
| `BucketReconcilerProofs` | type correctness; users' own children |
| `BucketReclaimProofs` | the inductive invariant and the safety of reclaiming |
| `BucketPromiseProofs` | the worker implements `ManagedTarget`; no deletion hits another CR's bucket |
| `KeyReconciler` | the GarageAccessKey controller, the key side of Garage, Secrets; its properties |
| `MCKeyReconciler` | instances for TLC |
| `KeyReconcilerProofs` | types, one key for each name, revocation, owners of credentials |
| `KeyPromiseProofs` | the worker implements `ManagedTarget` |
| `PermissionReconciler` | the GaragePermission controller, grants in Garage; the bucket and key CRs and what bears their names in Garage as things that come and go; its properties |
| `MCPermissionReconciler` | instances for TLC |
| `PermissionReconcilerProofs` | types, grants for CRs that are there, revocation |
| `ManagedTarget` | the abstract promise to CRs of one kind: targets are made for CRs that are there with a finalizer, and a deleted CR goes only with its target reclaimed or to be retained |
| `Operator` | the three controllers together: a GarageBucket with access, its GarageAccessKey and GaragePermission, the Secret, keys, buckets and grants in Garage; its properties |
| `MCOperator` | instances for TLC |
| `OperatorProofs` | types; every right has a stored GarageAccessKey |

`BucketReconciler`, `KeyReconciler` and `PermissionReconciler` stand beside each
other, each with the others' work as its environment; the first two implement
`ManagedTarget`; `Operator` composes the three with coarser steps. All but
`ManagedTarget` extend `KubeObjects`.

### How the model corresponds to the code

* **A name in Kubernetes** is the sequence of the versions that the informer has
  not delivered past: `Cached` is what `r.Get` returns, `Live` what the API server
  stores. A write appends, `Informer` drops the oldest version and queues the
  name. Successive objects of one name share the sequence.
* **Optimistic concurrency.** `r.Update` succeeds when the worker's copy equals
  the stored object. The code compares resource versions, which also tells apart
  an object that was changed and changed back; the model lets such an update pass,
  and the code would be sent back to try it again. A write that changes nothing
  makes no version, as in Kubernetes. A merge patch (`status.id`) has no
  precondition, and goes on with the object that the server answers.
* **The worker** (`w`) holds its step, its request, its copy of the CR and the
  `bucketInfo` or `keyInfo` of its last lookup. Each call to the API server or to
  Garage is one action: `GetTarget`, `CreateTarget`, `PatchStatus`, `SetQuota`,
  ... in the order of the code. Its guard is the worker's step; what comes next
  (`AfterTarget`, `AfterQuota`, ...) are the code's conditions. `Fail` is
  `return ctrl.Result{}, err`: the request is queued again and everything the
  worker knew is lost.
* **A cached read and the write it leads to** (the children, the Secret:
  `CreateOrUpdate`) are one action. Anything between the two is the same as a
  cache that lags behind it.
* **Begin** reads the CR and needs the GarageCluster and the admin token
  (`cluster`). Without them the code returns an error and queues the request
  again: nothing changes, so `Begin` is not enabled.
* **References.** For the GaragePermission controller a GarageBucket or
  GarageAccessKey is a name that has, stored and cached, a target name or none
  (`ref`), and Garage maps target names to ids or none (`tgt`). Both change at any
  time, on behalf of users, administrators and the other two controllers, and may
  be there before the operator starts. A grant is a set of triples of key id,
  bucket id and right, and goes with its key or bucket. `Allow` and `Deny` are the
  two calls of `setPermissions`.
* **Faults**, `MaxFaults` of them: a call fails before it acts (`CallFails`), acts
  and loses its answer (`Answered`), the process restarts with a full list
  (`Crash`), the cluster is lost (`ClusterLost`). `CallFails` also stands for the
  refusals of Garage that depend on data, as deleting a bucket with objects in it,
  and so these are bounded too: see "Fairness".
* **A restart** is taken to list what the API server stores at that time
  (`Relisted`). This is an assumption on things outside the repository: client-go's
  first list may be served from the API server's watch cache, which can be older. A
  new process could then see versions that the former one was already past. The
  models exclude this, and the proofs rely on it where they say that no version older
  than one read is seen again.
* **Users and administrators**, `MaxOps` operations in all: create, edit and
  delete CRs; make and delete Garage buckets under the aliases of `AdminNames`;
  make and delete children or Secrets of their own.
* **History, for the properties only**: a Garage bucket remembers the UID it was
  made for (`maker`), a key its CR's UID, which is part of its name in the code as
  well; `doomed` collects the UIDs that were terminating with policy Delete; `moved`
  collects the references that were deleted or renamed; `kept` in `Operator` collects
  the names whose last GarageBucket with a finalizer went under policy Retain.
* **Quotas** are two numbers in `spec.quotas`, where a limit left out is 0
  (`omitempty`), and two numbers or null (`NoLimit`) in Garage. `QuotaMet` compares
  them as `reconcile` does, with null read as 0 (`Seen`), and `SetQuota` sends both
  numbers as they are.
* **Data**: configurations of children are model values; ids and UIDs are numbers, 0
  for none.
* **The promise.** `ManagedTarget` knows CRs by their UID: unborn, stored without a
  finalizer (`plain`), with one (`held`), `terminating`, gone; and the names under
  which there is a target made for each. Its steps are atomic and see the true
  state. `Promise` in `BucketReconciler` and `KeyReconciler` maps the stored object
  of each UID, and the targets by `maker` or by the UID in a key's name, to it.
  Renaming leaves targets under former names, in the promise as in the code. The
  GaragePermission controller makes no such promise: it lets a CR go without a
  revocation when the GarageBucket or GarageAccessKey is missing
  (`permission_controller.go:71`, `:201`).
* **The composition.** In `Operator` each of the three kinds has its log, its queue
  and its worker, and the workers meet in the API server, in the shared cache and in
  Garage only: `w["perm"]` reads the cached GarageAccessKey and what Garage has, and
  is told of neither. A step is one write with the reads it depends on, as what
  happens in between is in the modules of the controllers. Left out for the same
  reason: status, quotas, target names, children of the users' own, `setPermissions`
  as two calls, and the loss of the cluster. Managed GarageAccessKeys have no reclaim
  policy, so their key goes with them. `TeardownCompletes` covers the bucket in Garage as
  well: it is gone in the end unless the name is in `kept`.

## Runs

`MaxOps` and `MaxFaults` bound every run; deadlock is not checked, as the system
rests when nobody asks it for anything. In `Operator` one bound, `MaxEvents`, takes
faults and operations together.

| Run | Question | Instance | Result |
|---|---|---|---|
| `bucket_target` | is what is made guarded, owned and reclaimed? | 1 CR, 2 aliases, 3 specifications (plain; Retain; quota and rename), administrator on both aliases, 5 operations, 1 fault | holds; 3.2 million states |
| `bucket_pair` | can a deletion hit another CR's bucket? | 2 CRs, 3 aliases, no common target name, 4 operations, 1 fault | holds; 1.6 million states |
| `bucket_deletion` | does deletion complete, and does the worker implement the promise of `ManagedTarget`? | 1 CR, 2 aliases, 3 specifications, administrator on one alias, 4 operations, 1 fault | holds under `FairSpec`; 337 thousand states |
| `bucket_convergence` | does everything become what was asked for, and are a user's own children left alone? | 1 CR, 2 specifications that differ in all fields, own children, 3 operations, 1 fault | holds under `ResyncedSpec`; 434 thousand states |
| `bucket_status_stale` | does the status name the observed bucket? | 1 CR, administrator | violated |
| `bucket_foreign_deleted` | are only managed children deleted? | 1 CR, own children | violated |
| `bucket_quota` | does a limit that is left out stay unlimited? | 1 CR, quotas with `maxObjects` only, 1 operation | violated |
| `key_lifecycle` | one key, revoked with its CR; the Secret follows key and owner; the promise of `ManagedTarget`; liveness | 1 CR, 3 specifications (plain; rename and format; Retain), administrator and user on key and Secret, 3 operations, 1 fault | holds under `FairSpec`; 190 thousand states |
| `key_secret_name` | is the Secret published where the sample asks? | the sample's specification | violated |
| `permission_lifecycle` | granted for a CR that is there, revoked with it, no deletion stuck, right in whatever order things come | 1 CR, rights left out or read only, a GarageBucket with 2 names, 2 rights, 3 operations, 1 fault; 0 to 3 targets and 0 to 2 references there from the start | holds under `FairSpec` |
| `permission_missing_key` | is a key that is missing in Garage skipped? | 1 CR, 1 operation | violated |
| `operator` | does access work, is it withdrawn, does teardown complete, can every right be taken away? | 1 GarageBucket and its children, 2 rights, 3 specifications (no access; all rights; read only and Retain), administrator on bucket and keys, children deleted and rights edited by users, 3 events | holds under `FairSpec`; 529 thousand states |

**Bounds.** Three operations are the shortest history in which a CR is created,
deleted and created again, or created, renamed and deleted; the fourth and fifth
in `bucket_target` (the fourth in `bucket_deletion`) add an administrator at work in
between. One fault is enough to
lose any one answer or restart at any step, and every step but the lost one is
taken again afterwards. Logs are bounded by the writes that the operations cause.
In `permission_lifecycle` three operations are a CR created, edited and deleted,
or created and deleted with any one change to references and targets in between;
all 48 combinations of references and targets are initial, so no operation is
spent on making them. Two of the three rights suffice: the code treats each in the
same way. The three events of `operator` are a GarageBucket created, edited and
deleted, or created, edited and any one fault or any one deletion of a child, bucket
or key in between. In `bucket_quota` one operation, a CR created, is all that is
needed.

**Fairness.** The worker goes on with what it holds: each call returns in the
end (weak fairness of `Worker`; the HTTP client has no timeout, so this is an
assumption on the network). The work queue is first in, first out, with one
worker, so a name that is in it again and again is taken (strong fairness of
`Begin`; a request that failed goes back to the queue, after other names had
their turn). Watches deliver, the garbage collector runs, the other controllers
finalize children (weak fairness). `ResyncedSpec`, and `FairSpec` of
`KeyReconciler`, `PermissionReconciler` and `Operator`, add the periodic
resynchronisation, in `Operator` for each informer by itself and when its controller is
at rest, which within ten hours it is. Nothing is assumed of
users, administrators and faults. Liveness is claimed when the cluster stays
reachable in the end, and when Garage's refusals end: Garage does not delete a bucket
that has objects in it, and neither does the operator empty it, so a GarageBucket with
policy Delete stays for as long as its objects do. `DeletionCompletes` and
`TeardownCompletes` are to be read under this condition.

**Without the resynchronisation `Converges` does not hold**: `PutKey` finds in
the cache a terminating child that is up to date and leaves it; when the child is
gone nothing queues the bucket, because `SetupWithManager` watches GarageBuckets
only. The bucket stays without its key until the next resynchronisation, ten hours
by default. **Nor does `AccessWorks`**: when the permission controller takes up the
managed GaragePermission before the cache shows the GarageAccessKey made just before
it, its reconcile ends ("key not found, skipping permission grants") and nothing
queues it again; the published credentials have no rights until the
resynchronisation.

### Findings

1. `StatusIsObserved`: `status.id` is written only while it is empty
   (`bucket_controller.go:144`). After the Garage bucket was deleted out of band and
   made again, or the override name was edited, it names the former bucket for
   ever.
2. `OnlyManagedDeleted`: when access is switched off the worker decides on the
   owner references of the cached child and then deletes by name
   (`bucket_controller.go:201-203`, `:220-222`). When a user has replaced the
   managed child by one of his own in the meantime, that one is deleted. A
   precondition on the UID would prevent it.
3. `SecretWhereAsked`: `spec.secret.name` is never read
   (`accesskey_controller.go:176`), although the sample sets it.
4. `MissingKeySkipped`: a GaragePermission whose key is not in Garage is to be
   skipped when Garage answers 404 (`permission_controller.go:153`), but a key
   search answers 400, as the GarageAccessKey controller and its tests know. The
   reconcile fails and is retried with back-off until the key is there.
5. `LeftOutNotLimited`: both limits in `spec.quotas` are optional
   (`bucket_types.go:51-56`), but `updateBucket` sends both (`garage.go:176-179`), so
   the one left out becomes a limit of 0, which no upload meets. As
   `bucket_controller.go:158` reads null as 0, what `quotas` without any limit does
   depends on what Garage has: nothing where there is no limit, a limit of 0 where there
   was one. Removing `quotas` never lifts a limit.

Behaviours that nothing in the code or its documents excludes, and that the
passing properties leave out by their wording: two GarageBuckets that resolve to
one alias share a bucket, and deleting one deletes the data of both; a rename
leaves the former bucket or key behind; a deletion whose last answer was lost is
repeated from the cache for a CR that is gone, and deletes what an administrator
has made under that alias by then; two GarageAccessKeys with one override name
share a Secret; a policy of Retain that is set while the CR terminates may come too
late, as a worker that holds a copy with policy Delete goes on with it
(`RetainHonoured` is about a Retain that is set before the deletion and left alone);
two GaragePermissions for one key and bucket undo each other's grants; a GaragePermission that is pointed at another bucket or key, or that is
deleted after its bucket or key CR, leaves the grant in Garage.

`GrantRevoked` holds for references that were never renamed or made anew, since
the cache may show another target name than the one the grant was made under.

## Proofs

The theorems hold for any number of CRs, names, specifications, ids and rights and for
any bounds, from the assumptions that the modules state on their constants. Where a
theorem needs more, it says so as its hypothesis:

| Hypothesis | Theorem | Says | Why the code needs it |
|---|---|---|---|
| `NamesApart` | `CollateralSpared` | no two GarageBuckets can resolve to one alias | `getBucket` by alias takes any bucket of that name for the CR's own |
| `SecretsApart` | `CredentialsHaveOwner` | no two GarageAccessKeys use one Secret name | the Secret is overwritten by the one that comes last |
| `TargetsApart`, `PairsApart` | `GrantsRevoked` | no two references share a target name, and each GaragePermission is, and stays, about a pair of its own | grants are not attributed to CRs: either of two takes the other's away, or leaves it |

The code does not enforce any of these, though the GaragePermissions that GarageBuckets
make meet `PairsApart` among themselves. What happens without them is told above. The MC
modules assume them of the instances, so TLC evaluates them on every run.

| Theorem | Property | Inductive invariant |
|---|---|---|
| `TypeCorrect` | `TypeOK` | `TypeInv` |
| `ForeignLeftAlone` | `ForeignNeverAdopted` | `TypeInv` |
| `WorksForHeldObject`, `TargetsGuarded`, `RetainIsHonoured`, `TargetReclaimed` | `HeldObject`, `FinalizerGuards`, `RetainHonoured`, `GoneMeansReclaimed` | `ReclaimInv` |
| `BucketPromise` | `PromiseKept` | `PromiseInv` |
| `CollateralSpared` | `NoCollateral` | `CollateralInv` |
| `KeyTypeCorrect` | `KeyTypeOK` | `TypeInv` |
| `OneKeyEach`, `KeysRevoked` | `OneKeyPerTarget`, `KeyRevoked` | `KeyInv` |
| `CredentialsHaveOwner` | `CredentialsOwned` | `CredentialsInv` |
| `KeyPromise` | `KeyPromiseKept` | `PromiseInv` |
| `PermTypeCorrect` | `PermTypeOK` | `TypeInv` |
| `GrantsHeld` | `GrantsForHeld` | `PermInv` |
| `GrantsRevoked` | `GrantRevoked` | `RevokeInv` |
| `OperatorTypeCorrect` | `OperatorTypeOK` | `TypeInv` |
| `RightsHeld` | `RightsHaveACr` | `RightsInv` |

**Types.** They are not inductive alone: the worker's steps need that a worker that is
not idle holds a request and a copy of an object (`Holding`), and that children are put
only where access is asked for.

**Old copies.** The workers decide on copies from a lagging cache, and the argument is
that the order of the versions makes up for it. `LogInOrder` (`KubeObjectsProofs`) says
of the versions of one name:

* one that has the finalizer and is not terminating shows that its object is stored and
  has the finalizer;
* termination is for ever;
* no version of another object comes between those of the stored one.

So a worker that starts from such a version works for the stored object. `DeletionHeld`
says that while a worker deletes, all versions of that object in the log are terminating:
only the worker takes finalizers off, and when it has read a terminating version no older
one is left in the log. This is what makes the removal of the finalizer preserve
`LogInOrder`. The bucket, key and permission proofs all rest on these two. In each, one
lemma says what any step does to the log of a name (`LogMove`: the objects are kept, a
new one is made, or one goes that had no finalizer or whose finalizer the worker removes),
another what it does to Garage, and the parts of the invariant follow from these.

**Buckets.** `ReclaimInv` adds that UIDs are used once, that what a stored CR made is
guarded (`TargetInv`), and `ReclaimHeld`: at `delTarget` the target the CR made, if it is
there under the last name the worker saw, has the id the worker is about to delete; at
`unfinalize` it is gone. If the specification is edited in between, the worker's copy is
not current and the removal is refused.

**The promises.** Every step of a worker is mapped to one step of `ManagedTarget` or to
none. A change of a log is a step of the object's life, a target made or lost is one with
all CRs left alone (`TargetMove`). The promise is about the UIDs `1 .. MaxOps`, so the
invariant counts that no more have been handed out; and buckets and keys have one id each
(`IdInv`, `GarageInv`), or a deletion, which goes by id, would be several steps.

**No collateral.** A deletion goes by an id that was looked up before, for a copy that may
be older than that. `CollateralInv` adds what makes it hit the right bucket: CRs have
specifications that users give to them (`SpecInv`); once the worker has read the stored
object no former one is in the cache (`SeenInv`, by the third part of `LogInOrder`), so a
CR for which something was made is the only one of its name the worker still deals with
(`MadeInv`: a repeated deletion for a former CR of that name comes before its successor
has a bucket); and ids are not used again (`InfoInv`).

**Keys.** `createKey` is not idempotent, and a search by name fails on two matches.
`KeyKnown` says what the worker knows: at `create` there is no key of that name, because
only the worker makes any, and after every failure it lists again. `GarageInv` says that
the CR of a key, while stored, has its finalizer. For the Secrets, `SecretInv` adds
that one has owners only that publish under its name, so that with `SecretsApart` an
update never leaves the credentials of one CR in the Secret of another.

**Grants.** Revocation looks up both names in the cache and both ids in Garage, and may
come after an `allow` for another specification whose `deny` failed. `RevokeInv` says that
a reference that has not moved has one name wherever it is seen (`RefInv`), that ids are
not used again (`IdInv`), that what the cache does not show yet has no rights
(`UnseenInv`, which is why the worker may let a CR go when the cache lacks its bucket or
key), that a CR without its
finalizer has nothing to revoke (`GrantInv`), and what the worker knows of the two ids at
each step (`Knows`).

**The composition.** `RightsHaveACr` needs both workers that make and take keys and
grants: `KeyLogInv` is `LogInOrder` for the GarageAccessKeys, which get their finalizer
when they are made, `KeyWorkInv` says for whom the key's worker acts and that it lets a CR
go only without a key; `KeysHaveACr` follows, and `GrantsHaveKeys` because Garage removes
the grants of a key with it.

**Model-checked only.** Liveness: `DeletionCompletes`, `Converges`,
`CredentialsCollected`, `KeyDeletionCompletes`, `KeyConverges`, `PermDeletionCompletes`,
`PermConverges`, `AccessWorks`, `AccessWithdrawn` and `TeardownCompletes`. TLAPS does not
reason about ENABLED, on which fairness rests.

## Not modelled

* Leader election: the shipped manifests enable it, and one manager is at work at a
  time. Calls that arrive after the process, or leader, that made them is gone: a late
  `createKey` would make a second key, and nothing in the code could prevent it.
* CRs whose finalizer is removed by hand.
* Refusals of Garage that depend on data (the deletion of a bucket that is not empty)
  are calls that fail.
* Building the HTTP client and TLS; logging and events; metrics, probes and webhooks;
  flags. Status conditions are never set by the code.
* In `Operator`: what is listed under "The composition" above.
* Two GarageBuckets in the composition: their children have different names and do not
  meet, and what two buckets can do to each other is in `bucket_pair`.

## Plan

All safety properties of the runs are theorems. Left: safety of the composition beyond
`RightsHaveACr`, stated and then proved, such as what withdrawn access leaves at most; what a
GarageBucket that is gone leaves of its children's rights; and hypotheses that could be
weakened, as `PairsApart` for GaragePermissions that are pointed elsewhere.
