-------------------------- MODULE BucketPromiseProofs --------------------------
(***************************************************************************)
(* BucketReconciler implements ManagedTarget: a lagging cache, calls that  *)
(* fail or lose their answers and restarts show to users as atomic steps   *)
(* on the true state.                                                      *)
(*                                                                         *)
(* BucketReclaimProofs says what a step does to the CRs (LogMove).  Here   *)
(* is what it does to the makers of the Garage buckets (TargetMove); each  *)
(* of these changes is one step of the promise, or none.  With what is     *)
(* said here of ids, it follows too that a deletion never hits the bucket  *)
(* of another CR (CollateralSpared).                                       *)
(***************************************************************************)
EXTENDS BucketReclaimProofs

(* The UIDs that the promise speaks of suffice. *)
UidInv == uids <= ops

(* A Garage id is the id of one bucket at most: deleteBucket, which goes   *)
(* by id, deletes one.                                                     *)
IdInv ==
    /\ \A n \in Names : gb[n].id <= ids
    /\ \A m, n \in Names : gb[n].id # 0 /\ gb[m].id = gb[n].id => m = n

PromiseInv == ReclaimInv /\ UidInv /\ IdInv

LEMMA UidInvStep ==
    ASSUME PromiseInv, [Next]_vars
    PROVE  UidInv'
<1>1. TypeOK /\ TypeOK' /\ UidInv /\ uids \in Nat /\ ops \in Nat
  BY TypeInvInductive, BoundsAssumption DEF PromiseInv, ReclaimInv, TypeInv, TypeOK
<1>2. CASE \E b \in Buckets : \E s \in SpecsOf[b] : UserCreate(b, s)
  BY <1>1, <1>2 DEF UserCreate, Op, UidInv
<1>3. CASE UNCHANGED uids /\ (UNCHANGED ops \/ Op)
  BY <1>1, <1>3 DEF Op, UidInv
<1>4. CASE Worker \/ CallFails \/ Manager \/ UNCHANGED vars \/ \E b \in Buckets : Begin(b)
  BY <1>3, <1>4
  DEF Worker, AddFinalizer, GetTarget, CreateTarget, PatchStatus, SetQuota, RemoveKey,
      RemovePerm, PutKey, PutPerm, LookupForDeletion, DeleteTarget, RemoveFinalizer,
      CallFails, Manager, Resync, Crash, Informer, ChildInformer, vars, Begin
<1>5. CASE Environment
  BY <1>2, <1>3, <1>5
  DEF Environment, UserEdit, UserDelete, AdminCreate, AdminDelete, UserCreateChild,
      UserDeleteChild, ChildFinalized, GarbageCollect, ClusterLost, ClusterBack
<1> QED BY <1>4, <1>5 DEF Next

-----------------------------------------------------------------------------
(* What a step does to the makers of the Garage buckets, the CRs being     *)
(* left alone when it does anything.                                       *)

SameMaker(n) == gb'[n].maker = gb[n].maker

TargetLost(n) ==
    /\ gb[n].maker # 0 /\ gb'[n].maker = 0
    /\ \A m \in Names \ {n} : SameMaker(m)
    /\ UNCHANGED <<log, uids>>

TargetMade(n) ==
    /\ w.pc = "create" /\ n = TargetName(w.b, w.mem.spec)
    /\ gb[n].maker = 0 /\ gb'[n].maker = w.mem.uid
    /\ \A m \in Names \ {n} : SameMaker(m)
    /\ UNCHANGED <<log, uids>>

TargetMove ==
    \/ \A n \in Names : SameMaker(n)
    \/ \E n \in Names : TargetLost(n) \/ TargetMade(n)

(* A step leaves the ids alone, or gives the next one to a free alias. *)
IdStep ==
    \/ ids' = ids /\ \A n \in Names : gb'[n].id \in {0, gb[n].id}
    \/ /\ ids' = ids + 1
       /\ \E n \in Names : /\ gb'[n].id = ids + 1
                           /\ \A m \in Names \ {n} : gb'[m].id = gb[m].id

LEMMA TargetMoves ==
    ASSUME PromiseInv, [Next]_vars
    PROVE  TargetMove /\ IdStep
<1>1. /\ gb \in [Names -> Targets] /\ ids \in Nat /\ TypeOK /\ Holding
      /\ \A n \in Names : gb[n].id = 0 => gb[n].maker = 0
      /\ \A m, n \in Names : gb[n].id # 0 /\ gb[m].id = gb[n].id => m = n
  BY DEF PromiseInv, ReclaimInv, TypeInv, TypeOK, TargetInv, IdInv
<1>2. CASE UNCHANGED <<gb, ids>>
  BY <1>1, <1>2 DEF TargetMove, SameMaker, IdStep
<1>3. CASE CreateTarget
  <2>1. w.b \in Buckets /\ Exists(w.mem) /\ w.mem \in Objects(BucketSpecs) /\ w.pc = "create"
    BY <1>1, <1>3 DEF CreateTarget, At, Holding, TypeOK, Work
  <2>2. TargetName(w.b, w.mem.spec) \in Names
    BY <2>1, ObjectFacts, TargetNameType
  <2>3. PICK n \in Names : n = TargetName(w.b, w.mem.spec)
    BY <2>2
  <2>4. CASE gb[n].id = 0
    <3> DEFINE t == Made(w.mem.uid)
    <3>1. t.id = ids + 1 /\ t.maker = w.mem.uid
      BY DEF Made
    <3>2. gb' = [gb EXCEPT ![n] = t] /\ ids' = ids + 1 /\ UNCHANGED <<log, uids>>
      BY <1>3, <2>3, <2>4 DEF CreateTarget
    <3> HIDE DEF t
    <3>3. gb'[n] = t /\ \A m \in Names \ {n} : gb'[m] = gb[m]
      BY <1>1, <3>2
    <3>4. TargetMade(n)
      BY <1>1, <2>1, <2>3, <2>4, <3>1, <3>2, <3>3 DEF TargetMade, SameMaker
    <3> QED BY <3>1, <3>2, <3>3, <3>4 DEF TargetMove, IdStep
  <2>5. CASE gb[n].id # 0
    BY <1>2, <1>3, <2>3, <2>5 DEF CreateTarget
  <2> QED BY <2>4, <2>5
<1>4. CASE SetQuota
  <2>1. ASSUME NEW n \in Names PROVE gb'[n].id = gb[n].id /\ SameMaker(n)
    <3>1. gb'[n] = gb[n] \/ gb'[n] = [gb[n] EXCEPT !.quota = w.mem.spec.quota]
      BY <1>4 DEF SetQuota
    <3>2. gb[n] \in Targets
      BY <1>1
    <3> QED BY <3>1, <3>2 DEF Targets, SameMaker
  <2> QED BY <1>4, <2>1 DEF SetQuota, TargetMove, IdStep
<1>5. ASSUME NEW n \in Names, gb[n].id # 0, gb' = [gb EXCEPT ![n] = NoTarget],
             UNCHANGED <<ids, log, uids>>
      PROVE  TargetMove /\ IdStep
  <2>1. gb'[n] = NoTarget /\ \A m \in Names \ {n} : gb'[m] = gb[m]
    BY <1>1, <1>5
  <2> QED BY <1>5, <2>1 DEF TargetMove, TargetLost, SameMaker, IdStep, NoTarget
<1>6. CASE DeleteTarget
  <2>1. CASE \E n \in Names : gb[n].id = w.info.id
    <3>1. PICK n \in Names : gb[n].id = w.info.id
      BY <2>1
    <3>2. /\ gb' = [x \in Names |-> IF gb[x].id = w.info.id THEN NoTarget ELSE gb[x]]
          /\ UNCHANGED <<ids, log, uids>>
      BY <1>6, <2>1 DEF DeleteTarget
    <3>3. CASE gb[n].id # 0
      <4>1. \A m \in Names : gb[m].id = w.info.id <=> m = n
        BY <1>1, <3>1, <3>3
      <4>2. gb' = [gb EXCEPT ![n] = NoTarget]
        BY <1>1, <3>2, <4>1
      <4> QED BY <1>5, <3>2, <3>3, <4>2
    <3>4. CASE gb[n].id = 0
      <4>1. \A m \in Names : gb'[m] = gb[m] \/ (gb[m].id = 0 /\ gb'[m] = NoTarget)
        BY <3>1, <3>2, <3>4
      <4>2. \A m \in Names : SameMaker(m) /\ gb'[m].id \in {0, gb[m].id}
        BY <1>1, <4>1 DEF SameMaker, NoTarget
      <4> QED BY <3>2, <4>2 DEF TargetMove, IdStep
    <3> QED BY <3>3, <3>4
  <2>2. CASE ~\E n \in Names : gb[n].id = w.info.id
    BY <1>2, <1>6, <2>2 DEF DeleteTarget
  <2> QED BY <2>1, <2>2
<1>7. ASSUME NEW n \in AdminNames, AdminDelete(n) PROVE TargetMove /\ IdStep
  BY <1>5, <1>7, NamesAssumption DEF AdminDelete
<1>8. ASSUME NEW n \in AdminNames, AdminCreate(n) PROVE TargetMove /\ IdStep
  <2>1. n \in Names /\ gb[n].maker = 0 /\ ids' = ids + 1
    BY <1>1, <1>8, NamesAssumption DEF AdminCreate
  <2>2. gb'[n].id = ids + 1 /\ gb'[n].maker = 0 /\ \A m \in Names \ {n} : gb'[m] = gb[m]
    BY <1>1, <1>8, <2>1 DEF AdminCreate, Made
  <2> QED BY <2>1, <2>2 DEF TargetMove, SameMaker, IdStep
<1>9. CASE Worker
  BY <1>2, <1>3, <1>4, <1>6, <1>9
  DEF Worker, AddFinalizer, GetTarget, PatchStatus, RemoveKey, RemovePerm,
      PutKey, PutPerm, LookupForDeletion, RemoveFinalizer
<1>10. CASE Manager
  BY <1>2, <1>10 DEF Manager, Resync, Crash, Informer, ChildInformer
<1>11. CASE Environment
  BY <1>2, <1>7, <1>8, <1>11
  DEF Environment, UserCreate, UserEdit, UserDelete, UserCreateChild, UserDeleteChild,
      ChildFinalized, GarbageCollect, ClusterLost, ClusterBack
<1>12. CASE UNCHANGED vars \/ CallFails \/ \E b \in Buckets : Begin(b)
  BY <1>2, <1>12 DEF vars, CallFails, Begin
<1> QED BY <1>9, <1>10, <1>11, <1>12 DEF Next

LEMMA IdInvStep ==
    ASSUME PromiseInv, [Next]_vars
    PROVE  IdInv'
<1>1. /\ ids \in Nat /\ \A n \in Names : gb[n].id \in Nat /\ gb[n].id <= ids
      /\ \A m, n \in Names : gb[n].id # 0 /\ gb[m].id = gb[n].id => m = n
  BY DEF PromiseInv, ReclaimInv, TypeInv, TypeOK, IdInv, Targets
<1>2. CASE ids' = ids /\ \A n \in Names : gb'[n].id \in {0, gb[n].id}
  BY <1>1, <1>2 DEF IdInv
<1>3. ASSUME NEW n \in Names, ids' = ids + 1, gb'[n].id = ids + 1,
             \A m \in Names \ {n} : gb'[m].id = gb[m].id
      PROVE  IdInv'
  <2>1. \A m \in Names \ {n} : gb'[m].id # ids + 1 /\ gb'[m].id <= ids'
    BY <1>1, <1>3
  <2> QED BY <1>1, <1>3, <2>1 DEF IdInv
<1> QED BY <1>2, <1>3, TargetMoves DEF IdStep

LEMMA PromiseInvHolds == Spec => []PromiseInv
<1>1. Init => PromiseInv
  BY ReclaimInvInit DEF Init, PromiseInv, UidInv, IdInv, NoTarget
<1>2. PromiseInv /\ [Next]_vars => PromiseInv'
  BY ReclaimInvInductive, UidInvStep, IdInvStep DEF PromiseInv
<1> QED BY <1>1, <1>2, PTL DEF Spec

-----------------------------------------------------------------------------
(* What the promise sees of the CRs. *)

Shown(b, o) == [phase |-> LifeOf(o), name |-> TargetName(b, o.spec), retain |-> o.spec.retain]

Absentee(u) == [phase |-> IF u > uids THEN "unborn" ELSE "gone"]

CrFacts ==
    /\ \A b \in Buckets : Exists(Api(b)) => CrOf(Api(b).uid) = Shown(b, Api(b))
    /\ \A u \in Uids : (\A b \in Buckets : Api(b).uid # u) => CrOf(u) = Absentee(u)

LEMMA CrsSeen == LogInv => CrFacts
<1> SUFFICES ASSUME LogInv PROVE CrFacts
  OBVIOUS
<1>1. ASSUME NEW b \in Buckets, Exists(Api(b))
      PROVE  CrOf(Api(b).uid) = Shown(b, Api(b))
  <2> DEFINE c == CHOOSE c \in Buckets : Api(c).uid = Api(b).uid
  <2>1. c \in Buckets /\ Api(c).uid = Api(b).uid
    OBVIOUS
  <2>2. c = b
    BY <1>1, <2>1 DEF LogInv
  <2>3. CrOf(Api(b).uid) = Shown(c, Api(c))
    BY DEF CrOf, Shown
  <2> QED BY <2>2, <2>3
<1>2. ASSUME NEW u \in Uids, \A b \in Buckets : Api(b).uid # u
      PROVE  CrOf(u) = Absentee(u)
  BY <1>2 DEF CrOf, Absentee
<1> QED BY <1>1, <1>2 DEF CrFacts

LEMMA CrsToBeSeen == LogInv' => CrFacts'
BY CrsSeen, PTL

LEMMA UidType ==
    ASSUME PromiseInv, NEW b \in Buckets, Exists(Api(b))
    PROVE  Api(b).uid \in Uids
<1>1. Api(b) \in Objects(BucketSpecs) /\ Api(b).uid <= uids /\ uids <= ops
  BY ApiType, VersionType DEF PromiseInv, ReclaimInv, TypeInv, LogInv, UidInv
<1>2. Api(b).uid \in Nat \ {0} /\ uids \in Nat /\ ops \in 0 .. MaxOps /\ MaxOps \in Nat
  BY <1>1, ObjectFacts, BoundsAssumption DEF PromiseInv, ReclaimInv, TypeInv, TypeOK
<1> QED BY <1>1, <1>2 DEF Uids

(* What is not concerned by a step is seen as it was. *)
LEMMA OthersSeen ==
    ASSUME PromiseInv, LogInv', NEW b \in Buckets, \A c \in Buckets \ {b} : log'[c] = log[c],
           NEW u \in Uids, Api(b).uid # u, Live(log'[b]).uid # u,
           uids' # uids => u # uids + 1 /\ uids' = uids + 1
    PROVE  CrOf(u)' = CrOf(u)
<1>1. CrFacts /\ CrFacts' /\ uids \in Nat /\ u \in Nat
  BY CrsSeen, CrsToBeSeen DEF PromiseInv, ReclaimInv, TypeInv, TypeOK, Uids
<1>2. CASE \E c \in Buckets : Api(c).uid = u
  <2>1. PICK c \in Buckets : Api(c).uid = u
    BY <1>2
  <2>2. c # b /\ Api(c)' = Api(c) /\ Exists(Api(c))
    BY <1>1, <2>1 DEF Api, Exists, Uids
  <2>3. CrOf(u) = Shown(c, Api(c))
    BY <1>1, <2>1, <2>2 DEF CrFacts
  <2>4. CrOf(u)' = Shown(c, Api(c))'
    <3>1. CrFacts' => (Exists(Api(c)') => CrOf(Api(c).uid)' = Shown(c, Api(c))')
      BY DEF CrFacts
    <3>2. Api(c).uid' = u
      BY <2>1, <2>2
    <3> QED BY <1>1, <2>2, <3>1, <3>2
  <2>5. Shown(c, Api(c))' = Shown(c, Api(c))
    BY <2>2 DEF Shown, LifeOf, TargetName
  <2> QED BY <2>3, <2>4, <2>5
<1>3. CASE \A c \in Buckets : Api(c).uid # u
  <2>1. \A c \in Buckets : Api(c)'.uid # u
    BY <1>3 DEF Api
  <2>2. CrOf(u) = Absentee(u) /\ CrOf(u)' = Absentee(u)'
    BY <1>1, <1>3, <2>1 DEF CrFacts
  <2>3. Absentee(u)' = Absentee(u)
    <3>1. u > uids' <=> u > uids
      BY <1>1
    <3> QED BY <3>1 DEF Absentee
  <2> QED BY <2>2, <2>3
<1> QED BY <1>2, <1>3

(* One CR is seen to change. *)
LEMMA SeenBecomes ==
    ASSUME NEW u \in Uids, \A n \in Names : SameMaker(n),
           \A v \in Uids \ {u} : CrOf(v)' = CrOf(v)
    PROVE  Promise!Become(u, CrOf(u)')
<1>1. [v \in Uids |-> CrOf(v)]' = [[v \in Uids |-> CrOf(v)] EXCEPT ![u] = CrOf(u)']
  <2>1. \A v \in Uids : CrOf(v)' = [[x \in Uids |-> CrOf(x)] EXCEPT ![u] = CrOf(u)'][v]
    OBVIOUS
  <2> QED BY <2>1 DEF Uids
<1>2. UNCHANGED [v \in Uids |-> TargetsOf(v)]
  BY DEF TargetsOf, SameMaker, Uids
<1> QED BY <1>1, <1>2 DEF Promise!Become

LEMMA SeenStill ==
    ASSUME \A n \in Names : SameMaker(n), \A v \in Uids : CrOf(v)' = CrOf(v)
    PROVE  UNCHANGED Promise!vars
<1>1. UNCHANGED [v \in Uids |-> CrOf(v)]
  BY DEF Uids
<1>2. UNCHANGED [v \in Uids |-> TargetsOf(v)]
  BY DEF TargetsOf, SameMaker, Uids
<1> QED BY <1>1, <1>2 DEF Promise!vars

-----------------------------------------------------------------------------
(* Each change of a CR is a step of the promise. *)

Simulated == Promise!Next \/ UNCHANGED Promise!vars

LEMMA EditSimulated ==
    ASSUME PromiseInv, LogInv', NEW b \in Buckets, Changed(b), Edited(b, Live(log'[b])),
           UNCHANGED uids
    PROVE  Simulated
<1> DEFINE o == Live(log'[b])
<1>1. /\ TypeOK /\ Exists(Api(b)) /\ \A n \in Names : SameMaker(n)
      /\ \A c \in Buckets \ {b} : log'[c] = log[c]
  BY DEF PromiseInv, ReclaimInv, TypeInv, Edited, EditOf, Changed, SameMaker
<1>0. PICK u \in Uids : u = Api(b).uid
  BY <1>1, UidType
<1>2. u = Api(b).uid /\ Exists(o) /\ o.uid = u
  BY <1>0, <1>1, EditedKept DEF Kept
<1>3. CrOf(u) = Shown(b, Api(b))
  BY <1>1, <1>2, CrsSeen DEF CrFacts, PromiseInv, ReclaimInv
<1>4. CrOf(u)' = Shown(b, o)
  <2>1. Api(b)' = o
    BY DEF Api
  <2>2. Exists(Api(b)') => CrOf(Api(b).uid)' = Shown(b, Api(b))'
    BY CrsToBeSeen DEF CrFacts
  <2>3. Shown(b, Api(b))' = Shown(b, o)
    BY <2>1 DEF Shown, LifeOf, TargetName
  <2> QED BY <1>2, <2>1, <2>2, <2>3
<1>5. ASSUME NEW v \in Uids \ {u} PROVE CrOf(v)' = CrOf(v)
  <2>1. v \in Uids /\ Api(b).uid # v /\ Live(log'[b]).uid # v /\ uids' = uids
    BY <1>2
  <2> QED BY <1>1, <2>1, OthersSeen
<1>6. Promise!Become(u, Shown(b, o))
  BY <1>1, <1>4, <1>5, SeenBecomes
<1>7. [v \in Uids |-> CrOf(v)][u] = Shown(b, Api(b))
  BY <1>3
<1>8. Api(b) \in [uid: Nat \ {0}, deleting: BOOLEAN, fin: BOOLEAN, spec: BucketSpecs, id: Nat]
  BY <1>1, ApiType, ObjectFacts
<1>9. Edited(b, o)
  OBVIOUS
<1> HIDE DEF o
<1>10. CASE ~Api(b).deleting /\ o = [Api(b) EXCEPT !.fin = TRUE]
  <2>1. Shown(b, o) = [Shown(b, Api(b)) EXCEPT !.phase = "held"]
    BY <1>8, <1>10 DEF Shown, LifeOf
  <2>2. CASE Api(b).fin
    <3>1. Shown(b, o) = Shown(b, Api(b))
      BY <1>8, <1>10, <2>2 DEF Shown, LifeOf
    <3> QED BY <1>1, <1>3, <1>4, <1>5, <3>1, SeenStill DEF Simulated
  <2>3. CASE ~Api(b).fin
    <3>1. Shown(b, Api(b)).phase = "plain"
      BY <1>8, <1>10, <2>3 DEF Shown, LifeOf
    <3>2. Promise!Hold(u)
      BY <1>6, <1>7, <2>1, <3>1 DEF Promise!Hold, Promise!In
    <3> QED BY <3>2 DEF Promise!Next, Simulated
  <2> QED BY <2>2, <2>3
<1>11. ASSUME NEW s \in SpecsOf[b], o = [Api(b) EXCEPT !.spec = s] PROVE Simulated
  <2>1. s \in BucketSpecs
    BY SpecsAssumption
  <2>2. TargetName(b, s) \in Names /\ s.retain \in BOOLEAN
    BY <2>1, TargetNameType DEF BucketSpecs
  <2>3. Shown(b, o) = [phase |-> Shown(b, Api(b)).phase, name |-> TargetName(b, s),
                     retain |-> s.retain]
    <3>1. LifeOf(o) = LifeOf(Api(b)) /\ o.spec = s
      BY <1>8, <1>11 DEF LifeOf
    <3> QED BY <3>1 DEF Shown
  <2>4. Shown(b, Api(b)).phase \in Promise!Phases
    BY DEF Shown, LifeOf, Promise!Phases
  <2>5. Promise!Edit(u, TargetName(b, s), s.retain)
    BY <1>6, <1>7, <2>3, <2>4 DEF Promise!Edit, Promise!In
  <2> QED BY <2>2, <2>5 DEF Promise!Next, Simulated
<1>12. CASE Api(b).fin /\ ~Api(b).deleting /\ o = [Api(b) EXCEPT !.deleting = TRUE]
  <2>1. Shown(b, o) = [Shown(b, Api(b)) EXCEPT !.phase = "terminating"]
    BY <1>8, <1>12 DEF Shown, LifeOf
  <2>2. Shown(b, Api(b)).phase = "held"
    BY <1>12 DEF Shown, LifeOf
  <2>3. Promise!Delete(u)
    BY <1>6, <1>7, <2>1, <2>2 DEF Promise!Delete, Promise!In
  <2> QED BY <2>3 DEF Promise!Next, Simulated
<1> QED BY <1>9, <1>10, <1>11, <1>12 DEF Edited, EditOf

LEMMA NewSimulated ==
    ASSUME PromiseInv, PromiseInv', NEW b \in Buckets, Changed(b), New(b)
    PROVE  Simulated
<1> DEFINE o == Live(log'[b])
<1>0. PICK u \in Uids : u = uids + 1
  <2>1. uids' \in Nat /\ uids \in Nat /\ ops' \in 0 .. MaxOps /\ MaxOps \in Nat /\ uids' <= ops'
        /\ uids' = uids + 1
    BY BoundsAssumption DEF PromiseInv, ReclaimInv, TypeInv, TypeOK, UidInv, New
  <2> QED BY <2>1 DEF Uids
<1>1. PICK s \in SpecsOf[b] : o = Created(u, s)
  BY <1>0 DEF New
<1>2. /\ TypeOK /\ ~Exists(Api(b)) /\ uids' = u
      /\ \A n \in Names : SameMaker(n)
      /\ \A c \in Buckets \ {b} : log'[c] = log[c]
  BY <1>0 DEF PromiseInv, ReclaimInv, TypeInv, New, Changed, SameMaker
<1>3. uids \in Nat /\ u = uids + 1
  BY <1>0, <1>2 DEF TypeOK
<1>4. s \in BucketSpecs
  BY SpecsAssumption
<1>5. /\ o.uid = u /\ ~o.deleting /\ ~o.fin /\ o.spec = s
  BY <1>1 DEF Created
<1>6. \A c \in Buckets : Api(c).uid # u
  <2>1. \A c \in Buckets : Api(c).uid <= uids /\ Api(c).uid \in Nat
    BY <1>2, VersionType DEF PromiseInv, ReclaimInv, LogInv, Objects, Absent
  <2> QED BY <1>3, <2>1
<1>7. CrOf(u) = [phase |-> "unborn"]
  <2>1. CrOf(u) = Absentee(u)
    BY <1>3, <1>6, CrsSeen DEF CrFacts, PromiseInv, ReclaimInv
  <2>2. u > uids
    BY <1>3
  <2> QED BY <2>1, <2>2 DEF Absentee
<1>8. CrOf(u)' = Shown(b, o)
  <2>1. Api(b)' = o /\ Exists(o)
    BY <1>3, <1>5 DEF Api, Exists, Uids
  <2>2. Exists(Api(b)') => CrOf(Api(b).uid)' = Shown(b, Api(b))'
    BY CrsToBeSeen DEF CrFacts, PromiseInv, ReclaimInv
  <2>3. Shown(b, Api(b))' = Shown(b, o)
    BY <2>1 DEF Shown, LifeOf, TargetName
  <2> QED BY <1>5, <2>1, <2>2, <2>3
<1>9. Shown(b, o) = [phase |-> "plain", name |-> TargetName(b, s), retain |-> s.retain]
  BY <1>5 DEF Shown, LifeOf
<1>10. ASSUME NEW v \in Uids \ {u} PROVE CrOf(v)' = CrOf(v)
  <2>1. /\ v \in Uids /\ Api(b).uid # v /\ Live(log'[b]).uid # v
        /\ v # uids + 1 /\ uids' = uids + 1 /\ LogInv'
    BY <1>2, <1>3, <1>5 DEF Exists, Uids, PromiseInv, ReclaimInv
  <2> QED BY <1>2, <2>1, OthersSeen
<1>11. Promise!Become(u, Shown(b, o))
  BY <1>2, <1>3, <1>8, <1>10, SeenBecomes
<1>12. [v \in Uids |-> CrOf(v)][u].phase = "unborn"
  BY <1>3, <1>7
<1>13. TargetName(b, s) \in Names /\ s.retain \in BOOLEAN
  BY <1>4, TargetNameType DEF BucketSpecs
<1> HIDE DEF o
<1>14. Promise!Create(u, TargetName(b, s), s.retain)
  BY <1>9, <1>11, <1>12 DEF Promise!Create, Promise!In
<1> QED BY <1>3, <1>13, <1>14 DEF Promise!Next, Simulated

LEMMA GoneSimulated ==
    ASSUME PromiseInv, PromiseInv', NEW b \in Buckets, Changed(b), Gone(b)
    PROVE  Simulated
<1>1. /\ TypeOK /\ LogInv /\ TargetInv /\ WorkInv /\ LogInv'
      /\ uids' = uids /\ Live(log'[b]) = Absent
      /\ \A n \in Names : SameMaker(n)
      /\ \A c \in Buckets \ {b} : log'[c] = log[c]
  BY DEF PromiseInv, ReclaimInv, TypeInv, Gone, Changed, SameMaker
<1>2. Live(log'[b]).uid = 0
  BY <1>1 DEF Absent
<1>3. ASSUME NEW v \in Uids, Api(b).uid # v PROVE CrOf(v)' = CrOf(v)
  <2>1. Live(log'[b]).uid # v
    BY <1>2 DEF Uids
  <2> QED BY <1>1, <1>3, <2>1, OthersSeen
<1>4. CASE ~Exists(Api(b))
  <2>1. \A v \in Uids : Api(b).uid # v
    BY <1>4 DEF Exists, Uids
  <2> QED BY <1>1, <1>3, <2>1, SeenStill DEF Simulated
<1>5. CASE Exists(Api(b))
  <2>1. PICK u \in Uids : u = Api(b).uid
    BY <1>5, UidType
  <2>2. [v \in Uids |-> CrOf(v)][u] = Shown(b, Api(b))
    BY <1>1, <1>5, <2>1, CrsSeen DEF CrFacts
  <2>3. CrOf(u)' = [phase |-> "gone"]
    <3>1. ASSUME NEW c \in Buckets PROVE Api(c)'.uid # u
      <4>1. CASE c = b
        BY <1>2, <1>5, <2>1, <4>1 DEF Api, Exists
      <4>2. CASE c # b
        BY <1>1, <1>5, <2>1, <4>2 DEF Api, LogInv, Exists
      <4> QED BY <4>1, <4>2
    <3>2. CrOf(u)' = Absentee(u)'
      BY <1>1, <3>1, CrsToBeSeen DEF CrFacts
    <3>3. ~(u > uids)
      <4>1. u <= uids /\ u \in Nat /\ uids \in Nat
        BY <1>1, <2>1, VersionType DEF LogInv, Uids, TypeOK
      <4> QED BY <4>1
    <3> QED BY <1>1, <3>2, <3>3 DEF Absentee
  <2>4. Promise!Become(u, Promise!Gone)
    BY <1>1, <1>3, <2>1, <2>3, SeenBecomes DEF Promise!Gone
  <2>5. CASE ~Api(b).fin /\ ~Api(b).deleting
    <3>1. Shown(b, Api(b)).phase = "plain"
      BY <2>5 DEF Shown, LifeOf
    <3>2. Promise!Delete(u)
      BY <2>2, <2>4, <3>1 DEF Promise!Delete, Promise!In
    <3> QED BY <3>2 DEF Promise!Next, Simulated
  <2>6. CASE w.pc = "unfinalize" /\ w.b = b /\ w.mem = Api(b)
    <3>1. /\ Api(b).deleting
          /\ ~Api(b).spec.retain => gb[TargetName(b, Api(b).spec)].maker # Api(b).uid
      BY <1>1, <2>6 DEF WorkInv, DeletionHeld, ReclaimHeld, DeletionSteps
    <3>2. Shown(b, Api(b)).phase = "terminating"
      BY <3>1 DEF Shown, LifeOf
    <3>3. [v \in Uids |-> TargetsOf(v)][u] = TargetsOf(u)
      OBVIOUS
    <3>4. Shown(b, Api(b)).retain \/ Shown(b, Api(b)).name \notin TargetsOf(u)
      BY <2>1, <3>1 DEF Shown, TargetsOf
    <3>5. Promise!Release(u)
      BY <2>2, <2>4, <3>2, <3>3, <3>4 DEF Promise!Release, Promise!In
    <3> QED BY <3>5 DEF Promise!Next, Simulated
  <2> QED BY <1>1, <2>5, <2>6 DEF Gone
<1> QED BY <1>4, <1>5

LEMMA CrsStill ==
    ASSUME UNCHANGED <<log, uids>>
    PROVE  UNCHANGED [v \in Uids |-> CrOf(v)]
BY DEF CrOf, Api, LifeOf, TargetName, Uids

LEMMA StillSimulated ==
    ASSUME PromiseInv, LogInv', UNCHANGED uids, \A n \in Names : SameMaker(n),
           \A b \in Buckets : Alike(Api(b), Live(log'[b]))
    PROVE  Simulated
<1>1. CrFacts /\ CrFacts'
  BY CrsSeen, CrsToBeSeen DEF PromiseInv, ReclaimInv
<1>2. ASSUME NEW b \in Buckets
      PROVE  Api(b)'.uid = Api(b).uid /\ Shown(b, Api(b))' = Shown(b, Api(b))
  BY <1>2 DEF Alike, Shown, LifeOf, TargetName, Api
<1>3. ASSUME NEW u \in Uids PROVE CrOf(u)' = CrOf(u)
  <2>1. CASE \E b \in Buckets : Api(b).uid = u
    <3>1. PICK b \in Buckets : Api(b).uid = u
      BY <2>1
    <3>2. Exists(Api(b)) /\ Exists(Api(b)') /\ Api(b)'.uid = u
      BY <1>2, <3>1 DEF Exists, Uids
    <3>3. CrOf(u) = Shown(b, Api(b))
      BY <1>1, <3>1, <3>2 DEF CrFacts
    <3>4. CrOf(u)' = Shown(b, Api(b))'
      <4>1. CrFacts' => (Exists(Api(b)') => CrOf(Api(b).uid)' = Shown(b, Api(b))')
        BY DEF CrFacts
      <4>2. Api(b).uid' = u
        BY <3>2
      <4> QED BY <1>1, <3>2, <4>1, <4>2
    <3> QED BY <1>2, <3>3, <3>4
  <2>2. CASE \A b \in Buckets : Api(b).uid # u
    <3>1. \A b \in Buckets : Api(b)'.uid # u
      BY <1>2, <2>2
    <3>2. CrOf(u) = Absentee(u) /\ CrOf(u)' = Absentee(u)'
      BY <1>1, <2>2, <3>1 DEF CrFacts
    <3> QED BY <3>2 DEF Absentee
  <2> QED BY <2>1, <2>2
<1> QED BY <1>3, SeenStill DEF Simulated

-----------------------------------------------------------------------------
(* Each change of a maker is a step of the promise. *)

LEMMA LostSimulated ==
    ASSUME PromiseInv, NEW n \in Names, TargetLost(n)
    PROVE  Simulated
<1> DEFINE T == [v \in Uids |-> TargetsOf(v)]
<1>1. PICK u \in Uids : u = gb[n].maker
  <2>1. /\ gb[n].maker \in Nat \ {0} /\ gb[n].maker <= uids /\ uids <= ops
        /\ uids \in Nat /\ ops \in 0 .. MaxOps /\ MaxOps \in Nat
    BY BoundsAssumption
    DEF PromiseInv, ReclaimInv, TypeInv, TypeOK, Targets, TargetInv, UidInv, TargetLost
  <2> QED BY <2>1 DEF Uids
<1>2. ASSUME NEW v \in Uids
      PROVE  TargetsOf(v)' = IF v = u THEN TargetsOf(v) \ {n} ELSE TargetsOf(v)
  <2>1. v # 0
    BY DEF Uids
  <2>2. \A m \in Names \ {n} : gb'[m].maker = gb[m].maker
    BY DEF TargetLost, SameMaker
  <2>3. gb'[n].maker = 0 /\ gb[n].maker = u
    BY <1>1 DEF TargetLost
  <2>4. CASE v = u
    BY <2>1, <2>2, <2>3, <2>4 DEF TargetsOf
  <2>5. CASE v # u
    BY <2>1, <2>2, <2>3, <2>5 DEF TargetsOf
  <2> QED BY <2>4, <2>5
<1>3. T' = [T EXCEPT ![u] = @ \ {n}] /\ n \in T[u]
  <2>1. n \in TargetsOf(u)
    BY <1>1 DEF TargetsOf
  <2> QED BY <1>2, <2>1 DEF Uids
<1>4. UNCHANGED [v \in Uids |-> CrOf(v)]
  BY CrsStill DEF TargetLost
<1>5. Promise!Remove(u, n)
  BY <1>3, <1>4 DEF Promise!Remove
<1> QED BY <1>5 DEF Promise!Next, Simulated

LEMMA MadeSimulated ==
    ASSUME PromiseInv, NEW n \in Names, TargetMade(n)
    PROVE  Simulated
<1> DEFINE T == [v \in Uids |-> TargetsOf(v)]
<1>1. /\ w.b \in Buckets /\ Exists(w.mem)
      /\ Api(w.b).uid = w.mem.uid /\ Api(w.b).fin
  BY DEF PromiseInv, ReclaimInv, TypeInv, Holding, WorkInv, HeldObject, ReconcileSteps,
         TargetMade
<1>2. PICK u \in Uids : u = w.mem.uid
  BY <1>1, UidType DEF Exists
<1>3. [v \in Uids |-> CrOf(v)][u].phase \in {"held", "terminating"}
  <2>1. CrOf(u) = Shown(w.b, Api(w.b))
    BY <1>1, <1>2, CrsSeen DEF CrFacts, PromiseInv, ReclaimInv, Exists
  <2> QED BY <1>1, <2>1 DEF Shown, LifeOf
<1>4. ASSUME NEW v \in Uids
      PROVE  TargetsOf(v)' = IF v = u THEN TargetsOf(v) \cup {n} ELSE TargetsOf(v)
  <2>1. v # 0
    BY DEF Uids
  <2>2. \A m \in Names \ {n} : gb'[m].maker = gb[m].maker
    BY DEF TargetMade, SameMaker
  <2>3. gb[n].maker = 0 /\ gb'[n].maker = u
    BY <1>2 DEF TargetMade
  <2>4. CASE v = u
    BY <2>1, <2>2, <2>3, <2>4 DEF TargetsOf
  <2>5. CASE v # u
    BY <2>1, <2>2, <2>3, <2>5 DEF TargetsOf
  <2> QED BY <2>4, <2>5
<1>5. T' = [T EXCEPT ![u] = @ \cup {n}] /\ n \notin T[u]
  <2>1. n \notin TargetsOf(u)
    BY DEF TargetsOf, TargetMade, Uids
  <2> QED BY <1>4, <2>1 DEF Uids
<1>6. UNCHANGED [v \in Uids |-> CrOf(v)]
  BY CrsStill DEF TargetMade
<1>7. Promise!Make(u, n)
  BY <1>3, <1>5, <1>6 DEF Promise!Make, Promise!In
<1> QED BY <1>7 DEF Promise!Next, Simulated

(* The worker implements the promise: whatever copy it began with and      *)
(* whatever calls have failed, a step of it is one atomic step that makes  *)
(* a Garage bucket for a CR that is there with its finalizer, removes one, *)
(* or lets a deleted CR go with its bucket reclaimed or retained, or is    *)
(* not seen at all.                                                        *)
THEOREM BucketPromise == Spec => PromiseKept
<1>1. Init => Promise!Init
  <2> SUFFICES ASSUME Init PROVE Promise!Init
    OBVIOUS
  <2>1. /\ LogInv /\ uids = 0 /\ \A n \in Names : gb[n].maker = 0
        /\ \A b \in Buckets : Api(b).uid = 0
    BY ReclaimInvInit DEF ReclaimInv, Init, Api, Live, Absent, NoTarget
  <2>2. ASSUME NEW u \in Uids PROVE CrOf(u) = Promise!Unborn /\ TargetsOf(u) = {}
    <3>1. u > uids /\ u # 0 /\ \A b \in Buckets : Api(b).uid # u
      BY <2>1 DEF Uids
    <3>2. CrOf(u) = Absentee(u)
      BY <2>1, <3>1, CrsSeen DEF CrFacts
    <3> QED BY <2>1, <3>1, <3>2 DEF Absentee, Promise!Unborn, TargetsOf
  <2> QED BY <2>2 DEF Promise!Init
<1>2. PromiseInv /\ [Next]_vars => [Promise!Next]_(Promise!vars)
  <2> SUFFICES ASSUME PromiseInv, [Next]_vars PROVE Simulated
    BY DEF Simulated
  <2>1. PromiseInv' /\ LogInv' /\ LogMove /\ TargetMove
    BY ReclaimInvInductive, UidInvStep, IdInvStep, LogMoves, TargetMoves
    DEF PromiseInv, ReclaimInv
  <2>2. ASSUME NEW b \in Buckets, Changed(b) PROVE Simulated
    BY <2>1, <2>2, EditSimulated, NewSimulated, GoneSimulated DEF Changed
  <2>3. CASE UNCHANGED uids /\ \A b \in Buckets : Alike(Api(b), Live(log'[b]))
    BY <2>1, <2>3, StillSimulated, LostSimulated, MadeSimulated DEF TargetMove
  <2> QED BY <2>1, <2>2, <2>3 DEF LogMove
<1> QED BY <1>1, <1>2, PromiseInvHolds, PTL DEF Spec, PromiseKept, Promise!Spec


-----------------------------------------------------------------------------
(* No collateral damage.  Which Garage bucket a deletion hits is decided   *)
(* by an id that was looked up before, for a copy of the CR that may be    *)
(* older than that.  Four facts make up for it.                            *)

OwnNames(b) == {TargetName(b, s) : s \in SpecsOf[b]}

(* A CR has a specification that users give to this one.                   *)
SpecInv ==
    /\ \A b \in Buckets : \A v \in Versions(log[b]) : Exists(v) => v.spec \in SpecsOf[b]
    /\ w.pc # "idle" => w.mem.spec \in SpecsOf[w.b]

Latest(b, u) == \A v \in Versions(log[b]) : v.uid = u

(* Once the worker has read the stored object, no former one is cached.    *)
SeenInv == w.pc # "idle" /\ Api(w.b).uid = w.mem.uid => Latest(w.b, w.mem.uid)

(* What was made for a stored CR has one of its target names, and the      *)
(* worker deals with no former CR of that name any more.                   *)
MadeFor(b, n) ==
    /\ n \in OwnNames(b)
    /\ Latest(b, Api(b).uid)
    /\ w.b = b => w.mem.uid = Api(b).uid

MadeInv ==
    \A b \in Buckets, n \in Names :
        Exists(Api(b)) /\ gb[n].maker = Api(b).uid => MadeFor(b, n)

(* No other bucket has come to have the id that is about to be deleted.    *)
InfoInv ==
    w.pc = "delTarget" =>
        /\ w.info.id # 0 /\ w.info.id <= ids
        /\ \A n \in Names : gb[n].id = w.info.id => n = TargetName(w.b, w.mem.spec)

CollateralInv == PromiseInv /\ SpecInv /\ SeenInv /\ MadeInv /\ InfoInv

(* What a step does to what the worker holds. *)
Taken(b) ==
    /\ UNCHANGED <<log, gb, ids>>
    /\ w'.b = b /\ w'.mem = Cached(log[b]) /\ Exists(w'.mem) /\ w'.pc # "delTarget"

Continues ==
    /\ w.pc # "idle" /\ w'.b = w.b
    /\ w'.mem.uid = w.mem.uid /\ w'.mem.spec \in SpecsOf[w.b]
    /\ w'.pc = "delTarget" => LookupForDeletion

LEMMA WorkMoves ==
    ASSUME CollateralInv, [Next]_vars
    PROVE  UNCHANGED w \/ w' = Idle \/ Continues \/ \E b \in Buckets : Taken(b)
<1>1. TypeOK /\ Holding /\ WorkInv /\ SpecInv /\ w \in Work
  BY DEF CollateralInv, PromiseInv, ReclaimInv, TypeInv, TypeOK
<1>2. CASE Worker
  <2>1. /\ w.pc # "idle" /\ w.b \in Buckets /\ Exists(w.mem) /\ w.mem \in Objects(BucketSpecs)
        /\ w.mem.spec \in SpecsOf[w.b]
    BY <1>1, <1>2
    DEF Worker, AddFinalizer, GetTarget, CreateTarget, PatchStatus, SetQuota, RemoveKey,
        RemovePerm, PutKey, PutPerm, LookupForDeletion, DeleteTarget, RemoveFinalizer, At,
        Holding, SpecInv, Work
  <2>2. ASSUME NEW pc, w' = [w EXCEPT !.pc = pc], pc # "delTarget" PROVE Continues
    <3>1. w'.b = w.b /\ w'.mem = w.mem /\ w'.pc = pc
      BY <1>1, <2>2 DEF Work
    <3> QED BY <2>1, <2>2, <3>1 DEF Continues
  <2>3. ASSUME NEW t, WithTarget(t) PROVE Continues
    <3>1. w'.b = w.b /\ w'.mem = w.mem /\ w'.pc = AfterTarget(w.mem, t)
      BY <1>1, <2>3 DEF Work, WithTarget
    <3>2. AfterTarget(w.mem, t) # "delTarget"
      BY DEF AfterTarget, AfterStatus, AfterQuota
    <3> QED BY <2>1, <3>1, <3>2 DEF Continues
  <2>4. CASE AddFinalizer
    <3> DEFINE m == [w.mem EXCEPT !.fin = TRUE]
    <3>1. m.uid = w.mem.uid /\ m.spec = w.mem.spec
      BY <2>1, ObjectFacts
    <3>2. w' = Idle \/ w' = [w EXCEPT !.pc = "lookup", !.mem = m]
      BY <2>4 DEF AddFinalizer, Answered, Fail
    <3> HIDE DEF m
    <3>3. w' = Idle \/ (w'.b = w.b /\ w'.mem = m /\ w'.pc = "lookup")
      BY <1>1, <3>2 DEF Work
    <3> QED BY <2>1, <3>1, <3>3 DEF Continues
  <2>5. CASE GetTarget
    BY <2>2, <2>3, <2>5 DEF GetTarget, Goto
  <2>6. CASE CreateTarget
    BY <2>3, <2>6 DEF CreateTarget, Answered, Fail
  <2>7. CASE PatchStatus
    <3> DEFINE m == [Api(w.b) EXCEPT !.id = w.info.id]
    <3>1. CASE Exists(Api(w.b))
      <4>1. m.uid = Api(w.b).uid /\ m.spec = Api(w.b).spec
        BY <1>1, <2>1, <3>1, ApiType, ObjectFacts
      <4>2. Api(w.b).uid = w.mem.uid
        BY <1>1, <2>7 DEF PatchStatus, At, WorkInv, HeldObject, ReconcileSteps
      <4>3. Api(w.b).spec \in SpecsOf[w.b]
        BY <1>1, <2>1, <3>1, VersionType DEF SpecInv
      <4>4. w' = Idle \/ w' = [w EXCEPT !.pc = AfterStatus(m, w.info), !.mem = m]
        BY <2>7, <3>1 DEF PatchStatus, Answered, Fail
      <4> HIDE DEF m
      <4>5. w' = Idle \/ (w'.b = w.b /\ w'.mem = m /\ w'.pc = AfterStatus(m, w.info))
        BY <1>1, <4>4 DEF Work
      <4>6. AfterStatus(m, w.info) # "delTarget"
        BY DEF AfterStatus, AfterQuota
      <4> QED BY <2>1, <4>1, <4>2, <4>3, <4>5, <4>6 DEF Continues
    <3>2. CASE ~Exists(Api(w.b))
      BY <2>7, <3>2 DEF PatchStatus, Fail
    <3> QED BY <3>1, <3>2
  <2>8. CASE SetQuota
    <3>1. AfterQuota(w.mem) # "delTarget"
      BY DEF AfterQuota
    <3> QED BY <2>2, <2>8, <3>1 DEF SetQuota, Answered, Fail, Goto
  <2>9. CASE RemoveKey \/ RemovePerm
    BY <2>2, <2>9 DEF RemoveKey, RemovePerm, RemoveChild, Answered, Fail, Goto, Done
  <2>10. CASE PutKey \/ PutPerm
    BY <2>2, <2>10 DEF PutKey, PutPerm, PutChild, Answered, Fail, Goto, Done
  <2>11. CASE LookupForDeletion
    <3>1. \E pc, i : w' = [w EXCEPT !.pc = pc, !.info = i] \/ w' = [w EXCEPT !.pc = pc]
      BY <2>11 DEF LookupForDeletion, Goto
    <3>2. w'.b = w.b /\ w'.mem = w.mem
      BY <1>1, <3>1 DEF Work
    <3> QED BY <2>1, <2>11, <3>2 DEF Continues
  <2>12. CASE DeleteTarget \/ RemoveFinalizer
    BY <2>2, <2>12 DEF DeleteTarget, RemoveFinalizer, Answered, Fail, Goto, Done
  <2> QED BY <1>2, <2>4, <2>5, <2>6, <2>7, <2>8, <2>9, <2>10, <2>11, <2>12 DEF Worker
<1>3. ASSUME NEW b \in Buckets, Begin(b) PROVE w' = Idle \/ Taken(b)
  BY <1>3 DEF Begin, Taken, FirstStep
<1>4. CASE CallFails \/ Manager \/ Environment \/ UNCHANGED vars
  BY <1>4
  DEF CallFails, Fail, Manager, Resync, Crash, Informer, ChildInformer, Environment, vars,
      UserCreate, UserEdit, UserDelete, AdminCreate, AdminDelete, UserCreateChild,
      UserDeleteChild, ChildFinalized, GarbageCollect, ClusterLost, ClusterBack
<1> QED BY <1>2, <1>3, <1>4 DEF Next

LEMMA CollateralFacts ==
    ASSUME CollateralInv, [Next]_vars
    PROVE  /\ TypeOK /\ LogInv /\ TargetInv /\ WorkInv /\ Holding
           /\ \A b \in Buckets : LogStep(b)
           /\ uids \in Nat /\ w.mem.uid \in Nat /\ w.mem.uid <= uids
           /\ \A n \in Names : gb[n].maker \in Nat /\ gb[n].maker <= uids
<1>1. ReclaimInv
  BY DEF CollateralInv, PromiseInv
<1>2. TypeOK /\ LogInv /\ TargetInv /\ WorkInv /\ Holding /\ \A b \in Buckets : LogStep(b)
  BY <1>1, LogMoves DEF ReclaimInv, TypeInv, LogMove
<1>3. uids \in Nat /\ w.mem \in Objects(BucketSpecs) /\ \A n \in Names : gb[n] \in Targets
  BY <1>2 DEF TypeOK, Work
<1>4. w.mem.uid \in Nat
  BY <1>3 DEF Objects, Absent
<1> QED BY <1>2, <1>3, <1>4 DEF WorkInv, TargetInv, Targets

LEMMA SpecInvStep ==
    ASSUME CollateralInv, [Next]_vars
    PROVE  SpecInv'
<1>1. SpecInv /\ TypeOK /\ \A b \in Buckets : LogStep(b)
  BY CollateralFacts DEF CollateralInv
<1>2. ASSUME NEW b \in Buckets, Exists(Live(log'[b])) PROVE Live(log'[b]).spec \in SpecsOf[b]
  <2> DEFINE o == Api(b)
             p == Live(log'[b])
  <2>1. o \in Objects(BucketSpecs) /\ (Exists(o) => o.spec \in SpecsOf[b])
    BY <1>1, VersionType DEF SpecInv
  <2>2. CASE Alike(o, p)
    BY <1>2, <2>1, <2>2 DEF Alike, Exists
  <2>3. CASE Edited(b, p)
    <3>1. Exists(o) /\ EditOf(o, p, SpecsOf[b])
      BY <2>3 DEF Edited, EditOf
    <3>2. o \in [uid: Nat \ {0}, deleting: BOOLEAN, fin: BOOLEAN, spec: BucketSpecs, id: Nat]
      BY <2>1, <3>1, ObjectFacts
    <3> HIDE DEF o, p
    <3> QED BY <2>1, <3>1, <3>2 DEF EditOf, p
  <2>4. CASE New(b)
    BY <2>4 DEF New, Created
  <2>5. CASE Gone(b)
    BY <1>2, <2>5 DEF Gone, Exists, Absent
  <2> QED BY <1>1, <2>2, <2>3, <2>4, <2>5 DEF LogStep, Changed
<1>3. \A b \in Buckets : \A v \in Versions(log'[b]) : Exists(v) => v.spec \in SpecsOf[b]
  BY <1>1, <1>2 DEF LogStep, SpecInv
<1>4. w'.pc # "idle" => w'.mem.spec \in SpecsOf[w'.b]
  <2>1. CASE UNCHANGED w
    BY <1>1, <2>1 DEF SpecInv
  <2>2. CASE w' = Idle
    BY <2>2 DEF Idle
  <2>3. CASE Continues
    BY <2>3 DEF Continues
  <2>4. ASSUME NEW b \in Buckets, Taken(b) PROVE w'.mem.spec \in SpecsOf[w'.b]
    BY <1>1, <2>4, VersionType DEF Taken, SpecInv
  <2> QED BY <2>1, <2>2, <2>3, <2>4, WorkMoves
<1> QED BY <1>3, <1>4 DEF SpecInv

LEMMA SeenInvStep ==
    ASSUME CollateralInv, [Next]_vars
    PROVE  SeenInv'
<1>1. /\ SeenInv /\ TypeOK /\ LogInv /\ Holding /\ \A b \in Buckets : LogStep(b)
      /\ uids \in Nat /\ w.mem.uid \in Nat /\ w.mem.uid <= uids
  BY CollateralFacts DEF CollateralInv
<1>2. SUFFICES ASSUME w'.pc # "idle", Live(log'[w'.b]).uid = w'.mem.uid,
                      NEW v \in Versions(log'[w'.b])
               PROVE  v.uid = w'.mem.uid
  BY DEF SeenInv, Latest, Api
<1>3. CASE UNCHANGED w \/ Continues
  <2>1. w.pc # "idle" /\ w'.b = w.b /\ w'.mem.uid = w.mem.uid
    BY <1>2, <1>3 DEF Continues
  <2>2. w.b \in Buckets /\ Exists(w.mem)
    BY <1>1, <2>1 DEF Holding
  <2>3. Live(log'[w.b]).uid = w.mem.uid
    BY <1>2, <2>1
  <2>4. w.mem.uid # uids + 1 /\ w.mem.uid # 0
    BY <1>1, <2>2 DEF Exists
  <2>5. ~Gone(w.b)
    BY <2>3, <2>4 DEF Gone, Absent
  <2>6. Kept(Api(w.b), Live(log'[w.b]))
    BY <1>1, <2>2, <2>3, <2>4, <2>5, Fates
  <2>7. Latest(w.b, w.mem.uid)
    BY <1>1, <2>1, <2>3, <2>6 DEF SeenInv, Kept
  <2> QED BY <1>1, <1>2, <2>1, <2>2, <2>3, <2>7 DEF Latest, LogStep
<1>4. CASE w' = Idle
  BY <1>2, <1>4 DEF Idle
<1>5. ASSUME NEW b \in Buckets, Taken(b) PROVE v.uid = w'.mem.uid
  <2>1. w'.b = b /\ log'[b] = log[b] /\ w'.mem = Cached(log[b]) /\ Exists(w'.mem)
    BY <1>5 DEF Taken
  <2>2. log[b] \in Seq(Objects(BucketSpecs)) \ {<<>>} /\ LogInOrder(log[b])
    BY <1>1 DEF TypeOK, LogInv
  <2>3. Exists(Live(log[b])) /\ Cached(log[b]).uid = Live(log[b]).uid
    BY <1>2, <2>1 DEF Exists
  <2> QED BY <1>2, <2>1, <2>2, <2>3, CachedIsLast
<1> QED BY <1>3, <1>4, <1>5, WorkMoves

LEMMA MadeInvStep ==
    ASSUME CollateralInv, [Next]_vars
    PROVE  MadeInv'
<1>1. /\ MadeInv /\ SeenInv /\ SpecInv /\ TypeOK /\ LogInv /\ WorkInv /\ Holding
      /\ \A b \in Buckets : LogStep(b)
      /\ uids \in Nat /\ \A n \in Names : gb[n].maker \in Nat /\ gb[n].maker <= uids
  BY CollateralFacts DEF CollateralInv
<1>2. SUFFICES ASSUME NEW b \in Buckets, NEW n \in Names, NEW u, u = Live(log'[b]).uid,
                      u # 0, gb'[n].maker = u
               PROVE  /\ n \in OwnNames(b)
                      /\ \A v \in Versions(log'[b]) : v.uid = u
                      /\ w'.b = b => w'.mem.uid = u
  BY DEF MadeInv, MadeFor, Latest, Api, Exists
<1>3. ASSUME Latest(b, u), w.b = b => w.mem.uid = u PROVE w'.b = b => w'.mem.uid = u
  <2>1. CASE UNCHANGED w \/ Continues
    BY <1>3, <2>1 DEF Continues
  <2>2. CASE w' = Idle
    BY <2>2, NamesAssumption DEF Idle
  <2>3. ASSUME NEW c \in Buckets, Taken(c), c = b PROVE w'.mem.uid = u
    BY <1>1, <1>3, <2>3, VersionType DEF Taken, Latest
  <2>4. ASSUME NEW c \in Buckets, Taken(c) PROVE w'.b = c
    BY <2>4 DEF Taken
  <2> QED BY <2>1, <2>2, <2>3, <2>4, WorkMoves
<1>4. CASE SameMaker(n)
  <2>1. gb[n].maker = u
    BY <1>2, <1>4 DEF SameMaker
  <2>2. u # uids + 1
    BY <1>1, <2>1
  <2>3. Kept(Api(b), Live(log'[b]))
    <3>1. ~Gone(b)
      BY <1>2 DEF Gone, Absent
    <3> QED BY <1>1, <1>2, <2>2, <3>1, Fates
  <2>4. MadeFor(b, n) /\ Api(b).uid = u
    BY <1>1, <1>2, <2>1, <2>3 DEF MadeInv, Kept, Exists
  <2>5. n \in OwnNames(b) /\ Latest(b, u) /\ (w.b = b => w.mem.uid = u)
    BY <2>4 DEF MadeFor
  <2>6. \A v \in Versions(log'[b]) : v.uid = u
    BY <1>1, <1>2, <2>5 DEF LogStep, Latest
  <2> QED BY <1>3, <2>5, <2>6
<1>5. CASE TargetMade(n)
  <2>1. /\ w.pc = "create" /\ n = TargetName(w.b, w.mem.spec) /\ w.mem.uid = u /\ UNCHANGED log
    BY <1>2, <1>5 DEF TargetMade
  <2>2. w.b \in Buckets /\ Api(w.b).uid = w.mem.uid /\ w.mem.spec \in SpecsOf[w.b]
    BY <1>1, <2>1 DEF Holding, WorkInv, HeldObject, ReconcileSteps, SpecInv
  <2>3. b = w.b
    BY <1>1, <1>2, <2>1, <2>2 DEF LogInv, Exists, Api
  <2>4. n \in OwnNames(b) /\ Latest(b, u)
    BY <1>1, <2>1, <2>2, <2>3 DEF OwnNames, SeenInv
  <2> QED BY <1>3, <2>1, <2>4 DEF Latest
<1>6. SameMaker(n) \/ gb'[n].maker = 0 \/ TargetMade(n)
  <2>1. TargetMove
    BY TargetMoves DEF CollateralInv
  <2>2. ASSUME NEW m \in Names, TargetLost(m)
        PROVE  SameMaker(n) \/ gb'[n].maker = 0
    BY <2>2 DEF TargetLost
  <2>3. ASSUME NEW m \in Names, TargetMade(m)
        PROVE  SameMaker(n) \/ TargetMade(n)
    BY <2>3 DEF TargetMade
  <2> QED BY <2>1, <2>2, <2>3 DEF TargetMove
<1> QED BY <1>2, <1>4, <1>5, <1>6

LEMMA InfoInvStep ==
    ASSUME CollateralInv, [Next]_vars
    PROVE  InfoInv'
<1>1. /\ InfoInv /\ IdInv /\ IdStep /\ TypeOK /\ Holding
      /\ gb \in [Names -> Targets] /\ ids \in Nat /\ w \in Work
  BY CollateralFacts, TargetMoves DEF CollateralInv, PromiseInv, TypeOK
<1>2. SUFFICES ASSUME w'.pc = "delTarget"
               PROVE  /\ w'.info.id # 0 /\ w'.info.id <= ids'
                      /\ \A n \in Names :
                           gb'[n].id = w'.info.id => n = TargetName(w'.b, w'.mem.spec)
  BY DEF InfoInv, TargetName
<1>3. CASE UNCHANGED w
  <2>1. w.info.id # 0 /\ w.info.id <= ids /\ w.info.id \in Nat
    BY <1>1, <1>2, <1>3 DEF InfoInv, Work, Targets
  <2>2. w.info.id # ids + 1 /\ w.info.id <= ids'
    BY <1>1, <2>1 DEF IdStep
  <2>3. \A n \in Names : gb'[n].id = w.info.id => gb[n].id = w.info.id
    BY <1>1, <2>1, <2>2 DEF IdStep
  <2> QED BY <1>1, <1>2, <1>3, <2>1, <2>2, <2>3 DEF InfoInv
<1>4. CASE Continues
  <2> DEFINE t == gb[TargetName(w.b, w.mem.spec)]
  <2>1. LookupForDeletion
    BY <1>2, <1>4 DEF Continues
  <2>2. w.b \in Buckets /\ w.mem \in Objects(BucketSpecs) /\ Exists(w.mem)
    BY <1>1, <1>4 DEF Continues, Holding, Work
  <2>3. TargetName(w.b, w.mem.spec) \in Names
    BY <2>2, ObjectFacts, TargetNameType
  <2>4. t.id # 0
    <3>1. t.id = 0 => w'.pc = "unfinalize"
      BY <1>1, <2>1 DEF LookupForDeletion, Goto, Work
    <3> QED BY <1>2, <3>1
  <2>5. w'.b = w.b /\ w'.mem = w.mem /\ w'.info = t /\ UNCHANGED <<gb, ids>>
    BY <1>1, <2>1, <2>4 DEF LookupForDeletion, Work
  <2>6. t.id <= ids /\ \A n \in Names : gb[n].id = t.id => n = TargetName(w.b, w.mem.spec)
    BY <1>1, <2>3, <2>4 DEF IdInv
  <2> QED BY <2>4, <2>5, <2>6
<1>5. w' # Idle /\ \A b \in Buckets : ~Taken(b)
  BY <1>2 DEF Idle, Taken
<1> QED BY <1>3, <1>4, <1>5, WorkMoves

LEMMA CollateralInvHolds == Spec => []CollateralInv
<1>1. Init => CollateralInv
  <2> SUFFICES ASSUME Init PROVE CollateralInv
    OBVIOUS
  <2>1. PromiseInv
    BY ReclaimInvInit DEF Init, PromiseInv, UidInv, IdInv, NoTarget
  <2>2. /\ \A b \in Buckets : log[b] = <<Absent>> /\ Api(b) = Absent
        /\ w = Idle
    BY DEF Init, Api, Live
  <2>3. ~Exists(Absent)
    BY DEF Exists, Absent
  <2>4. SpecInv
    BY <2>2, <2>3, FirstLog DEF SpecInv, Idle
  <2>5. SeenInv /\ InfoInv /\ MadeInv
    BY <2>2, <2>3 DEF SeenInv, InfoInv, MadeInv, Idle
  <2> QED BY <2>1, <2>4, <2>5 DEF CollateralInv
<1>2. CollateralInv /\ [Next]_vars => PromiseInv'
  BY ReclaimInvInductive, UidInvStep, IdInvStep DEF PromiseInv, CollateralInv
<1>3. CollateralInv /\ [Next]_vars => CollateralInv'
  BY <1>2, SpecInvStep, SeenInvStep, MadeInvStep, InfoInvStep DEF CollateralInv
<1> QED BY <1>1, <1>3, PTL DEF Spec

(* Where no two GarageBuckets can resolve to one alias, the deletion of    *)
(* one does not hit the Garage bucket of another, nor that of its own      *)
(* successor of the same name: neither when aliases change hands between   *)
(* the lookup and the deletion, nor when a deletion is repeated from an    *)
(* old cache for a CR that is gone.                                        *)
THEOREM CollateralSpared ==
    ASSUME NamesApart
    PROVE  Spec => NoCollateral
<1> DEFINE Spared ==
      At("delTarget") /\ w' # w =>
         \A n \in Names, b \in Buckets :
            gb[n].maker = Api(b).uid /\ Exists(Api(b)) /\ gb'[n] # gb[n]
                => Api(b).deleting
<1>1. ASSUME CollateralInv, [Next]_vars PROVE [Spared]_vars
  <2> SUFFICES ASSUME At("delTarget"), w' # w, NEW n \in Names, NEW b \in Buckets,
                      gb[n].maker = Api(b).uid, Exists(Api(b)), gb'[n] # gb[n]
               PROVE  Api(b).deleting
    OBVIOUS
  <2>1. /\ MadeInv /\ InfoInv /\ SpecInv /\ TypeOK /\ WorkInv /\ Holding
    BY <1>1, CollateralFacts DEF CollateralInv
  <2>2. DeleteTarget
    BY <1>1
    DEF Next, Begin, Worker, AddFinalizer, GetTarget, CreateTarget, PatchStatus, SetQuota,
        RemoveKey, RemovePerm, PutKey, PutPerm, LookupForDeletion, RemoveFinalizer, At,
        CallFails, Manager, Resync, Crash, Informer, ChildInformer, Environment, vars,
        UserCreate, UserEdit, UserDelete, AdminCreate, AdminDelete, UserCreateChild,
        UserDeleteChild, ChildFinalized, GarbageCollect, ClusterLost, ClusterBack
  <2>3. gb[n].id = w.info.id
    BY <2>2 DEF DeleteTarget
  <2>4. n = TargetName(w.b, w.mem.spec)
    BY <2>1, <2>3 DEF InfoInv, At
  <2>5. w.b \in Buckets /\ w.mem.spec \in SpecsOf[w.b]
    BY <2>1 DEF Holding, SpecInv, At
  <2>6. n \in OwnNames(b) /\ (w.b = b => w.mem.uid = Api(b).uid)
    BY <2>1 DEF MadeInv, MadeFor
  <2>7. b = w.b
    BY <2>4, <2>5, <2>6, NamesApart DEF NamesApart, OwnNames
  <2> QED BY <2>1, <2>6, <2>7, VersionType
          DEF WorkInv, DeletionHeld, DeletionSteps, At
<1>2. CollateralInv /\ [Next]_vars => [Spared]_vars
  BY <1>1
<1> QED BY <1>2, CollateralInvHolds, PTL DEF Spec, NoCollateral

=============================================================================
