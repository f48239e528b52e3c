--------------------------- MODULE KeyPromiseProofs ---------------------------
(***************************************************************************)
(* KeyReconciler implements ManagedTarget: a lagging cache, calls that     *)
(* fail or lose their answers and restarts show to users as atomic steps   *)
(* on the true state.                                                      *)
(*                                                                         *)
(* KeyReconcilerProofs says what a step does to the CRs (LogMove) and to   *)
(* the keys (GarageMove).  Here each of these changes is one step of the   *)
(* promise, or none.                                                       *)
(***************************************************************************)
EXTENDS KeyReconcilerProofs

(* The UIDs that the promise speaks of suffice, and every key has one. *)
UidInv ==
    /\ uids <= ops
    /\ \A x \in gk : x.uid # 0 /\ x.name \in Names

PromiseInv == KeyInv /\ UidInv

LEMMA UidInvStep ==
    ASSUME PromiseInv, [Next]_vars
    PROVE  UidInv'
<1>1. /\ KeyTypeOK /\ KeyTypeOK' /\ Holding /\ WorkInv /\ UidInv
      /\ uids \in Nat /\ ops \in Nat
  BY TypeInvInductive, KeyBoundsAssumption DEF PromiseInv, KeyInv, TypeInv, KeyTypeOK
<1>2. uids' <= ops'
  <2>1. CASE UNCHANGED uids
    <3>1. UNCHANGED ops \/ Op
      BY DEF Next, Worker, AddFinalizer, FindKey, CreateKey, GetKey, PatchStatus, PutSecret,
             GetKeyForDeletion, DeleteKey, RemoveFinalizer, Manager, Resync, Crash, Informer,
             SecretInformer, Environment, UserCreate, UserEdit, UserDelete, AdminDelete,
             UserPutSecret, UserDeleteSecret, GarbageCollect, ClusterLost, ClusterBack,
             Begin, CallFails, vars
    <3> QED BY <1>1, <2>1, <3>1 DEF Op, UidInv
  <2>2. CASE uids' # uids
    <3>1. \E k \in Keys : \E s \in SpecsOf[k] : UserCreate(k, s)
      BY <2>2
      DEF Next, Worker, AddFinalizer, FindKey, CreateKey, GetKey, PatchStatus, PutSecret,
          GetKeyForDeletion, DeleteKey, RemoveFinalizer, Manager, Resync, Crash, Informer,
          SecretInformer, Environment, UserEdit, UserDelete, AdminDelete,
          UserPutSecret, UserDeleteSecret, GarbageCollect, ClusterLost, ClusterBack,
          Begin, CallFails, vars
    <3> QED BY <1>1, <3>1 DEF UserCreate, Op, UidInv
  <2> QED BY <2>1, <2>2
<1>3. \A x \in gk' : x.uid # 0 /\ x.name \in Names
  <2>1. CASE gk' \subseteq gk
    BY <1>1, <2>1 DEF UidInv
  <2>2. CASE KeyMade
    <3>1. w.k \in Keys /\ Exists(w.mem) /\ w.mem \in Objects(KeySpecs)
      BY <1>1, <2>2 DEF KeyMade, Holding, KeyTypeOK, Work
    <3>2. BaseName(w.k, w.mem.spec) \in Names /\ w.mem.uid # 0
      BY <3>1, ObjectFacts, BaseNameType DEF Exists
    <3> QED BY <1>1, <2>2, <3>2 DEF KeyMade, UidInv
  <2> QED BY <2>1, <2>2, GarageMoves DEF PromiseInv, GarageMove, KeyLost
<1> QED BY <1>2, <1>3 DEF UidInv

LEMMA PromiseInvHolds == Spec => []PromiseInv
<1>1. Init => PromiseInv
  BY KeyInvInit DEF Init, PromiseInv, UidInv
<1>2. PromiseInv /\ [Next]_vars => PromiseInv'
  BY KeyInvInductive, UidInvStep DEF PromiseInv
<1> QED BY <1>1, <1>2, PTL DEF Spec

-----------------------------------------------------------------------------
(* What the promise sees of the CRs. *)

Seen(k, o) == [phase |-> LifeOf(o), name |-> BaseName(k, o.spec), retain |-> o.spec.retain]

Absentee(u) == [phase |-> IF u > uids THEN "unborn" ELSE "gone"]

CrFacts ==
    /\ \A k \in Keys : Exists(Api(k)) => CrOf(Api(k).uid) = Seen(k, Api(k))
    /\ \A u \in Uids : (\A k \in Keys : Api(k).uid # u) => CrOf(u) = Absentee(u)

LEMMA CrsSeen == LogInv => CrFacts
<1> SUFFICES ASSUME LogInv PROVE CrFacts
  OBVIOUS
<1>1. ASSUME NEW k \in Keys, Exists(Api(k))
      PROVE  CrOf(Api(k).uid) = Seen(k, Api(k))
  <2> DEFINE c == CHOOSE l \in Keys : Api(l).uid = Api(k).uid
  <2>1. c \in Keys /\ Api(c).uid = Api(k).uid
    OBVIOUS
  <2>2. c = k
    BY <1>1, <2>1 DEF LogInv
  <2>3. CrOf(Api(k).uid) = Seen(c, Api(c))
    BY DEF CrOf, Seen
  <2> QED BY <2>2, <2>3
<1>2. ASSUME NEW u \in Uids, \A k \in Keys : Api(k).uid # u
      PROVE  CrOf(u) = Absentee(u)
  BY <1>2 DEF CrOf, Absentee
<1> QED BY <1>1, <1>2 DEF CrFacts

LEMMA CrsToBeSeen == LogInv' => CrFacts'
BY CrsSeen, PTL

LEMMA UidType ==
    ASSUME PromiseInv, NEW k \in Keys, Exists(Api(k))
    PROVE  Api(k).uid \in Uids
<1>1. Api(k) \in Objects(KeySpecs) /\ Api(k).uid <= uids /\ uids <= ops
  BY ApiType, VersionType DEF PromiseInv, KeyInv, TypeInv, LogInv, UidInv
<1>2. Api(k).uid \in Nat \ {0} /\ uids \in Nat /\ ops \in 0 .. MaxOps /\ MaxOps \in Nat
  BY <1>1, ObjectFacts, KeyBoundsAssumption DEF PromiseInv, KeyInv, TypeInv, KeyTypeOK
<1> QED BY <1>1, <1>2 DEF Uids

(* What is not concerned by a step is seen as it was. *)
LEMMA OthersSeen ==
    ASSUME PromiseInv, LogInv', NEW k \in Keys, \A l \in Keys \ {k} : log'[l] = log[l],
           NEW u \in Uids, Api(k).uid # u, Live(log'[k]).uid # u,
           uids' # uids => u # uids + 1 /\ uids' = uids + 1
    PROVE  CrOf(u)' = CrOf(u)
<1>1. CrFacts /\ CrFacts' /\ uids \in Nat /\ u \in Nat
  BY CrsSeen, CrsToBeSeen DEF PromiseInv, KeyInv, TypeInv, KeyTypeOK, Uids
<1>2. CASE \E l \in Keys : Api(l).uid = u
  <2>1. PICK l \in Keys : Api(l).uid = u
    BY <1>2
  <2>2. l # k /\ Api(l)' = Api(l) /\ Exists(Api(l))
    BY <1>1, <2>1 DEF Api, Exists, Uids
  <2>3. CrOf(u) = Seen(l, Api(l))
    BY <1>1, <2>1, <2>2 DEF CrFacts
  <2>4. CrOf(u)' = Seen(l, Api(l))'
    <3>1. CrFacts' => (Exists(Api(l)') => CrOf(Api(l).uid)' = Seen(l, Api(l))')
      BY DEF CrFacts
    <3>2. Api(l).uid' = u
      BY <2>1, <2>2
    <3> QED BY <1>1, <2>2, <3>1, <3>2
  <2>5. Seen(l, Api(l))' = Seen(l, Api(l))
    BY <2>2 DEF Seen, LifeOf, BaseName
  <2> QED BY <2>3, <2>4, <2>5
<1>3. CASE \A l \in Keys : Api(l).uid # u
  <2>1. \A l \in Keys : Api(l)'.uid # u
    BY <1>3 DEF Api
  <2>2. CrOf(u) = Absentee(u) /\ CrOf(u)' = Absentee(u)'
    BY <1>1, <1>3, <2>1 DEF CrFacts
  <2>3. Absentee(u)' = Absentee(u)
    <3>1. u > uids' <=> u > uids
      BY <1>1
    <3> QED BY <3>1 DEF Absentee
  <2> QED BY <2>2, <2>3
<1> QED BY <1>2, <1>3

(* One CR is seen to change. *)
LEMMA SeenBecomes ==
    ASSUME NEW u \in Uids, UNCHANGED gk,
           \A v \in Uids \ {u} : CrOf(v)' = CrOf(v)
    PROVE  Promise!Become(u, CrOf(u)')
<1>1. [v \in Uids |-> CrOf(v)]' = [[v \in Uids |-> CrOf(v)] EXCEPT ![u] = CrOf(u)']
  <2>1. \A v \in Uids : CrOf(v)' = [[x \in Uids |-> CrOf(x)] EXCEPT ![u] = CrOf(u)'][v]
    OBVIOUS
  <2> QED BY <2>1 DEF Uids
<1>2. UNCHANGED [v \in Uids |-> TargetsOf(v)]
  BY DEF TargetsOf, Uids
<1> QED BY <1>1, <1>2 DEF Promise!Become

LEMMA SeenStill ==
    ASSUME UNCHANGED gk, \A v \in Uids : CrOf(v)' = CrOf(v)
    PROVE  UNCHANGED Promise!vars
<1>1. UNCHANGED [v \in Uids |-> CrOf(v)]
  BY DEF Uids
<1>2. UNCHANGED [v \in Uids |-> TargetsOf(v)]
  BY DEF TargetsOf, Uids
<1> QED BY <1>1, <1>2 DEF Promise!vars

-----------------------------------------------------------------------------
(* Each change of a CR is a step of the promise. *)

Simulated == Promise!Next \/ UNCHANGED Promise!vars

LEMMA EditSimulated ==
    ASSUME PromiseInv, LogInv', NEW k \in Keys, Changed(k), Edited(k, Live(log'[k])),
           UNCHANGED uids
    PROVE  Simulated
<1> DEFINE o == Live(log'[k])
<1>1. /\ KeyTypeOK /\ Exists(Api(k)) /\ UNCHANGED gk
      /\ \A l \in Keys \ {k} : log'[l] = log[l]
  BY DEF PromiseInv, KeyInv, TypeInv, Edited, EditOf, Changed
<1>0. PICK u \in Uids : u = Api(k).uid
  BY <1>1, UidType
<1>2. u = Api(k).uid /\ Exists(o) /\ o.uid = u
  BY <1>0, <1>1, EditedKept DEF Kept
<1>3. CrOf(u) = Seen(k, Api(k))
  BY <1>1, <1>2, CrsSeen DEF CrFacts, PromiseInv, KeyInv
<1>4. CrOf(u)' = Seen(k, o)
  <2>1. Api(k)' = o
    BY DEF Api
  <2>2. Exists(Api(k)') => CrOf(Api(k).uid)' = Seen(k, Api(k))'
    BY CrsToBeSeen DEF CrFacts
  <2>3. Seen(k, Api(k))' = Seen(k, o)
    BY <2>1 DEF Seen, LifeOf, BaseName
  <2> QED BY <1>2, <2>1, <2>2, <2>3
<1>5. ASSUME NEW v \in Uids \ {u} PROVE CrOf(v)' = CrOf(v)
  <2>1. v \in Uids /\ Api(k).uid # v /\ Live(log'[k]).uid # v /\ uids' = uids
    BY <1>2
  <2> QED BY <1>1, <2>1, OthersSeen
<1>6. Promise!Become(u, Seen(k, o))
  BY <1>1, <1>4, <1>5, SeenBecomes
<1>7. [v \in Uids |-> CrOf(v)][u] = Seen(k, Api(k))
  BY <1>3
<1>8. Api(k) \in [uid: Nat \ {0}, deleting: BOOLEAN, fin: BOOLEAN, spec: KeySpecs, id: Nat]
  BY <1>1, ApiType, ObjectFacts
<1>9. Edited(k, o)
  OBVIOUS
<1> HIDE DEF o
<1>10. CASE ~Api(k).deleting /\ o = [Api(k) EXCEPT !.fin = TRUE]
  <2>1. Seen(k, o) = [Seen(k, Api(k)) EXCEPT !.phase = "held"]
    BY <1>8, <1>10 DEF Seen, LifeOf
  <2>2. CASE Api(k).fin
    <3>1. Seen(k, o) = Seen(k, Api(k))
      BY <1>8, <1>10, <2>2 DEF Seen, LifeOf
    <3> QED BY <1>1, <1>3, <1>4, <1>5, <3>1, SeenStill DEF Simulated
  <2>3. CASE ~Api(k).fin
    <3>1. Seen(k, Api(k)).phase = "plain"
      BY <1>8, <1>10, <2>3 DEF Seen, LifeOf
    <3>2. Promise!Hold(u)
      BY <1>6, <1>7, <2>1, <3>1 DEF Promise!Hold, Promise!In
    <3> QED BY <3>2 DEF Promise!Next, Simulated
  <2> QED BY <2>2, <2>3
<1>11. ASSUME NEW s \in SpecsOf[k], o = [Api(k) EXCEPT !.spec = s] PROVE Simulated
  <2>1. s \in KeySpecs
    BY KeySpecsAssumption
  <2>2. BaseName(k, s) \in Names /\ s.retain \in BOOLEAN
    BY <2>1, BaseNameType DEF KeySpecs
  <2>3. Seen(k, o) = [phase |-> Seen(k, Api(k)).phase, name |-> BaseName(k, s),
                     retain |-> s.retain]
    <3>1. LifeOf(o) = LifeOf(Api(k)) /\ o.spec = s
      BY <1>8, <1>11 DEF LifeOf
    <3> QED BY <3>1 DEF Seen
  <2>4. Seen(k, Api(k)).phase \in Promise!Phases
    BY DEF Seen, LifeOf, Promise!Phases
  <2>5. Promise!Edit(u, BaseName(k, s), s.retain)
    BY <1>6, <1>7, <2>3, <2>4 DEF Promise!Edit, Promise!In
  <2> QED BY <2>2, <2>5 DEF Promise!Next, Simulated
<1>12. CASE Api(k).fin /\ ~Api(k).deleting /\ o = [Api(k) EXCEPT !.deleting = TRUE]
  <2>1. Seen(k, o) = [Seen(k, Api(k)) EXCEPT !.phase = "terminating"]
    BY <1>8, <1>12 DEF Seen, LifeOf
  <2>2. Seen(k, Api(k)).phase = "held"
    BY <1>12 DEF Seen, LifeOf
  <2>3. Promise!Delete(u)
    BY <1>6, <1>7, <2>1, <2>2 DEF Promise!Delete, Promise!In
  <2> QED BY <2>3 DEF Promise!Next, Simulated
<1> QED BY <1>9, <1>10, <1>11, <1>12 DEF Edited, EditOf

LEMMA NewSimulated ==
    ASSUME PromiseInv, PromiseInv', NEW k \in Keys, Changed(k), New(k)
    PROVE  Simulated
<1> DEFINE o == Live(log'[k])
<1>0. PICK u \in Uids : u = uids + 1
  <2>1. uids' \in Nat /\ uids \in Nat /\ ops' \in 0 .. MaxOps /\ MaxOps \in Nat /\ uids' <= ops'
        /\ uids' = uids + 1
    BY KeyBoundsAssumption DEF PromiseInv, KeyInv, TypeInv, KeyTypeOK, UidInv, New
  <2> QED BY <2>1 DEF Uids
<1>1. PICK s \in SpecsOf[k] : o = Created(u, s)
  BY <1>0 DEF New
<1>2. /\ KeyTypeOK /\ ~Exists(Api(k)) /\ UNCHANGED gk /\ uids' = u
      /\ \A l \in Keys \ {k} : log'[l] = log[l]
  BY <1>0 DEF PromiseInv, KeyInv, TypeInv, New, Changed
<1>3. uids \in Nat /\ u = uids + 1
  BY <1>0, <1>2 DEF KeyTypeOK
<1>4. s \in KeySpecs
  BY KeySpecsAssumption
<1>5. /\ o.uid = u /\ ~o.deleting /\ ~o.fin /\ o.spec = s
  BY <1>1 DEF Created
<1>6. \A l \in Keys : Api(l).uid # u
  <2>1. \A l \in Keys : Api(l).uid <= uids /\ Api(l).uid \in Nat
    BY <1>2, VersionType DEF PromiseInv, KeyInv, LogInv, Objects, Absent
  <2> QED BY <1>3, <2>1
<1>7. CrOf(u) = [phase |-> "unborn"]
  <2>1. CrOf(u) = Absentee(u)
    BY <1>3, <1>6, CrsSeen DEF CrFacts, PromiseInv, KeyInv
  <2>2. u > uids
    BY <1>3
  <2> QED BY <2>1, <2>2 DEF Absentee
<1>8. CrOf(u)' = Seen(k, o)
  <2>1. Api(k)' = o /\ Exists(o)
    BY <1>3, <1>5 DEF Api, Exists, Uids
  <2>2. Exists(Api(k)') => CrOf(Api(k).uid)' = Seen(k, Api(k))'
    BY CrsToBeSeen DEF CrFacts, PromiseInv, KeyInv
  <2>3. Seen(k, Api(k))' = Seen(k, o)
    BY <2>1 DEF Seen, LifeOf, BaseName
  <2> QED BY <1>5, <2>1, <2>2, <2>3
<1>9. Seen(k, o) = [phase |-> "plain", name |-> BaseName(k, s), retain |-> s.retain]
  BY <1>5 DEF Seen, LifeOf
<1>10. ASSUME NEW v \in Uids \ {u} PROVE CrOf(v)' = CrOf(v)
  <2>1. /\ v \in Uids /\ Api(k).uid # v /\ Live(log'[k]).uid # v
        /\ v # uids + 1 /\ uids' = uids + 1 /\ LogInv'
    BY <1>2, <1>3, <1>5 DEF Exists, Uids, PromiseInv, KeyInv
  <2> QED BY <1>2, <2>1, OthersSeen
<1>11. Promise!Become(u, Seen(k, o))
  BY <1>2, <1>3, <1>8, <1>10, SeenBecomes
<1>12. [v \in Uids |-> CrOf(v)][u].phase = "unborn"
  BY <1>3, <1>7
<1>13. BaseName(k, s) \in Names /\ s.retain \in BOOLEAN
  BY <1>4, BaseNameType DEF KeySpecs
<1> HIDE DEF o
<1>14. Promise!Create(u, BaseName(k, s), s.retain)
  BY <1>9, <1>11, <1>12 DEF Promise!Create, Promise!In
<1> QED BY <1>3, <1>13, <1>14 DEF Promise!Next, Simulated

LEMMA GoneSimulated ==
    ASSUME PromiseInv, PromiseInv', NEW k \in Keys, Changed(k), Gone(k)
    PROVE  Simulated
<1>1. /\ KeyTypeOK /\ LogInv /\ GarageInv /\ WorkInv /\ LogInv'
      /\ UNCHANGED gk /\ uids' = uids /\ Live(log'[k]) = Absent
      /\ \A l \in Keys \ {k} : log'[l] = log[l]
  BY DEF PromiseInv, KeyInv, TypeInv, Gone, Changed
<1>2. Live(log'[k]).uid = 0
  BY <1>1 DEF Absent
<1>3. ASSUME NEW v \in Uids, Api(k).uid # v PROVE CrOf(v)' = CrOf(v)
  <2>1. Live(log'[k]).uid # v
    BY <1>2 DEF Uids
  <2> QED BY <1>1, <1>3, <2>1, OthersSeen
<1>4. CASE ~Exists(Api(k))
  <2>1. \A v \in Uids : Api(k).uid # v
    BY <1>4 DEF Exists, Uids
  <2> QED BY <1>1, <1>3, <2>1, SeenStill DEF Simulated
<1>5. CASE Exists(Api(k))
  <2>1. PICK u \in Uids : u = Api(k).uid
    BY <1>5, UidType
  <2>2. [v \in Uids |-> CrOf(v)][u] = Seen(k, Api(k))
    BY <1>1, <1>5, <2>1, CrsSeen DEF CrFacts
  <2>3. CrOf(u)' = [phase |-> "gone"]
    <3>1. ASSUME NEW l \in Keys PROVE Api(l)'.uid # u
      <4>1. CASE l = k
        BY <1>2, <1>5, <2>1, <4>1 DEF Api, Exists
      <4>2. CASE l # k
        BY <1>1, <1>5, <2>1, <4>2 DEF Api, LogInv, Exists
      <4> QED BY <4>1, <4>2
    <3>2. CrOf(u)' = Absentee(u)'
      BY <1>1, <3>1, CrsToBeSeen DEF CrFacts
    <3>3. ~(u > uids)
      <4>1. u <= uids /\ u \in Nat /\ uids \in Nat
        BY <1>1, <2>1, VersionType DEF LogInv, Uids, KeyTypeOK
      <4> QED BY <4>1
    <3> QED BY <1>1, <3>2, <3>3 DEF Absentee
  <2>4. Promise!Become(u, Promise!Gone)
    BY <1>1, <1>3, <2>1, <2>3, SeenBecomes DEF Promise!Gone
  <2>5. CASE ~Api(k).fin /\ ~Api(k).deleting
    <3>1. Seen(k, Api(k)).phase = "plain"
      BY <2>5 DEF Seen, LifeOf
    <3>2. Promise!Delete(u)
      BY <2>2, <2>4, <3>1 DEF Promise!Delete, Promise!In
    <3> QED BY <3>2 DEF Promise!Next, Simulated
  <2>6. CASE w.pc = "unfinalize" /\ w.k = k /\ w.mem = Api(k)
    <3>1. /\ Api(k).deleting
          /\ ~Api(k).spec.retain => Matches(k, Api(k)) = {}
      BY <1>1, <2>6 DEF WorkInv, DeletionHeld, KeyKnown, DeletionSteps
    <3>2. Seen(k, Api(k)).phase = "terminating"
      BY <3>1 DEF Seen, LifeOf
    <3>3. [v \in Uids |-> TargetsOf(v)][u] = TargetsOf(u)
      OBVIOUS
    <3>4. Seen(k, Api(k)).retain \/ Seen(k, Api(k)).name \notin TargetsOf(u)
      BY <2>1, <3>1 DEF Seen, TargetsOf, Matches
    <3>5. Promise!Release(u)
      BY <2>2, <2>4, <3>2, <3>3, <3>4 DEF Promise!Release, Promise!In
    <3> QED BY <3>5 DEF Promise!Next, Simulated
  <2> QED BY <1>1, <2>5, <2>6 DEF Gone
<1> QED BY <1>4, <1>5

-----------------------------------------------------------------------------
(* Each change of the Garage keys is a step of the promise. *)

LEMMA KeyUid ==
    ASSUME PromiseInv, NEW x \in gk
    PROVE  x.uid \in Uids /\ x.name \in Names
<1>1. /\ x.uid \in Nat \ {0} /\ x.uid <= uids /\ uids <= ops /\ uids \in Nat
      /\ ops \in 0 .. MaxOps /\ MaxOps \in Nat /\ x.name \in Names
  BY KeyBoundsAssumption
  DEF PromiseInv, KeyInv, TypeInv, KeyTypeOK, GarageInv, UidInv, GarageKeys
<1> QED BY <1>1 DEF Uids

LEMMA CrsStill ==
    ASSUME UNCHANGED <<log, uids>>
    PROVE  UNCHANGED [v \in Uids |-> CrOf(v)]
BY DEF CrOf, Api, LifeOf, BaseName, Uids

LEMMA LostSimulated ==
    ASSUME PromiseInv, KeyLost
    PROVE  Simulated
<1> DEFINE T == [v \in Uids |-> TargetsOf(v)]
<1>1. PICK x \in gk : gk' = gk \ {x} /\ UNCHANGED <<log, uids>>
  BY DEF KeyLost
<1>2. PICK u \in Uids : u = x.uid
  BY <1>1, KeyUid
<1>3. x.name \in Names /\ OneKeyPerTarget
  BY <1>1, KeyUid DEF PromiseInv, KeyInv, GarageInv
<1>4. ASSUME NEW v \in Uids
      PROVE  TargetsOf(v)' = IF v = u THEN TargetsOf(v) \ {x.name} ELSE TargetsOf(v)
  <2>1. CASE v = u
    BY <1>1, <1>2, <1>3, <2>1 DEF TargetsOf, OneKeyPerTarget
  <2>2. CASE v # u
    BY <1>1, <1>2, <2>2 DEF TargetsOf
  <2> QED BY <2>1, <2>2
<1>5. T' = [T EXCEPT ![u] = @ \ {x.name}] /\ x.name \in T[u]
  <2>1. x.name \in TargetsOf(u)
    BY <1>1, <1>2 DEF TargetsOf
  <2> QED BY <1>4, <2>1 DEF Uids
<1>6. UNCHANGED [v \in Uids |-> CrOf(v)]
  BY <1>1, CrsStill
<1>7. Promise!Remove(u, x.name)
  BY <1>5, <1>6 DEF Promise!Remove
<1> QED BY <1>3, <1>7 DEF Promise!Next, Simulated

LEMMA MadeSimulated ==
    ASSUME PromiseInv, KeyMade
    PROVE  Simulated
<1> DEFINE T == [v \in Uids |-> TargetsOf(v)]
           n == BaseName(w.k, w.mem.spec)
<1>1. /\ w.pc = "create" /\ UNCHANGED <<log, uids>>
      /\ gk' = gk \cup {[id |-> ids + 1, uid |-> w.mem.uid, name |-> n]}
  BY DEF KeyMade
<1>2. /\ w.k \in Keys /\ Exists(w.mem) /\ w.mem \in Objects(KeySpecs)
      /\ Api(w.k).uid = w.mem.uid /\ Api(w.k).fin /\ Matches(w.k, w.mem) = {}
  BY <1>1 DEF PromiseInv, KeyInv, TypeInv, KeyTypeOK, Holding, Work, WorkInv,
              HeldWork, KeyKnown, ReconcileSteps
<1>3. n \in Names
  BY <1>2, ObjectFacts, BaseNameType
<1>4. PICK u \in Uids : u = w.mem.uid
  BY <1>2, UidType DEF Exists
<1>5. [v \in Uids |-> CrOf(v)][u].phase \in {"held", "terminating"}
  <2>1. CrOf(u) = Seen(w.k, Api(w.k))
    BY <1>2, <1>4, CrsSeen DEF CrFacts, PromiseInv, KeyInv, Exists
  <2> QED BY <1>2, <2>1 DEF Seen, LifeOf
<1>6. n \notin TargetsOf(u)
  BY <1>2, <1>4 DEF TargetsOf, Matches
<1>7. PICK c \in Names : c = n
  BY <1>3
<1> HIDE DEF n
<1>8. ASSUME NEW v \in Uids
      PROVE  TargetsOf(v)' = IF v = u THEN TargetsOf(v) \cup {c} ELSE TargetsOf(v)
  <2>1. PICK y : y = [id |-> ids + 1, uid |-> w.mem.uid, name |-> n]
    OBVIOUS
  <2>2. gk' = gk \cup {y} /\ y.uid = u /\ y.name = c
    BY <1>1, <1>4, <1>7, <2>1
  <2>3. CASE v = u
    BY <2>2, <2>3 DEF TargetsOf
  <2>4. CASE v # u
    BY <2>2, <2>4 DEF TargetsOf
  <2> QED BY <2>3, <2>4
<1>9. T' = [T EXCEPT ![u] = @ \cup {c}] /\ c \notin T[u]
  BY <1>6, <1>7, <1>8 DEF Uids
<1>10. UNCHANGED [v \in Uids |-> CrOf(v)]
  BY <1>1, CrsStill
<1>11. Promise!Make(u, c)
  BY <1>5, <1>9, <1>10 DEF Promise!Make, Promise!In
<1> QED BY <1>11 DEF Promise!Next, Simulated

-----------------------------------------------------------------------------
LEMMA StillSimulated ==
    ASSUME PromiseInv, LogInv', UNCHANGED <<gk, uids>>,
           \A k \in Keys : Alike(Api(k), Live(log'[k]))
    PROVE  Simulated
<1>1. CrFacts /\ CrFacts'
  BY CrsSeen, CrsToBeSeen DEF PromiseInv, KeyInv
<1>2. ASSUME NEW k \in Keys
      PROVE  Api(k)'.uid = Api(k).uid /\ Seen(k, Api(k))' = Seen(k, Api(k))
  BY <1>2 DEF Alike, Seen, LifeOf, BaseName, Api
<1>3. ASSUME NEW u \in Uids PROVE CrOf(u)' = CrOf(u)
  <2>1. CASE \E k \in Keys : Api(k).uid = u
    <3>1. PICK k \in Keys : Api(k).uid = u
      BY <2>1
    <3>2. Exists(Api(k)) /\ Exists(Api(k)') /\ Api(k)'.uid = u
      BY <1>2, <3>1 DEF Exists, Uids
    <3>3. CrOf(u) = Seen(k, Api(k))
      BY <1>1, <3>1, <3>2 DEF CrFacts
    <3>4. CrOf(u)' = Seen(k, Api(k))'
      <4>1. CrFacts' => (Exists(Api(k)') => CrOf(Api(k).uid)' = Seen(k, Api(k))')
        BY DEF CrFacts
      <4>2. Api(k).uid' = u
        BY <3>2
      <4> QED BY <1>1, <3>2, <4>1, <4>2
    <3> QED BY <1>2, <3>3, <3>4
  <2>2. CASE \A k \in Keys : Api(k).uid # u
    <3>1. \A k \in Keys : Api(k)'.uid # u
      BY <1>2, <2>2
    <3>2. CrOf(u) = Absentee(u) /\ CrOf(u)' = Absentee(u)'
      BY <1>1, <2>2, <3>1 DEF CrFacts
    <3> QED BY <3>2 DEF Absentee
  <2> QED BY <2>1, <2>2
<1> QED BY <1>3, SeenStill DEF Simulated

(* The worker implements the promise: whatever copy it began with and      *)
(* whatever calls have failed, a step of it is one atomic step that makes  *)
(* a key for a CR that is there with its finalizer, removes one, or lets a *)
(* deleted CR go with its key revoked, or is not seen at all.              *)
THEOREM KeyPromise == Spec => KeyPromiseKept
<1>1. Init => Promise!Init
  <2> SUFFICES ASSUME Init PROVE Promise!Init
    OBVIOUS
  <2>1. LogInv /\ uids = 0 /\ gk = {} /\ \A k \in Keys : Api(k).uid = 0
    BY KeyInvInit DEF KeyInv, Init, Api, Live, Absent
  <2>2. ASSUME NEW u \in Uids PROVE CrOf(u) = Promise!Unborn /\ TargetsOf(u) = {}
    <3>1. u > uids /\ \A k \in Keys : Api(k).uid # u
      BY <2>1 DEF Uids
    <3>2. CrOf(u) = Absentee(u)
      BY <2>1, <3>1, CrsSeen DEF CrFacts
    <3> QED BY <2>1, <3>1, <3>2 DEF Absentee, Promise!Unborn, TargetsOf
  <2> QED BY <2>2 DEF Promise!Init
<1>2. PromiseInv /\ [Next]_vars => [Promise!Next]_(Promise!vars)
  <2> SUFFICES ASSUME PromiseInv, [Next]_vars PROVE Simulated
    BY DEF Simulated
  <2>1. PromiseInv' /\ LogInv' /\ LogMove /\ GarageMove
    BY KeyInvInductive, UidInvStep, LogMoves, GarageMoves DEF PromiseInv, KeyInv
  <2>2. ASSUME NEW k \in Keys, Changed(k) PROVE Simulated
    BY <2>1, <2>2, EditSimulated, NewSimulated, GoneSimulated DEF Changed
  <2>3. CASE UNCHANGED uids /\ \A k \in Keys : Alike(Api(k), Live(log'[k]))
    BY <2>1, <2>3, StillSimulated, LostSimulated, MadeSimulated DEF GarageMove
  <2> QED BY <2>1, <2>2, <2>3 DEF LogMove
<1> QED BY <1>1, <1>2, PromiseInvHolds, PTL DEF Spec, KeyPromiseKept, Promise!Spec

=============================================================================
