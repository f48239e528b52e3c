----------------------- MODULE BucketReconcilerProofs -----------------------
(***************************************************************************)
(* Proofs about BucketReconciler, for any buckets, names, specifications   *)
(* and bounds: types, and that a user's own children are left alone.       *)
(***************************************************************************)
EXTENDS BucketReconciler, KubeObjectsProofs

-----------------------------------------------------------------------------
(* Types.                                                                  *)

(* A worker under way has a request and the CR it read, which asks for     *)
(* access when its children are made, and for quotas when these are set.   *)
Holding ==
    /\ w.pc # "idle" => w.b \in Buckets /\ Exists(w.mem)
    /\ w.pc \in {"putKey", "putPerm"} => w.mem.spec.access # NoAccess
    /\ w.pc = "quota" => w.mem.spec.quota # NoQuota

TypeInv == TypeOK /\ Holding

LEMMA ObjectFacts ==
    ASSUME NEW o \in Objects(BucketSpecs), Exists(o)
    PROVE  /\ o \in [uid: Nat \ {0}, deleting: BOOLEAN, fin: BOOLEAN,
                     spec: BucketSpecs, id: Nat]
           /\ \A i \in Nat : [o EXCEPT !.id = i] \in Objects(BucketSpecs)
           /\ [o EXCEPT !.fin = TRUE] \in Objects(BucketSpecs)
           /\ \A s \in BucketSpecs : [o EXCEPT !.spec = s] \in Objects(BucketSpecs)
           /\ Deleted(o) \in Objects(BucketSpecs)
           /\ Unfinalized(o) \in Objects(BucketSpecs)
BY StoredFacts

LEMMA TargetNameType ==
    ASSUME NEW b \in Buckets, NEW s \in BucketSpecs
    PROVE  TargetName(b, s) \in Names
BY NamesAssumption DEF TargetName, BucketSpecs

(* A write keeps the type of the logs. *)
LEMMA WriteType ==
    ASSUME TypeOK, NEW b \in Buckets, NEW o \in Objects(BucketSpecs), Write(b, o)
    PROVE  log' \in [Buckets -> Seq(Objects(BucketSpecs)) \ {<<>>}]
<1>1. log[b] \in Seq(Objects(BucketSpecs)) \ {<<>>}
  BY DEF TypeOK
<1>2. Append(log[b], o) \in Seq(Objects(BucketSpecs)) \ {<<>>}
  BY <1>1, LogAppend
<1> QED BY <1>2 DEF TypeOK, Write

LEMMA PutKidType ==
    ASSUME TypeOK, NEW b \in Buckets, NEW k \in Kinds, NEW c \in Children,
           PutKid(b, k, c)
    PROVE  kid' \in [Buckets -> [Kinds -> Seq(Children) \ {<<>>}]]
<1>1. kid[b][k] \in Seq(Children) \ {<<>>}
  BY DEF TypeOK
<1>2. Append(kid[b][k], c) \in Seq(Children) \ {<<>>}
  BY <1>1, LogAppend
<1> QED BY <1>2 DEF TypeOK, PutKid

LEMMA ApiType ==
    ASSUME TypeOK, NEW b \in Buckets
    PROVE  /\ log[b] \in Seq(Objects(BucketSpecs)) \ {<<>>}
           /\ Api(b) \in Objects(BucketSpecs)
           /\ Cached(log[b]) \in Objects(BucketSpecs)
           /\ \A k \in Kinds : /\ Live(kid[b][k]) \in Children
                               /\ Cached(kid[b][k]) \in Children
<1>1. log[b] \in Seq(Objects(BucketSpecs)) \ {<<>>}
  BY DEF TypeOK
<1>2. \A k \in Kinds : kid[b][k] \in Seq(Children) \ {<<>>}
  BY DEF TypeOK
<1> QED BY <1>1, <1>2, LogRead DEF Api

(* What the worker may do next: it stops, or goes on with the same CR.     *)
LEMMA StopType ==
    ASSUME TypeInv, w' = Idle
    PROVE  w' \in Work /\ Holding'
BY DEF TypeInv, TypeOK, Idle, Work, Steps, Objects, Absent, Targets, NoTarget, Unlimited, Holding

LEMMA StepType ==
    ASSUME TypeInv, w.pc # "idle",
           w'.pc \in Steps, w'.mem \in Objects(BucketSpecs), Exists(w'.mem),
           w'.pc \in {"putKey", "putPerm"} => w'.mem.spec.access # NoAccess,
           w'.pc = "quota" => w'.mem.spec.quota # NoQuota,
           w'.info \in Targets,
           w' = [pc |-> w'.pc, b |-> w.b, mem |-> w'.mem, info |-> w'.info]
    PROVE  w' \in Work /\ Holding'
<1>1. w.b \in Buckets
  BY DEF TypeInv, Holding
<1>2. w'.b = w.b
  OBVIOUS
<1> QED BY <1>1, <1>2 DEF Work, Holding, Exists

LEMMA AfterType ==
    ASSUME NEW m, NEW i
    PROVE  \A pc \in {AfterTarget(m, i), AfterStatus(m, i), AfterQuota(m)} :
             /\ pc \in Steps \ {"idle"}
             /\ pc \in {"putKey", "putPerm"} => m.spec.access # NoAccess
             /\ pc = "quota" => m.spec.quota # NoQuota
BY DEF AfterTarget, AfterStatus, AfterQuota, QuotaMet, Steps, ReconcileSteps

LEMMA FailType ==
    ASSUME TypeInv, w.pc # "idle", Fail
    PROVE  w' \in Work /\ Holding' /\ queue' \subseteq Buckets
BY StopType DEF Fail, TypeInv, TypeOK, Holding

LEMMA FaultType ==
    ASSUME TypeOK, Fault \/ UNCHANGED faults
    PROVE  faults' \in 0 .. MaxFaults
BY BoundsAssumption DEF TypeOK, Fault

(* Every action of the worker keeps the types.                             *)
LEMMA WorkerType ==
    ASSUME TypeInv, Worker
    PROVE  TypeInv'
<1> DEFINE b == w.b
           m == w.mem
<1>a. w.pc # "idle"
  BY DEF Worker, AddFinalizer, GetTarget, CreateTarget, PatchStatus, SetQuota,
         RemoveKey, RemovePerm, PutKey, PutPerm, LookupForDeletion, DeleteTarget,
         RemoveFinalizer, At
<1>b. /\ b \in Buckets /\ Exists(m) /\ m \in Objects(BucketSpecs)
      /\ w.info \in Targets /\ w \in Work /\ TypeOK
  BY <1>a DEF TypeInv, TypeOK, Holding, Work
<1>c. m.spec \in BucketSpecs /\ m.uid \in Nat
  BY <1>b, ObjectFacts
<1>d. TargetName(b, m.spec) \in Names
  BY <1>b, <1>c, TargetNameType
<1>e. Api(b) \in Objects(BucketSpecs)
  BY <1>b, ApiType
<1>f. ASSUME NEW pc \in Steps,
             pc \in {"putKey", "putPerm"} => m.spec.access # NoAccess,
             pc = "quota" => m.spec.quota # NoQuota,
             w' = [w EXCEPT !.pc = pc]
      PROVE  w' \in Work /\ Holding'
  <2>1. /\ w'.pc = pc /\ w'.mem = m /\ w'.info = w.info
        /\ w' = [pc |-> w'.pc, b |-> w.b, mem |-> w'.mem, info |-> w'.info]
    BY <1>b, <1>f DEF Work
  <2> QED BY <2>1, <1>a, <1>b, <1>f, StepType
<1>g. ASSUME NEW t \in Targets, WithTarget(t)
      PROVE  w' \in Work /\ Holding'
  <2>1. /\ w'.pc = AfterTarget(m, t) /\ w'.mem = m /\ w'.info = t
        /\ w' = [pc |-> w'.pc, b |-> w.b, mem |-> w'.mem, info |-> w'.info]
    BY <1>b, <1>g DEF Work, WithTarget
  <2> QED BY <2>1, <1>a, <1>b, AfterType, StepType
<1>1. ASSUME AddFinalizer PROVE TypeInv'
  <2> DEFINE n == [m EXCEPT !.fin = TRUE]
  <2>1. n \in Objects(BucketSpecs) /\ Exists(n)
    <3>1. n \in Objects(BucketSpecs)
      BY <1>b, ObjectFacts
    <3> QED BY <3>1, <1>b, ObjectFacts DEF Exists
  <2>2. w' = [w EXCEPT !.pc = "lookup", !.mem = n] => w' \in Work /\ Holding'
    <3> SUFFICES ASSUME w' = [w EXCEPT !.pc = "lookup", !.mem = n]
                 PROVE  w' \in Work /\ Holding'
      OBVIOUS
    <3>1. /\ w'.pc = "lookup" /\ w'.mem = n /\ w'.info = w.info
          /\ w' = [pc |-> w'.pc, b |-> w.b, mem |-> w'.mem, info |-> w'.info]
      BY <1>b DEF Work
    <3>2. "lookup" \in Steps
      BY DEF Steps, ReconcileSteps
    <3> QED BY <3>1, <3>2, <2>1, <1>a, <1>b, StepType
  <2>3. w' \in Work /\ Holding' /\ queue' \subseteq Buckets
    BY <1>1, <2>2, <1>a, <1>b, FailType DEF AddFinalizer, Answered, TypeOK
  <2>4. log' \in [Buckets -> Seq(Objects(BucketSpecs)) \ {<<>>}]
    BY <1>1, <2>1, <1>b, WriteType DEF AddFinalizer, TypeOK
  <2>5. faults' \in 0 .. MaxFaults
    BY <1>1, <1>b, FaultType DEF AddFinalizer, Answered
  <2> QED BY <1>1, <1>b, <2>3, <2>4, <2>5 DEF AddFinalizer, TypeInv, TypeOK
<1>2. ASSUME GetTarget PROVE TypeInv'
  <2> DEFINE t == gb[TargetName(b, m.spec)]
  <2>1. t \in Targets
    BY <1>b, <1>d DEF TypeOK
  <2>2. WithTarget(t) => w' \in Work /\ Holding'
    BY <2>1, <1>g
  <2>3. Goto("create") => w' \in Work /\ Holding'
    BY <1>f DEF Goto, Steps, ReconcileSteps
  <2> QED BY <1>2, <1>b, <2>2, <2>3 DEF GetTarget, TypeInv, TypeOK, WithTarget, Goto
<1>3. ASSUME CreateTarget PROVE TypeInv'
  <2> DEFINE n == TargetName(b, m.spec)
             t == Made(m.uid)
  <2>1. t \in Targets
    BY <1>b, <1>c DEF TypeOK, Targets, Made, Unlimited
  <2>2. w' \in Work /\ Holding' /\ queue' \subseteq Buckets
    BY <1>3, <2>1, <1>a, <1>b, <1>g, FailType DEF CreateTarget, Answered, WithTarget, TypeOK
  <2>3. gb' \in [Names -> Targets] /\ ids' \in Nat
    <3>1. \/ gb' = [gb EXCEPT ![n] = t] /\ ids' = ids + 1
          \/ UNCHANGED <<gb, ids>>
      BY <1>3 DEF CreateTarget
    <3>2. gb \in [Names -> Targets] /\ ids \in Nat
      BY <1>b DEF TypeOK
    <3> HIDE DEF t, n
    <3> QED BY <3>1, <3>2, <2>1
  <2>4. faults' \in 0 .. MaxFaults
    BY <1>3, <1>b, FaultType DEF CreateTarget, Answered
  <2> QED BY <1>3, <1>b, <2>2, <2>3, <2>4 DEF CreateTarget, TypeInv, TypeOK
<1>4. ASSUME PatchStatus PROVE TypeInv'
  <2> DEFINE n == [Api(b) EXCEPT !.id = w.info.id]
  <2>1. CASE Exists(Api(b))
    <3>1. n \in Objects(BucketSpecs) /\ Exists(n)
      <4>1. w.info.id \in Nat
        BY <1>b DEF Targets
      <4>2. n \in Objects(BucketSpecs)
        BY <4>1, <2>1, <1>e, ObjectFacts
      <4> QED BY <4>2, <2>1, <1>e, ObjectFacts DEF Exists
    <3>2. ASSUME w' = [w EXCEPT !.pc = AfterStatus(n, w.info), !.mem = n]
          PROVE  w' \in Work /\ Holding'
      <4>1. /\ w'.pc = AfterStatus(n, w.info) /\ w'.mem = n /\ w'.info = w.info
            /\ w' = [pc |-> w'.pc, b |-> w.b, mem |-> w'.mem, info |-> w'.info]
        BY <1>b, <3>2 DEF Work
      <4>2. /\ w'.pc \in Steps
            /\ w'.pc \in {"putKey", "putPerm"} => w'.mem.spec.access # NoAccess
            /\ w'.pc = "quota" => w'.mem.spec.quota # NoQuota
        BY <4>1, AfterType
      <4> HIDE DEF n
      <4> QED BY <4>1, <4>2, <3>1, <1>a, <1>b, StepType
    <3>3. w' \in Work /\ Holding' /\ queue' \subseteq Buckets
      BY <1>4, <2>1, <3>2, <1>a, <1>b, FailType DEF PatchStatus, Answered, TypeOK
    <3>4. log' \in [Buckets -> Seq(Objects(BucketSpecs)) \ {<<>>}]
      BY <1>4, <2>1, <3>1, <1>b, WriteType DEF PatchStatus
    <3>5. faults' \in 0 .. MaxFaults
      BY <1>4, <2>1, <1>b, FaultType DEF PatchStatus, Answered
    <3> QED BY <1>4, <1>b, <3>3, <3>4, <3>5 DEF PatchStatus, TypeInv, TypeOK
  <2>2. CASE ~Exists(Api(b))
    BY <1>4, <2>2, <1>a, <1>b, FailType DEF PatchStatus, TypeInv, TypeOK
  <2> QED BY <2>1, <2>2
<1>5. ASSUME SetQuota PROVE TypeInv'
  <2>1. ASSUME Goto(AfterQuota(m)) PROVE w' \in Work /\ Holding'
    BY <2>1, <1>f, AfterType DEF Goto
  <2>2. w' \in Work /\ Holding' /\ queue' \subseteq Buckets
    BY <1>5, <2>1, <1>a, <1>b, FailType DEF SetQuota, Answered, Goto, TypeOK
  <2>3. m.spec.quota \in [Dims -> Limits \cup {NoLimit}]
    <3>1. m.spec.quota \in Quotas \cup {NoQuota}
      BY <1>c DEF BucketSpecs
    <3>2. m.spec.quota # NoQuota
      BY <1>5, <1>b DEF SetQuota, At, Holding, TypeInv
    <3>3. m.spec.quota \in [Dims -> Limits]
      BY <3>1, <3>2 DEF Quotas
    <3> QED BY <3>3
  <2>4. gb' \in [Names -> Targets]
    <3>1. gb \in [Names -> Targets]
      BY <1>b DEF TypeOK
    <3>2. \A n \in Names : [gb[n] EXCEPT !.quota = m.spec.quota] \in Targets
      BY <2>3, <3>1 DEF Targets
    <3> QED BY <1>5, <3>1, <3>2 DEF SetQuota
  <2>5. faults' \in 0 .. MaxFaults
    BY <1>5, <1>b, FaultType DEF SetQuota, Answered
  <2> QED BY <1>5, <1>b, <2>2, <2>4, <2>5 DEF SetQuota, TypeInv, TypeOK
<1>6. ASSUME NEW k \in Kinds, RemoveChild(k),
             UNCHANGED <<log, gb, ids, cluster, uids, doomed, ops>>
      PROVE  TypeInv'
  <2> DEFINE live == Live(kid[b][k])
             new  == [live EXCEPT !.deleting = TRUE]
  <2>1. live \in Children /\ new \in Children
    <3>1. live \in Children
      BY <1>b, ApiType
    <3> QED BY <3>1 DEF Children
  <2>2. Goto("rmPerm") \/ Done => /\ w' \in Work /\ Holding'
                                  /\ queue' \subseteq Buckets
    BY <1>b, <1>f, StopType DEF Goto, Done, Steps, ReconcileSteps, TypeOK
  <2>3. w' \in Work /\ Holding' /\ queue' \subseteq Buckets
    BY <1>6, <2>2, <1>a, FailType DEF RemoveChild, Answered
  <2>4. kid' \in [Buckets -> [Kinds -> Seq(Children) \ {<<>>}]]
    BY <1>6, <2>1, <1>b, PutKidType DEF RemoveChild, TypeOK
  <2>5. faults' \in 0 .. MaxFaults
    BY <1>6, <1>b, FaultType DEF RemoveChild, Answered
  <2> QED BY <1>6, <1>b, <2>3, <2>4, <2>5 DEF TypeInv, TypeOK
<1>7. ASSUME NEW k \in Kinds, PutChild(k), w.pc \in {"putKey", "putPerm"},
             UNCHANGED <<log, gb, ids, cluster, uids, doomed, ops>>
      PROVE  TypeInv'
  <2> DEFINE c   == Cached(kid[b][k])
             new == [c EXCEPT !.cfg = m.spec.access[k], !.owner = m.uid]
  <2>1. new \in Children
    <3>1. m.spec.access \in [Kinds -> Cfgs]
      BY <1>7, <1>c DEF TypeInv, Holding, BucketSpecs
    <3>2. c \in Children
      BY <1>b, ApiType
    <3> QED BY <3>1, <3>2, <1>c DEF Children
  <2>2. Goto("putPerm") \/ Done => /\ w' \in Work /\ Holding'
                                   /\ queue' \subseteq Buckets
    BY <1>7, <1>b, <1>f, StopType
    DEF Goto, Done, Steps, ReconcileSteps, TypeInv, TypeOK, Holding
  <2>3. w' \in Work /\ Holding' /\ queue' \subseteq Buckets
    BY <1>7, <2>2, <1>a, FailType DEF PutChild, Answered
  <2>4. kid' \in [Buckets -> [Kinds -> Seq(Children) \ {<<>>}]]
    BY <1>7, <2>1, <1>b, PutKidType DEF PutChild, TypeOK
  <2>5. faults' \in 0 .. MaxFaults
    BY <1>7, <1>b, FaultType DEF PutChild, Answered
  <2> QED BY <1>7, <1>b, <2>3, <2>4, <2>5 DEF TypeInv, TypeOK
<1>8. ASSUME LookupForDeletion PROVE TypeInv'
  <2> DEFINE t == gb[TargetName(b, m.spec)]
  <2>1. t \in Targets
    BY <1>b, <1>d DEF TypeOK
  <2>2. ASSUME w' = [w EXCEPT !.pc = "delTarget", !.info = t]
        PROVE  w' \in Work /\ Holding'
    <3>1. /\ w'.pc = "delTarget" /\ w'.mem = m /\ w'.info = t
          /\ w' = [pc |-> w'.pc, b |-> w.b, mem |-> w'.mem, info |-> w'.info]
      BY <1>b, <2>2 DEF Work
    <3> QED BY <3>1, <2>1, <1>a, <1>b, StepType DEF Steps, DeletionSteps
  <2>3. Goto("unfinalize") => w' \in Work /\ Holding'
    BY <1>f DEF Goto, Steps, DeletionSteps
  <2> QED BY <1>8, <1>b, <2>2, <2>3 DEF LookupForDeletion, TypeInv, TypeOK, Goto
<1>9. ASSUME DeleteTarget PROVE TypeInv'
  <2>1. Goto("unfinalize") => w' \in Work /\ Holding'
    BY <1>f DEF Goto, Steps, DeletionSteps
  <2>2. w' \in Work /\ Holding' /\ queue' \subseteq Buckets
    BY <1>9, <2>1, <1>a, <1>b, FailType DEF DeleteTarget, Answered, Goto, TypeOK
  <2>3. gb' \in [Names -> Targets]
    BY <1>9, <1>b DEF DeleteTarget, TypeOK, Targets, NoTarget, Unlimited
  <2>4. faults' \in 0 .. MaxFaults
    BY <1>9, <1>b, FaultType DEF DeleteTarget, Answered
  <2> QED BY <1>9, <1>b, <2>2, <2>3, <2>4 DEF DeleteTarget, TypeInv, TypeOK
<1>10. ASSUME RemoveFinalizer PROVE TypeInv'
  <2>1. Unfinalized(m) \in Objects(BucketSpecs)
    BY <1>b, ObjectFacts
  <2>2. w' \in Work /\ Holding' /\ queue' \subseteq Buckets
    BY <1>10, <1>a, <1>b, FailType, StopType DEF RemoveFinalizer, Answered, Done, TypeOK
  <2>3. log' \in [Buckets -> Seq(Objects(BucketSpecs)) \ {<<>>}]
    BY <1>10, <2>1, <1>b, WriteType DEF RemoveFinalizer, TypeOK
  <2>4. faults' \in 0 .. MaxFaults
    BY <1>10, <1>b, FaultType DEF RemoveFinalizer, Answered
  <2> QED BY <1>10, <1>b, <2>2, <2>3, <2>4 DEF RemoveFinalizer, TypeInv, TypeOK
<1>11. CASE RemoveKey \/ RemovePerm
  BY <1>6, <1>11 DEF RemoveKey, RemovePerm, Kinds
<1>12. CASE PutKey \/ PutPerm
  BY <1>7, <1>12 DEF PutKey, PutPerm, Kinds, At
<1> QED
  BY <1>1, <1>2, <1>3, <1>4, <1>5, <1>8, <1>9, <1>10, <1>11, <1>12 DEF Worker

LEMMA ManagerType ==
    ASSUME TypeInv, Manager
    PROVE  TypeInv'
<1>1. TypeOK
  BY DEF TypeInv
<1>2. CASE Resync
  BY <1>1, <1>2 DEF Resync, TypeInv, TypeOK, Holding
<1>3. CASE Crash
  <2>1. \A b \in Buckets : Relisted(log[b]) \in Seq(Objects(BucketSpecs)) \ {<<>>}
    BY <1>1, LogRelist DEF TypeOK
  <2>2. \A b \in Buckets, k \in Kinds :
          Relisted(kid[b][k]) \in Seq(Children) \ {<<>>}
    BY <1>1, LogRelist DEF TypeOK
  <2>3. w' \in Work /\ Holding'
    BY <1>3, StopType DEF Crash
  <2>4. faults' \in 0 .. MaxFaults
    BY <1>1, <1>3, FaultType DEF Crash
  <2> QED BY <1>1, <1>3, <2>1, <2>2, <2>3, <2>4 DEF Crash, TypeInv, TypeOK
<1>4. ASSUME NEW b \in Buckets, Informer(b) PROVE TypeInv'
  <2>1. Tail(log[b]) \in Seq(Objects(BucketSpecs)) \ {<<>>}
    BY <1>1, <1>4, LogTail DEF Informer, TypeOK
  <2> QED BY <1>1, <1>4, <2>1 DEF Informer, TypeInv, TypeOK, Holding
<1>5. ASSUME NEW b \in Buckets, NEW k \in Kinds, ChildInformer(b, k) PROVE TypeInv'
  <2>1. Tail(kid[b][k]) \in Seq(Children) \ {<<>>}
    BY <1>1, <1>5, LogTail DEF ChildInformer, TypeOK
  <2> QED BY <1>1, <1>5, <2>1 DEF ChildInformer, TypeInv, TypeOK, Holding
<1> QED BY <1>2, <1>3, <1>4, <1>5 DEF Manager

LEMMA EnvironmentType ==
    ASSUME TypeInv, Environment
    PROVE  TypeInv'
<1>1. TypeOK
  BY DEF TypeInv
<1>2. UNCHANGED w
  BY DEF Environment, UserCreate, UserEdit, UserDelete, AdminCreate, AdminDelete,
         UserCreateChild, UserDeleteChild, ChildFinalized, GarbageCollect,
         ClusterLost, ClusterBack
<1>3. Holding'
  BY <1>2 DEF TypeInv, Holding
<1>4. Op => ops' \in 0 .. MaxOps
  BY <1>1, BoundsAssumption DEF Op, TypeOK
<1>5. NoChild \in Children
  BY DEF NoChild, Children
<1>6. ASSUME NEW b \in Buckets, NEW s \in SpecsOf[b], UserCreate(b, s) PROVE TypeInv'
  <2>1. s \in BucketSpecs
    BY SpecsAssumption
  <2>2. Created(uids + 1, s) \in Objects(BucketSpecs)
    <3>1. uids + 1 \in Nat \ {0}
      BY <1>1 DEF TypeOK
    <3> QED BY <2>1, <3>1 DEF Objects, Created
  <2>3. log' \in [Buckets -> Seq(Objects(BucketSpecs)) \ {<<>>}]
    BY <1>1, <1>6, <2>2, WriteType DEF UserCreate
  <2> QED BY <1>1, <1>3, <1>4, <1>6, <2>3 DEF UserCreate, TypeInv, TypeOK
<1>7. ASSUME NEW b \in Buckets, NEW s \in SpecsOf[b], UserEdit(b, s) PROVE TypeInv'
  <2> DEFINE o == [Api(b) EXCEPT !.spec = s]
  <2>1. s \in BucketSpecs
    BY SpecsAssumption
  <2>2. o \in Objects(BucketSpecs)
    BY <1>1, <1>7, <2>1, ApiType, ObjectFacts DEF UserEdit
  <2>3. log' \in [Buckets -> Seq(Objects(BucketSpecs)) \ {<<>>}]
    BY <1>1, <1>7, <2>2, WriteType DEF UserEdit
  <2>4. doomed' \subseteq Nat
    BY <1>1, <1>7, <2>2 DEF UserEdit, Doom, TypeOK, Objects, Absent
  <2> QED BY <1>1, <1>3, <1>4, <1>7, <2>3, <2>4 DEF UserEdit, TypeInv, TypeOK
<1>8. ASSUME NEW b \in Buckets, UserDelete(b) PROVE TypeInv'
  <2> DEFINE o == Deleted(Api(b))
  <2>1. o \in Objects(BucketSpecs)
    BY <1>1, <1>8, ApiType, ObjectFacts DEF UserDelete
  <2>2. log' \in [Buckets -> Seq(Objects(BucketSpecs)) \ {<<>>}]
    BY <1>1, <1>8, <2>1, WriteType DEF UserDelete
  <2>3. doomed' \subseteq Nat
    <3>1. o.uid \in Nat
      BY <2>1 DEF Objects, Absent
    <3> HIDE DEF o
    <3>2. Doom(o)
      BY <1>8 DEF UserDelete, o
    <3> QED BY <1>1, <3>1, <3>2 DEF Doom, TypeOK
  <2> QED BY <1>1, <1>3, <1>4, <1>8, <2>2, <2>3 DEF UserDelete, TypeInv, TypeOK
<1>9. ASSUME NEW n \in AdminNames, AdminCreate(n) \/ AdminDelete(n) PROVE TypeInv'
  <2>1. gb' \in [Names -> Targets] /\ ids' \in Nat
    <3>1. NoTarget \in Targets /\ Made(0) \in Targets
      BY <1>1 DEF TypeOK, Targets, NoTarget, Made, Unlimited
    <3> QED BY <1>1, <1>9, <3>1 DEF AdminCreate, AdminDelete, TypeOK
  <2> QED BY <1>1, <1>3, <1>4, <1>9, <2>1 DEF AdminCreate, AdminDelete, TypeInv, TypeOK
<1>10. ASSUME NEW b \in Buckets, NEW k \in Kinds,
              \/ \E f \in ForeignCfgs : UserCreateChild(b, k, f)
              \/ UserDeleteChild(b, k) \/ ChildFinalized(b, k) \/ GarbageCollect(b, k)
       PROVE  TypeInv'
  <2>1. \A f \in ForeignCfgs : [NoChild EXCEPT !.cfg = f] \in Children
    BY SpecsAssumption DEF NoChild, Children
  <2>2. [Live(kid[b][k]) EXCEPT !.deleting = TRUE] \in Children
    <3>1. Live(kid[b][k]) \in Children
      BY <1>1, ApiType
    <3> QED BY <3>1 DEF Children
  <2>3. kid' \in [Buckets -> [Kinds -> Seq(Children) \ {<<>>}]]
    BY <1>1, <1>5, <1>10, <2>1, <2>2, PutKidType
    DEF UserCreateChild, UserDeleteChild, ChildFinalized, GarbageCollect
  <2> QED
    BY <1>1, <1>3, <1>4, <1>10, <2>3
    DEF UserCreateChild, UserDeleteChild, ChildFinalized, GarbageCollect, TypeInv, TypeOK
<1>11. CASE ClusterLost \/ ClusterBack
  BY <1>1, <1>3, <1>11, FaultType DEF ClusterLost, ClusterBack, TypeInv, TypeOK
<1> QED BY <1>6, <1>7, <1>8, <1>9, <1>10, <1>11 DEF Environment

LEMMA BeginType ==
    ASSUME TypeInv, NEW b \in Buckets, Begin(b)
    PROVE  TypeInv'
<1> DEFINE m == Cached(log[b])
<1>1. TypeOK /\ m \in Objects(BucketSpecs)
  BY ApiType DEF TypeInv
<1>2. w' \in Work /\ Holding'
  <2>1. CASE w' = Idle
    BY <2>1, StopType
  <2>2. CASE w' # Idle
    <3>1. /\ w' = [pc |-> FirstStep(m), b |-> b, mem |-> m, info |-> NoTarget]
          /\ Exists(m)
      BY <2>2 DEF Begin
    <3>2. FirstStep(m) \in Steps \ {"quota", "putKey", "putPerm"}
      BY DEF FirstStep, Steps, ReconcileSteps, DeletionSteps
    <3>3. NoTarget \in Targets
      BY DEF NoTarget, Targets, Unlimited
    <3> QED BY <1>1, <3>1, <3>2, <3>3 DEF Work, Holding
  <2> QED BY <2>1, <2>2
<1> QED BY <1>1, <1>2 DEF Begin, TypeInv, TypeOK

LEMMA TypeInvInductive == TypeInv /\ [Next]_vars => TypeInv'
<1> SUFFICES ASSUME TypeInv, [Next]_vars PROVE TypeInv'
  OBVIOUS
<1>1. CASE CallFails
  <2>1. w.pc # "idle" /\ Fault /\ Fail /\ TypeOK
    BY <1>1 DEF CallFails, At, TypeInv
  <2> QED BY <1>1, <2>1, FailType, FaultType DEF CallFails, TypeInv, TypeOK
<1>2. CASE UNCHANGED vars
  BY <1>2 DEF vars, TypeInv, TypeOK, Holding
<1> QED
  BY <1>1, <1>2, BeginType, WorkerType, ManagerType, EnvironmentType DEF Next

LEMMA TypeInvInit == Init => TypeInv
<1> SUFFICES ASSUME Init PROVE TypeInv
  OBVIOUS
<1>1. <<Absent>> \in Seq(Objects(BucketSpecs)) \ {<<>>}
  BY DEF Objects
<1>2. <<NoChild>> \in Seq(Children) \ {<<>>}
  BY DEF NoChild, Children
<1>3. w \in Work /\ Holding
  BY DEF Init, Idle, Work, Steps, Objects, Absent, Targets, NoTarget, Unlimited, Holding
<1>4. gb \in [Names -> Targets]
  BY DEF Init, Targets, NoTarget, Unlimited
<1> QED
  BY <1>1, <1>2, <1>3, <1>4, BoundsAssumption DEF Init, TypeInv, TypeOK

(* The types hold throughout, for the worker's requests and copies too:    *)
(* it never addresses a bucket or an alias that is none, and never makes   *)
(* children that nobody asked for.                                         *)
THEOREM TypeCorrect == Spec => []TypeOK
<1>1. TypeInv => TypeOK
  BY DEF TypeInv
<1> QED BY <1>1, TypeInvInit, TypeInvInductive, PTL DEF Spec


-----------------------------------------------------------------------------
(* Children of the users' own.                                             *)

LeftAlone(c, d) == c # NoChild /\ ~Owned(c) => ~Owned(d) /\ d.cfg \in {c.cfg, NoCfg}

Respects == \A b \in Buckets, k \in Kinds : LeftAlone(Live(kid[b][k]), Live(kid'[b][k]))

LEMMA PutRespects ==
    ASSUME TypeOK, NEW b \in Buckets, NEW k \in Kinds, NEW c \in Children,
           PutKid(b, k, c), LeftAlone(Live(kid[b][k]), c)
    PROVE  Respects
<1> SUFFICES ASSUME NEW x \in Buckets, NEW y \in Kinds
             PROVE  LeftAlone(Live(kid[x][y]), Live(kid'[x][y]))
  BY DEF Respects
<1>1. kid \in [Buckets -> [Kinds -> Seq(Children) \ {<<>>}]]
  BY DEF TypeOK
<1>2. CASE x = b /\ y = k
  <2>1. kid'[x][y] = Append(kid[x][y], c) /\ kid[x][y] \in Seq(Children) \ {<<>>}
    BY <1>1, <1>2 DEF PutKid
  <2> QED BY <1>2, <2>1, LogAppend
<1>3. CASE ~(x = b /\ y = k)
  <2>1. kid'[x][y] = kid[x][y]
    BY <1>1, <1>3 DEF PutKid
  <2> QED BY <2>1 DEF LeftAlone
<1> QED BY <1>2, <1>3

LEMMA StillRespects ==
    ASSUME \A b \in Buckets, k \in Kinds : Live(kid'[b][k]) = Live(kid[b][k])
    PROVE  Respects
BY DEF Respects, LeftAlone

(* A mark is not an adoption. *)
LEMMA MarkedChild ==
    ASSUME NEW c \in Children
    PROVE  /\ [c EXCEPT !.deleting = TRUE] \in Children
           /\ LeftAlone(c, [c EXCEPT !.deleting = TRUE])
BY DEF Children, LeftAlone, Owned

LEMMA RemoveRespects ==
    ASSUME TypeInv, w.pc # "idle", NEW k \in Kinds, RemoveChild(k)
    PROVE  Respects
<1> DEFINE c == Live(kid[w.b][k])
<1>1. w.b \in Buckets /\ TypeOK /\ c \in Children
  BY ApiType DEF TypeInv, Holding
<1>2. UNCHANGED kid \/ PutKid(w.b, k, [c EXCEPT !.deleting = TRUE])
  BY DEF RemoveChild
<1> HIDE DEF c
<1> QED BY <1>1, <1>2, MarkedChild, PutRespects, StillRespects DEF c

LEMMA PutChildRespects ==
    ASSUME TypeInv, w.pc \in {"putKey", "putPerm"}, NEW k \in Kinds, PutChild(k)
    PROVE  Respects
<1> DEFINE c   == Cached(kid[w.b][k])
           new == [c EXCEPT !.cfg = w.mem.spec.access[k], !.owner = w.mem.uid]
<1>1. w.b \in Buckets /\ TypeOK /\ c \in Children
  BY ApiType DEF TypeInv, Holding
<1>2. new \in Children
  <2>1. w.mem \in Objects(BucketSpecs) /\ Exists(w.mem) /\ w.mem.spec.access # NoAccess
    BY DEF TypeInv, TypeOK, Holding, Work
  <2>2. w.mem.uid \in Nat /\ w.mem.spec.access[k] \in Cfgs
    BY <2>1, ObjectFacts DEF BucketSpecs
  <2> HIDE DEF c
  <2> QED BY <1>1, <2>2 DEF Children
<1>3. \/ UNCHANGED kid
      \/ /\ c = NoChild \/ Owned(c)
         /\ Live(kid[w.b][k]) = c /\ PutKid(w.b, k, new)
  BY DEF PutChild
<1>4. c = NoChild \/ Owned(c) => LeftAlone(c, new)
  BY DEF LeftAlone
<1> HIDE DEF c, new
<1> QED BY <1>1, <1>2, <1>3, <1>4, PutRespects, StillRespects

(* Children that are not owned are safe from the worker, although it       *)
(* decides on a cached copy: an update needs that copy to be current, and  *)
(* a creation that nothing bears the name.                                 *)
THEOREM ForeignLeftAlone == Spec => ForeignNeverAdopted
<1>1. ASSUME TypeInv, [Next]_vars PROVE Respects
  <2>1. TypeOK
    BY <1>1 DEF TypeInv
  <2>2. ASSUME UNCHANGED kid PROVE Respects
    BY <2>2, StillRespects
  <2>3. CASE RemoveKey \/ RemovePerm
    BY <1>1, <2>3, RemoveRespects DEF RemoveKey, RemovePerm, At, Kinds
  <2>4. CASE PutKey \/ PutPerm
    BY <1>1, <2>4, PutChildRespects DEF PutKey, PutPerm, At, Kinds
  <2>5. CASE Worker
    BY <2>2, <2>3, <2>4, <2>5
    DEF Worker, AddFinalizer, GetTarget, CreateTarget, PatchStatus, SetQuota,
        LookupForDeletion, DeleteTarget, RemoveFinalizer
  <2>6. ASSUME NEW b \in Buckets, NEW k \in Kinds, ChildInformer(b, k) PROVE Respects
    <3>1. kid \in [Buckets -> [Kinds -> Seq(Children) \ {<<>>}]]
      BY <2>1 DEF TypeOK
    <3>2. /\ kid[b][k] \in Seq(Children) \ {<<>>} /\ Len(kid[b][k]) > 1
          /\ kid'[b][k] = Tail(kid[b][k])
          /\ \A x \in Buckets, y \in Kinds : ~(x = b /\ y = k) => kid'[x][y] = kid[x][y]
      BY <2>6, <3>1 DEF ChildInformer
    <3> QED BY <3>2, LogTail, StillRespects
  <2>7. CASE Crash
    <3>1. \A x \in Buckets, y \in Kinds : /\ kid[x][y] \in Seq(Children) \ {<<>>}
                                          /\ kid'[x][y] = Relisted(kid[x][y])
      BY <2>1, <2>7 DEF Crash, TypeOK
    <3> QED BY <3>1, LogRelist, StillRespects
  <2>8. CASE Manager
    BY <2>2, <2>6, <2>7, <2>8 DEF Manager, Resync, Informer
  <2>9. ASSUME NEW b \in Buckets, NEW k \in Kinds,
               \/ \E f \in ForeignCfgs : UserCreateChild(b, k, f)
               \/ UserDeleteChild(b, k) \/ ChildFinalized(b, k) \/ GarbageCollect(b, k)
        PROVE  Respects
    <3> DEFINE c == Live(kid[b][k])
    <3>1. c \in Children
      BY <2>1, ApiType
    <3>2. CASE \E f \in ForeignCfgs : UserCreateChild(b, k, f)
      <4>1. PICK f \in ForeignCfgs : UserCreateChild(b, k, f)
        BY <3>2
      <4>2. [NoChild EXCEPT !.cfg = f] \in Children
        BY SpecsAssumption DEF NoChild, Children
      <4>3. LeftAlone(c, [NoChild EXCEPT !.cfg = f]) /\ PutKid(b, k, [NoChild EXCEPT !.cfg = f])
        BY <4>1 DEF UserCreateChild, LeftAlone
      <4> QED BY <2>1, <4>2, <4>3, PutRespects
    <3>3. CASE UserDeleteChild(b, k) \/ GarbageCollect(b, k)
      <4>1. PutKid(b, k, [c EXCEPT !.deleting = TRUE])
        BY <3>3 DEF UserDeleteChild, GarbageCollect
      <4> HIDE DEF c
      <4> QED BY <2>1, <3>1, <4>1, MarkedChild, PutRespects DEF c
    <3>4. CASE ChildFinalized(b, k)
      <4>1. NoChild \in Children /\ LeftAlone(c, NoChild)
        BY DEF NoChild, Children, LeftAlone, Owned
      <4> QED BY <2>1, <3>4, <4>1, PutRespects DEF ChildFinalized
    <3> QED BY <2>9, <3>2, <3>3, <3>4
  <2>10. CASE Environment
    BY <2>2, <2>9, <2>10
    DEF Environment, UserCreate, UserEdit, UserDelete, AdminCreate, AdminDelete,
        ClusterLost, ClusterBack
  <2>11. CASE UNCHANGED vars \/ CallFails \/ \E b \in Buckets : Begin(b)
    BY <2>2, <2>11 DEF vars, CallFails, Begin
  <2> QED BY <1>1, <2>5, <2>8, <2>10, <2>11 DEF Next
<1>2. TypeInv /\ [Next]_vars =>
        [\A b \in Buckets, k \in Kinds :
           LET c == Live(kid[b][k])
               d == Live(kid[b][k])'
           IN  c # NoChild /\ ~Owned(c) => ~Owned(d) /\ d.cfg \in {c.cfg, NoCfg}]_vars
  BY <1>1 DEF Respects, LeftAlone
<1>3. Spec => []TypeInv
  BY TypeInvInit, TypeInvInductive, PTL DEF Spec
<1> QED BY <1>2, <1>3, PTL DEF Spec, ForeignNeverAdopted

=============================================================================
