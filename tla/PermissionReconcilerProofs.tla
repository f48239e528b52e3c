---------------------- MODULE PermissionReconcilerProofs ----------------------
(***************************************************************************)
(* Proofs about PermissionReconciler, for any GaragePermissions,           *)
(* references, rights and bounds: types; rights are granted on behalf of a *)
(* CR that is stored with its finalizer only; and, where every CR is about *)
(* a key and a bucket of its own, a CR that goes leaves no right behind.   *)
(***************************************************************************)
EXTENDS PermissionReconciler, KubeObjectsProofs, FiniteSetTheorems, FunctionTheorems

-----------------------------------------------------------------------------
(* Types.                                                                  *)

(* A worker under way has a request, the CR that it read, and the target   *)
(* names it goes on with.                                                  *)
Holding ==
    /\ w.pc # "idle" => w.p \in Perms /\ Exists(w.mem)
    /\ w.pc \notin {"idle", "unfinalize"} => w.bt \in Targets
    /\ w.pc \in {"keyInfo", "delKey"} => w.kt \in Targets

TypeInv == PermTypeOK /\ Holding

Named == Targets \cup {NoTarget}

LEMMA ObjectFacts ==
    ASSUME NEW o \in Objects(PermSpecs), Exists(o)
    PROVE  /\ o \in [uid: Nat \ {0}, deleting: BOOLEAN, fin: BOOLEAN,
                     spec: PermSpecs, id: Nat]
           /\ \A i \in Nat : [o EXCEPT !.id = i] \in Objects(PermSpecs)
           /\ [o EXCEPT !.fin = TRUE] \in Objects(PermSpecs)
           /\ \A s \in PermSpecs : [o EXCEPT !.spec = s] \in Objects(PermSpecs)
           /\ Deleted(o) \in Objects(PermSpecs)
           /\ Unfinalized(o) \in Objects(PermSpecs)
BY StoredFacts

LEMMA ApiType ==
    ASSUME PermTypeOK, NEW p \in Perms
    PROVE  /\ log[p] \in Seq(Objects(PermSpecs)) \ {<<>>}
           /\ Api(p) \in Objects(PermSpecs)
           /\ Cached(log[p]) \in Objects(PermSpecs)
<1>1. log[p] \in Seq(Objects(PermSpecs)) \ {<<>>}
  BY DEF PermTypeOK
<1> QED BY <1>1, LogRead DEF Api

(* A write adds to one log the version written. *)
LEMMA WriteLog ==
    ASSUME PermTypeOK, NEW p \in Perms, NEW o \in Objects(PermSpecs), Write(p, o)
    PROVE  /\ log' \in [Perms -> Seq(Objects(PermSpecs)) \ {<<>>}]
           /\ Live(log'[p]) = o
           /\ \A l \in Perms \ {p} : log'[l] = log[l]
           /\ Versions(log'[p]) \subseteq Versions(log[p]) \cup {o}
           /\ LogInOrder(log[p]) /\ Follows(o, log[p]) => LogInOrder(log'[p])
<1> DEFINE S == Objects(PermSpecs)
           l == log[p]
           m == log'[p]
<1>1. /\ l \in Seq(S) \ {<<>>} /\ o \in S
      /\ o = Live(l) => m = l
      /\ o # Live(l) => m = Append(l, o)
      /\ \A j \in Perms \ {p} : log'[j] = log[j]
  BY DEF PermTypeOK, Write, Api
<1>2. log' = log \/ log' = [log EXCEPT ![p] = Append(l, o)]
  BY DEF Write
<1>3. log \in [Perms -> Seq(S) \ {<<>>}]
  BY DEF PermTypeOK
<1> HIDE DEF S, l, m
<1>4. /\ m \in Seq(S) \ {<<>>}
      /\ Live(m) = o /\ Versions(m) \subseteq Versions(l) \cup {o}
      /\ LogInOrder(l) /\ Follows(o, l) => LogInOrder(m)
  BY <1>1, WrittenLog
<1>5. Append(l, o) \in Seq(S) \ {<<>>}
  BY <1>1, LogAppend
<1>6. log' \in [Perms -> Seq(S) \ {<<>>}]
  BY <1>2, <1>3, <1>5
<1> QED BY <1>1, <1>4, <1>6 DEF S, l, m

LEMMA RefType ==
    ASSUME PermTypeOK, NEW r \in Refs
    PROVE  /\ ref[r] \in Seq(Named) \ {<<>>}
           /\ Live(ref[r]) \in Named /\ Cached(ref[r]) \in Named
<1>1. ref[r] \in Seq(Named) \ {<<>>}
  BY DEF PermTypeOK, Named
<1> QED BY <1>1, LogRead

LEMMA SpecType ==
    ASSUME NEW s \in PermSpecs
    PROVE  s.bucket \in Refs /\ s.key \in Refs /\ Expected(s) \subseteq Rights
BY DEF PermSpecs, Refs, Expected

(* What the worker may do next: it stops, or goes on. *)
LEMMA StopType ==
    ASSUME w' = Idle
    PROVE  w' \in Work /\ Holding'
BY DEF Idle, Work, Steps, Objects, Absent, Holding

LEMMA FailType ==
    ASSUME TypeInv, w.pc # "idle", Fail
    PROVE  w' \in Work /\ Holding' /\ queue' \subseteq Perms
BY StopType DEF Fail, TypeInv, PermTypeOK, Holding

LEMMA FaultType ==
    ASSUME PermTypeOK, Fault \/ UNCHANGED faults
    PROVE  faults' \in 0 .. MaxFaults
BY PermBoundsAssumption DEF PermTypeOK, Fault

(* Every action of the worker keeps the types. *)
LEMMA WorkerType ==
    ASSUME TypeInv, Worker
    PROVE  TypeInv'
<1> DEFINE m == w.mem
           Going == w' \in Work /\ Holding' /\ queue' \subseteq Perms
           At1(pc, o, b, k, i, j) ==
               [pc |-> pc, p |-> w.p, mem |-> o, bt |-> b, kt |-> k, bid |-> i, kid |-> j]
<1>a. w.pc # "idle"
  BY DEF Worker, AddFinalizer, GetBucket, GetKey, Allow, Deny, FindBucket, FindKey,
         Revoke, RemoveFinalizer, At
<1>b. /\ w.p \in Perms /\ Exists(m) /\ m \in Objects(PermSpecs) /\ w \in Work
      /\ w.bt \in Named /\ w.kt \in Named /\ w.bid \in Nat /\ w.kid \in Nat
      /\ w.pc # "unfinalize" => w.bt \in Targets
      /\ PermTypeOK
  BY <1>a DEF TypeInv, PermTypeOK, Holding, Work, Named
<1>c. m.spec \in PermSpecs
  BY <1>b, ObjectFacts
<1>d. /\ m.spec.bucket \in Refs /\ m.spec.key \in Refs
      /\ Expected(m.spec) \subseteq Rights
      /\ Cached(ref[m.spec.key]) \in Named
  BY <1>b, <1>c, SpecType, RefType
<1>e. Fail => Going
  BY <1>a, FailType
<1>f. Done => Going
  BY <1>b, StopType DEF Done, PermTypeOK
<1>g. ASSUME NEW pc \in Steps, NEW o \in Objects(PermSpecs), Exists(o),
             NEW b \in Named, NEW k \in Named, NEW i \in Nat, NEW j \in Nat,
             pc # "unfinalize" => b \in Targets, pc \in {"keyInfo", "delKey"} => k \in Targets,
             UNCHANGED queue, w' = At1(pc, o, b, k, i, j)
      PROVE  Going
  <2>1. /\ w'.pc = pc /\ w'.p = w.p /\ w'.mem = o /\ w'.bt = b /\ w'.kt = k
    BY <1>g
  <2>2. w' \in Work
    BY <1>b, <1>g DEF Work, Named
  <2>3. Holding'
    BY <1>b, <1>g, <2>1 DEF Holding, Exists
  <2> QED BY <1>b, <1>g, <2>2, <2>3 DEF PermTypeOK
<1>h. ASSUME NEW pc \in Steps \ {"keyInfo", "delKey"}, w.pc # "unfinalize", Goto(pc)
      PROVE  Going
  <2>1. w' = At1(pc, m, w.bt, w.kt, w.bid, w.kid) /\ UNCHANGED queue
    BY <1>b, <1>h DEF Goto, Work
  <2> QED BY <1>b, <1>g, <1>h, <2>1
<1>i. \A t \in Targets : tgt[t] \in Nat
  BY <1>b DEF PermTypeOK
<1>j. ASSUME UNCHANGED <<log, ref, tgt, ids, cluster, uids, moved, ops>>,
             Fault \/ UNCHANGED faults, grants' \subseteq Grants, Going
      PROVE  TypeInv'
  <2>1. faults' \in 0 .. MaxFaults
    BY <1>b, <1>j, FaultType
  <2> QED BY <1>b, <1>j, <2>1 DEF TypeInv, PermTypeOK
<1>k. Steps = {"idle", "finalize", "delBucket", "delKey", "revoke", "unfinalize",
               "bucketInfo", "keyInfo", "allow", "deny"}
  BY DEF Steps, GrantSteps
<1> HIDE DEF Going
<1>1. ASSUME AddFinalizer PROVE TypeInv'
  <2> DEFINE n == [m EXCEPT !.fin = TRUE]
  <2>1. n \in Objects(PermSpecs) /\ Exists(n)
    <3>1. n \in Objects(PermSpecs)
      BY <1>b, ObjectFacts
    <3> QED BY <3>1, <1>b, ObjectFacts DEF Exists
  <2>2. w' = [w EXCEPT !.pc = "bucketInfo", !.mem = n] /\ UNCHANGED queue => Going
    <3> SUFFICES ASSUME w' = [w EXCEPT !.pc = "bucketInfo", !.mem = n], UNCHANGED queue
                 PROVE  Going
      OBVIOUS
    <3>1. w' = At1("bucketInfo", n, w.bt, w.kt, w.bid, w.kid)
      BY <1>b DEF Work
    <3>2. w.bt \in Targets
      BY <1>1, <1>b DEF AddFinalizer, At
    <3> QED BY <1>b, <1>g, <1>k, <2>1, <3>1, <3>2
  <2>3. Going
    BY <1>1, <2>2, <1>e DEF AddFinalizer, Answered
  <2>4. log' \in [Perms -> Seq(Objects(PermSpecs)) \ {<<>>}]
    BY <1>1, <2>1, <1>b, WriteLog DEF AddFinalizer, PermTypeOK
  <2>5. faults' \in 0 .. MaxFaults
    BY <1>1, <1>b, FaultType DEF AddFinalizer, Answered
  <2> QED BY <1>1, <1>b, <2>3, <2>4, <2>5 DEF AddFinalizer, TypeInv, PermTypeOK, Going
<1>2. ASSUME NEW pc \in {"keyInfo", "delKey"}, Cached(ref[m.spec.key]) # NoTarget,
             w.pc # "unfinalize", UNCHANGED queue,
             w' = [w EXCEPT !.pc = pc, !.kt = Cached(ref[m.spec.key]), !.bid = tgt[w.bt]]
      PROVE  Going
  <2> DEFINE k == Cached(ref[m.spec.key])
  <2>1. k \in Targets
    BY <1>d, <1>2 DEF Named
  <2> HIDE DEF k
  <2>2. w' = [w EXCEPT !.pc = pc, !.kt = k, !.bid = tgt[w.bt]]
    BY <1>2 DEF k
  <2>3. PICK i \in Nat : i = tgt[w.bt]
    BY <1>b, <1>i, <1>2
  <2>4. w' = At1(pc, m, w.bt, k, i, w.kid)
    BY <1>b, <2>2, <2>3 DEF Work
  <2>5. k \in Named /\ pc \in Steps /\ w.bt \in Targets
    BY <1>b, <1>2, <1>k, <2>1 DEF Named
  <2> HIDE DEF At1
  <2> QED BY <1>b, <1>g, <1>2, <2>1, <2>4, <2>5
<1>3. ASSUME NEW pc \in {"allow", "revoke"}, w.pc \in {"keyInfo", "delKey"}, UNCHANGED queue,
             w' = [w EXCEPT !.pc = pc, !.kid = tgt[w.kt]]
      PROVE  Going
  <2>1. w.kt \in Targets /\ w.bt \in Targets
    BY <1>b, <1>3 DEF TypeInv, Holding
  <2>2. w' = At1(pc, m, w.bt, w.kt, w.bid, tgt[w.kt])
    BY <1>b, <1>3 DEF Work
  <2> QED BY <1>b, <1>g, <1>i, <1>3, <1>k, <2>1, <2>2
<1>4. CASE GetBucket
  <2>1. Going
    BY <1>2, <1>4, <1>f DEF GetBucket, At
  <2> QED BY <1>4, <1>b, <1>j, <2>1 DEF GetBucket, PermTypeOK
<1>5. CASE GetKey
  <2>1. Going
    BY <1>3, <1>5, <1>e, <1>f DEF GetKey, At
  <2> QED BY <1>5, <1>b, <1>j, <2>1 DEF GetKey, PermTypeOK
<1>6. \A rights \in SUBSET Rights : Triples(rights) \subseteq Grants
  BY <1>b DEF Triples, Grants
<1>7. CASE Allow
  <2>1. Going
    BY <1>7, <1>e, <1>h, <1>k DEF Allow, Answered, At
  <2>2. grants' \subseteq Grants
    BY <1>b, <1>d, <1>6, <1>7 DEF Allow, PermTypeOK
  <2> QED BY <1>7, <1>j, <2>1, <2>2 DEF Allow, Answered
<1>8. CASE Deny
  <2>1. Going
    BY <1>8, <1>e, <1>f DEF Deny, Answered
  <2>2. grants' \subseteq Grants
    BY <1>b, <1>8 DEF Deny, PermTypeOK
  <2> QED BY <1>8, <1>j, <2>1, <2>2 DEF Deny, Answered
<1>9. CASE FindBucket
  <2>1. Going
    BY <1>2, <1>9, <1>h, <1>k DEF FindBucket, At
  <2> QED BY <1>9, <1>b, <1>j, <2>1 DEF FindBucket, PermTypeOK
<1>10. CASE FindKey
  <2>1. Going
    BY <1>3, <1>10, <1>h, <1>k DEF FindKey, At
  <2> QED BY <1>10, <1>b, <1>j, <2>1 DEF FindKey, PermTypeOK
<1>11. CASE Revoke
  <2>1. Going
    BY <1>11, <1>e, <1>h, <1>k DEF Revoke, Answered, At
  <2>2. grants' \subseteq Grants
    BY <1>b, <1>11 DEF Revoke, PermTypeOK
  <2> QED BY <1>11, <1>j, <2>1, <2>2 DEF Revoke, Answered
<1>12. CASE RemoveFinalizer
  <2>1. Unfinalized(m) \in Objects(PermSpecs)
    BY <1>b, ObjectFacts
  <2>2. Going
    BY <1>12, <1>e, <1>f DEF RemoveFinalizer, Answered
  <2>3. log' \in [Perms -> Seq(Objects(PermSpecs)) \ {<<>>}]
    BY <1>12, <2>1, <1>b, WriteLog DEF RemoveFinalizer, PermTypeOK
  <2>4. faults' \in 0 .. MaxFaults
    BY <1>12, <1>b, FaultType DEF RemoveFinalizer, Answered
  <2> QED BY <1>12, <1>b, <2>2, <2>3, <2>4 DEF RemoveFinalizer, TypeInv, PermTypeOK, Going
<1> QED
  BY <1>1, <1>4, <1>5, <1>7, <1>8, <1>9, <1>10, <1>11, <1>12 DEF Worker

LEMMA ManagerType ==
    ASSUME TypeInv, Manager
    PROVE  TypeInv'
<1>1. PermTypeOK
  BY DEF TypeInv
<1>2. CASE Resync
  BY <1>1, <1>2 DEF Resync, TypeInv, PermTypeOK, Holding
<1>3. CASE Crash
  <2>1. \A p \in Perms : Relisted(log[p]) \in Seq(Objects(PermSpecs)) \ {<<>>}
    BY <1>1, LogRelist DEF PermTypeOK
  <2>2. \A r \in Refs : Relisted(ref[r]) \in Seq(Named) \ {<<>>}
    BY <1>1, RefType, LogRelist
  <2>3. w' \in Work /\ Holding' /\ faults' \in 0 .. MaxFaults
    BY <1>1, <1>3, StopType, FaultType DEF Crash
  <2> QED BY <1>1, <1>3, <2>1, <2>2, <2>3 DEF Crash, TypeInv, PermTypeOK, Named
<1>4. ASSUME NEW p \in Perms, Informer(p) PROVE TypeInv'
  <2>1. Tail(log[p]) \in Seq(Objects(PermSpecs)) \ {<<>>}
    BY <1>1, <1>4, LogTail DEF Informer, PermTypeOK
  <2> QED BY <1>1, <1>4, <2>1 DEF Informer, TypeInv, PermTypeOK, Holding
<1>5. ASSUME NEW r \in Refs, RefInformer(r) PROVE TypeInv'
  <2>1. Tail(ref[r]) \in Seq(Named) \ {<<>>}
    BY <1>1, <1>5, RefType, LogTail DEF RefInformer
  <2> QED BY <1>1, <1>5, <2>1 DEF RefInformer, TypeInv, PermTypeOK, Holding, Named
<1> QED BY <1>2, <1>3, <1>4, <1>5 DEF Manager

LEMMA EnvironmentType ==
    ASSUME TypeInv, Environment
    PROVE  TypeInv'
<1>1. PermTypeOK
  BY DEF TypeInv
<1>2. UNCHANGED w
  BY DEF Environment, UserCreate, UserEdit, UserDelete, RefChanges, TargetMade,
         TargetDeleted, ClusterLost, ClusterBack
<1>3. Holding'
  BY <1>2 DEF TypeInv, Holding
<1>4. Op => ops' \in 0 .. MaxOps
  BY <1>1, PermBoundsAssumption DEF Op, PermTypeOK
<1>5. ASSUME NEW p \in Perms, NEW s \in SpecsOf[p], UserCreate(p, s) PROVE TypeInv'
  <2>1. Created(uids + 1, s) \in Objects(PermSpecs)
    <3>1. uids + 1 \in Nat \ {0} /\ s \in PermSpecs
      BY <1>1, PermSpecsAssumption DEF PermTypeOK
    <3> QED BY <3>1 DEF Objects, Created
  <2>2. log' \in [Perms -> Seq(Objects(PermSpecs)) \ {<<>>}]
    BY <1>1, <1>5, <2>1, WriteLog DEF UserCreate
  <2> QED BY <1>1, <1>3, <1>4, <1>5, <2>2 DEF UserCreate, TypeInv, PermTypeOK
<1>6. ASSUME NEW p \in Perms, NEW s \in SpecsOf[p], UserEdit(p, s) PROVE TypeInv'
  <2> DEFINE o == [Api(p) EXCEPT !.spec = s]
  <2>1. o \in Objects(PermSpecs)
    <3>1. s \in PermSpecs
      BY PermSpecsAssumption
    <3> QED BY <1>1, <1>6, <3>1, ApiType, ObjectFacts DEF UserEdit
  <2>2. log' \in [Perms -> Seq(Objects(PermSpecs)) \ {<<>>}]
    BY <1>1, <1>6, <2>1, WriteLog DEF UserEdit
  <2> QED BY <1>1, <1>3, <1>4, <1>6, <2>2 DEF UserEdit, TypeInv, PermTypeOK
<1>7. ASSUME NEW p \in Perms, UserDelete(p) PROVE TypeInv'
  <2>1. Deleted(Api(p)) \in Objects(PermSpecs)
    BY <1>1, <1>7, ApiType, ObjectFacts DEF UserDelete
  <2>2. log' \in [Perms -> Seq(Objects(PermSpecs)) \ {<<>>}]
    BY <1>1, <1>7, <2>1, WriteLog DEF UserDelete
  <2> QED BY <1>1, <1>3, <1>4, <1>7, <2>2 DEF UserDelete, TypeInv, PermTypeOK
<1>8. ASSUME NEW r \in Refs, NEW t \in TargetsOf[r] \cup {NoTarget}, RefChanges(r, t)
      PROVE  TypeInv'
  <2>1. t \in Named
    BY PermNamesAssumption DEF Named
  <2>2. Append(ref[r], t) \in Seq(Named) \ {<<>>}
    BY <1>1, <2>1, RefType, LogAppend
  <2> QED BY <1>1, <1>3, <1>4, <1>8, <2>2 DEF RefChanges, TypeInv, PermTypeOK, Named
<1>9. ASSUME NEW t \in Targets, TargetMade(t) \/ TargetDeleted(t) PROVE TypeInv'
  <2>1. ids' \in Nat /\ tgt' \in [Targets -> Nat] /\ grants' \subseteq Grants
    BY <1>1, <1>9 DEF TargetMade, TargetDeleted, PermTypeOK
  <2> QED
    BY <1>1, <1>3, <1>4, <1>9, <2>1 DEF TargetMade, TargetDeleted, TypeInv, PermTypeOK
<1>10. CASE ClusterLost \/ ClusterBack
  BY <1>1, <1>3, <1>10, FaultType DEF ClusterLost, ClusterBack, TypeInv, PermTypeOK
<1> QED BY <1>5, <1>6, <1>7, <1>8, <1>9, <1>10 DEF Environment

LEMMA BeginType ==
    ASSUME TypeInv, NEW p \in Perms, Begin(p)
    PROVE  TypeInv'
<1> DEFINE m  == Cached(log[p])
           bt == Cached(ref[m.spec.bucket])
<1>1. PermTypeOK /\ m \in Objects(PermSpecs)
  BY ApiType DEF TypeInv
<1>2. w' \in Work /\ Holding'
  <2>1. CASE w' = Idle
    BY <2>1, StopType
  <2>2. CASE w' # Idle
    <3>1. Exists(m) /\ w' = [Idle EXCEPT !.pc = FirstStep(m, bt), !.p = p, !.mem = m, !.bt = bt]
      BY <2>2 DEF Begin
    <3>2. bt \in Named
      BY <1>1, <3>1, ObjectFacts, SpecType, RefType
    <3> HIDE DEF m, bt
    <3>3. w' = [pc |-> FirstStep(m, bt), p |-> p, mem |-> m, bt |-> bt, kt |-> NoTarget,
                bid |-> 0, kid |-> 0]
      BY <3>1 DEF Idle
    <3>4. /\ FirstStep(m, bt) \in {"idle", "unfinalize", "delBucket", "bucketInfo", "finalize"}
          /\ FirstStep(m, bt) \notin {"idle", "unfinalize"} => bt \in Targets
      BY <3>2 DEF FirstStep, Named
    <3> QED BY <1>1, <3>1, <3>2, <3>3, <3>4 DEF Work, Holding, Steps, GrantSteps, Named
  <2> QED BY <2>1, <2>2
<1> QED BY <1>1, <1>2 DEF Begin, TypeInv, PermTypeOK

LEMMA TypeInvInductive == TypeInv /\ [Next]_vars => TypeInv'
<1> SUFFICES ASSUME TypeInv, [Next]_vars PROVE TypeInv'
  OBVIOUS
<1>1. CASE CallFails
  <2>1. w.pc # "idle" /\ Fault /\ Fail /\ PermTypeOK
    BY <1>1 DEF CallFails, At, TypeInv
  <2> QED BY <1>1, <2>1, FailType, FaultType DEF CallFails, TypeInv, PermTypeOK
<1>2. CASE UNCHANGED vars
  BY <1>2 DEF vars, TypeInv, PermTypeOK, Holding
<1> QED
  BY <1>1, <1>2, BeginType, WorkerType, ManagerType, EnvironmentType DEF Next

(* Distinct ids for the targets that are there at the start. *)
LEMMA FirstIdsType ==
    /\ Cardinality(Targets) \in Nat
    /\ FirstIds \in [Targets -> 1 .. Cardinality(Targets)]
    /\ \A t, u \in Targets : FirstIds[t] = FirstIds[u] => t = u
<1>1. Cardinality(Targets) \in Nat /\ ExistsBijection(1 .. Cardinality(Targets), Targets)
  BY PermNamesAssumption, FS_CardinalityType
<1>2. PICK f \in Bijection(Targets, 1 .. Cardinality(Targets)) : TRUE
  BY <1>1, Fun_ExistsBijSymmetric DEF ExistsBijection
<1>3. /\ f \in [Targets -> 1 .. Cardinality(Targets)]
      /\ \A t, u \in Targets : f[t] = f[u] => t = u
  BY <1>2 DEF Bijection, Injection, IsInjective
<1> QED BY <1>1, <1>3 DEF FirstIds

LEMMA TypeInvInit == Init => TypeInv
<1> SUFFICES ASSUME Init PROVE TypeInv
  OBVIOUS
<1>1. <<Absent>> \in Seq(Objects(PermSpecs)) \ {<<>>}
  BY DEF Objects
<1>2. w \in Work /\ Holding
  BY DEF Init, Idle, Work, Steps, Objects, Absent, Holding
<1>3. ref \in [Refs -> Seq(Named) \ {<<>>}]
  <2>1. PICK f \in [Refs -> Named] : ref = [r \in Refs |-> <<f[r]>>]
    BY DEF Init, Named
  <2> QED BY <2>1
<1>4. tgt \in [Targets -> Nat] /\ ids \in Nat
  BY FirstIdsType DEF Init
<1> QED
  BY <1>1, <1>2, <1>3, <1>4, PermBoundsAssumption DEF Init, TypeInv, PermTypeOK, Named

(* The types hold throughout: the worker never looks for a target without  *)
(* a name, nor grants a right that there is not.                           *)
THEOREM PermTypeCorrect == Spec => []PermTypeOK
<1>1. TypeInv => PermTypeOK
  BY DEF TypeInv
<1> QED BY <1>1, TypeInvInit, TypeInvInductive, PTL DEF Spec

-----------------------------------------------------------------------------
(* The invariant behind GrantsForHeld.                                     *)

DeletionSteps == {"delBucket", "delKey", "revoke", "unfinalize"}

(* The CRs: UIDs are never used again. *)
LogInv ==
    /\ \A p \in Perms : LogInOrder(log[p])
    /\ \A p \in Perms : \A v \in Versions(log[p]) :
         v.uid <= uids /\ (Exists(v) => v.spec \in SpecsOf[p])
    /\ \A p, q \in Perms :
         Exists(Api(p)) /\ Api(p).uid = Api(q).uid => p = q

DeletionHeld ==
    w.pc \in DeletionSteps =>
        /\ w.mem.deleting /\ w.mem.fin
        /\ \A v \in Versions(log[w.p]) : v.uid = w.mem.uid => v.deleting

WorkInv ==
    /\ w.mem.uid <= uids
    /\ w.pc # "idle" => w.mem.spec \in SpecsOf[w.p]
    /\ w.pc = "finalize" => ~w.mem.deleting
    /\ GrantsForHeld
    /\ DeletionHeld

PermInv == TypeInv /\ LogInv /\ WorkInv

-----------------------------------------------------------------------------
(* What a step does to the CRs: to each nothing, or to one of them one     *)
(* change of its life, references and Garage being left alone.             *)

Edited(p, o) == EditOf(Api(p), o, SpecsOf[p])

New(p) == /\ ~Exists(Api(p))
          /\ \E s \in SpecsOf[p] : Live(log'[p]) = Created(uids + 1, s)
          /\ uids' = uids + 1 /\ UNCHANGED w

Gone(p) == /\ Live(log'[p]) = Absent
           /\ UNCHANGED uids
           /\ \/ ~Api(p).fin /\ ~Api(p).deleting /\ UNCHANGED w
              \/ w.pc = "unfinalize" /\ w.p = p /\ w.mem = Api(p) /\ w' = Idle

Changed(p) ==
    /\ UNCHANGED <<ref, tgt, ids, grants, moved>> /\ \A q \in Perms \ {p} : log'[q] = log[q]
    /\ (Edited(p, Live(log'[p])) /\ UNCHANGED uids) \/ New(p) \/ Gone(p)

LogStep(p) ==
    /\ LogInOrder(log'[p])
    /\ Versions(log'[p]) \subseteq Versions(log[p]) \cup {Live(log'[p])}
    /\ Alike(Api(p), Live(log'[p])) \/ Changed(p)

(* One CR changes, or all are as they were. *)
LogMove ==
    /\ \A p \in Perms : LogStep(p)
    /\ \/ UNCHANGED uids /\ \A p \in Perms : Alike(Api(p), Live(log'[p]))
       \/ \E p \in Perms : Changed(p)

LEMMA VersionType ==
    ASSUME PermTypeOK, NEW p \in Perms
    PROVE  /\ Versions(log[p]) \subseteq Objects(PermSpecs)
           /\ Api(p) \in Versions(log[p]) /\ Cached(log[p]) \in Versions(log[p])
<1>1. log[p] \in Seq(Objects(PermSpecs)) \ {<<>>}
  BY DEF PermTypeOK
<1> QED BY <1>1, LogRead, LiveIsVersion DEF Versions, Api

LEMMA EditedKept ==
    ASSUME PermTypeOK, NEW p \in Perms, NEW o, Edited(p, o)
    PROVE  o \in Objects(PermSpecs) /\ Exists(o) /\ Kept(Api(p), o)
BY EditKept, ApiType, PermSpecsAssumption DEF Edited

(* The logs after a write, but for the kind of change. *)
LEMMA StoreLogs ==
    ASSUME PermTypeOK, LogInv, NEW p \in Perms, NEW o \in Objects(PermSpecs), Write(p, o),
           Follows(o, log[p]),
           \/ Alike(Api(p), o) /\ UNCHANGED uids
           \/ Live(log'[p]) = o /\ (\A q \in Perms \ {p} : log'[q] = log[q]) => Changed(p)
    PROVE  LogMove
<1>1. /\ Live(log'[p]) = o
      /\ \A q \in Perms \ {p} : log'[q] = log[q]
      /\ Versions(log'[p]) \subseteq Versions(log[p]) \cup {o}
      /\ LogInOrder(log'[p])
  BY WriteLog DEF LogInv
<1>2. LogStep(p)
  BY <1>1 DEF LogStep
<1>3. ASSUME NEW q \in Perms \ {p} PROVE LogStep(q) /\ Alike(Api(q), Live(log'[q]))
  BY <1>1, <1>3 DEF LogStep, LogInv, Alike, Api
<1> QED BY <1>1, <1>2, <1>3 DEF LogMove

LEMMA StillLogs ==
    ASSUME LogInv, UNCHANGED <<log, uids>>
    PROVE  LogMove
BY DEF LogInv, LogStep, LogMove, Alike, Api

LEMMA EditLogs ==
    ASSUME PermTypeOK, LogInv, NEW p \in Perms, NEW o, Write(p, o), Edited(p, o),
           UNCHANGED <<ref, tgt, ids, grants, moved, uids>>
    PROVE  LogMove
<1>1. o \in Objects(PermSpecs) /\ Kept(Api(p), o)
  BY EditedKept
<1>2. Follows(o, log[p])
  BY <1>1, KeptFollows, ApiType DEF LogInv, Api
<1> QED BY <1>1, <1>2, StoreLogs DEF Changed

LEMMA AbsentLogs ==
    ASSUME PermTypeOK, LogInv, NEW p \in Perms, Write(p, Absent),
           \A v \in Versions(log[p]) : ~v.fin \/ v.deleting,
           UNCHANGED <<ref, tgt, ids, grants, moved, uids>>, Live(log'[p]) = Absent => Gone(p)
    PROVE  LogMove
<1>1. Absent \in Objects(PermSpecs)
  BY DEF Objects
<1>2. Follows(Absent, log[p])
  BY AbsentFollows, ApiType
<1> QED BY <1>1, <1>2, StoreLogs DEF Changed

LEMMA LogMoves ==
    ASSUME PermInv, [Next]_vars
    PROVE  LogMove
<1>1. TypeInv /\ PermTypeOK /\ LogInv /\ WorkInv
  BY DEF PermInv, TypeInv
<1>2. ASSUME w.pc # "idle"
      PROVE  w.p \in Perms /\ w.mem \in Objects(PermSpecs) /\ Exists(w.mem)
  BY <1>1, <1>2 DEF TypeInv, Holding, PermTypeOK, Work
<1>3. ASSUME AddFinalizer PROVE LogMove
  <2> DEFINE o == [w.mem EXCEPT !.fin = TRUE]
  <2>1. CASE Api(w.p) = w.mem
    <3>1. w.p \in Perms /\ Exists(w.mem) /\ ~w.mem.deleting
      BY <1>1, <1>2, <1>3 DEF AddFinalizer, At, WorkInv
    <3>2. Edited(w.p, o)
      BY <2>1, <3>1 DEF Edited, EditOf
    <3>3. Write(w.p, o) /\ UNCHANGED <<ref, tgt, ids, grants, moved, uids>>
      BY <1>3, <2>1 DEF AddFinalizer
    <3> HIDE DEF o
    <3> QED BY <1>1, <3>1, <3>2, <3>3, EditLogs
  <2>2. CASE Api(w.p) # w.mem
    BY <1>1, <1>3, <2>2, StillLogs DEF AddFinalizer
  <2> QED BY <2>1, <2>2
<1>4. ASSUME RemoveFinalizer PROVE LogMove
  <2>1. w.p \in Perms /\ w.mem \in Objects(PermSpecs) /\ w.pc = "unfinalize"
    BY <1>2, <1>4 DEF RemoveFinalizer, At
  <2>2. CASE Api(w.p) = w.mem
    <3>1. Unfinalized(w.mem) = Absent
      BY <1>1, <2>1 DEF WorkInv, DeletionHeld, DeletionSteps, Unfinalized
    <3>2. \A v \in Versions(log[w.p]) : ~v.fin \/ v.deleting
      BY <1>1, <2>1, <2>2 DEF WorkInv, LogInv, LogInOrder, DeletionHeld, DeletionSteps, Api
    <3>3. Write(w.p, Absent) /\ w' = Idle /\ UNCHANGED <<ref, tgt, ids, grants, moved, uids>>
      BY <1>4, <2>2, <3>1 DEF RemoveFinalizer, Answered, Done, Fail
    <3>4. Live(log'[w.p]) = Absent => Gone(w.p)
      BY <2>1, <2>2, <3>3 DEF Gone
    <3> QED BY <1>1, <2>1, <3>2, <3>3, <3>4, AbsentLogs
  <2>3. CASE Api(w.p) # w.mem
    BY <1>1, <1>4, <2>3, StillLogs DEF RemoveFinalizer
  <2> QED BY <2>2, <2>3
<1>5. ASSUME NEW p \in Perms, NEW s \in SpecsOf[p], UserCreate(p, s) PROVE LogMove
  <2> DEFINE o == Created(uids + 1, s)
  <2>1. s \in PermSpecs /\ uids \in Nat
    BY <1>1, PermSpecsAssumption DEF PermTypeOK
  <2>2. o \in Objects(PermSpecs) /\ o.uid = uids + 1
    BY <2>1 DEF Created, Objects
  <2>3. \A v \in Versions(log[p]) : v.uid # uids + 1
    <3>1. \A v \in Versions(log[p]) : v.uid \in Nat /\ v.uid <= uids
      BY <1>1, VersionType DEF LogInv, Objects, Absent
    <3> QED BY <2>1, <3>1
  <2>4. Follows(o, log[p])
    BY <1>1, <1>5, <2>2, <2>3, ApiType, FreshFollows DEF UserCreate, LogInv, Api
  <2>5. Write(p, o) /\ (Live(log'[p]) = o => New(p)) /\ UNCHANGED <<ref, tgt, ids, grants, moved>>
    BY <1>5 DEF UserCreate, New
  <2> HIDE DEF o
  <2> QED BY <1>1, <2>2, <2>4, <2>5, StoreLogs DEF Changed
<1>6. ASSUME NEW p \in Perms, NEW s \in SpecsOf[p], UserEdit(p, s) PROVE LogMove
  <2> DEFINE o == [Api(p) EXCEPT !.spec = s]
  <2>1. Edited(p, o) /\ Write(p, o) /\ UNCHANGED <<ref, tgt, ids, grants, moved, uids>>
    BY <1>6 DEF UserEdit, Edited, EditOf
  <2> HIDE DEF o
  <2> QED BY <1>1, <2>1, EditLogs
<1>7. ASSUME NEW p \in Perms, UserDelete(p) PROVE LogMove
  <2>1. UNCHANGED <<ref, tgt, ids, grants, moved, uids, w>> /\ Write(p, Deleted(Api(p)))
        /\ Exists(Api(p)) /\ ~Api(p).deleting
    BY <1>7 DEF UserDelete
  <2>2. CASE Api(p).fin
    <3>1. Edited(p, Deleted(Api(p)))
      BY <2>1, <2>2 DEF Edited, EditOf, Deleted
    <3> QED BY <1>1, <2>1, <3>1, EditLogs
  <2>3. CASE ~Api(p).fin
    <3>1. Write(p, Absent)
      BY <2>1, <2>3 DEF Deleted
    <3>2. \A v \in Versions(log[p]) : ~v.fin \/ v.deleting
      BY <1>1, <2>3 DEF LogInv, LogInOrder, Api
    <3>3. Live(log'[p]) = Absent => Gone(p)
      BY <2>1, <2>3 DEF Gone
    <3> QED BY <1>1, <2>1, <3>1, <3>2, <3>3, AbsentLogs
  <2> QED BY <2>2, <2>3
<1>8. ASSUME NEW p \in Perms, Informer(p) PROVE LogMove
  <2>1. log[p] \in Seq(Objects(PermSpecs)) \ {<<>>} /\ Len(log[p]) > 1
    BY <1>1, <1>8 DEF Informer, PermTypeOK
  <2>2. log'[p] = Tail(log[p]) /\ \A q \in Perms \ {p} : log'[q] = log[q]
    BY <1>1, <1>8 DEF Informer, PermTypeOK
  <2>3. LogStep(p) /\ Alike(Api(p), Live(log'[p]))
    BY <1>1, <2>1, <2>2, LogTail, TailInOrder DEF LogStep, Alike, Api, LogInv
  <2>4. ASSUME NEW q \in Perms \ {p} PROVE LogStep(q) /\ Alike(Api(q), Live(log'[q]))
    BY <1>1, <2>2 DEF LogStep, Alike, Api, LogInv
  <2> QED BY <1>8, <2>3, <2>4 DEF LogMove, Informer
<1>9. ASSUME Crash PROVE LogMove
  <2>1. ASSUME NEW p \in Perms PROVE LogStep(p) /\ Alike(Api(p), Live(log'[p]))
    <3>1. log[p] \in Seq(Objects(PermSpecs)) \ {<<>>} /\ log'[p] = Relisted(log[p])
      BY <1>1, <1>9 DEF Crash, PermTypeOK
    <3> QED BY <3>1, LogRelist, RelistInOrder DEF LogStep, Alike, Api
  <2> QED BY <1>9, <2>1 DEF LogMove, Crash
<1>10. CASE UNCHANGED <<log, uids>>
  BY <1>1, <1>10, StillLogs
<1>11. ASSUME Worker, ~(AddFinalizer \/ RemoveFinalizer)
       PROVE  UNCHANGED <<log, uids>>
  BY <1>11 DEF Worker, GetBucket, GetKey, Allow, Deny, FindBucket, FindKey, Revoke
<1>12. CASE Worker
  BY <1>3, <1>4, <1>10, <1>11, <1>12
<1>13. CASE Environment
  BY <1>5, <1>6, <1>7, <1>10, <1>13
  DEF Environment, RefChanges, TargetMade, TargetDeleted, ClusterLost, ClusterBack
<1>14. CASE Manager
  BY <1>8, <1>9, <1>10, <1>14 DEF Manager, Resync, RefInformer
<1>15. CASE UNCHANGED vars \/ CallFails \/ \E p \in Perms : Begin(p)
  BY <1>10, <1>15 DEF vars, CallFails, Begin
<1> QED BY <1>12, <1>13, <1>14, <1>15 DEF Next

(* A CR is kept, created, or gone. *)
LEMMA Fates ==
    ASSUME PermTypeOK, NEW p \in Perms, LogStep(p)
    PROVE  \/ Kept(Api(p), Live(log'[p]))
           \/ New(p) /\ Changed(p) /\ Live(log'[p]).uid = uids + 1
           \/ Gone(p) /\ Changed(p)
<1>1. Edited(p, Live(log'[p])) => Kept(Api(p), Live(log'[p]))
  BY EditedKept
<1>2. New(p) => Live(log'[p]).uid = uids + 1
  BY DEF New, Created
<1> QED BY <1>1, <1>2, AlikeKept DEF LogStep, Changed

LEMMA UidsGrow ==
    ASSUME PermInv, [Next]_vars
    PROVE  uids \in Nat /\ uids' \in Nat /\ uids <= uids'
<1>1. uids \in Nat /\ uids' \in Nat
  BY TypeInvInductive DEF PermInv, TypeInv, PermTypeOK
<1> QED BY <1>1, LogMoves DEF LogMove, Changed, New, Gone

LEMMA LogInvStep ==
    ASSUME PermInv, [Next]_vars
    PROVE  LogInv'
<1>1. /\ \A p \in Perms : LogStep(p)
      /\ uids \in Nat /\ uids' \in Nat /\ uids <= uids'
      /\ PermTypeOK /\ LogInv
  BY LogMoves, UidsGrow DEF PermInv, TypeInv, LogMove
<1>2. \A p \in Perms : Api(p).uid <= uids /\ Api(p).uid \in Nat /\ Api(p).uid # uids + 1
  <2>1. \A p \in Perms : Api(p).uid <= uids /\ Api(p).uid \in Nat
    BY <1>1, VersionType DEF LogInv, Objects, Absent
  <2> QED BY <1>1, <2>1
<1>3. ASSUME NEW p \in Perms
      PROVE  LET o == Live(log'[p]) IN
             o.uid <= uids' /\ (Exists(o) => o.spec \in SpecsOf[p])
  <2> DEFINE o == Live(log'[p])
  <2>1. Exists(Api(p)) => Api(p).spec \in SpecsOf[p]
    BY <1>1, VersionType DEF LogInv
  <2>2. CASE Alike(Api(p), o)
    BY <1>1, <1>2, <2>1, <2>2 DEF Alike, Exists
  <2>3. CASE Edited(p, o)
    <3>1. o.uid = Api(p).uid
      BY <1>1, <2>3, EditedKept DEF Kept, Edited, EditOf
    <3>2. Exists(Api(p)) /\ Api(p) \in [uid: Nat \ {0}, deleting: BOOLEAN, fin: BOOLEAN,
                                        spec: PermSpecs, id: Nat]
      BY <1>1, <2>3, ApiType, ObjectFacts DEF Edited, EditOf
    <3>3. o.spec \in SpecsOf[p]
      BY <2>1, <2>3, <3>2 DEF Edited, EditOf
    <3> QED BY <1>1, <1>2, <3>1, <3>3
  <2>4. CASE New(p)
    BY <1>1, <2>4 DEF New, Created
  <2>5. CASE Gone(p)
    BY <1>1, <2>5 DEF Gone, Absent, Exists
  <2> QED BY <1>1, <2>2, <2>3, <2>4, <2>5 DEF LogStep, Changed
<1>4. ASSUME NEW p \in Perms, NEW v \in Versions(log'[p])
      PROVE  v.uid <= uids' /\ (Exists(v) => v.spec \in SpecsOf[p])
  <2>1. CASE v \in Versions(log[p])
    <3>1. v.uid \in Nat /\ v.uid <= uids
      BY <1>1, <2>1, VersionType DEF LogInv, Objects, Absent
    <3> QED BY <1>1, <2>1, <3>1 DEF LogInv
  <2>2. CASE v = Live(log'[p])
    BY <1>3, <2>2
  <2> QED BY <1>1, <1>4, <2>1, <2>2 DEF LogStep
<1>5. ASSUME NEW p \in Perms
      PROVE  \/ Live(log'[p]) = Absent
             \/ Live(log'[p]).uid = Api(p).uid
             \/ New(p) /\ Live(log'[p]).uid = uids + 1
  <2>1. CASE Edited(p, Live(log'[p]))
    BY <1>1, <2>1, EditedKept DEF Kept, Edited, EditOf
  <2>2. CASE Alike(Api(p), Live(log'[p]))
    BY <2>2 DEF Alike
  <2>3. CASE New(p)
    <3>1. Live(log'[p]).uid = uids + 1
      BY <2>3 DEF New, Created
    <3> QED BY <2>3, <3>1
  <2>4. CASE Gone(p)
    BY <2>4 DEF Gone
  <2> QED BY <1>1, <2>1, <2>2, <2>3, <2>4 DEF LogStep, Changed
<1>6. ASSUME NEW p \in Perms, NEW q \in Perms,
             Exists(Live(log'[p])), Live(log'[p]).uid = Live(log'[q]).uid, p # q
      PROVE  FALSE
  <2>1. Live(log'[p]) # Absent /\ Live(log'[q]) # Absent
    BY <1>6 DEF Absent, Exists
  <2>2. ASSUME NEW x \in Perms, NEW y \in Perms, x # y, New(x), Live(log'[x]).uid = uids + 1
        PROVE  Live(log'[y]).uid # uids + 1
    <3>1. ~Alike(Api(x), Live(log'[x])) /\ uids' # uids
      BY <1>1, <1>2, <2>2 DEF Alike, New
    <3>2. PICK z \in Perms : Changed(z)
      BY <3>1, LogMoves DEF LogMove
    <3>3. z = x
      BY <1>2, <2>2, <3>2 DEF Changed, Api
    <3> QED BY <1>2, <2>2, <3>2, <3>3 DEF Changed, Api
  <2>3. CASE Live(log'[p]).uid = Api(p).uid /\ Live(log'[q]).uid = Api(q).uid
    BY <1>1, <1>6, <2>3 DEF LogInv, Exists
  <2> QED BY <1>5, <1>6, <2>1, <2>2, <2>3
<1> QED BY <1>1, <1>4, <1>6 DEF LogInv, LogStep, Api

-----------------------------------------------------------------------------
(* The worker after a step. *)

LEMMA HeldStill ==
    ASSUME PermInv, [Next]_vars, w.pc \in GrantSteps
    PROVE  Live(log'[w.p]).uid = w.mem.uid /\ Live(log'[w.p]).fin
<1>1. w.p \in Perms /\ Exists(w.mem) /\ LogStep(w.p) /\ PermTypeOK
  BY LogMoves DEF PermInv, TypeInv, Holding, GrantSteps, LogMove
<1>2. Api(w.p).uid = w.mem.uid /\ Api(w.p).fin
  BY DEF PermInv, WorkInv, GrantsForHeld
<1>3. ~New(w.p) /\ ~Gone(w.p)
  BY <1>1, <1>2 DEF New, Gone, Exists, GrantSteps
<1>4. Edited(w.p, Live(log'[w.p])) => Kept(Api(w.p), Live(log'[w.p]))
  BY <1>1, EditedKept
<1> QED BY <1>1, <1>2, <1>3, <1>4 DEF LogStep, Changed, Alike, Kept

LEMMA DeletionStill ==
    ASSUME PermInv, [Next]_vars, w.pc \in DeletionSteps,
           NEW v \in Versions(log'[w.p]), v.uid = w.mem.uid
    PROVE  v.deleting
<1>1. w.p \in Perms /\ Exists(w.mem) /\ LogStep(w.p) /\ PermTypeOK
  BY LogMoves DEF PermInv, TypeInv, Holding, DeletionSteps, LogMove
<1>2. /\ \A x \in Versions(log[w.p]) : x.uid = w.mem.uid => x.deleting
      /\ w.mem.uid <= uids /\ w.mem.uid \in Nat
  BY <1>1 DEF PermInv, WorkInv, DeletionHeld, PermTypeOK, Work, Objects, Absent
<1>3. w.mem.uid # uids + 1
  BY <1>2, UidsGrow
<1>4. CASE v \in Versions(log[w.p])
  BY <1>2, <1>4
<1>5. CASE v = Live(log'[w.p])
  <2>1. ~New(w.p)
    <3>1. New(w.p) => v.uid = uids + 1
      BY <1>5 DEF New, Created
    <3> QED BY <1>3, <3>1
  <2>2. ~Gone(w.p)
    BY <1>1, <1>5 DEF Gone, Absent, Exists
  <2>3. Alike(Api(w.p), v) \/ Edited(w.p, v)
    BY <1>1, <1>5, <2>1, <2>2 DEF LogStep, Changed
  <2>4. Kept(Api(w.p), v)
    BY <1>1, <2>3, AlikeKept, EditedKept
  <2> QED BY <1>1, <1>2, <2>4, VersionType DEF Kept
<1> QED BY <1>1, <1>4, <1>5 DEF LogStep

LEMMA Stopped ==
    ASSUME PermInv, [Next]_vars, w' = Idle
    PROVE  WorkInv'
<1>1. uids' \in Nat
  BY UidsGrow
<1> QED BY <1>1 DEF Idle, Absent, WorkInv, GrantsForHeld, DeletionHeld,
            GrantSteps, DeletionSteps

(* The worker goes on reconciling the same object. *)
LEMMA GoesOn ==
    ASSUME PermInv, [Next]_vars, w.pc \in GrantSteps, w'.pc \in GrantSteps,
           w'.p = w.p, w'.mem.uid = w.mem.uid, w'.mem.spec \in SpecsOf[w.p]
    PROVE  WorkInv'
<1>1. Live(log'[w.p]).uid = w.mem.uid /\ Live(log'[w.p]).fin
  BY HeldStill
<1>2. w.mem.uid \in Nat /\ w.mem.uid <= uids
  BY DEF PermInv, TypeInv, PermTypeOK, Work, Objects, Absent, WorkInv
<1>3. w.mem.uid <= uids'
  BY <1>2, UidsGrow
<1> QED BY <1>1, <1>3 DEF WorkInv, GrantsForHeld, DeletionHeld, GrantSteps, DeletionSteps, Api

(* Whatever others do while the worker waits for an answer. *)
LEMMA Waits ==
    ASSUME PermInv, [Next]_vars, UNCHANGED w
    PROVE  WorkInv'
<1>1. WorkInv /\ PermTypeOK /\ uids <= uids' /\ uids \in Nat /\ uids' \in Nat
  BY UidsGrow DEF PermInv, TypeInv
<1>2. w.mem.uid <= uids'
  <2>1. w.mem.uid \in Nat /\ w.mem.uid <= uids
    BY <1>1 DEF PermTypeOK, Work, Objects, Absent, WorkInv
  <2> QED BY <1>1, <2>1
<1>3. GrantsForHeld'
  BY HeldStill DEF GrantsForHeld, Api
<1>4. DeletionHeld'
  BY <1>1, DeletionStill DEF WorkInv, DeletionHeld
<1> QED BY <1>1, <1>2, <1>3, <1>4 DEF WorkInv

(* The worker goes on deleting the same object. *)
LEMMA DeletesOn ==
    ASSUME PermInv, w.pc \in DeletionSteps, w'.pc \in DeletionSteps,
           w'.p = w.p, w'.mem = w.mem, UNCHANGED <<log, uids>>
    PROVE  WorkInv'
<1>1. w'.mem.uid <= uids' /\ DeletionHeld' /\ w'.mem.spec \in SpecsOf[w'.p]
  BY DEF PermInv, WorkInv, DeletionHeld, DeletionSteps
<1> QED BY <1>1 DEF WorkInv, GrantsForHeld, GrantSteps, DeletionSteps

(* The worker takes a request, whose cached copy may be old. *)
LEMMA Begins ==
    ASSUME PermInv, NEW p \in Perms, Begin(p), w' # Idle
    PROVE  /\ WorkInv' /\ w'.p = p /\ w'.mem = Cached(log[p])
           /\ w'.bt = Cached(ref[w'.mem.spec.bucket])
           /\ w'.pc = FirstStep(w'.mem, w'.bt)
<1> DEFINE m  == Cached(log[p])
           bt == Cached(ref[m.spec.bucket])
<1>1. /\ w' = [Idle EXCEPT !.pc = FirstStep(m, bt), !.p = p, !.mem = m, !.bt = bt]
      /\ Exists(m) /\ UNCHANGED <<log, uids>>
  BY DEF Begin
<1>2. /\ PermTypeOK /\ LogInv /\ m \in Versions(log[p]) /\ LogInOrder(log[p])
      /\ log[p] \in Seq(Objects(PermSpecs)) \ {<<>>}
  BY VersionType DEF PermInv, TypeInv, PermTypeOK, LogInv
<1> HIDE DEF bt
<1>3. w'.pc = FirstStep(m, bt) /\ w'.p = p /\ w'.mem = m /\ w'.bt = bt
  BY <1>1 DEF Idle
<1>4. m.uid <= uids' /\ m.spec \in SpecsOf[p]
  BY <1>1, <1>2 DEF LogInv
<1>5. ASSUME FirstStep(m, bt) \in GrantSteps
      PROVE  Api(p).uid = m.uid /\ Api(p).fin
  <2>1. m.fin /\ ~m.deleting
    BY <1>5 DEF FirstStep, GrantSteps
  <2> QED BY <1>2, <2>1 DEF LogInOrder, Api
<1>6. ASSUME FirstStep(m, bt) \in DeletionSteps
      PROVE  /\ m.deleting /\ m.fin
             /\ \A v \in Versions(log[p]) : v.uid = m.uid => v.deleting
  <2>1. m.deleting /\ m.fin
    BY <1>6 DEF FirstStep, DeletionSteps
  <2> QED BY <1>2, <2>1, CachedTerminates
<1>7. GrantsForHeld'
  BY <1>1, <1>3, <1>5 DEF GrantsForHeld, Api
<1>8. DeletionHeld'
  BY <1>1, <1>3, <1>6 DEF DeletionHeld
<1>9. FirstStep(m, bt) = "finalize" => ~m.deleting
  BY DEF FirstStep
<1>10. WorkInv'
  BY <1>3, <1>4, <1>7, <1>8, <1>9 DEF WorkInv
<1> QED BY <1>3, <1>10 DEF bt

(* The worker's calls: it stops, or goes on with the same CR.              *)
LEMMA Moves ==
    ASSUME PermInv, Worker, w' # Idle
    PROVE  /\ w'.p = w.p /\ w'.bt = w.bt /\ UNCHANGED <<ref, tgt, ids, moved>>
           /\ \/ /\ AddFinalizer /\ w.pc = "finalize" /\ w'.pc = "bucketInfo"
                 /\ w'.mem = [w.mem EXCEPT !.fin = TRUE] /\ Write(w.p, w'.mem)
              \/ /\ w'.mem = w.mem /\ UNCHANGED <<log, uids>>
                 /\ \/ /\ GetBucket /\ w.pc = "bucketInfo" /\ w'.pc = "keyInfo"
                       /\ w'.bid = tgt[w.bt] /\ w'.bid # 0
                       /\ w'.kt = Cached(ref[w.mem.spec.key]) /\ w'.kt # NoTarget
                    \/ /\ GetKey /\ w.pc = "keyInfo" /\ w'.pc = "allow" /\ w'.bid = w.bid
                       /\ w'.kt = w.kt /\ w'.kid = tgt[w.kt] /\ w'.kid # 0
                    \/ /\ Allow /\ w.pc = "allow" /\ w'.pc = "deny" /\ w'.bid = w.bid
                       /\ w'.kt = w.kt /\ w'.kid = w.kid
                    \/ /\ FindBucket /\ w.pc = "delBucket" /\ w'.pc = "delKey"
                       /\ w'.bid = tgt[w.bt] /\ w'.bid # 0
                       /\ w'.kt = Cached(ref[w.mem.spec.key]) /\ w'.kt # NoTarget
                    \/ /\ FindBucket /\ w.pc = "delBucket" /\ w'.pc = "unfinalize"
                       /\ Cached(ref[w.mem.spec.key]) = NoTarget \/ tgt[w.bt] = 0
                    \/ /\ FindKey /\ w.pc = "delKey" /\ w'.pc = "revoke" /\ w'.bid = w.bid
                       /\ w'.kt = w.kt /\ w'.kid = tgt[w.kt] /\ w'.kid # 0
                    \/ /\ FindKey /\ w.pc = "delKey" /\ w'.pc = "unfinalize"
                       /\ tgt[w.kt] = 0
                    \/ /\ Revoke /\ w.pc = "revoke" /\ w'.pc = "unfinalize"
                       /\ InGarage(w.kid) /\ InGarage(w.bid)
                       /\ grants' = grants \ Triples(Rights)
<1>1. w \in Work
  BY DEF PermInv, TypeInv, PermTypeOK
<1>2. ~Fail /\ ~Done
  BY DEF Fail, Done
<1>3. ASSUME NEW pc, Goto(pc)
      PROVE  /\ w'.pc = pc /\ w'.p = w.p /\ w'.mem = w.mem /\ w'.bt = w.bt
             /\ w'.kt = w.kt /\ w'.bid = w.bid /\ w'.kid = w.kid
  BY <1>1, <1>3 DEF Goto, Work
<1>4. CASE AddFinalizer
  BY <1>1, <1>2, <1>4 DEF AddFinalizer, Answered, At, Work
<1>5. CASE GetBucket
  BY <1>1, <1>2, <1>5 DEF GetBucket, At, Work
<1>6. CASE GetKey
  BY <1>1, <1>2, <1>6 DEF GetKey, At, Work
<1>7. CASE Allow
  BY <1>2, <1>3, <1>7 DEF Allow, Answered, At
<1>8. CASE FindBucket
  <2>1. CASE Cached(ref[w.mem.spec.key]) # NoTarget /\ tgt[w.bt] # 0
    BY <1>1, <1>8, <2>1 DEF FindBucket, At, Work
  <2>2. CASE ~(Cached(ref[w.mem.spec.key]) # NoTarget /\ tgt[w.bt] # 0)
    BY <1>3, <1>8, <2>2 DEF FindBucket, At
  <2> QED BY <2>1, <2>2
<1>9. CASE FindKey
  <2>1. CASE tgt[w.kt] # 0
    BY <1>1, <1>9, <2>1 DEF FindKey, At, Work
  <2>2. CASE tgt[w.kt] = 0
    BY <1>3, <1>9, <2>2 DEF FindKey, At
  <2> QED BY <2>1, <2>2
<1>10. CASE Revoke
  BY <1>2, <1>3, <1>10 DEF Revoke, Answered, At
<1>11. ~Deny /\ ~RemoveFinalizer
  BY <1>2 DEF Deny, RemoveFinalizer, Answered
<1> QED
  BY <1>4, <1>5, <1>6, <1>7, <1>8, <1>9, <1>10, <1>11 DEF Worker

LEMMA Works ==
    ASSUME PermInv, [Next]_vars, Worker, w' # Idle
    PROVE  WorkInv'
<1>1. /\ w.p \in Perms /\ Exists(w.mem) /\ w.mem \in Objects(PermSpecs)
      /\ WorkInv /\ PermTypeOK /\ w.mem.spec \in SpecsOf[w.p]
  <2>1. w.pc # "idle"
    BY DEF Worker, AddFinalizer, GetBucket, GetKey, Allow, Deny, FindBucket, FindKey,
           Revoke, RemoveFinalizer, At
  <2> QED BY <2>1 DEF PermInv, TypeInv, PermTypeOK, Holding, Work, WorkInv
<1>2. CASE w.pc = "finalize"
  <2> DEFINE m == [w.mem EXCEPT !.fin = TRUE]
  <2>1. /\ w'.p = w.p /\ w'.pc = "bucketInfo" /\ w'.mem = m /\ Write(w.p, m)
        /\ UNCHANGED uids
    BY <1>2, Moves DEF AddFinalizer
  <2>2. m \in Objects(PermSpecs) /\ m.uid = w.mem.uid /\ m.fin /\ m.spec = w.mem.spec
    BY <1>1, ObjectFacts
  <2>3. Live(log'[w.p]) = m
    BY <1>1, <2>1, <2>2, WriteLog
  <2>4. m.uid <= uids'
    BY <1>1, <2>1, <2>2 DEF WorkInv
  <2> HIDE DEF m
  <2> QED BY <1>1, <2>1, <2>2, <2>3, <2>4
      DEF WorkInv, GrantsForHeld, DeletionHeld, GrantSteps, DeletionSteps, Api
<1>3. CASE w.pc \in GrantSteps /\ w'.pc \in GrantSteps
  <2>1. w'.p = w.p /\ w'.mem = w.mem
    BY <1>3, Moves DEF GrantSteps
  <2> QED BY <1>1, <1>3, <2>1, GoesOn
<1>4. CASE w.pc \in DeletionSteps /\ w'.pc \in DeletionSteps
  <2>1. w'.p = w.p /\ w'.mem = w.mem /\ UNCHANGED <<log, uids>>
    BY <1>4, Moves DEF DeletionSteps
  <2> QED BY <1>4, <2>1, DeletesOn
<1> QED BY <1>2, <1>3, <1>4, Moves DEF GrantSteps, DeletionSteps

LEMMA WorkInvStep ==
    ASSUME PermInv, [Next]_vars
    PROVE  WorkInv'
<1>1. CASE \E p \in Perms : Begin(p)
  BY <1>1, Begins, Stopped
<1>2. CASE Worker
  BY <1>2, Works, Stopped
<1>3. CASE CallFails \/ Crash
  BY <1>3, Stopped DEF CallFails, Fail, Crash
<1>4. CASE Manager /\ ~Crash
  BY <1>4, Waits DEF Manager, Resync, Informer, RefInformer
<1>5. CASE Environment
  BY <1>5, Waits
  DEF Environment, UserCreate, UserEdit, UserDelete, RefChanges, TargetMade,
      TargetDeleted, ClusterLost, ClusterBack
<1>6. CASE UNCHANGED vars
  BY <1>6, Waits DEF vars
<1> QED BY <1>1, <1>2, <1>3, <1>4, <1>5, <1>6 DEF Next

LEMMA PermInvInit == Init => PermInv
<1> SUFFICES ASSUME Init PROVE PermInv
  OBVIOUS
<1>1. TypeInv
  BY TypeInvInit
<1>2. /\ \A p \in Perms : log[p] = <<Absent>> /\ Api(p) = Absent
      /\ uids = 0 /\ w = Idle
  BY DEF Init, Api, Live
<1>3. LogInOrder(<<Absent>>) /\ Versions(<<Absent>>) = {Absent}
  BY FirstLog
<1>4. Absent.uid = 0 /\ ~Exists(Absent)
  BY DEF Absent, Exists
<1>5. LogInv
  BY <1>2, <1>3, <1>4 DEF LogInv
<1>6. WorkInv
  BY <1>2, <1>4 DEF WorkInv, Idle, GrantsForHeld, DeletionHeld, GrantSteps, DeletionSteps
<1> QED BY <1>1, <1>5, <1>6 DEF PermInv

LEMMA PermInvInductive == PermInv /\ [Next]_vars => PermInv'
BY TypeInvInductive, LogInvStep, WorkInvStep DEF PermInv

LEMMA PermInvHolds == Spec => []PermInv
BY PermInvInit, PermInvInductive, PTL DEF Spec

(* allow is never sent for a CR that is gone, is another one by now or     *)
(* lacks the finalizer, although the worker goes by a cached copy that it  *)
(* read some calls ago.                                                    *)
THEOREM GrantsHeld == Spec => []GrantsForHeld
<1>1. PermInv => GrantsForHeld
  BY DEF PermInv, WorkInv
<1> QED BY <1>1, PermInvHolds, PTL

-----------------------------------------------------------------------------
(* Revocation.                                                             *)

(* As long as a reference is not renamed or deleted, one name follows      *)
(* versions without any.                                                   *)
RefInOrder(l) == \A i, j \in 1 .. Len(l) : i < j /\ l[i] # NoTarget => l[j] = l[i]

RefInv ==
    \A r \in Refs : /\ Versions(ref[r]) \subseteq TargetsOf[r] \cup {NoTarget}
                    /\ r \notin moved => RefInOrder(ref[r])

(* Ids are never used again: what is made anew has no rights. *)
IdInv ==
    /\ \A t \in Targets : tgt[t] <= ids
    /\ \A t, u \in Targets : tgt[t] # 0 /\ tgt[t] = tgt[u] => t = u
    /\ \A g \in grants : g.key <= ids /\ g.bucket <= ids

(* What the cache does not show yet has no rights. *)
UnseenInv ==
    \A r \in Refs \ moved : \A t \in TargetsOf[r] :
        Cached(ref[r]) = NoTarget /\ tgt[t] # 0
            => \A g \in grants : tgt[t] \notin {g.key, g.bucket}

(* The targets a reference has, or may have when it comes. *)
CanBe(r) == {t \in TargetsOf[r] : Live(ref[r]) \in {t, NoTarget} /\ tgt[t] # 0}

Clear(b, k) ==
    {b, k} \cap moved = {} =>
        \A t \in CanBe(b), u \in CanBe(k), g \in grants :
            g.key # tgt[u] \/ g.bucket # tgt[t]

(* Without the finalizer there is nothing to revoke. *)
GrantInv ==
    \A p \in Perms : Api(p).fin \/ \A s \in SpecsOf[p] : Clear(s.bucket, s.key)

Known(r, t) == t \in TargetsOf[r] /\ (r \notin moved => Cached(ref[r]) = t)
IdOf(i, t)  == i # 0 /\ i <= ids /\ \A u \in Targets : tgt[u] = i => u = t

(* What the worker knows of the references and targets. *)
Knows(v) ==
    /\ v.pc \notin {"idle", "unfinalize"} => Known(v.mem.spec.bucket, v.bt)
    /\ v.pc \in {"keyInfo", "allow", "deny", "delKey", "revoke"}
            => Known(v.mem.spec.key, v.kt) /\ IdOf(v.bid, v.bt)
    /\ v.pc \in {"allow", "deny", "revoke"} => IdOf(v.kid, v.kt)
    /\ v.pc = "unfinalize" => Clear(v.mem.spec.bucket, v.mem.spec.key)

KnowInv == Knows(w)

RevokeInv ==
    PermInv /\ RefInv /\ IdInv /\ UnseenInv /\ GrantInv /\ KnowInv

-----------------------------------------------------------------------------
(* The references after a step. *)

RefStays(r) ==
    /\ Cached(ref[r]) # NoTarget => Cached(ref'[r]) = Cached(ref[r])
    /\ Live(ref[r]) # NoTarget => Live(ref'[r]) = Live(ref[r])

LEMMA AppendRef ==
    ASSUME NEW S, NEW l \in Seq(S) \ {<<>>}, NEW t \in S, Live(l) # t
    PROVE  /\ Versions(Append(l, t)) \subseteq Versions(l) \cup {t}
           /\ Cached(Append(l, t)) = Cached(l) /\ Live(Append(l, t)) = t
           /\ RefInOrder(l) /\ Live(l) = NoTarget => RefInOrder(Append(l, t))
<1> DEFINE m == Append(l, t)
<1>1. /\ m \in Seq(S) \ {<<>>} /\ Len(l) \in Nat \ {0} /\ Len(m) = Len(l) + 1
      /\ Live(m) = t /\ \A i \in 1 .. Len(l) : m[i] = l[i]
  BY LogRead, LogAppend
<1>2. m[Len(m)] = t
  BY <1>1 DEF Live
<1> HIDE DEF m
<1>3. \A i \in 1 .. Len(m) : i = Len(m) \/ i \in 1 .. Len(l)
  BY <1>1
<1>4. Versions(m) \subseteq Versions(l) \cup {t} /\ Cached(m) = Cached(l)
  BY <1>1, <1>2, <1>3 DEF Versions, Cached
<1>5. ASSUME RefInOrder(l), Live(l) = NoTarget PROVE RefInOrder(m)
  <2>1. ASSUME NEW i \in 1 .. Len(l) PROVE m[i] = NoTarget
    <3>1. i = Len(l) \/ i < Len(l)
      BY <1>1
    <3>2. Len(l) \in 1 .. Len(l)
      BY <1>1
    <3> QED BY <1>1, <1>5, <3>1, <3>2 DEF RefInOrder, Live
  <2>2. \A i, j \in 1 .. Len(m) : i < j => i \in 1 .. Len(l)
    BY <1>1
  <2> QED BY <2>1, <2>2 DEF RefInOrder
<1> QED BY <1>1, <1>4, <1>5 DEF m

LEMMA TailRef ==
    ASSUME NEW S, NEW l \in Seq(S) \ {<<>>}, Len(l) > 1, RefInOrder(l)
    PROVE  /\ RefInOrder(Tail(l))
           /\ Cached(l) # NoTarget => Cached(Tail(l)) = Cached(l)
<1> DEFINE m == Tail(l)
<1>1. /\ Len(l) \in Nat /\ Len(m) = Len(l) - 1
      /\ \A i \in 1 .. Len(m) : m[i] = l[i + 1] /\ i + 1 \in 1 .. Len(l)
  BY LogRead, LogTail
<1> HIDE DEF m
<1>2. RefInOrder(m)
  BY <1>1 DEF RefInOrder
<1>3. Cached(m) = l[2] /\ 1 \in 1 .. Len(l) /\ 2 \in 1 .. Len(l)
  BY <1>1 DEF Cached
<1> QED BY <1>2, <1>3 DEF RefInOrder, Cached, m

LEMMA CachedStands ==
    ASSUME NEW S, NEW l \in Seq(S) \ {<<>>}, RefInOrder(l), Cached(l) # NoTarget
    PROVE  Live(l) = Cached(l)
<1>1. Len(l) \in Nat \ {0}
  BY LogRead
<1>2. /\ 1 \in 1 .. Len(l) /\ Len(l) \in 1 .. Len(l)
      /\ Len(l) = 1 \/ 1 < Len(l)
  BY <1>1
<1> QED BY <1>2 DEF RefInOrder, Cached, Live

LEMMA RefMoves ==
    ASSUME PermInv, RefInv, [Next]_vars
    PROVE  RefInv' /\ moved \subseteq moved' /\ \A r \in Refs \ moved' : RefStays(r)
<1>1. /\ PermTypeOK /\ \A r \in Refs : ref[r] \in Seq(Named) \ {<<>>}
      /\ ref = [r \in Refs |-> ref[r]]
  BY RefType DEF PermInv, TypeInv, PermTypeOK
<1>2. CASE UNCHANGED <<ref, moved>>
  BY <1>2 DEF RefInv, RefStays
<1>3. ASSUME NEW r \in Refs, RefInformer(r)
      PROVE  RefInv' /\ moved \subseteq moved' /\ \A q \in Refs \ moved' : RefStays(q)
  <2>1. /\ ref'[r] = Tail(ref[r]) /\ Len(ref[r]) > 1 /\ UNCHANGED moved
        /\ \A q \in Refs \ {r} : ref'[q] = ref[q]
    BY <1>1, <1>3 DEF RefInformer
  <2>2. /\ Versions(ref'[r]) \subseteq Versions(ref[r]) /\ Live(ref'[r]) = Live(ref[r])
        /\ RefInOrder(ref[r]) =>
             /\ RefInOrder(ref'[r])
             /\ Cached(ref[r]) # NoTarget => Cached(ref'[r]) = Cached(ref[r])
    BY <1>1, <2>1, LogTail, TailInOrder, TailRef
  <2> QED BY <2>1, <2>2 DEF RefInv, RefStays
<1>4. CASE Crash
  <2>1. ASSUME NEW r \in Refs
        PROVE  /\ Versions(ref'[r]) \subseteq Versions(ref[r]) /\ RefInOrder(ref'[r])
               /\ RefInOrder(ref[r]) => RefStays(r)
    <3>1. ref'[r] = Relisted(ref[r]) /\ ref[r] \in Seq(Named) \ {<<>>}
      BY <1>1, <1>4 DEF Crash
    <3>2. Len(ref'[r]) = 1 /\ Live(ref'[r]) = Live(ref[r]) /\ Cached(ref'[r]) = Live(ref[r])
      BY <3>1, LogRelist DEF Cached
    <3>3. RefInOrder(ref'[r])
      BY <3>2 DEF RefInOrder
    <3> QED BY <3>1, <3>2, <3>3, RelistInOrder, CachedStands DEF RefStays
  <2> QED BY <1>4, <2>1 DEF RefInv, Crash
<1>5. ASSUME NEW r \in Refs, NEW t \in TargetsOf[r] \cup {NoTarget}, RefChanges(r, t)
      PROVE  RefInv' /\ moved \subseteq moved' /\ \A q \in Refs \ moved' : RefStays(q)
  <2>1. t \in Named
    BY PermNamesAssumption DEF Named
  <2>2. /\ ref'[r] = Append(ref[r], t) /\ Live(ref[r]) # t
        /\ \A q \in Refs \ {r} : ref'[q] = ref[q]
        /\ moved \subseteq moved'
        /\ r \notin moved' => Live(ref[r]) = NoTarget /\ r \notin moved
        /\ \A q \in Refs \ {r} : q \notin moved' => q \notin moved
    BY <1>1, <1>5 DEF RefChanges
  <2>3. /\ Versions(ref'[r]) \subseteq Versions(ref[r]) \cup {t}
        /\ Cached(ref'[r]) = Cached(ref[r])
        /\ RefInOrder(ref[r]) /\ Live(ref[r]) = NoTarget => RefInOrder(ref'[r])
    BY <1>1, <2>1, <2>2, AppendRef
  <2>4. RefInv'
    <3> SUFFICES ASSUME NEW q \in Refs
                 PROVE  /\ Versions(ref'[q]) \subseteq TargetsOf[q] \cup {NoTarget}
                        /\ q \notin moved' => RefInOrder(ref'[q])
      BY DEF RefInv
    <3>1. CASE q = r
      <4>1. Versions(ref[r]) \subseteq TargetsOf[r] \cup {NoTarget}
        BY DEF RefInv
      <4>2. Versions(ref'[r]) \subseteq TargetsOf[r] \cup {NoTarget}
        BY <2>3, <4>1
      <4>3. r \notin moved' => RefInOrder(ref'[r])
        BY <2>2, <2>3 DEF RefInv
      <4> QED BY <3>1, <4>2, <4>3
    <3>2. CASE q # r
      BY <2>2, <3>2 DEF RefInv
    <3> QED BY <3>1, <3>2
  <2>5. ASSUME NEW q \in Refs \ moved' PROVE RefStays(q)
    <3>1. CASE q = r
      BY <2>2, <2>3, <3>1 DEF RefStays
    <3>2. CASE q # r
      BY <2>2, <3>2 DEF RefStays
    <3> QED BY <3>1, <3>2
  <2> QED BY <2>2, <2>4, <2>5
<1>6. CASE Worker \/ CallFails \/ UNCHANGED vars \/ \E p \in Perms : Begin(p)
  BY <1>2, <1>6
  DEF Worker, AddFinalizer, GetBucket, GetKey, Allow, Deny, FindBucket, FindKey, Revoke,
      RemoveFinalizer, CallFails, vars, Begin
<1>7. CASE Manager
  BY <1>2, <1>3, <1>4, <1>7 DEF Manager, Resync, Informer
<1>8. CASE Environment
  BY <1>2, <1>5, <1>8
  DEF Environment, UserCreate, UserEdit, UserDelete, TargetMade, TargetDeleted,
      ClusterLost, ClusterBack
<1> QED BY <1>6, <1>7, <1>8 DEF Next

-----------------------------------------------------------------------------
(* Targets and rights after a step. *)

TargetStep(t) ==
    tgt'[t] \in {tgt[t], 0} \/ (tgt'[t] = ids + 1 /\ ids' = ids + 1)

(* Only allow adds rights: of the key and the bucket that the worker has. *)
GrantMove ==
    \/ grants' \subseteq grants
    \/ /\ w.pc = "allow" /\ UNCHANGED <<log, ref, tgt, ids, moved>>
       /\ w' # w
       /\ grants' \subseteq grants \cup Triples(Rights)

LEMMA GrantMoves ==
    ASSUME PermInv, IdInv, KnowInv, [Next]_vars
    PROVE  /\ GrantMove /\ IdInv' /\ ids <= ids' /\ \A t \in Targets : TargetStep(t)
<1>1. /\ tgt \in [Targets -> Nat] /\ ids \in Nat /\ grants \subseteq Grants /\ PermTypeOK
  BY DEF PermInv, TypeInv, PermTypeOK
<1>2. ASSUME UNCHANGED <<tgt, ids>>, grants' \subseteq grants
      PROVE  GrantMove /\ IdInv' /\ ids <= ids' /\ \A t \in Targets : TargetStep(t)
  BY <1>1, <1>2 DEF GrantMove, IdInv, TargetStep
<1>3. CASE Allow /\ grants' # grants
  <2>1. /\ w.pc = "allow" /\ UNCHANGED <<log, ref, tgt, ids, moved>>
        /\ grants' = grants \cup Triples(Expected(w.mem.spec))
    BY <1>3 DEF Allow, At
  <2>2. w.mem.spec \in PermSpecs /\ w \in Work
    <3>1. Exists(w.mem) /\ w.mem \in Objects(PermSpecs) /\ w \in Work
      BY <2>1 DEF PermInv, TypeInv, Holding, PermTypeOK, Work
    <3> QED BY <3>1, ObjectFacts
  <2>3. grants' \subseteq grants \cup Triples(Rights)
    BY <2>1, <2>2, SpecType DEF Triples
  <2>4. w' # w
    <3>1. Goto("deny") \/ Fail
      BY <1>3, <2>1 DEF Allow, Answered
    <3> QED BY <2>1, <2>2, <3>1 DEF Goto, Fail, Idle, Work
  <2>5. IdInv'
    <3>1. w.kid <= ids /\ w.bid <= ids
      BY <2>1 DEF KnowInv, Knows, IdOf
    <3>2. \A g \in grants' : g.key <= ids /\ g.bucket <= ids
      BY <2>3, <3>1 DEF IdInv, Triples
    <3> QED BY <2>1, <3>2 DEF IdInv
  <2> QED BY <1>1, <2>1, <2>3, <2>4, <2>5 DEF GrantMove, TargetStep
<1>4. CASE Worker
  BY <1>2, <1>3, <1>4
  DEF Worker, AddFinalizer, GetBucket, GetKey, Allow, Deny, FindBucket, FindKey, Revoke,
      RemoveFinalizer
<1>5. ASSUME NEW t \in Targets, TargetMade(t)
      PROVE  GrantMove /\ IdInv' /\ ids <= ids' /\ \A u \in Targets : TargetStep(u)
  <2>1. /\ tgt'[t] = ids + 1 /\ ids' = ids + 1 /\ grants' = grants
        /\ \A u \in Targets \ {t} : tgt'[u] = tgt[u]
    BY <1>1, <1>5 DEF TargetMade
  <2>2. \A u \in Targets : tgt[u] # ids + 1
    BY <1>1 DEF IdInv
  <2>3. IdInv'
    <3>1. \A u \in Targets : tgt'[u] <= ids'
      BY <1>1, <2>1 DEF IdInv
    <3>2. \A g \in grants' : g.key <= ids' /\ g.bucket <= ids'
      BY <1>1, <2>1 DEF IdInv, Grants
    <3> QED BY <2>1, <2>2, <3>1, <3>2 DEF IdInv
  <2> QED BY <1>1, <2>1, <2>3 DEF GrantMove, TargetStep
<1>6. ASSUME NEW t \in Targets, TargetDeleted(t)
      PROVE  GrantMove /\ IdInv' /\ ids <= ids' /\ \A u \in Targets : TargetStep(u)
  <2>1. /\ tgt'[t] = 0 /\ ids' = ids /\ grants' \subseteq grants
        /\ \A u \in Targets \ {t} : tgt'[u] = tgt[u]
    BY <1>1, <1>6 DEF TargetDeleted
  <2> QED BY <1>1, <2>1 DEF GrantMove, TargetStep, IdInv
<1>7. CASE Environment
  BY <1>2, <1>5, <1>6, <1>7
  DEF Environment, UserCreate, UserEdit, UserDelete, RefChanges, ClusterLost, ClusterBack
<1>8. CASE Manager
  BY <1>2, <1>8 DEF Manager, Resync, Crash, Informer, RefInformer
<1>9. CASE CallFails \/ UNCHANGED vars \/ \E p \in Perms : Begin(p)
  BY <1>2, <1>9 DEF CallFails, vars, Begin
<1> QED BY <1>4, <1>7, <1>8, <1>9 DEF Next

-----------------------------------------------------------------------------
(* What the invariant says of references and targets.                      *)

LEMMA RefFacts ==
    ASSUME RevokeInv, NEW r \in Refs
    PROVE  /\ TargetsOf[r] \subseteq Targets /\ NoTarget \notin TargetsOf[r]
           /\ Live(ref[r]) \in TargetsOf[r] \cup {NoTarget}
           /\ Cached(ref[r]) \in TargetsOf[r] \cup {NoTarget}
           /\ r \notin moved /\ Cached(ref[r]) # NoTarget => Live(ref[r]) = Cached(ref[r])
<1>1. ref[r] \in Seq(Named) \ {<<>>}
  BY RefType DEF RevokeInv, PermInv, TypeInv
<1>2. Live(ref[r]) \in Versions(ref[r]) /\ Cached(ref[r]) \in Versions(ref[r])
  BY <1>1, LiveIsVersion
<1>3. /\ Versions(ref[r]) \subseteq TargetsOf[r] \cup {NoTarget}
      /\ r \notin moved => RefInOrder(ref[r])
  BY DEF RevokeInv, RefInv
<1>4. TargetsOf[r] \subseteq Targets /\ NoTarget \notin TargetsOf[r]
  BY PermNamesAssumption
<1> QED BY <1>1, <1>2, <1>3, <1>4, CachedStands

(* The CR that the worker has names references.                            *)
LEMMA WorkRefs ==
    ASSUME RevokeInv, w.pc # "idle"
    PROVE  /\ w.p \in Perms /\ w.mem.spec \in SpecsOf[w.p]
           /\ w.mem.spec.bucket \in Refs /\ w.mem.spec.key \in Refs
           /\ w \in Work
<1>1. /\ w.p \in Perms /\ w.mem.spec \in SpecsOf[w.p] /\ w \in Work
      /\ Exists(w.mem) /\ w.mem \in Objects(PermSpecs)
  BY DEF RevokeInv, PermInv, TypeInv, PermTypeOK, Holding, WorkInv, Work
<1>2. w.mem.spec \in PermSpecs
  BY <1>1, ObjectFacts
<1> QED BY <1>1, <1>2, SpecType

LEMMA UnseenClear ==
    ASSUME RevokeInv, NEW r \in Refs, Cached(ref[r]) = NoTarget, NEW q \in Refs
    PROVE  Clear(r, q) /\ Clear(q, r)
BY DEF RevokeInv, UnseenInv, Clear, CanBe

(* A reference that the worker has read and that was not renamed is under  *)
(* that target name.                                                       *)
LEMMA KnownCanBe ==
    ASSUME RevokeInv, NEW r \in Refs \ moved, NEW t, Known(r, t)
    PROVE  t \in Targets /\ Live(ref[r]) = t /\ \A u \in CanBe(r) : u = t /\ tgt[t] # 0
<1>1. t \in Targets /\ t # NoTarget /\ Live(ref[r]) = t
  BY RefFacts DEF Known
<1> QED BY <1>1 DEF CanBe

LEMMA LostClear ==
    ASSUME RevokeInv, NEW r \in Refs, NEW t, Known(r, t), tgt[t] = 0, NEW q \in Refs
    PROVE  Clear(r, q) /\ Clear(q, r)
<1>1. r \notin moved => CanBe(r) = {}
  BY KnownCanBe
<1> QED BY <1>1 DEF Clear

(* What allow adds is between the bucket and the key of the CR alone.      *)
LEMMA NewGrants ==
    ASSUME TargetsApart, RevokeInv, w.pc = "allow",
           NEW g \in Triples(Rights), NEW r \in Refs, NEW t \in TargetsOf[r]
    PROVE  /\ g.bucket = tgt[t] => r = w.mem.spec.bucket /\ t = w.bt
           /\ g.key = tgt[t] => r = w.mem.spec.key /\ t = w.kt
<1>1. /\ w.mem.spec.bucket \in Refs /\ w.mem.spec.key \in Refs
      /\ w.bt \in TargetsOf[w.mem.spec.bucket] /\ IdOf(w.bid, w.bt)
      /\ w.kt \in TargetsOf[w.mem.spec.key] /\ IdOf(w.kid, w.kt)
  BY WorkRefs DEF RevokeInv, KnowInv, Knows, Known
<1>2. g.key = w.kid /\ g.bucket = w.bid /\ t \in Targets
  BY RefFacts DEF Triples
<1>3. (g.bucket = tgt[t] => t = w.bt) /\ (g.key = tgt[t] => t = w.kt)
  BY <1>1, <1>2 DEF IdOf
<1> QED BY <1>1, <1>3 DEF TargetsApart

-----------------------------------------------------------------------------
(* What a step leaves of it.                                               *)

LEMMA MoveFacts ==
    ASSUME RevokeInv, [Next]_vars
    PROVE  /\ ids \in Nat /\ ids' \in Nat /\ ids <= ids' /\ tgt \in [Targets -> Nat]
           /\ grants \subseteq Grants
           /\ moved \subseteq moved' /\ \A r \in Refs \ moved' : RefStays(r)
           /\ \A t \in Targets : TargetStep(t)
           /\ GrantMove
<1>1. PermTypeOK /\ PermTypeOK'
  BY TypeInvInductive DEF RevokeInv, PermInv, TypeInv
<1> QED BY <1>1, RefMoves, GrantMoves DEF RevokeInv, PermTypeOK

(* A target is as before, or new and without rights. *)
LEMMA CanBeStays ==
    ASSUME RevokeInv, [Next]_vars, NEW r \in Refs \ moved', NEW t \in CanBe(r)'
    PROVE  (t \in CanBe(r) /\ tgt'[t] = tgt[t]) \/ tgt'[t] = ids + 1
<1>1. t \in TargetsOf[r] /\ Live(ref'[r]) \in {t, NoTarget} /\ tgt'[t] # 0
  BY DEF CanBe
<1>2. t \in Targets /\ TargetStep(t) /\ RefStays(r)
  BY <1>1, RefFacts, MoveFacts
<1> QED BY <1>1, <1>2 DEF TargetStep, RefStays, CanBe

LEMMA ClearStays ==
    ASSUME RevokeInv, [Next]_vars, grants' \subseteq grants,
           NEW b \in Refs, NEW k \in Refs, Clear(b, k)
    PROVE  Clear(b, k)'
<1> SUFFICES ASSUME {b, k} \cap moved' = {},
                    NEW t \in CanBe(b)', NEW u \in CanBe(k)', NEW g \in grants'
             PROVE  g.key # tgt'[u] \/ g.bucket # tgt'[t]
  BY DEF Clear
<1>1. /\ b \notin moved' /\ k \notin moved' /\ b \notin moved /\ k \notin moved
      /\ ids \in Nat /\ g \in grants
  BY MoveFacts
<1>2. g.key <= ids /\ g.bucket <= ids /\ g.key \in Nat /\ g.bucket \in Nat
  BY <1>1, MoveFacts DEF RevokeInv, IdInv, Grants
<1>3. g.key # ids + 1 /\ g.bucket # ids + 1
  BY <1>1, <1>2
<1>4. (t \in CanBe(b) /\ tgt'[t] = tgt[t]) \/ tgt'[t] = ids + 1
  BY <1>1, CanBeStays
<1>5. (u \in CanBe(k) /\ tgt'[u] = tgt[u]) \/ tgt'[u] = ids + 1
  BY <1>1, CanBeStays
<1> QED BY <1>1, <1>3, <1>4, <1>5 DEF Clear

LEMMA KnowStays ==
    ASSUME RevokeInv, [Next]_vars
    PROVE  /\ \A r \in Refs, t \in Targets : Known(r, t) => Known(r, t)'
           /\ \A i \in Nat, t \in Targets : IdOf(i, t) => IdOf(i, t)'
<1>1. ASSUME NEW r \in Refs, NEW t \in Targets, Known(r, t) PROVE Known(r, t)'
  <2>1. t # NoTarget /\ (r \notin moved' => RefStays(r) /\ r \notin moved)
    BY PermNamesAssumption, MoveFacts
  <2> QED BY <1>1, <2>1 DEF Known, RefStays
<1>2. ASSUME NEW i \in Nat, NEW t \in Targets, IdOf(i, t) PROVE IdOf(i, t)'
  <2>1. ids \in Nat /\ ids' \in Nat /\ ids <= ids' /\ i <= ids /\ i # 0
    BY <1>2, MoveFacts DEF IdOf
  <2>2. i <= ids' /\ i # ids + 1
    BY <2>1
  <2>3. ASSUME NEW u \in Targets, tgt'[u] = i PROVE u = t
    <3>1. tgt[u] = i
      BY <2>1, <2>2, <2>3, MoveFacts DEF TargetStep
    <3> QED BY <1>2, <3>1 DEF IdOf
  <2> QED BY <2>1, <2>2, <2>3 DEF IdOf
<1> QED BY <1>1, <1>2

LEMMA UnseenInvStep ==
    ASSUME TargetsApart, RevokeInv, [Next]_vars
    PROVE  UnseenInv'
<1> SUFFICES ASSUME NEW r \in Refs \ moved', NEW t \in TargetsOf[r],
                    Cached(ref'[r]) = NoTarget, tgt'[t] # 0, NEW g \in grants'
             PROVE  tgt'[t] \notin {g.key, g.bucket}
  BY DEF UnseenInv
<1>1. /\ r \notin moved /\ RefStays(r) /\ t \in Targets /\ TargetStep(t)
      /\ ids \in Nat /\ GrantMove
  BY MoveFacts, RefFacts
<1>2. Cached(ref[r]) = NoTarget
  BY <1>1 DEF RefStays
<1>3. ASSUME g \in grants PROVE tgt'[t] \notin {g.key, g.bucket}
  <2>1. g.key <= ids /\ g.bucket <= ids /\ g.key \in Nat /\ g.bucket \in Nat
    BY <1>3, MoveFacts DEF RevokeInv, IdInv, Grants
  <2>2. g.key # ids + 1 /\ g.bucket # ids + 1
    BY <1>1, <2>1
  <2>3. tgt'[t] = tgt[t] \/ tgt'[t] = ids + 1
    BY <1>1 DEF TargetStep
  <2> QED BY <1>1, <1>2, <1>3, <2>2, <2>3 DEF RevokeInv, UnseenInv
<1>4. ASSUME w.pc = "allow", UNCHANGED tgt, g \in Triples(Rights)
      PROVE  tgt'[t] \notin {g.key, g.bucket}
  <2>1. Known(w.mem.spec.bucket, w.bt) /\ Known(w.mem.spec.key, w.kt)
    BY <1>4 DEF RevokeInv, KnowInv, Knows
  <2>2. NoTarget \notin TargetsOf[r]
    BY RefFacts
  <2> QED BY <1>1, <1>2, <1>4, <2>1, <2>2, NewGrants DEF Known
<1> QED BY <1>1, <1>3, <1>4 DEF GrantMove

LEMMA GrantInvStep ==
    ASSUME TargetsApart, PairsApart, RevokeInv, [Next]_vars
    PROVE  GrantInv'
<1> SUFFICES ASSUME NEW p \in Perms, ~Live(log'[p]).fin, NEW s \in SpecsOf[p]
             PROVE  Clear(s.bucket, s.key)'
  BY DEF GrantInv, Api
<1>1. s \in PermSpecs /\ s.bucket \in Refs /\ s.key \in Refs
  BY PermSpecsAssumption, SpecType
<1>2. PermTypeOK /\ LogStep(p) /\ GrantMove
  BY LogMoves, MoveFacts DEF RevokeInv, PermInv, TypeInv, LogMove
<1>3. CASE Clear(s.bucket, s.key) /\ grants' \subseteq grants
  BY <1>1, <1>3, ClearStays
<1>4. CASE /\ w.pc = "allow" /\ UNCHANGED <<log, ref, tgt, ids, moved>>
           /\ grants' \subseteq grants \cup Triples(Rights)
  <2>1. Clear(s.bucket, s.key)
    BY <1>4 DEF RevokeInv, GrantInv, Api
  <2>2. w.p # p
    BY <1>4 DEF RevokeInv, PermInv, WorkInv, GrantsForHeld, GrantSteps, Api
  <2>3. w.mem.spec.bucket # s.bucket \/ w.mem.spec.key # s.key
    BY <1>4, <2>2, WorkRefs DEF PairsApart
  <2>4. ASSUME {s.bucket, s.key} \cap moved = {}, NEW g \in Triples(Rights),
               NEW t \in CanBe(s.bucket), NEW u \in CanBe(s.key),
               g.key = tgt[u], g.bucket = tgt[t]
        PROVE  FALSE
    BY <1>1, <1>4, <2>3, <2>4, NewGrants DEF CanBe
  <2>5. CanBe(s.bucket)' = CanBe(s.bucket) /\ CanBe(s.key)' = CanBe(s.key)
    BY <1>4 DEF CanBe
  <2> QED BY <1>4, <2>1, <2>4, <2>5 DEF Clear
<1>5. CASE ~Clear(s.bucket, s.key) /\ grants' \subseteq grants
  <2>1. Api(p).fin
    BY <1>5 DEF RevokeInv, GrantInv
  <2>2. Gone(p) /\ Changed(p)
    <3>1. ~Kept(Api(p), Live(log'[p]))
      BY <2>1 DEF Kept
    <3>2. ~New(p)
      BY <1>2, <2>1, ApiType DEF New, Objects, Absent, Exists
    <3> QED BY <1>2, <3>1, <3>2, Fates
  <2>3. w.pc = "unfinalize" /\ w.p = p
    BY <2>1, <2>2 DEF Gone
  <2>4. Clear(w.mem.spec.bucket, w.mem.spec.key)
    BY <2>3 DEF RevokeInv, KnowInv, Knows
  <2>5. w.mem.spec.bucket = s.bucket /\ w.mem.spec.key = s.key
    BY <2>3, WorkRefs DEF PairsApart
  <2> QED BY <1>5, <2>4, <2>5
<1> QED BY <1>2, <1>3, <1>4, <1>5 DEF GrantMove

(* What the worker knows stays, or it learns more.                         *)
LEMMA BeginKnows ==
    ASSUME RevokeInv, NEW p \in Perms, Begin(p), NEW v, v = w', v # Idle
    PROVE  Knows(v)'
<1> DEFINE b == v.mem.spec.bucket
           k == v.mem.spec.key
<1>1. /\ v.mem = Cached(log[p]) /\ v.bt = Cached(ref[b])
      /\ v.pc = FirstStep(v.mem, v.bt)
      /\ UNCHANGED <<ref, tgt, ids, grants, moved>> /\ Exists(v.mem)
    BY Begins DEF RevokeInv, Begin
<1>2. b \in Refs /\ k \in Refs
  <2>1. Cached(log[p]) \in Objects(PermSpecs)
    BY ApiType DEF RevokeInv, PermInv, TypeInv
  <2>2. v.mem.spec \in PermSpecs
    BY <1>1, <2>1, ObjectFacts
  <2> QED BY <2>2, SpecType
<1>3. v.bt \in TargetsOf[b] \cup {NoTarget}
  BY <1>1, <1>2, RefFacts
<1> HIDE DEF b, k
<1>4. CASE v.bt = NoTarget
  <2>1. v.pc \in {"idle", "unfinalize"}
    BY <1>1, <1>4 DEF FirstStep
  <2>2. Clear(b, k)
    BY <1>1, <1>2, <1>4, UnseenClear
  <2>3. Clear(b, k)'
    BY <1>1, <2>2 DEF Clear, CanBe, b, k
  <2> QED BY <2>1, <2>3 DEF Knows, b, k
<1>5. CASE v.bt # NoTarget
  <2>1. v.pc \in {"idle", "delBucket", "bucketInfo", "finalize"}
    BY <1>1, <1>5 DEF FirstStep
  <2>2. Known(b, v.bt)'
    BY <1>1, <1>3, <1>5 DEF Known, b
  <2> QED BY <2>1, <2>2 DEF Knows, b
<1> QED BY <1>4, <1>5

LEMMA WorkerKnows ==
    ASSUME RevokeInv, [Next]_vars, Worker, NEW v, v = w', v # Idle
    PROVE  Knows(v)'
<1> DEFINE b == v.mem.spec.bucket
           k == v.mem.spec.key
<1>1. w.pc # "idle"
  BY DEF Worker, AddFinalizer, GetBucket, GetKey, Allow, Deny, FindBucket, FindKey,
         Revoke, RemoveFinalizer, At
<1>0. PermInv
  BY DEF RevokeInv
<1>2. /\ v.bt = w.bt /\ UNCHANGED <<ref, tgt, ids, moved>>
      /\ v.mem.spec = w.mem.spec
  <2>1. w.mem \in Objects(PermSpecs) /\ Exists(w.mem)
    BY <1>1 DEF RevokeInv, PermInv, TypeInv, PermTypeOK, Holding, Work
  <2>2. [w.mem EXCEPT !.fin = TRUE].spec = w.mem.spec
    BY <2>1, ObjectFacts
  <2> QED BY <1>0, <2>2, Moves
<1>3. b \in Refs /\ k \in Refs /\ w \in Work
  BY <1>1, <1>2, WorkRefs
<1>4. /\ \A r, t : Known(r, t) => Known(r, t)'
      /\ \A i, t : IdOf(i, t) => IdOf(i, t)'
  BY <1>2 DEF Known, IdOf
<1>5. ASSUME Clear(b, k), grants' \subseteq grants PROVE Clear(b, k)'
  BY <1>3, <1>5, ClearStays
<1>6. ASSUME NEW t \in Targets, tgt[t] # 0 PROVE IdOf(tgt[t], t)
  BY <1>6 DEF RevokeInv, IdInv, IdOf
<1>7. w.pc # "unfinalize" => Known(b, w.bt) /\ w.bt \in Targets
  BY <1>1, <1>3, <1>2, RefFacts DEF RevokeInv, KnowInv, Knows, Known
<1>8. w.pc \in {"keyInfo", "allow", "deny", "delKey", "revoke"}
        => Known(k, w.kt) /\ w.kt \in Targets /\ IdOf(w.bid, w.bt)
  BY <1>3, <1>2, RefFacts DEF RevokeInv, KnowInv, Knows, Known
<1>9. Cached(ref[k]) # NoTarget => Known(k, Cached(ref[k]))
  BY <1>3, RefFacts DEF Known
<1>10. CASE w.pc = "finalize" \/ v.pc \in {"deny", "allow", "revoke", "keyInfo", "delKey"}
  <2>1. v.pc \notin {"idle", "unfinalize"} /\ w.pc # "unfinalize"
    BY <1>10, <1>0, Moves
  <2>2. Known(v.mem.spec.bucket, v.bt)'
    BY <1>2, <1>4, <1>7, <2>1
  <2>3. ASSUME v.pc \in {"keyInfo", "delKey"}
        PROVE  v.bid = tgt[w.bt] /\ v.bid # 0 /\ v.kt = Cached(ref[k]) /\ v.kt # NoTarget
    BY <2>3, <1>0, Moves
  <2>4. ASSUME v.pc \in {"allow", "revoke"}
        PROVE  /\ w.pc \in {"keyInfo", "delKey"} /\ v.bid = w.bid /\ v.kt = w.kt
               /\ v.kid = tgt[w.kt] /\ v.kid # 0
    BY <2>4, <1>0, Moves
  <2>5. ASSUME v.pc = "deny"
        PROVE  w.pc = "allow" /\ v.bid = w.bid /\ v.kt = w.kt /\ v.kid = w.kid
    BY <2>5, <1>0, Moves
  <2>6. ASSUME v.pc \in {"keyInfo", "allow", "deny", "delKey", "revoke"}
        PROVE  Known(k, v.kt) /\ IdOf(v.bid, w.bt)
    BY <1>6, <1>7, <1>8, <1>9, <2>1, <2>3, <2>4, <2>5, <2>6
  <2>7. ASSUME v.pc \in {"allow", "deny", "revoke"}
        PROVE  IdOf(v.kid, v.kt)
    BY <1>6, <1>8, <2>4, <2>5, <2>7 DEF RevokeInv, KnowInv, Knows
  <2>8. ASSUME v.pc \in {"keyInfo", "allow", "deny", "delKey", "revoke"}
        PROVE  Known(v.mem.spec.key, v.kt)' /\ IdOf(v.bid, v.bt)'
    BY <1>2, <1>4, <2>6, <2>8
  <2>9. ASSUME v.pc \in {"allow", "deny", "revoke"} PROVE IdOf(v.kid, v.kt)'
    BY <1>4, <2>7, <2>9
  <2> QED BY <2>1, <2>2, <2>8, <2>9 DEF Knows
<1>11. CASE v.pc = "unfinalize"
  <2>1. Clear(b, k)'
    <3>1. CASE /\ FindBucket /\ w.pc = "delBucket"
               /\ Cached(ref[k]) = NoTarget \/ tgt[w.bt] = 0
      <4>1. Clear(b, k)
        BY <1>3, <1>7, <3>1, UnseenClear, LostClear
      <4> QED BY <1>5, <3>1, <4>1 DEF FindBucket
    <3>2. CASE FindKey /\ w.pc = "delKey" /\ tgt[w.kt] = 0
      <4>1. Clear(b, k)
        BY <1>3, <1>8, <3>2, LostClear
      <4> QED BY <1>5, <3>2, <4>1 DEF FindKey
    <3>3. CASE /\ w.pc = "revoke" /\ InGarage(w.kid) /\ InGarage(w.bid)
               /\ grants' = grants \ Triples(Rights)
      <4>1. tgt[w.kt] = w.kid /\ tgt[w.bt] = w.bid
        BY <3>3 DEF InGarage, RevokeInv, KnowInv, Knows, IdOf
      <4> SUFFICES ASSUME {b, k} \cap moved = {},
                          NEW t \in CanBe(b), NEW u \in CanBe(k), NEW g \in grants',
                          g.key = tgt[u], g.bucket = tgt[t]
                   PROVE  FALSE
        BY <1>2 DEF Clear, CanBe
      <4>2. t = w.bt /\ u = w.kt
        BY <1>3, <1>7, <1>8, <3>3, KnownCanBe
      <4>3. g \in grants /\ g \in Grants /\ g.key = w.kid /\ g.bucket = w.bid
        BY <3>3, <4>1, <4>2, MoveFacts
      <4>4. g \in Triples(Rights)
        BY <4>3 DEF Triples, Grants
      <4> QED BY <3>3, <4>4
    <3> QED BY <1>11, <3>1, <3>2, <3>3, <1>0, Moves
  <2> QED BY <1>11, <2>1 DEF Knows
<1> QED BY <1>10, <1>11, <1>0, Moves

LEMMA KnowInvStep ==
    ASSUME RevokeInv, [Next]_vars
    PROVE  KnowInv'
<1>1. PICK v : v = w'
  OBVIOUS
<1>2. CASE v = Idle
  BY <1>1, <1>2 DEF KnowInv, Knows, Idle
<1>3. CASE \E p \in Perms : Begin(p)
  BY <1>1, <1>2, <1>3, BeginKnows DEF KnowInv, Knows
<1>4. CASE Worker
  BY <1>1, <1>2, <1>4, WorkerKnows DEF KnowInv, Knows
<1>5. CASE v = w /\ v # Idle
  <2> DEFINE b == v.mem.spec.bucket
             k == v.mem.spec.key
  <2>1. CASE v.pc = "idle"
    BY <1>1, <2>1 DEF KnowInv, Knows
  <2>2. CASE v.pc # "idle"
    <3>1. b \in Refs /\ k \in Refs /\ v \in Work
      BY <1>5, <2>2, WorkRefs
    <3>2. v.bid \in Nat /\ v.kid \in Nat
      BY <3>1 DEF Work
    <3>3. Knows(v)
      BY <1>5 DEF RevokeInv, KnowInv
    <3>4. \A r \in Refs : \A t : Known(r, t) => t \in Targets /\ Known(r, t)'
      BY RefFacts, KnowStays DEF Known
    <3>5. grants' \subseteq grants
      BY <1>1, <1>5, MoveFacts DEF GrantMove
    <3>6. Clear(b, k) => Clear(b, k)'
      BY <3>1, <3>5, ClearStays
    <3>7. Knows(v)'
      BY <3>1, <3>2, <3>3, <3>4, <3>6, <2>2, KnowStays DEF Knows
    <3> QED BY <1>1, <3>7 DEF KnowInv, Knows
  <2> QED BY <2>1, <2>2
<1>6. CASE CallFails \/ Manager \/ Environment \/ UNCHANGED vars
  <2>1. v = Idle \/ v = w
    BY <1>1, <1>6
    DEF CallFails, Fail, Manager, Resync, Informer, RefInformer, Crash, Environment,
        UserCreate, UserEdit, UserDelete, RefChanges, TargetMade, TargetDeleted,
        ClusterLost, ClusterBack, vars
  <2> QED BY <1>2, <1>5, <2>1
<1> QED BY <1>3, <1>4, <1>6 DEF Next

LEMMA RevokeInvInit == Init => RevokeInv
<1> SUFFICES ASSUME Init PROVE RevokeInv
  OBVIOUS
<1>1. grants = {} /\ w = Idle
  BY DEF Init
<1>2. RefInv
  <2>1. PICK f \in [Refs -> Named] : /\ \A r \in Refs : f[r] \in TargetsOf[r] \cup {NoTarget}
                                     /\ ref = [r \in Refs |-> <<f[r]>>]
    BY DEF Init, Named
  <2>2. ASSUME NEW r \in Refs
        PROVE  /\ Versions(ref[r]) \subseteq TargetsOf[r] \cup {NoTarget}
               /\ RefInOrder(ref[r])
    <3>1. PICK t \in TargetsOf[r] \cup {NoTarget} : ref[r] = <<t>>
      BY <2>1
    <3>2. Len(ref[r]) = 1 /\ ref[r][1] = t
      BY <3>1
    <3>3. \A i, j \in 1 .. 1 : i = 1 /\ j = 1
      OBVIOUS
    <3> QED BY <3>2, <3>3 DEF Versions, RefInOrder
  <2> QED BY <2>2 DEF RefInv
<1>3. IdInv
  <2>1. PICK T \in SUBSET Targets : tgt = [t \in Targets |-> IF t \in T THEN FirstIds[t] ELSE 0]
    BY DEF Init
  <2>2. /\ ids = Cardinality(Targets) /\ ids \in Nat
        /\ FirstIds \in [Targets -> 1 .. ids]
        /\ \A t, u \in Targets : FirstIds[t] = FirstIds[u] => t = u
    BY FirstIdsType DEF Init
  <2>3. ASSUME NEW t \in Targets PROVE tgt[t] <= ids /\ (tgt[t] # 0 => tgt[t] = FirstIds[t])
    BY <2>1, <2>2
  <2> QED BY <1>1, <2>2, <2>3 DEF IdInv
<1>4. UnseenInv /\ GrantInv
  BY <1>1 DEF UnseenInv, GrantInv, Clear
<1>5. KnowInv
  BY <1>1 DEF KnowInv, Knows, Idle
<1> QED BY <1>2, <1>3, <1>4, <1>5, PermInvInit DEF RevokeInv

LEMMA RevokeInvInductive ==
    ASSUME TargetsApart, PairsApart
    PROVE  RevokeInv /\ [Next]_vars => RevokeInv'
<1> SUFFICES ASSUME RevokeInv, [Next]_vars PROVE RevokeInv'
  OBVIOUS
<1>1. PermInv' /\ RefInv' /\ IdInv'
  BY PermInvInductive, RefMoves, GrantMoves DEF RevokeInv
<1>2. UnseenInv' /\ GrantInv' /\ KnowInv'
  BY TargetsApart, PairsApart, UnseenInvStep, GrantInvStep, KnowInvStep
<1> QED BY <1>1, <1>2 DEF RevokeInv

(* A GaragePermission that goes leaves no right behind, whatever its spec  *)
(* asked for before and whichever calls failed, though the worker goes by  *)
(* cached copies and by ids that it looked up some calls ago: as long as   *)
(* its GarageBucket and its GarageAccessKey are there under one name.      *)
THEOREM GrantsRevoked ==
    ASSUME TargetsApart, PairsApart
    PROVE  Spec => GrantRevoked
<1> DEFINE Revokes ==
      \A p \in Perms :
         Exists(Api(p)) /\ ~Exists(Live(log'[p])) =>
            LET s == Api(p).spec
                b == Live(ref[s.bucket])
                k == Live(ref[s.key])
            IN  NoTarget \notin {b, k} /\ {s.bucket, s.key} \cap moved = {} =>
                  (tgt[b] # 0 /\ tgt[k] # 0 =>
                     \A g \in grants' : g.key # tgt[k] \/ g.bucket # tgt[b])
<1>1. ASSUME RevokeInv, [Next]_vars, NEW p \in Perms,
             Exists(Api(p)), ~Exists(Live(log'[p]))
      PROVE  Clear(Api(p).spec.bucket, Api(p).spec.key) /\ UNCHANGED grants
  <2>1. PermTypeOK /\ LogInv /\ LogStep(p)
    BY <1>1, LogMoves DEF RevokeInv, PermInv, TypeInv, LogMove
  <2>2. Gone(p) /\ UNCHANGED grants
    <3>1. ~Alike(Api(p), Live(log'[p])) /\ ~New(p)
      BY <1>1 DEF Alike, New, Exists
    <3>2. ~Edited(p, Live(log'[p]))
      BY <1>1, <2>1, EditedKept
    <3> QED BY <2>1, <3>1, <3>2 DEF LogStep, Changed
  <2>3. Api(p).spec \in SpecsOf[p]
    BY <1>1, <2>1, VersionType DEF LogInv
  <2>4. CASE ~Api(p).fin
    BY <1>1, <2>2, <2>3, <2>4 DEF RevokeInv, GrantInv
  <2>5. CASE w.pc = "unfinalize" /\ w.mem = Api(p)
    BY <1>1, <2>2, <2>5 DEF RevokeInv, KnowInv, Knows
  <2> QED BY <2>2, <2>4, <2>5 DEF Gone
<1>2. ASSUME RevokeInv, [Next]_vars PROVE [Revokes]_vars
  <2> SUFFICES ASSUME NEW p \in Perms, Exists(Api(p)), ~Exists(Live(log'[p])),
                      NEW b, b = Live(ref[Api(p).spec.bucket]), b # NoTarget,
                      NEW k, k = Live(ref[Api(p).spec.key]), k # NoTarget,
                      {Api(p).spec.bucket, Api(p).spec.key} \cap moved = {},
                      tgt[b] # 0, tgt[k] # 0, NEW g \in grants'
               PROVE  g.key # tgt[k] \/ g.bucket # tgt[b]
    OBVIOUS
  <2>1. Api(p).spec.bucket \in Refs /\ Api(p).spec.key \in Refs
    <3>1. PermTypeOK
      BY <1>2 DEF RevokeInv, PermInv, TypeInv
    <3>2. Api(p).spec \in PermSpecs
      BY <3>1, ApiType, ObjectFacts
    <3> QED BY <3>2, SpecType
  <2>2. b \in CanBe(Api(p).spec.bucket) /\ k \in CanBe(Api(p).spec.key)
    BY <1>2, <2>1, RefFacts DEF CanBe
  <2> QED BY <1>1, <1>2, <2>2 DEF Clear
<1>3. RevokeInv /\ [Next]_vars => [Revokes]_vars
  BY <1>2
<1>4. RevokeInv /\ [Next]_vars => RevokeInv'
  BY TargetsApart, PairsApart, RevokeInvInductive
<1> QED BY <1>3, <1>4, RevokeInvInit, PTL DEF Spec, GrantRevoked

=============================================================================
