------------------------- MODULE KeyReconcilerProofs -------------------------
(***************************************************************************)
(* Proofs about KeyReconciler, for any keys, names, specifications and     *)
(* bounds: types; one key per target name; a CR that is gone has left no   *)
(* key behind; and, where no two CRs use one Secret name, credentials      *)
(* belong to the CR that owns their Secret.                                *)
(*                                                                         *)
(* createKey is not idempotent and a search by name fails on two matches.  *)
(* The argument is that the only worker lists before it creates, for an    *)
(* object that the order of the versions shows to be there (HeldWork), and *)
(* begins with the list again whenever it does not know what became of a   *)
(* call.                                                                   *)
(***************************************************************************)
EXTENDS KeyReconciler, KubeObjectsProofs, FiniteSetTheorems

-----------------------------------------------------------------------------
(* Types.                                                                  *)

(* A worker under way has a request and the CR that it read. *)
Holding == w.pc # "idle" => w.k \in Keys /\ Exists(w.mem)

TypeInv == KeyTypeOK /\ Holding

LEMMA ObjectFacts ==
    ASSUME NEW o \in Objects(KeySpecs), Exists(o)
    PROVE  /\ o \in [uid: Nat \ {0}, deleting: BOOLEAN, fin: BOOLEAN,
                     spec: KeySpecs, id: Nat]
           /\ \A i \in Nat : [o EXCEPT !.id = i] \in Objects(KeySpecs)
           /\ [o EXCEPT !.fin = TRUE] \in Objects(KeySpecs)
           /\ \A s \in KeySpecs : [o EXCEPT !.spec = s] \in Objects(KeySpecs)
           /\ Deleted(o) \in Objects(KeySpecs)
           /\ Unfinalized(o) \in Objects(KeySpecs)
BY StoredFacts

LEMMA BaseNameType ==
    ASSUME NEW k \in Keys, NEW s \in KeySpecs
    PROVE  BaseName(k, s) \in Names
BY KeyNamesAssumption DEF BaseName, KeySpecs

LEMMA ApiType ==
    ASSUME KeyTypeOK, NEW k \in Keys
    PROVE  /\ log[k] \in Seq(Objects(KeySpecs)) \ {<<>>}
           /\ Api(k) \in Objects(KeySpecs)
           /\ Cached(log[k]) \in Objects(KeySpecs)
<1>1. log[k] \in Seq(Objects(KeySpecs)) \ {<<>>}
  BY DEF KeyTypeOK
<1> QED BY <1>1, LogRead DEF Api

(* A write adds to one log the version written. *)
LEMMA WriteLog ==
    ASSUME KeyTypeOK, NEW k \in Keys, NEW o \in Objects(KeySpecs), Write(k, o)
    PROVE  /\ log' \in [Keys -> Seq(Objects(KeySpecs)) \ {<<>>}]
           /\ Live(log'[k]) = o
           /\ \A l \in Keys \ {k} : log'[l] = log[l]
           /\ Versions(log'[k]) \subseteq Versions(log[k]) \cup {o}
           /\ LogInOrder(log[k]) /\ Follows(o, log[k]) => LogInOrder(log'[k])
<1> DEFINE S == Objects(KeySpecs)
           l == log[k]
           m == log'[k]
<1>1. /\ l \in Seq(S) \ {<<>>} /\ o \in S
      /\ o = Live(l) => m = l
      /\ o # Live(l) => m = Append(l, o)
      /\ \A j \in Keys \ {k} : log'[j] = log[j]
  BY DEF KeyTypeOK, Write, Api
<1>2. log' = log \/ log' = [log EXCEPT ![k] = Append(l, o)]
  BY DEF Write
<1>3. log \in [Keys -> Seq(S) \ {<<>>}]
  BY DEF KeyTypeOK
<1> HIDE DEF S, l, m
<1>4. /\ m \in Seq(S) \ {<<>>}
      /\ Live(m) = o /\ Versions(m) \subseteq Versions(l) \cup {o}
      /\ LogInOrder(l) /\ Follows(o, l) => LogInOrder(m)
  BY <1>1, WrittenLog
<1>5. Append(l, o) \in Seq(S) \ {<<>>}
  BY <1>1, LogAppend
<1>6. log' \in [Keys -> Seq(S) \ {<<>>}]
  BY <1>2, <1>3, <1>5
<1> QED BY <1>1, <1>4, <1>6 DEF S, l, m

LEMMA SecretType ==
    ASSUME KeyTypeOK, NEW n \in Names
    PROVE  /\ sec[n] \in Seq(Secrets) \ {<<>>}
           /\ Live(sec[n]) \in Secrets /\ Cached(sec[n]) \in Secrets
<1>1. sec[n] \in Seq(Secrets) \ {<<>>}
  BY DEF KeyTypeOK
<1> QED BY <1>1, LogRead

LEMMA NoSecretType == NoSecret \in Secrets
BY DEF NoSecret, NoOwner, NoInfo, Secrets, GarageKeys

LEMMA PutSecType ==
    ASSUME KeyTypeOK, NEW n \in Names, NEW c \in Secrets, PutSec(n, c)
    PROVE  /\ sec' \in [Names -> Seq(Secrets) \ {<<>>}]
           /\ Live(sec'[n]) = c
           /\ \A m \in Names \ {n} : sec'[m] = sec[m]
<1>1. sec[n] \in Seq(Secrets) \ {<<>>}
  BY DEF KeyTypeOK
<1>2. Append(sec[n], c) \in Seq(Secrets) \ {<<>>} /\ Live(Append(sec[n], c)) = c
  BY <1>1, LogAppend
<1>3. sec' = [sec EXCEPT ![n] = Append(sec[n], c)] /\ sec \in [Names -> Seq(Secrets) \ {<<>>}]
  BY DEF KeyTypeOK, PutSec
<1> QED BY <1>2, <1>3

(* What the worker may do next: it stops, or goes on with the same CR. *)
LEMMA StopType ==
    ASSUME w' = Idle
    PROVE  w' \in Work /\ Holding'
BY DEF Idle, Work, Steps, Objects, Absent, GarageKeys, NoInfo, Holding

LEMMA FailType ==
    ASSUME TypeInv, w.pc # "idle", Fail
    PROVE  w' \in Work /\ Holding' /\ queue' \subseteq Keys
BY StopType DEF Fail, TypeInv, KeyTypeOK, Holding

LEMMA FaultType ==
    ASSUME KeyTypeOK, Fault \/ UNCHANGED faults
    PROVE  faults' \in 0 .. MaxFaults
BY KeyBoundsAssumption DEF KeyTypeOK, Fault

(* Every action of the worker keeps the types. *)
LEMMA WorkerType ==
    ASSUME TypeInv, Worker
    PROVE  TypeInv'
<1> DEFINE k == w.k
           m == w.mem
           Going == w' \in Work /\ Holding' /\ queue' \subseteq Keys
<1>a. w.pc # "idle"
  BY DEF Worker, AddFinalizer, FindKey, CreateKey, GetKey, PatchStatus, PutSecret,
         GetKeyForDeletion, DeleteKey, RemoveFinalizer, At
<1>b. /\ k \in Keys /\ Exists(m) /\ m \in Objects(KeySpecs)
      /\ w.info \in GarageKeys /\ w \in Work /\ KeyTypeOK
  BY <1>a DEF TypeInv, KeyTypeOK, Holding, Work
<1>c. m.spec \in KeySpecs /\ m.uid \in Nat
  BY <1>b, ObjectFacts
<1>d. BaseName(k, m.spec) \in Names
  BY <1>b, <1>c, BaseNameType
<1>e. Fail => Going
  BY <1>a, FailType
<1>f. Done => Going
  BY <1>b, StopType DEF Done, KeyTypeOK
<1>g. ASSUME NEW pc \in Steps, NEW o \in Objects(KeySpecs), Exists(o),
             NEW x \in GarageKeys, UNCHANGED queue,
             w' = [pc |-> pc, k |-> k, mem |-> o, info |-> x]
      PROVE  Going
  <2>1. w'.pc = pc /\ w'.k = k /\ w'.mem = o
    BY <1>g
  <2> QED BY <1>b, <1>g, <2>1 DEF Work, Holding, Exists, KeyTypeOK
<1>h. ASSUME NEW pc \in Steps, Goto(pc) PROVE Going
  <2>1. w' = [pc |-> pc, k |-> k, mem |-> m, info |-> w.info] /\ UNCHANGED queue
    BY <1>b, <1>h DEF Goto, Work
  <2> QED BY <1>b, <1>g, <2>1
<1>i. ASSUME NEW pc \in Steps, NEW o \in Objects(KeySpecs), Exists(o),
             w' = [w EXCEPT !.pc = pc, !.mem = o], UNCHANGED queue
      PROVE  Going
  <2>1. w' = [pc |-> pc, k |-> k, mem |-> o, info |-> w.info]
    BY <1>b, <1>i DEF Work
  <2> QED BY <1>b, <1>g, <1>i, <2>1
<1>j. ASSUME NEW pc \in Steps, NEW x \in GarageKeys,
             w' = [w EXCEPT !.pc = pc, !.info = x], UNCHANGED queue
      PROVE  Going
  <2>1. w' = [pc |-> pc, k |-> k, mem |-> m, info |-> x]
    BY <1>b, <1>j DEF Work
  <2> QED BY <1>b, <1>g, <1>j, <2>1
<1>k. AfterFind(m) \in Steps
  BY DEF AfterFind, Steps
<1>l. \A x \in Matches(k, m) : x \in GarageKeys
  BY <1>b DEF Matches, KeyTypeOK
<1> HIDE DEF Going
<1>1. ASSUME AddFinalizer PROVE TypeInv'
  <2> DEFINE n == [m EXCEPT !.fin = TRUE]
  <2>1. n \in Objects(KeySpecs) /\ Exists(n)
    <3>1. n \in Objects(KeySpecs)
      BY <1>b, ObjectFacts
    <3> QED BY <3>1, <1>b, ObjectFacts DEF Exists
  <2>2. w' = [w EXCEPT !.pc = "find", !.mem = n] /\ UNCHANGED queue => Going
    BY <1>i, <2>1 DEF Steps
  <2>3. Going
    BY <1>1, <2>2, <1>e DEF AddFinalizer, Answered
  <2>4. log' \in [Keys -> Seq(Objects(KeySpecs)) \ {<<>>}]
    BY <1>1, <2>1, <1>b, WriteLog DEF AddFinalizer, KeyTypeOK
  <2>5. faults' \in 0 .. MaxFaults
    BY <1>1, <1>b, FaultType DEF AddFinalizer, Answered
  <2> QED BY <1>1, <1>b, <2>3, <2>4, <2>5 DEF AddFinalizer, TypeInv, KeyTypeOK, Going
<1>2. ASSUME FindKey PROVE TypeInv'
  <2>1. Goto("create") \/ Goto(AfterFind(m))
    BY <1>2 DEF FindKey
  <2>2. Going
    BY <2>1, <1>h, <1>k DEF Steps
  <2> QED BY <1>2, <1>b, <2>2 DEF FindKey, TypeInv, KeyTypeOK, Going
<1>3. ASSUME CreateKey PROVE TypeInv'
  <2>1. Going
    BY <1>3, <1>e, <1>h, <1>k DEF CreateKey, Answered
  <2>2. [id |-> ids + 1, uid |-> m.uid, name |-> BaseName(k, m.spec)] \in GarageKeys
    BY <1>b, <1>c, <1>d DEF KeyTypeOK, GarageKeys
  <2>3. gk' \subseteq GarageKeys /\ ids' \in Nat
    BY <1>3, <1>b, <2>2 DEF CreateKey, KeyTypeOK
  <2>4. faults' \in 0 .. MaxFaults
    BY <1>3, <1>b, FaultType DEF CreateKey, Answered
  <2> QED BY <1>3, <1>b, <2>1, <2>3, <2>4 DEF CreateKey, TypeInv, KeyTypeOK, Going
<1>4. ASSUME NEW pc, NEW next \in Steps, GetKey(pc, next) PROVE TypeInv'
  <2>1. Going
    BY <1>4, <1>e, <1>j, <1>l DEF GetKey
  <2> QED BY <1>4, <1>b, <2>1 DEF GetKey, TypeInv, KeyTypeOK, Going
<1>5. ASSUME PatchStatus PROVE TypeInv'
  <2> DEFINE n == [Api(k) EXCEPT !.id = w.info.id]
  <2>1. CASE Exists(Api(k))
    <3>1. n \in Objects(KeySpecs) /\ Exists(n)
      <4>1. w.info.id \in Nat /\ Api(k) \in Objects(KeySpecs)
        BY <1>b, ApiType DEF GarageKeys
      <4>2. n \in Objects(KeySpecs)
        BY <4>1, <2>1, ObjectFacts
      <4> QED BY <4>1, <4>2, <2>1, ObjectFacts DEF Exists
    <3>2. w' = [w EXCEPT !.pc = "secretInfo", !.mem = n] /\ UNCHANGED queue => Going
      BY <1>i, <3>1 DEF Steps
    <3>3. Going
      BY <1>5, <2>1, <3>2, <1>e DEF PatchStatus, Answered
    <3>4. log' \in [Keys -> Seq(Objects(KeySpecs)) \ {<<>>}]
      BY <1>5, <2>1, <3>1, <1>b, WriteLog DEF PatchStatus
    <3>5. faults' \in 0 .. MaxFaults
      BY <1>5, <2>1, <1>b, FaultType DEF PatchStatus, Answered
    <3> QED BY <1>5, <1>b, <3>3, <3>4, <3>5 DEF PatchStatus, TypeInv, KeyTypeOK, Going
  <2>2. CASE ~Exists(Api(k))
    BY <1>5, <2>2, <1>b, <1>e DEF PatchStatus, TypeInv, KeyTypeOK, Going
  <2> QED BY <2>1, <2>2
<1>6. ASSUME PutSecret PROVE TypeInv'
  <2> DEFINE n == SecretName(k, m.spec)
             c == Cached(sec[n])
  <2>1. n \in Names /\ c \in Secrets
    <3>1. n \in Names
      BY <1>d DEF SecretName
    <3> QED BY <3>1, <1>b, SecretType
  <2>2. ExpectedSecret(c) \in Secrets
    BY <1>b, <1>c, <2>1 DEF ExpectedSecret, Secrets, Layout, Layouts
  <2>3. Going
    BY <1>6, <1>e, <1>f DEF PutSecret, Answered
  <2>4. sec' \in [Names -> Seq(Secrets) \ {<<>>}]
    <3> HIDE DEF n, c
    <3>1. PutSec(n, ExpectedSecret(c)) \/ UNCHANGED sec
      BY <1>6 DEF PutSecret, n, c
    <3> QED BY <3>1, <1>b, <2>1, <2>2, PutSecType DEF KeyTypeOK
  <2>5. faults' \in 0 .. MaxFaults
    BY <1>6, <1>b, FaultType DEF PutSecret, Answered
  <2> QED BY <1>6, <1>b, <2>3, <2>4, <2>5 DEF PutSecret, TypeInv, KeyTypeOK, Going
<1>7. ASSUME GetKeyForDeletion PROVE TypeInv'
  <2>1. Going
    BY <1>7, <1>h, <1>j, <1>l DEF GetKeyForDeletion, Steps
  <2> QED BY <1>7, <1>b, <2>1 DEF GetKeyForDeletion, TypeInv, KeyTypeOK, Going
<1>8. ASSUME DeleteKey PROVE TypeInv'
  <2>1. Going
    BY <1>8, <1>e, <1>h DEF DeleteKey, Answered, Steps
  <2>2. gk' \subseteq GarageKeys
    BY <1>8, <1>b DEF DeleteKey, KeyTypeOK
  <2>3. faults' \in 0 .. MaxFaults
    BY <1>8, <1>b, FaultType DEF DeleteKey, Answered
  <2> QED BY <1>8, <1>b, <2>1, <2>2, <2>3 DEF DeleteKey, TypeInv, KeyTypeOK, Going
<1>9. ASSUME RemoveFinalizer PROVE TypeInv'
  <2>1. Unfinalized(m) \in Objects(KeySpecs)
    BY <1>b, ObjectFacts
  <2>2. Going
    BY <1>9, <1>e, <1>f DEF RemoveFinalizer, Answered
  <2>3. log' \in [Keys -> Seq(Objects(KeySpecs)) \ {<<>>}]
    BY <1>9, <2>1, <1>b, WriteLog DEF RemoveFinalizer, KeyTypeOK
  <2>4. faults' \in 0 .. MaxFaults
    BY <1>9, <1>b, FaultType DEF RemoveFinalizer, Answered
  <2> QED BY <1>9, <1>b, <2>2, <2>3, <2>4 DEF RemoveFinalizer, TypeInv, KeyTypeOK, Going
<1>10. "status" \in Steps /\ "secret" \in Steps
  BY DEF Steps
<1> QED
  BY <1>1, <1>2, <1>3, <1>4, <1>5, <1>6, <1>7, <1>8, <1>9, <1>10 DEF Worker

LEMMA ManagerType ==
    ASSUME TypeInv, Manager
    PROVE  TypeInv'
<1>1. KeyTypeOK
  BY DEF TypeInv
<1>2. CASE Resync
  BY <1>1, <1>2 DEF Resync, TypeInv, KeyTypeOK, Holding
<1>3. CASE Crash
  <2>1. \A k \in Keys : Relisted(log[k]) \in Seq(Objects(KeySpecs)) \ {<<>>}
    BY <1>1, LogRelist DEF KeyTypeOK
  <2>2. \A n \in Names : Relisted(sec[n]) \in Seq(Secrets) \ {<<>>}
    BY <1>1, LogRelist DEF KeyTypeOK
  <2>3. w' \in Work /\ Holding' /\ faults' \in 0 .. MaxFaults
    BY <1>1, <1>3, StopType, FaultType DEF Crash
  <2> QED BY <1>1, <1>3, <2>1, <2>2, <2>3 DEF Crash, TypeInv, KeyTypeOK
<1>4. ASSUME NEW k \in Keys, Informer(k) PROVE TypeInv'
  <2>1. Tail(log[k]) \in Seq(Objects(KeySpecs)) \ {<<>>}
    BY <1>1, <1>4, LogTail DEF Informer, KeyTypeOK
  <2> QED BY <1>1, <1>4, <2>1 DEF Informer, TypeInv, KeyTypeOK, Holding
<1>5. ASSUME NEW n \in Names, SecretInformer(n) PROVE TypeInv'
  <2>1. Tail(sec[n]) \in Seq(Secrets) \ {<<>>}
    BY <1>1, <1>5, LogTail DEF SecretInformer, KeyTypeOK
  <2> QED BY <1>1, <1>5, <2>1 DEF SecretInformer, TypeInv, KeyTypeOK, Holding
<1> QED BY <1>2, <1>3, <1>4, <1>5 DEF Manager

LEMMA EnvironmentType ==
    ASSUME TypeInv, Environment
    PROVE  TypeInv'
<1>1. KeyTypeOK
  BY DEF TypeInv
<1>2. UNCHANGED w
  BY DEF Environment, UserCreate, UserEdit, UserDelete, AdminDelete, UserPutSecret,
         UserDeleteSecret, GarbageCollect, ClusterLost, ClusterBack
<1>3. Holding'
  BY <1>2 DEF TypeInv, Holding
<1>4. Op => ops' \in 0 .. MaxOps
  BY <1>1, KeyBoundsAssumption DEF Op, KeyTypeOK
<1>5. ASSUME NEW k \in Keys, NEW s \in SpecsOf[k], UserCreate(k, s) PROVE TypeInv'
  <2>1. Created(uids + 1, s) \in Objects(KeySpecs)
    <3>1. uids + 1 \in Nat \ {0} /\ s \in KeySpecs
      BY <1>1, KeySpecsAssumption DEF KeyTypeOK
    <3> QED BY <3>1 DEF Objects, Created
  <2>2. log' \in [Keys -> Seq(Objects(KeySpecs)) \ {<<>>}]
    BY <1>1, <1>5, <2>1, WriteLog DEF UserCreate
  <2> QED BY <1>1, <1>3, <1>4, <1>5, <2>2 DEF UserCreate, TypeInv, KeyTypeOK
<1>6. ASSUME NEW k \in Keys, NEW s \in SpecsOf[k], UserEdit(k, s) PROVE TypeInv'
  <2> DEFINE o == [Api(k) EXCEPT !.spec = s]
  <2>1. o \in Objects(KeySpecs)
    <3>1. s \in KeySpecs
      BY KeySpecsAssumption
    <3> QED BY <1>1, <1>6, <3>1, ApiType, ObjectFacts DEF UserEdit
  <2>2. log' \in [Keys -> Seq(Objects(KeySpecs)) \ {<<>>}]
    BY <1>1, <1>6, <2>1, WriteLog DEF UserEdit
  <2> QED BY <1>1, <1>3, <1>4, <1>6, <2>2 DEF UserEdit, TypeInv, KeyTypeOK
<1>7. ASSUME NEW k \in Keys, UserDelete(k) PROVE TypeInv'
  <2>1. Deleted(Api(k)) \in Objects(KeySpecs)
    BY <1>1, <1>7, ApiType, ObjectFacts DEF UserDelete
  <2>2. log' \in [Keys -> Seq(Objects(KeySpecs)) \ {<<>>}]
    BY <1>1, <1>7, <2>1, WriteLog DEF UserDelete
  <2> QED BY <1>1, <1>3, <1>4, <1>7, <2>2 DEF UserDelete, TypeInv, KeyTypeOK
<1>8. ASSUME NEW x \in gk, AdminDelete(x) PROVE TypeInv'
  BY <1>1, <1>3, <1>4, <1>8 DEF AdminDelete, TypeInv, KeyTypeOK
<1>9. ASSUME NEW n \in Names, NEW c \in Secrets, PutSec(n, c),
             Op \/ UNCHANGED ops,
             UNCHANGED <<log, queue, w, gk, ids, cluster, uids, faults>>
      PROVE  TypeInv'
  BY <1>1, <1>3, <1>4, <1>9, PutSecType DEF TypeInv, KeyTypeOK
<1>10. ASSUME NEW n \in UserSecrets, UserPutSecret(n) \/ UserDeleteSecret(n) PROVE TypeInv'
  <2>1. n \in Names /\ NoInfo \in GarageKeys
    BY KeyNamesAssumption DEF NoInfo, GarageKeys
  <2>2. [Live(sec[n]) EXCEPT !.cred = NoInfo, !.layout = "env"] \in Secrets
    BY <1>1, <2>1, SecretType DEF Secrets, Layouts
  <2> QED BY <1>9, <1>10, <2>1, <2>2, NoSecretType DEF UserPutSecret, UserDeleteSecret
<1>11. ASSUME NEW n \in Names, GarbageCollect(n) PROVE TypeInv'
  <2> DEFINE c    == Live(sec[n])
             left == [k \in Keys |-> IF c.owner[k] = Api(k).uid THEN c.owner[k] ELSE 0]
  <2>1. c \in Secrets
    BY <1>1, SecretType
  <2>2. left \in [Keys -> Nat]
    BY <2>1 DEF Secrets
  <2>3. [c EXCEPT !.owner = left] \in Secrets
    BY <2>1, <2>2 DEF Secrets
  <2>4. \/ PutSec(n, NoSecret)
        \/ PutSec(n, [c EXCEPT !.owner = left])
    BY <1>11 DEF GarbageCollect
  <2> HIDE DEF c, left
  <2> QED BY <1>9, <1>11, <2>3, <2>4, NoSecretType DEF GarbageCollect
<1>12. CASE ClusterLost \/ ClusterBack
  BY <1>1, <1>3, <1>12, FaultType DEF ClusterLost, ClusterBack, TypeInv, KeyTypeOK
<1> QED BY <1>5, <1>6, <1>7, <1>8, <1>10, <1>11, <1>12 DEF Environment

LEMMA BeginType ==
    ASSUME TypeInv, NEW k \in Keys, Begin(k)
    PROVE  TypeInv'
<1> DEFINE m == Cached(log[k])
<1>1. KeyTypeOK /\ m \in Objects(KeySpecs)
  BY ApiType DEF TypeInv
<1>2. w' \in Work /\ Holding'
  <2>1. CASE w' = Idle
    BY <2>1, StopType
  <2>2. CASE w' # Idle
    <3>1. w' = [pc |-> FirstStep(m), k |-> k, mem |-> m, info |-> NoInfo] /\ Exists(m)
      BY <2>2 DEF Begin
    <3>2. FirstStep(m) \in Steps /\ NoInfo \in GarageKeys
      BY DEF FirstStep, Steps, NoInfo, GarageKeys
    <3> QED BY <1>1, <3>1, <3>2 DEF Work, Holding
  <2> QED BY <2>1, <2>2
<1> QED BY <1>1, <1>2 DEF Begin, TypeInv, KeyTypeOK

LEMMA TypeInvInductive == TypeInv /\ [Next]_vars => TypeInv'
<1> SUFFICES ASSUME TypeInv, [Next]_vars PROVE TypeInv'
  OBVIOUS
<1>1. CASE CallFails
  <2>1. w.pc # "idle" /\ Fault /\ Fail /\ KeyTypeOK
    BY <1>1 DEF CallFails, At, TypeInv
  <2> QED BY <1>1, <2>1, FailType, FaultType DEF CallFails, TypeInv, KeyTypeOK
<1>2. CASE UNCHANGED vars
  BY <1>2 DEF vars, TypeInv, KeyTypeOK, Holding
<1> QED
  BY <1>1, <1>2, BeginType, WorkerType, ManagerType, EnvironmentType DEF Next

LEMMA TypeInvInit == Init => TypeInv
<1> SUFFICES ASSUME Init PROVE TypeInv
  OBVIOUS
<1>1. <<Absent>> \in Seq(Objects(KeySpecs)) \ {<<>>}
  BY DEF Objects
<1>2. <<NoSecret>> \in Seq(Secrets) \ {<<>>}
  BY NoSecretType
<1>3. w \in Work /\ Holding
  BY DEF Init, Idle, Work, Steps, Objects, Absent, GarageKeys, NoInfo, Holding
<1> QED
  BY <1>1, <1>2, <1>3, KeyBoundsAssumption DEF Init, TypeInv, KeyTypeOK

(* The types hold throughout, for the worker's request and copies too: it  *)
(* never addresses a key or a Secret under a name that is none.            *)
THEOREM KeyTypeCorrect == Spec => []KeyTypeOK
<1>1. TypeInv => KeyTypeOK
  BY DEF TypeInv
<1> QED BY <1>1, TypeInvInit, TypeInvInductive, PTL DEF Spec

-----------------------------------------------------------------------------
(* The invariant.                                                          *)

ReconcileSteps == {"find", "create", "statusInfo", "status", "secretInfo", "secret"}
DeletionSteps  == {"delInfo", "delKey", "unfinalize"}

(* The CRs: UIDs are never used again. *)
LogInv ==
    /\ \A k \in Keys : LogInOrder(log[k])
    /\ \A k \in Keys : \A v \in Versions(log[k]) :
         v.uid <= uids /\ (Exists(v) => v.spec \in SpecsOf[k])
    /\ \A k, l \in Keys :
         Exists(Api(k)) /\ Api(k).uid = Api(l).uid => k = l

(* The keys of the Garage cluster: while the CR of a key is stored, it has *)
(* its finalizer.                                                          *)
GarageInv ==
    /\ OneKeyPerTarget
    /\ \A x \in gk : x.uid <= uids /\ x.id <= ids
    /\ \A x \in gk, k \in Keys :
         Exists(Api(k)) /\ x.uid = Api(k).uid => Api(k).fin
    /\ \A x, y \in gk : x.id = y.id => x = y

(* What a reconcile brings about, it brings about for the stored object.   *)
HeldWork ==
    w.pc \in ReconcileSteps => Api(w.k).uid = w.mem.uid /\ Api(w.k).fin

DeletionHeld ==
    w.pc \in DeletionSteps =>
        /\ w.mem.deleting /\ w.mem.fin
        /\ \A v \in Versions(log[w.k]) : v.uid = w.mem.uid => v.deleting

(* What the worker knows of the keys: only it makes any. *)
KeyKnown ==
    /\ w.pc = "create" => Matches(w.k, w.mem) = {}
    /\ w.pc \in {"status", "secret"} => w.info.uid = w.mem.uid
    /\ w.pc = "delKey" => Matches(w.k, w.mem) \subseteq {w.info}
    /\ w.pc = "unfinalize" /\ ~w.mem.spec.retain => Matches(w.k, w.mem) = {}

WorkInv ==
    /\ w.mem.uid <= uids
    /\ w.pc # "idle" => w.mem.spec \in SpecsOf[w.k]
    /\ w.pc = "finalize" => ~w.mem.deleting
    /\ w.pc \in {"delInfo", "delKey"} => ~w.mem.spec.retain
    /\ HeldWork
    /\ DeletionHeld
    /\ KeyKnown

KeyInv == TypeInv /\ LogInv /\ GarageInv /\ WorkInv

-----------------------------------------------------------------------------
(* What a step does to the CRs: to each nothing but its status.id, or to   *)
(* one of them one change of its life, Garage being left alone.            *)

Edited(k, o) == EditOf(Api(k), o, SpecsOf[k])

New(k) == /\ ~Exists(Api(k))
          /\ \E s \in SpecsOf[k] : Live(log'[k]) = Created(uids + 1, s)
          /\ uids' = uids + 1 /\ UNCHANGED w

Gone(k) == /\ Live(log'[k]) = Absent
           /\ UNCHANGED uids
           /\ \/ ~Api(k).fin /\ ~Api(k).deleting /\ UNCHANGED w
              \/ w.pc = "unfinalize" /\ w.k = k /\ w.mem = Api(k) /\ w' = Idle

Changed(k) ==
    /\ UNCHANGED <<gk, ids>> /\ \A l \in Keys \ {k} : log'[l] = log[l]
    /\ (Edited(k, Live(log'[k])) /\ UNCHANGED uids) \/ New(k) \/ Gone(k)

LogStep(k) ==
    /\ LogInOrder(log'[k])
    /\ Versions(log'[k]) \subseteq Versions(log[k]) \cup {Live(log'[k])}
    /\ Alike(Api(k), Live(log'[k])) \/ Changed(k)

(* One CR changes, or all are as they were. *)
LogMove ==
    /\ \A k \in Keys : LogStep(k)
    /\ \/ UNCHANGED uids /\ \A k \in Keys : Alike(Api(k), Live(log'[k]))
       \/ \E k \in Keys : Changed(k)

LEMMA VersionType ==
    ASSUME KeyTypeOK, NEW k \in Keys
    PROVE  /\ Versions(log[k]) \subseteq Objects(KeySpecs)
           /\ Api(k) \in Versions(log[k]) /\ Cached(log[k]) \in Versions(log[k])
<1>1. log[k] \in Seq(Objects(KeySpecs)) \ {<<>>}
  BY DEF KeyTypeOK
<1> QED BY <1>1, LogRead, LiveIsVersion DEF Versions, Api

LEMMA EditedKept ==
    ASSUME KeyTypeOK, NEW k \in Keys, NEW o, Edited(k, o)
    PROVE  o \in Objects(KeySpecs) /\ Exists(o) /\ Kept(Api(k), o)
BY EditKept, ApiType, KeySpecsAssumption DEF Edited

(* The logs after a write, but for the kind of change. *)
LEMMA StoreLogs ==
    ASSUME KeyTypeOK, LogInv, NEW k \in Keys, NEW o \in Objects(KeySpecs), Write(k, o),
           Follows(o, log[k]),
           \/ Alike(Api(k), o) /\ UNCHANGED uids
           \/ Live(log'[k]) = o /\ (\A l \in Keys \ {k} : log'[l] = log[l]) => Changed(k)
    PROVE  LogMove
<1>1. /\ Live(log'[k]) = o
      /\ \A l \in Keys \ {k} : log'[l] = log[l]
      /\ Versions(log'[k]) \subseteq Versions(log[k]) \cup {o}
      /\ LogInOrder(log'[k])
  BY WriteLog DEF LogInv
<1>2. LogStep(k)
  BY <1>1 DEF LogStep
<1>3. ASSUME NEW l \in Keys \ {k} PROVE LogStep(l) /\ Alike(Api(l), Live(log'[l]))
  BY <1>1, <1>3 DEF LogStep, LogInv, Alike, Api
<1> QED BY <1>1, <1>2, <1>3 DEF LogMove

LEMMA StillLogs ==
    ASSUME LogInv, UNCHANGED <<log, uids>>
    PROVE  LogMove
BY DEF LogInv, LogStep, LogMove, Alike, Api

LEMMA EditLogs ==
    ASSUME KeyTypeOK, LogInv, NEW k \in Keys, NEW o, Write(k, o), Edited(k, o),
           UNCHANGED <<gk, ids, uids>>
    PROVE  LogMove
<1>1. o \in Objects(KeySpecs) /\ Kept(Api(k), o)
  BY EditedKept
<1>2. Follows(o, log[k])
  BY <1>1, KeptFollows, ApiType DEF LogInv, Api
<1> QED BY <1>1, <1>2, StoreLogs DEF Changed

LEMMA AbsentLogs ==
    ASSUME KeyTypeOK, LogInv, NEW k \in Keys, Write(k, Absent),
           \A v \in Versions(log[k]) : ~v.fin \/ v.deleting,
           UNCHANGED <<gk, ids, uids>>, Live(log'[k]) = Absent => Gone(k)
    PROVE  LogMove
<1>1. Absent \in Objects(KeySpecs)
  BY DEF Objects
<1>2. Follows(Absent, log[k])
  BY AbsentFollows, ApiType
<1> QED BY <1>1, <1>2, StoreLogs DEF Changed

LEMMA LogMoves ==
    ASSUME KeyInv, [Next]_vars
    PROVE  LogMove
<1>1. TypeInv /\ KeyTypeOK /\ LogInv /\ WorkInv
  BY DEF KeyInv, TypeInv
<1>2. ASSUME w.pc # "idle"
      PROVE  w.k \in Keys /\ w.mem \in Objects(KeySpecs) /\ Exists(w.mem) /\ w.info.id \in Nat
  BY <1>1, <1>2 DEF TypeInv, Holding, KeyTypeOK, Work, GarageKeys
<1>3. ASSUME AddFinalizer PROVE LogMove
  <2> DEFINE o == [w.mem EXCEPT !.fin = TRUE]
  <2>1. CASE Api(w.k) = w.mem
    <3>1. w.k \in Keys /\ Exists(w.mem) /\ ~w.mem.deleting
      BY <1>1, <1>2, <1>3 DEF AddFinalizer, At, WorkInv
    <3>2. Edited(w.k, o)
      BY <2>1, <3>1 DEF Edited, EditOf
    <3>3. Write(w.k, o) /\ UNCHANGED <<gk, ids, uids>>
      BY <1>3, <2>1 DEF AddFinalizer
    <3> HIDE DEF o
    <3> QED BY <1>1, <3>1, <3>2, <3>3, EditLogs
  <2>2. CASE Api(w.k) # w.mem
    BY <1>1, <1>3, <2>2, StillLogs DEF AddFinalizer
  <2> QED BY <2>1, <2>2
<1>4. ASSUME PatchStatus PROVE LogMove
  <2> DEFINE o == [Api(w.k) EXCEPT !.id = w.info.id]
  <2>1. CASE Exists(Api(w.k))
    <3>1. w.k \in Keys /\ w.info.id \in Nat /\ Api(w.k) \in Objects(KeySpecs)
      BY <1>1, <1>2, <1>4, ApiType DEF PatchStatus, At
    <3>2. o \in Objects(KeySpecs) /\ Alike(Api(w.k), o)
      BY <2>1, <3>1, ObjectFacts DEF Alike
    <3>3. Follows(o, log[w.k])
      BY <1>1, <3>1, <3>2, AlikeKept, KeptFollows, ApiType DEF LogInv, Api
    <3>4. Write(w.k, o) /\ UNCHANGED uids
      BY <1>4, <2>1 DEF PatchStatus
    <3> HIDE DEF o
    <3> QED BY <1>1, <3>1, <3>2, <3>3, <3>4, StoreLogs
  <2>2. CASE ~Exists(Api(w.k))
    BY <1>1, <1>4, <2>2, StillLogs DEF PatchStatus
  <2> QED BY <2>1, <2>2
<1>5. ASSUME RemoveFinalizer PROVE LogMove
  <2>1. w.k \in Keys /\ w.mem \in Objects(KeySpecs) /\ w.pc = "unfinalize"
    BY <1>2, <1>5 DEF RemoveFinalizer, At
  <2>2. CASE Api(w.k) = w.mem
    <3>1. Unfinalized(w.mem) = Absent
      BY <1>1, <2>1 DEF WorkInv, DeletionHeld, DeletionSteps, Unfinalized
    <3>2. \A v \in Versions(log[w.k]) : ~v.fin \/ v.deleting
      BY <1>1, <2>1, <2>2 DEF WorkInv, LogInv, LogInOrder, DeletionHeld, DeletionSteps, Api
    <3>3. Write(w.k, Absent) /\ w' = Idle /\ UNCHANGED <<gk, ids, uids>>
      BY <1>5, <2>2, <3>1 DEF RemoveFinalizer, Answered, Done, Fail
    <3>4. Live(log'[w.k]) = Absent => Gone(w.k)
      BY <2>1, <2>2, <3>3 DEF Gone
    <3> QED BY <1>1, <2>1, <3>2, <3>3, <3>4, AbsentLogs
  <2>3. CASE Api(w.k) # w.mem
    BY <1>1, <1>5, <2>3, StillLogs DEF RemoveFinalizer
  <2> QED BY <2>2, <2>3
<1>6. ASSUME NEW k \in Keys, NEW s \in SpecsOf[k], UserCreate(k, s) PROVE LogMove
  <2> DEFINE o == Created(uids + 1, s)
  <2>1. s \in KeySpecs /\ uids \in Nat
    BY <1>1, KeySpecsAssumption DEF KeyTypeOK
  <2>2. o \in Objects(KeySpecs) /\ o.uid = uids + 1
    BY <2>1 DEF Created, Objects
  <2>3. \A v \in Versions(log[k]) : v.uid # uids + 1
    <3>1. \A v \in Versions(log[k]) : v.uid \in Nat /\ v.uid <= uids
      BY <1>1, VersionType DEF LogInv, Objects, Absent
    <3> QED BY <2>1, <3>1
  <2>4. Follows(o, log[k])
    BY <1>1, <1>6, <2>2, <2>3, ApiType, FreshFollows DEF UserCreate, LogInv, Api
  <2>5. Write(k, o) /\ (Live(log'[k]) = o => New(k)) /\ UNCHANGED <<gk, ids>>
    BY <1>6 DEF UserCreate, New
  <2> HIDE DEF o
  <2> QED BY <1>1, <2>2, <2>4, <2>5, StoreLogs DEF Changed
<1>7. ASSUME NEW k \in Keys, NEW s \in SpecsOf[k], UserEdit(k, s) PROVE LogMove
  <2> DEFINE o == [Api(k) EXCEPT !.spec = s]
  <2>1. Edited(k, o) /\ Write(k, o) /\ UNCHANGED <<gk, ids, uids>>
    BY <1>7 DEF UserEdit, Edited, EditOf
  <2> HIDE DEF o
  <2> QED BY <1>1, <2>1, EditLogs
<1>8. ASSUME NEW k \in Keys, UserDelete(k) PROVE LogMove
  <2>1. UNCHANGED <<gk, ids, uids, w>> /\ Write(k, Deleted(Api(k)))
        /\ Exists(Api(k)) /\ ~Api(k).deleting
    BY <1>8 DEF UserDelete
  <2>2. CASE Api(k).fin
    <3>1. Edited(k, Deleted(Api(k)))
      BY <2>1, <2>2 DEF Edited, EditOf, Deleted
    <3> QED BY <1>1, <2>1, <3>1, EditLogs
  <2>3. CASE ~Api(k).fin
    <3>1. Write(k, Absent)
      BY <2>1, <2>3 DEF Deleted
    <3>2. \A v \in Versions(log[k]) : ~v.fin \/ v.deleting
      BY <1>1, <2>3 DEF LogInv, LogInOrder, Api
    <3>3. Live(log'[k]) = Absent => Gone(k)
      BY <2>1, <2>3 DEF Gone
    <3> QED BY <1>1, <2>1, <3>1, <3>2, <3>3, AbsentLogs
  <2> QED BY <2>2, <2>3
<1>9. ASSUME NEW k \in Keys, Informer(k) PROVE LogMove
  <2>1. log[k] \in Seq(Objects(KeySpecs)) \ {<<>>} /\ Len(log[k]) > 1
    BY <1>1, <1>9 DEF Informer, KeyTypeOK
  <2>2. log'[k] = Tail(log[k]) /\ \A l \in Keys \ {k} : log'[l] = log[l]
    BY <1>1, <1>9 DEF Informer, KeyTypeOK
  <2>3. LogStep(k) /\ Alike(Api(k), Live(log'[k]))
    BY <1>1, <2>1, <2>2, LogTail, TailInOrder DEF LogStep, Alike, Api, LogInv
  <2>4. ASSUME NEW l \in Keys \ {k} PROVE LogStep(l) /\ Alike(Api(l), Live(log'[l]))
    BY <1>1, <2>2 DEF LogStep, Alike, Api, LogInv
  <2> QED BY <1>9, <2>3, <2>4 DEF LogMove, Informer
<1>10. ASSUME Crash PROVE LogMove
  <2>1. ASSUME NEW k \in Keys PROVE LogStep(k) /\ Alike(Api(k), Live(log'[k]))
    <3>1. log[k] \in Seq(Objects(KeySpecs)) \ {<<>>} /\ log'[k] = Relisted(log[k])
      BY <1>1, <1>10 DEF Crash, KeyTypeOK
    <3> QED BY <3>1, LogRelist, RelistInOrder DEF LogStep, Alike, Api
  <2> QED BY <1>10, <2>1 DEF LogMove, Crash
<1>11. CASE UNCHANGED <<log, uids>>
  BY <1>1, <1>11, StillLogs
<1>12. ASSUME Worker, ~(AddFinalizer \/ PatchStatus \/ RemoveFinalizer)
       PROVE  UNCHANGED <<log, uids>>
  BY <1>12 DEF Worker, FindKey, CreateKey, GetKey, PutSecret, GetKeyForDeletion, DeleteKey
<1>13. CASE Worker
  BY <1>3, <1>4, <1>5, <1>11, <1>12, <1>13
<1>14. CASE Environment
  BY <1>6, <1>7, <1>8, <1>11, <1>14
  DEF Environment, AdminDelete, UserPutSecret, UserDeleteSecret, GarbageCollect,
      ClusterLost, ClusterBack
<1>15. CASE Manager
  BY <1>9, <1>10, <1>11, <1>15 DEF Manager, Resync, SecretInformer
<1>16. CASE UNCHANGED vars \/ CallFails \/ \E k \in Keys : Begin(k)
  BY <1>11, <1>16 DEF vars, CallFails, Begin
<1> QED BY <1>13, <1>14, <1>15, <1>16 DEF Next

-----------------------------------------------------------------------------
(* What a step does to the Garage keys, the CRs being left alone when it   *)
(* does anything: one goes, or the worker makes one.                       *)

KeyLost == \E x \in gk : gk' = gk \ {x} /\ UNCHANGED <<log, ids, uids>>

KeyMade ==
    /\ w.pc = "create" /\ w'.pc # "create"
    /\ gk' = gk \cup {[id |-> ids + 1, uid |-> w.mem.uid,
                       name |-> BaseName(w.k, w.mem.spec)]}
    /\ ids' = ids + 1 /\ UNCHANGED <<log, uids>>

GarageMove == UNCHANGED <<gk, ids>> \/ KeyLost \/ KeyMade

LEMMA GarageMoves ==
    ASSUME KeyInv, [Next]_vars
    PROVE  GarageMove
<1>1. KeyTypeOK /\ GarageInv
  BY DEF KeyInv, TypeInv
<1>2. CASE UNCHANGED <<gk, ids>>
  BY <1>2 DEF GarageMove
<1>3. CASE CreateKey
  <2>1. Fail \/ Goto(AfterFind(w.mem))
    BY <1>3 DEF CreateKey, Answered
  <2>2. w'.pc # "create"
    <3>1. w' = Idle \/ w' = [w EXCEPT !.pc = AfterFind(w.mem)]
      BY <2>1 DEF Fail, Goto
    <3>2. AfterFind(w.mem) # "create" /\ Idle.pc # "create" /\ w \in Work
      BY <1>1 DEF AfterFind, Idle, KeyTypeOK
    <3> QED BY <3>1, <3>2 DEF Work
  <2> QED BY <1>3, <2>2 DEF CreateKey, At, GarageMove, KeyMade
<1>4. CASE DeleteKey
  <2>1. CASE \E x \in gk : x.id = w.info.id
    <3>1. PICK x \in gk : x.id = w.info.id
      BY <2>1
    <3>2. gk' = {y \in gk : y.id # w.info.id} /\ UNCHANGED <<log, ids, uids>>
      BY <1>4, <2>1 DEF DeleteKey
    <3>3. \A y \in gk : y.id = w.info.id <=> y = x
      BY <1>1, <3>1 DEF GarageInv
    <3>4. gk' = gk \ {x}
      BY <3>2, <3>3
    <3> QED BY <3>1, <3>2, <3>4 DEF GarageMove, KeyLost
  <2> QED BY <1>2, <1>4, <2>1 DEF DeleteKey
<1>5. CASE Worker
  BY <1>2, <1>3, <1>4, <1>5
  DEF Worker, AddFinalizer, FindKey, GetKey, PatchStatus, PutSecret, GetKeyForDeletion,
      RemoveFinalizer
<1>6. CASE Manager
  BY <1>2, <1>6 DEF Manager, Resync, Crash, Informer, SecretInformer
<1>7. CASE Environment
  <2>1. UNCHANGED <<gk, ids>> \/ \E x \in gk : AdminDelete(x)
    BY <1>7 DEF Environment, UserCreate, UserEdit, UserDelete, UserPutSecret,
                UserDeleteSecret, GarbageCollect, ClusterLost, ClusterBack
  <2> QED BY <1>2, <2>1 DEF AdminDelete, GarageMove, KeyLost
<1>8. CASE UNCHANGED vars \/ CallFails \/ \E k \in Keys : Begin(k)
  BY <1>2, <1>8 DEF vars, CallFails, Begin
<1> QED BY <1>5, <1>6, <1>7, <1>8 DEF Next

LEMMA UidsGrow ==
    ASSUME KeyInv, [Next]_vars
    PROVE  uids \in Nat /\ uids' \in Nat /\ uids <= uids'
<1>1. uids \in Nat /\ uids' \in Nat
  BY TypeInvInductive DEF KeyInv, TypeInv, KeyTypeOK
<1> QED BY <1>1, LogMoves DEF LogMove, Changed, New, Gone

-----------------------------------------------------------------------------
(* The CRs after a step. *)

LEMMA LogInvStep ==
    ASSUME KeyInv, [Next]_vars
    PROVE  LogInv'
<1>1. /\ \A k \in Keys : LogStep(k)
      /\ uids \in Nat /\ uids' \in Nat /\ uids <= uids'
      /\ KeyTypeOK /\ LogInv
  BY LogMoves, UidsGrow DEF KeyInv, TypeInv, LogMove
<1>2. \A k \in Keys : Api(k).uid <= uids /\ Api(k).uid \in Nat /\ Api(k).uid # uids + 1
  <2>1. \A k \in Keys : Api(k).uid <= uids /\ Api(k).uid \in Nat
    BY <1>1, VersionType DEF LogInv, Objects, Absent
  <2> QED BY <1>1, <2>1
<1>3. ASSUME NEW k \in Keys
      PROVE  LET o == Live(log'[k]) IN
             o.uid <= uids' /\ (Exists(o) => o.spec \in SpecsOf[k])
  <2> DEFINE o == Live(log'[k])
  <2>1. Exists(Api(k)) => Api(k).spec \in SpecsOf[k]
    BY <1>1, VersionType DEF LogInv
  <2>2. CASE Alike(Api(k), o)
    BY <1>1, <1>2, <2>1, <2>2 DEF Alike, Exists
  <2>3. CASE Edited(k, o)
    <3>1. o.uid = Api(k).uid
      BY <1>1, <2>3, EditedKept DEF Kept, Edited, EditOf
    <3>2. Exists(Api(k)) /\ Api(k) \in [uid: Nat \ {0}, deleting: BOOLEAN, fin: BOOLEAN,
                                        spec: KeySpecs, id: Nat]
      BY <1>1, <2>3, ApiType, ObjectFacts DEF Edited, EditOf
    <3>3. o.spec \in SpecsOf[k]
      BY <2>1, <2>3, <3>2 DEF Edited, EditOf
    <3> QED BY <1>1, <1>2, <3>1, <3>3
  <2>4. CASE New(k)
    BY <1>1, <2>4 DEF New, Created
  <2>5. CASE Gone(k)
    BY <1>1, <2>5 DEF Gone, Absent, Exists
  <2> QED BY <1>1, <2>2, <2>3, <2>4, <2>5 DEF LogStep, Changed
<1>4. ASSUME NEW k \in Keys, NEW v \in Versions(log'[k])
      PROVE  v.uid <= uids' /\ (Exists(v) => v.spec \in SpecsOf[k])
  <2>1. CASE v \in Versions(log[k])
    <3>1. v.uid \in Nat /\ v.uid <= uids
      BY <1>1, <2>1, VersionType DEF LogInv, Objects, Absent
    <3> QED BY <1>1, <2>1, <3>1 DEF LogInv
  <2>2. CASE v = Live(log'[k])
    BY <1>3, <2>2
  <2> QED BY <1>1, <1>4, <2>1, <2>2 DEF LogStep
<1>5. ASSUME NEW k \in Keys
      PROVE  \/ Live(log'[k]) = Absent
             \/ Live(log'[k]).uid = Api(k).uid
             \/ New(k) /\ Live(log'[k]).uid = uids + 1
  <2>1. CASE Edited(k, Live(log'[k]))
    BY <1>1, <2>1, EditedKept DEF Kept, Edited, EditOf
  <2>2. CASE Alike(Api(k), Live(log'[k]))
    BY <2>2 DEF Alike
  <2>3. CASE New(k)
    <3>1. Live(log'[k]).uid = uids + 1
      BY <2>3 DEF New, Created
    <3> QED BY <2>3, <3>1
  <2>4. CASE Gone(k)
    BY <2>4 DEF Gone
  <2> QED BY <1>1, <2>1, <2>2, <2>3, <2>4 DEF LogStep, Changed
<1>6. ASSUME NEW k \in Keys, NEW l \in Keys,
             Exists(Live(log'[k])), Live(log'[k]).uid = Live(log'[l]).uid, k # l
      PROVE  FALSE
  <2>1. Live(log'[k]) # Absent /\ Live(log'[l]) # Absent
    BY <1>6 DEF Absent, Exists
  <2>2. ASSUME NEW x \in Keys, NEW y \in Keys, x # y, New(x), Live(log'[x]).uid = uids + 1
        PROVE  Live(log'[y]).uid # uids + 1
    <3>1. ~Alike(Api(x), Live(log'[x])) /\ uids' # uids
      BY <1>1, <1>2, <2>2 DEF Alike, New
    <3>2. PICK z \in Keys : Changed(z)
      BY <3>1, LogMoves DEF LogMove
    <3>3. z = x
      BY <1>2, <2>2, <3>2 DEF Changed, Api
    <3> QED BY <1>2, <2>2, <3>2, <3>3 DEF Changed, Api
  <2>3. CASE Live(log'[k]).uid = Api(k).uid /\ Live(log'[l]).uid = Api(l).uid
    BY <1>1, <1>6, <2>3 DEF LogInv, Exists
  <2> QED BY <1>5, <1>6, <2>1, <2>2, <2>3
<1> QED BY <1>1, <1>4, <1>6 DEF LogInv, LogStep, Api

-----------------------------------------------------------------------------
(* The Garage keys after a step. *)

LEMMA GarageInvStep ==
    ASSUME KeyInv, [Next]_vars
    PROVE  GarageInv'
<1>1. /\ \A k \in Keys : LogStep(k)
      /\ uids \in Nat /\ uids' \in Nat /\ uids <= uids' /\ ids \in Nat
      /\ KeyTypeOK /\ LogInv /\ GarageInv /\ WorkInv /\ Holding
  BY LogMoves, UidsGrow DEF KeyInv, TypeInv, LogMove, KeyTypeOK
<1>2. \A x \in gk : x.uid \in Nat /\ x.uid <= uids /\ x.id \in Nat /\ x.id <= ids
  BY <1>1 DEF GarageInv, KeyTypeOK, GarageKeys
<1>3. CASE UNCHANGED <<gk, ids>>
  <2>1. ASSUME NEW x \in gk, NEW k \in Keys,
               Exists(Live(log'[k])), x.uid = Live(log'[k]).uid
        PROVE  Live(log'[k]).fin
    <3>1. CASE Alike(Api(k), Live(log'[k]))
      BY <1>1, <2>1, <3>1 DEF Alike, GarageInv, Exists
    <3>2. CASE Edited(k, Live(log'[k]))
      BY <1>1, <2>1, <3>2, EditedKept DEF Kept, Edited, EditOf, GarageInv
    <3>3. CASE New(k)
      <4>1. Live(log'[k]).uid = uids + 1
        BY <3>3 DEF New, Created
      <4> QED BY <1>1, <1>2, <2>1, <4>1
    <3>4. CASE Gone(k)
      BY <2>1, <3>4 DEF Gone, Absent, Exists
    <3> QED BY <1>1, <3>1, <3>2, <3>3, <3>4 DEF LogStep, Changed
  <2>2. \A x \in gk : x.uid <= uids'
    BY <1>1, <1>2
  <2> QED BY <1>1, <1>3, <2>1, <2>2 DEF GarageInv, OneKeyPerTarget, Api
<1>4. CASE KeyLost
  BY <1>1, <1>4 DEF KeyLost, GarageInv, OneKeyPerTarget, Api
<1>5. CASE KeyMade
  <2> DEFINE y == [id |-> ids + 1, uid |-> w.mem.uid, name |-> BaseName(w.k, w.mem.spec)]
  <2>1. gk' = gk \cup {y} /\ ids' = ids + 1 /\ UNCHANGED <<log, uids>> /\ w.pc = "create"
    BY <1>5 DEF KeyMade
  <2>2. /\ w.k \in Keys /\ Exists(w.mem) /\ w.mem.uid <= uids
        /\ Api(w.k).uid = w.mem.uid /\ Api(w.k).fin
        /\ Matches(w.k, w.mem) = {}
    BY <1>1, <2>1 DEF Holding, WorkInv, HeldWork, KeyKnown, ReconcileSteps
  <2>3. /\ y.id = ids + 1 /\ y.uid = w.mem.uid
        /\ \A x \in gk : ~(x.uid = y.uid /\ x.name = y.name)
    BY <2>2 DEF Matches
  <2> HIDE DEF y
  <2>4. \A x \in gk : x.id # y.id /\ x.id <= ids'
    BY <1>1, <1>2, <2>1, <2>3
  <2>5. y.uid <= uids' /\ y.id <= ids'
    BY <1>1, <2>1, <2>2, <2>3
  <2>6. \A k \in Keys : Exists(Api(k)) /\ y.uid = Api(k).uid => Api(k).fin
    BY <1>1, <2>2, <2>3 DEF LogInv
  <2>7. OneKeyPerTarget'
    BY <1>1, <2>1, <2>3 DEF GarageInv, OneKeyPerTarget
  <2> QED BY <1>1, <2>1, <2>4, <2>5, <2>6, <2>7 DEF GarageInv, Api
<1> QED BY <1>3, <1>4, <1>5, GarageMoves DEF GarageMove

-----------------------------------------------------------------------------
(* What the worker holds, after a step. *)

LEMMA HeldStill ==
    ASSUME KeyInv, [Next]_vars, w.pc \in ReconcileSteps
    PROVE  Live(log'[w.k]).uid = w.mem.uid /\ Live(log'[w.k]).fin
<1>1. w.k \in Keys /\ Exists(w.mem) /\ LogStep(w.k) /\ KeyTypeOK
  BY LogMoves DEF KeyInv, TypeInv, Holding, ReconcileSteps, LogMove
<1>2. Api(w.k).uid = w.mem.uid /\ Api(w.k).fin
  BY DEF KeyInv, WorkInv, HeldWork
<1>3. ~New(w.k) /\ ~Gone(w.k)
  BY <1>1, <1>2 DEF New, Gone, Exists, ReconcileSteps
<1>4. Edited(w.k, Live(log'[w.k])) => Kept(Api(w.k), Live(log'[w.k]))
  BY <1>1, EditedKept
<1> QED BY <1>1, <1>2, <1>3, <1>4 DEF LogStep, Changed, Alike, Kept

LEMMA DeletionStill ==
    ASSUME KeyInv, [Next]_vars, w.pc \in DeletionSteps,
           NEW v \in Versions(log'[w.k]), v.uid = w.mem.uid
    PROVE  v.deleting
<1>1. w.k \in Keys /\ Exists(w.mem) /\ LogStep(w.k) /\ KeyTypeOK
  BY LogMoves DEF KeyInv, TypeInv, Holding, DeletionSteps, LogMove
<1>2. /\ \A x \in Versions(log[w.k]) : x.uid = w.mem.uid => x.deleting
      /\ w.mem.uid <= uids /\ w.mem.uid \in Nat
  BY <1>1 DEF KeyInv, WorkInv, DeletionHeld, KeyTypeOK, Work, Objects, Absent
<1>3. w.mem.uid # uids + 1
  BY <1>2, UidsGrow
<1>4. CASE v \in Versions(log[w.k])
  BY <1>2, <1>4
<1>5. CASE v = Live(log'[w.k])
  <2>1. ~New(w.k)
    <3>1. New(w.k) => v.uid = uids + 1
      BY <1>5 DEF New, Created
    <3> QED BY <1>3, <3>1
  <2>2. ~Gone(w.k)
    BY <1>1, <1>5 DEF Gone, Absent, Exists
  <2>3. Alike(Api(w.k), v) \/ Edited(w.k, v)
    BY <1>1, <1>5, <2>1, <2>2 DEF LogStep, Changed
  <2>4. Kept(Api(w.k), v)
    BY <1>1, <2>3, AlikeKept, EditedKept
  <2> QED BY <1>1, <1>2, <2>4, VersionType DEF Kept
<1> QED BY <1>1, <1>4, <1>5 DEF LogStep

LEMMA Stopped ==
    ASSUME KeyInv, [Next]_vars, w' = Idle
    PROVE  WorkInv'
<1>1. uids' \in Nat
  BY UidsGrow
<1> QED BY <1>1 DEF Idle, Absent, WorkInv, HeldWork, DeletionHeld, KeyKnown,
            ReconcileSteps, DeletionSteps

(* The worker goes on reconciling the same object. *)
LEMMA GoesOn ==
    ASSUME KeyInv, [Next]_vars, w.pc \in ReconcileSteps, w'.pc \in ReconcileSteps,
           w'.k = w.k, w'.mem.uid = w.mem.uid, w'.mem.spec \in SpecsOf[w.k], KeyKnown'
    PROVE  WorkInv'
<1>1. Live(log'[w.k]).uid = w.mem.uid /\ Live(log'[w.k]).fin
  BY HeldStill
<1>2. w.mem.uid \in Nat /\ w.mem.uid <= uids
  BY DEF KeyInv, TypeInv, KeyTypeOK, Work, Objects, Absent, WorkInv
<1>3. w.mem.uid <= uids'
  BY <1>2, UidsGrow
<1> QED BY <1>1, <1>3 DEF WorkInv, HeldWork, DeletionHeld, ReconcileSteps, DeletionSteps, Api

(* Only a worker about to create a key makes one. *)
LEMMA FewerKeys ==
    ASSUME KeyInv, [Next]_vars, w.pc # "create" \/ UNCHANGED w
    PROVE  gk' \subseteq gk
BY GarageMoves DEF GarageMove, KeyLost, KeyMade

(* Whatever others do while the worker waits for an answer. *)
LEMMA Waits ==
    ASSUME KeyInv, [Next]_vars, UNCHANGED w
    PROVE  WorkInv'
<1>1. WorkInv /\ KeyTypeOK /\ uids <= uids' /\ uids \in Nat /\ uids' \in Nat
  BY UidsGrow DEF KeyInv, TypeInv
<1>2. w.mem.uid <= uids'
  <2>1. w.mem.uid \in Nat /\ w.mem.uid <= uids
    BY <1>1 DEF KeyTypeOK, Work, Objects, Absent, WorkInv
  <2> QED BY <1>1, <2>1
<1>3. HeldWork'
  BY HeldStill DEF HeldWork, Api
<1>4. DeletionHeld'
  BY <1>1, DeletionStill DEF WorkInv, DeletionHeld
<1>5. KeyKnown'
  BY <1>1, FewerKeys DEF WorkInv, KeyKnown, Matches
<1> QED BY <1>1, <1>2, <1>3, <1>4, <1>5 DEF WorkInv

(* The worker takes a request, whose cached copy may be old. *)
LEMMA Begins ==
    ASSUME KeyInv, NEW k \in Keys, Begin(k), w' # Idle
    PROVE  WorkInv'
<1> DEFINE m == Cached(log[k])
<1>1. /\ w' = [pc |-> FirstStep(m), k |-> k, mem |-> m, info |-> NoInfo]
      /\ Exists(m) /\ UNCHANGED <<log, gk, uids>>
  BY DEF Begin
<1>2. /\ KeyTypeOK /\ LogInv /\ m \in Versions(log[k]) /\ LogInOrder(log[k])
      /\ log[k] \in Seq(Objects(KeySpecs)) \ {<<>>}
  BY VersionType DEF KeyInv, TypeInv, KeyTypeOK, LogInv
<1>3. w'.pc = FirstStep(m) /\ w'.k = k /\ w'.mem = m
  BY <1>1
<1>4. m.uid <= uids' /\ m.spec \in SpecsOf[k]
  BY <1>1, <1>2 DEF LogInv
<1>5. ASSUME FirstStep(m) \in ReconcileSteps
      PROVE  Api(k).uid = m.uid /\ Api(k).fin
  <2>1. m.fin /\ ~m.deleting
    BY <1>5 DEF FirstStep, ReconcileSteps
  <2> QED BY <1>2, <2>1 DEF LogInOrder, Api
<1>6. ASSUME FirstStep(m) \in DeletionSteps
      PROVE  /\ m.deleting /\ m.fin
             /\ \A v \in Versions(log[k]) : v.uid = m.uid => v.deleting
  <2>1. m.deleting /\ m.fin
    BY <1>6 DEF FirstStep, DeletionSteps
  <2> QED BY <1>2, <2>1, CachedTerminates
<1>7. HeldWork'
  BY <1>1, <1>3, <1>5 DEF HeldWork, Api
<1>8. DeletionHeld'
  BY <1>1, <1>3, <1>6 DEF DeletionHeld
<1>9. /\ FirstStep(m) \in {"idle", "unfinalize", "delInfo", "find", "finalize"}
      /\ FirstStep(m) = "finalize" => ~m.deleting
      /\ FirstStep(m) = "delInfo" => ~m.spec.retain
      /\ FirstStep(m) = "unfinalize" => m.spec.retain
  BY DEF FirstStep
<1>10. KeyKnown'
  BY <1>3, <1>9 DEF KeyKnown
<1> QED BY <1>3, <1>4, <1>7, <1>8, <1>9, <1>10 DEF WorkInv

(* The worker's calls. *)
LEMMA Works ==
    ASSUME KeyInv, [Next]_vars, Worker
    PROVE  WorkInv'
<1>1. CASE w' = Idle
  BY <1>1, Stopped
<1>2. CASE w' # Idle
  <2>1. /\ w \in Work /\ w.pc # "idle" /\ w.k \in Keys /\ Exists(w.mem)
        /\ w.mem \in Objects(KeySpecs) /\ w.info \in GarageKeys
        /\ WorkInv /\ KeyTypeOK /\ LogInv /\ GarageInv
    <3>1. w.pc # "idle"
      BY DEF Worker, AddFinalizer, FindKey, CreateKey, GetKey, PatchStatus, PutSecret,
             GetKeyForDeletion, DeleteKey, RemoveFinalizer, At
    <3> QED BY <3>1 DEF KeyInv, TypeInv, KeyTypeOK, Holding, Work
  <2>2. w.mem.spec \in SpecsOf[w.k]
    BY <2>1 DEF WorkInv
  <2>3. ~Fail /\ ~Done
    BY <1>2 DEF Fail, Done
  <2>4. ASSUME NEW pc, Goto(pc) PROVE w'.pc = pc /\ w'.k = w.k /\ w'.mem = w.mem
    BY <2>1, <2>4 DEF Goto, Work
  <2>5. ASSUME w.pc \in ReconcileSteps, w'.k = w.k, w'.mem = w.mem,
               w'.pc \in {"statusInfo", "secretInfo"}
        PROVE  WorkInv'
    BY <2>2, <2>5, GoesOn DEF KeyKnown, ReconcileSteps
  <2>6. AfterFind(w.mem) \in {"statusInfo", "secretInfo"}
    BY DEF AfterFind
  <2>7. CASE AddFinalizer
    <3> DEFINE m == [w.mem EXCEPT !.fin = TRUE]
    <3>1. Write(w.k, m) /\ w' = [w EXCEPT !.pc = "find", !.mem = m] /\ UNCHANGED uids
      BY <2>3, <2>7 DEF AddFinalizer, Answered
    <3>2. m \in Objects(KeySpecs) /\ m.uid = w.mem.uid /\ m.fin /\ m.spec = w.mem.spec
      BY <2>1, ObjectFacts
    <3>3. w'.pc = "find" /\ w'.k = w.k /\ w'.mem = m
      BY <2>1, <3>1 DEF Work
    <3>4. Live(log'[w.k]) = m
      BY <2>1, <3>1, <3>2, WriteLog
    <3>5. m.uid <= uids'
      BY <2>1, <3>1, <3>2 DEF WorkInv
    <3> HIDE DEF m
    <3> QED BY <2>2, <3>2, <3>3, <3>4, <3>5
        DEF WorkInv, HeldWork, DeletionHeld, KeyKnown, ReconcileSteps, DeletionSteps, Api
  <2>8. CASE FindKey
    <3>1. w.pc = "find" /\ UNCHANGED gk
      BY <2>8 DEF FindKey, At
    <3>2. CASE Matches(w.k, w.mem) = {}
      <4>1. w'.pc = "create" /\ w'.k = w.k /\ w'.mem = w.mem
        BY <2>4, <2>8, <3>2 DEF FindKey
      <4>2. KeyKnown'
        BY <3>1, <3>2, <4>1 DEF KeyKnown, Matches
      <4> QED BY <2>2, <3>1, <4>1, <4>2, GoesOn DEF ReconcileSteps
    <3>3. CASE Matches(w.k, w.mem) # {}
      <4>1. w'.pc = AfterFind(w.mem) /\ w'.k = w.k /\ w'.mem = w.mem
        BY <2>4, <2>8, <3>3 DEF FindKey
      <4> QED BY <2>5, <2>6, <3>1, <4>1 DEF ReconcileSteps
    <3> QED BY <3>2, <3>3
  <2>9. CASE CreateKey
    <3>1. w.pc = "create" /\ Goto(AfterFind(w.mem))
      BY <2>3, <2>9 DEF CreateKey, At, Answered
    <3> QED BY <2>4, <2>5, <2>6, <3>1 DEF ReconcileSteps
  <2>10. ASSUME NEW pc \in {"statusInfo", "secretInfo"}, NEW next \in {"status", "secret"},
                GetKey(pc, next)
         PROVE  WorkInv'
    <3>1. PICK x \in Matches(w.k, w.mem) : w' = [w EXCEPT !.pc = next, !.info = x]
      BY <2>3, <2>10 DEF GetKey
    <3>2. w'.pc = next /\ w'.k = w.k /\ w'.mem = w.mem /\ w'.info = x
      BY <2>1, <3>1 DEF Work
    <3>3. KeyKnown'
      BY <3>1, <3>2 DEF KeyKnown, Matches
    <3>4. w.pc = pc
      BY <2>10 DEF GetKey, At
    <3> QED BY <2>2, <3>2, <3>3, <3>4, GoesOn DEF ReconcileSteps
  <2>11. CASE PatchStatus
    <3> DEFINE m == [Api(w.k) EXCEPT !.id = w.info.id]
    <3>1. /\ w.pc = "status" /\ Exists(Api(w.k))
          /\ w' = [w EXCEPT !.pc = "secretInfo", !.mem = m]
      BY <2>3, <2>11 DEF PatchStatus, At, Answered
    <3>2. m.uid = Api(w.k).uid /\ m.spec = Api(w.k).spec
      BY <2>1, <3>1, ApiType, ObjectFacts
    <3>3. w'.pc = "secretInfo" /\ w'.k = w.k /\ w'.mem = m
      BY <2>1, <3>1 DEF Work
    <3>4. m.uid = w.mem.uid
      BY <2>1, <3>1, <3>2 DEF WorkInv, HeldWork, ReconcileSteps
    <3>5. m.spec \in SpecsOf[w.k]
      BY <2>1, <3>1, <3>2, VersionType DEF LogInv
    <3>6. KeyKnown'
      BY <3>3 DEF KeyKnown
    <3> HIDE DEF m
    <3> QED BY <3>1, <3>3, <3>4, <3>5, <3>6, GoesOn DEF ReconcileSteps
  <2>12. CASE PutSecret
    BY <2>3, <2>12 DEF PutSecret, Answered
  <2>13. ASSUME w.pc \in {"delInfo", "delKey"}, w'.pc \in {"delKey", "unfinalize"},
                w'.k = w.k, w'.mem = w.mem, KeyKnown', UNCHANGED <<log, uids>>
         PROVE  WorkInv'
    <3>1. w.mem.uid <= uids' /\ DeletionHeld' /\ ~w.mem.spec.retain
      BY <2>1, <2>13 DEF WorkInv, DeletionHeld, DeletionSteps
    <3> QED BY <2>2, <2>13, <3>1 DEF WorkInv, HeldWork, ReconcileSteps
  <2>14. CASE GetKeyForDeletion
    <3>1. w.pc = "delInfo" /\ UNCHANGED <<log, gk, uids>>
      BY <2>14 DEF GetKeyForDeletion, At
    <3>2. ASSUME NEW x \in Matches(w.k, w.mem), Matches(w.k, w.mem) = {x},
                 w' = [w EXCEPT !.pc = "delKey", !.info = x]
          PROVE  WorkInv'
      <4>1. w'.pc = "delKey" /\ w'.k = w.k /\ w'.mem = w.mem /\ w'.info = x
        BY <2>1, <3>2 DEF Work
      <4>2. KeyKnown'
        BY <3>1, <3>2, <4>1 DEF KeyKnown, Matches
      <4> QED BY <2>13, <3>1, <4>1, <4>2
    <3>3. ASSUME Cardinality(Matches(w.k, w.mem)) # 1, Goto("unfinalize")
          PROVE  WorkInv'
      <4>1. w'.pc = "unfinalize" /\ w'.k = w.k /\ w'.mem = w.mem
        BY <2>4, <3>3
      <4>2. Matches(w.k, w.mem) = {}
        <5>1. ASSUME NEW x \in Matches(w.k, w.mem) PROVE FALSE
          <6>1. Matches(w.k, w.mem) = {x}
            BY <2>1, <5>1 DEF Matches, GarageInv, OneKeyPerTarget
          <6>2. Cardinality({x}) = 1
            BY FS_Singleton
          <6> QED BY <3>3, <6>1, <6>2
        <5> QED BY <5>1
      <4>3. KeyKnown'
        BY <3>1, <4>1, <4>2 DEF KeyKnown, Matches
      <4> QED BY <2>13, <3>1, <4>1, <4>3
    <3> QED BY <2>14, <3>2, <3>3 DEF GetKeyForDeletion
  <2>15. CASE DeleteKey
    <3>1. /\ w.pc = "delKey" /\ UNCHANGED <<log, uids>> /\ Goto("unfinalize")
          /\ gk' = {x \in gk : x.id # w.info.id}
      BY <2>3, <2>15 DEF DeleteKey, At, Answered
    <3>2. w'.pc = "unfinalize" /\ w'.k = w.k /\ w'.mem = w.mem
      BY <2>4, <3>1
    <3>3. Matches(w.k, w.mem) \subseteq {w.info}
      BY <2>1, <3>1 DEF WorkInv, KeyKnown
    <3>4. KeyKnown'
      BY <3>1, <3>2, <3>3 DEF KeyKnown, Matches
    <3> QED BY <2>13, <3>1, <3>2, <3>4
  <2>16. CASE RemoveFinalizer
    BY <2>3, <2>16 DEF RemoveFinalizer, Answered
  <2> QED BY <2>7, <2>8, <2>9, <2>10, <2>11, <2>12, <2>14, <2>15, <2>16 DEF Worker
<1> QED BY <1>1, <1>2

LEMMA WorkInvStep ==
    ASSUME KeyInv, [Next]_vars
    PROVE  WorkInv'
<1>1. CASE \E k \in Keys : Begin(k)
  BY <1>1, Begins, Stopped
<1>2. CASE Worker
  BY <1>2, Works
<1>3. CASE CallFails \/ Crash
  BY <1>3, Stopped DEF CallFails, Fail, Crash
<1>4. CASE Manager /\ ~Crash
  BY <1>4, Waits DEF Manager, Resync, Informer, SecretInformer
<1>5. CASE Environment
  BY <1>5, Waits
  DEF Environment, UserCreate, UserEdit, UserDelete, AdminDelete, UserPutSecret,
      UserDeleteSecret, GarbageCollect, ClusterLost, ClusterBack
<1>6. CASE UNCHANGED vars
  BY <1>6, Waits DEF vars
<1> QED BY <1>1, <1>2, <1>3, <1>4, <1>5, <1>6 DEF Next

-----------------------------------------------------------------------------
LEMMA KeyInvInit == Init => KeyInv
<1> SUFFICES ASSUME Init PROVE KeyInv
  OBVIOUS
<1>1. TypeInv
  BY TypeInvInit
<1>2. /\ \A k \in Keys : log[k] = <<Absent>> /\ Api(k) = Absent
      /\ uids = 0 /\ w = Idle /\ gk = {}
  BY DEF Init, Api, Live
<1>3. LogInOrder(<<Absent>>) /\ Versions(<<Absent>>) = {Absent}
  BY FirstLog
<1>4. Absent.uid = 0 /\ ~Exists(Absent)
  BY DEF Absent, Exists
<1>5. LogInv
  BY <1>2, <1>3, <1>4 DEF LogInv
<1>6. GarageInv
  BY <1>2 DEF GarageInv, OneKeyPerTarget
<1>7. WorkInv
  BY <1>2, <1>4 DEF WorkInv, Idle, HeldWork, DeletionHeld, KeyKnown,
                    ReconcileSteps, DeletionSteps
<1> QED BY <1>1, <1>5, <1>6, <1>7 DEF KeyInv

LEMMA KeyInvInductive == KeyInv /\ [Next]_vars => KeyInv'
BY TypeInvInductive, LogInvStep, GarageInvStep, WorkInvStep DEF KeyInv

LEMMA KeyInvHolds == Spec => []KeyInv
BY KeyInvInit, KeyInvInductive, PTL DEF Spec

(* Whatever answers are lost and whenever the process restarts, createKey  *)
(* never makes a second key of a target name, on which every later search  *)
(* would fail.                                                             *)
THEOREM OneKeyEach == Spec => []OneKeyPerTarget
<1>1. KeyInv => OneKeyPerTarget
  BY DEF KeyInv, GarageInv
<1> QED BY <1>1, KeyInvHolds, PTL

(* A CR with policy Delete goes only when its key is no longer there,      *)
(* although a search that fails is read as: there is no such key.          *)
THEOREM KeysRevoked == Spec => KeyRevoked
<1> DEFINE Revokes ==
      \A k \in Keys :
         Exists(Api(k)) /\ ~Exists(Api(k)') /\ ~Api(k).spec.retain
            => Matches(k, Api(k)) \cap gk' = {}
<1>1. ASSUME KeyInv, [Next]_vars PROVE [Revokes]_vars
  <2> SUFFICES ASSUME NEW k \in Keys, Exists(Api(k)), ~Exists(Live(log'[k])),
                      ~Api(k).spec.retain
               PROVE  Matches(k, Api(k)) = {}
    BY DEF Api
  <2>1. KeyTypeOK /\ GarageInv /\ WorkInv /\ LogStep(k)
    BY <1>1, LogMoves DEF KeyInv, TypeInv, LogMove
  <2>2. Gone(k)
    <3>1. ~Alike(Api(k), Live(log'[k])) /\ ~New(k)
      BY DEF Alike, New, Exists
    <3>2. ~Edited(k, Live(log'[k]))
      BY <2>1, EditedKept
    <3> QED BY <2>1, <3>1, <3>2 DEF LogStep, Changed
  <2>3. CASE ~Api(k).fin
    BY <2>1, <2>3 DEF GarageInv, Matches
  <2>4. CASE w.pc = "unfinalize" /\ w.k = k /\ w.mem = Api(k)
    BY <2>1, <2>4 DEF WorkInv, KeyKnown
  <2> QED BY <2>2, <2>3, <2>4 DEF Gone
<1>2. KeyInv /\ [Next]_vars => [Revokes]_vars
  BY <1>1
<1> QED BY <1>2, KeyInvHolds, PTL DEF Spec, KeyRevoked

-----------------------------------------------------------------------------
(* Secrets.                                                                *)

(* A Secret has owners only that publish under its name. *)
SecretInv ==
    /\ CredentialsOwned
    /\ \A n \in Names, k \in Keys :
         Live(sec[n]).owner[k] # 0 => \E s \in SpecsOf[k] : n = SecretName(k, s)

CredentialsInv == KeyInv /\ SecretInv

(* What is stored under one name is taken for one's own by none but the    *)
(* CRs that may publish there.                                             *)
LEMMA SecretPut ==
    ASSUME CredentialsInv, NEW n \in Names, NEW c \in Secrets, PutSec(n, c),
           c.cred.uid # 0 => \E k \in Keys : c.owner[k] = c.cred.uid,
           \A k \in Keys : c.owner[k] # 0 =>
               \/ Live(sec[n]).owner[k] # 0
               \/ \E s \in SpecsOf[k] : n = SecretName(k, s)
    PROVE  SecretInv'
<1>1. KeyTypeOK /\ SecretInv
  BY DEF CredentialsInv, KeyInv, TypeInv
<1>2. Live(sec'[n]) = c /\ \A m \in Names \ {n} : sec'[m] = sec[m]
  BY <1>1, PutSecType
<1>3. ASSUME NEW m \in Names
      PROVE  /\ Live(sec'[m]).cred.uid # 0 =>
                   \E k \in Keys : Live(sec'[m]).owner[k] = Live(sec'[m]).cred.uid
             /\ \A k \in Keys : Live(sec'[m]).owner[k] # 0 =>
                   \E s \in SpecsOf[k] : m = SecretName(k, s)
  <2>1. CASE m = n
    BY <1>1, <1>2, <2>1 DEF SecretInv
  <2>2. CASE m # n
    BY <1>1, <1>2, <2>2 DEF SecretInv, CredentialsOwned
  <2> QED BY <2>1, <2>2
<1> QED BY <1>3 DEF SecretInv, CredentialsOwned, SecretName, BaseName

LEMMA SecretStill ==
    ASSUME CredentialsInv, \A n \in Names : Live(sec'[n]) = Live(sec[n])
    PROVE  SecretInv'
BY DEF CredentialsInv, SecretInv, CredentialsOwned, SecretName, BaseName

LEMMA NoSecretPut ==
    ASSUME CredentialsInv, NEW n \in Names, PutSec(n, NoSecret)
    PROVE  SecretInv'
<1>1. NoSecret.cred.uid = 0 /\ \A k \in Keys : NoSecret.owner[k] = 0
  BY DEF NoSecret, NoInfo, NoOwner
<1> QED BY <1>1, NoSecretType, SecretPut

LEMMA SecretInvStep ==
    ASSUME SecretsApart, CredentialsInv, [Next]_vars
    PROVE  SecretInv'
<1>1. KeyTypeOK /\ SecretInv /\ WorkInv /\ Holding
  BY DEF CredentialsInv, KeyInv, TypeInv
<1>2. CASE UNCHANGED sec
  BY <1>2, SecretStill
<1>3. CASE PutSecret
  <2> DEFINE n == SecretName(w.k, w.mem.spec)
             c == Cached(sec[n])
             e == ExpectedSecret(c)
  <2>1. /\ w.pc = "secret" /\ w.k \in Keys /\ w.info \in GarageKeys
        /\ w.info.uid = w.mem.uid /\ w.mem.spec \in SpecsOf[w.k]
        /\ w.mem.uid \in Nat
    BY <1>1, <1>3 DEF PutSecret, At, Holding, WorkInv, KeyKnown, KeyTypeOK, Work,
                      Objects, Absent
  <2>2. n \in Names /\ w.mem.spec \in KeySpecs
    BY <2>1, KeySpecsAssumption, BaseNameType DEF SecretName
  <2>3. c \in Secrets
    BY <1>1, <2>2, SecretType
  <2>4. /\ e \in Secrets /\ e.cred = w.info /\ e.owner[w.k] = w.mem.uid
        /\ \A k \in Keys \ {w.k} : e.owner[k] = c.owner[k]
    BY <2>1, <2>3 DEF ExpectedSecret, Secrets, Layout, Layouts
  <2>5. UNCHANGED sec \/ (PutSec(n, e) /\ Live(sec[n]) = c)
    BY <1>3 DEF PutSecret
  <2>6. n = SecretName(w.k, w.mem.spec)
    OBVIOUS
  <2> HIDE DEF n, c, e
  <2>7. \A k \in Keys : e.owner[k] # 0 =>
            c.owner[k] # 0 \/ \E s \in SpecsOf[k] : n = SecretName(k, s)
    BY <2>1, <2>4, <2>6
  <2> QED BY <1>2, <2>1, <2>2, <2>4, <2>5, <2>7, SecretPut
<1>4. ASSUME NEW n \in UserSecrets, UserPutSecret(n) PROVE SecretInv'
  <2> DEFINE c == [Live(sec[n]) EXCEPT !.cred = NoInfo, !.layout = "env"]
  <2>1. n \in Names /\ NoInfo \in GarageKeys /\ NoInfo.uid = 0
    BY KeyNamesAssumption DEF NoInfo, GarageKeys
  <2>2. c \in Secrets /\ c.cred.uid = 0 /\ c.owner = Live(sec[n]).owner
    BY <1>1, <2>1, SecretType DEF Secrets, Layouts
  <2>3. PutSec(n, c)
    BY <1>4 DEF UserPutSecret
  <2> HIDE DEF c
  <2> QED BY <2>1, <2>2, <2>3, SecretPut
<1>5. ASSUME NEW n \in UserSecrets, UserDeleteSecret(n) PROVE SecretInv'
  BY <1>5, NoSecretPut, KeyNamesAssumption DEF UserDeleteSecret
<1>6. ASSUME NEW n \in Names, GarbageCollect(n) PROVE SecretInv'
  <2> DEFINE c    == Live(sec[n])
             left == [k \in Keys |-> IF c.owner[k] = Api(k).uid THEN c.owner[k] ELSE 0]
             e    == [c EXCEPT !.owner = left]
  <2>1. c \in Secrets
    BY <1>1, SecretType
  <2>2. /\ left \in [Keys -> Nat]
        /\ \A k \in Keys : left[k] = c.owner[k] \/ left[k] = 0
        /\ left # NoOwner => \E k \in Keys : left[k] # 0
    BY <2>1 DEF Secrets, NoOwner
  <2>3. \/ left = NoOwner /\ PutSec(n, NoSecret)
        \/ left # NoOwner /\ PutSec(n, e)
    BY <1>6 DEF GarbageCollect
  <2>4. /\ c.cred.uid # 0 => \E k \in Keys : c.owner[k] = c.cred.uid
        /\ \A k \in Keys : c.owner[k] # 0 => \E s \in SpecsOf[k] : n = SecretName(k, s)
    BY <1>1 DEF SecretInv, CredentialsOwned
  <2>5. \A k, l \in Keys : c.owner[k] # 0 /\ c.owner[l] # 0 => k = l
    BY <2>4 DEF SecretsApart
  <2>6. e \in Secrets /\ e.cred = c.cred /\ e.owner = left
    <3> HIDE DEF c, left
    <3> QED BY <2>1, <2>2 DEF Secrets
  <2>7. c = Live(sec[n])
    OBVIOUS
  <2> HIDE DEF c, left, e
  <2>8. left # NoOwner /\ c.cred.uid # 0 => \E k \in Keys : left[k] = c.cred.uid
    BY <2>2, <2>4, <2>5
  <2> QED BY <2>2, <2>3, <2>6, <2>7, <2>8, SecretPut, NoSecretPut
<1>7. ASSUME NEW n \in Names, SecretInformer(n) PROVE SecretInv'
  <2>1. sec[n] \in Seq(Secrets) \ {<<>>} /\ Len(sec[n]) > 1
    BY <1>1, <1>7 DEF SecretInformer, KeyTypeOK
  <2>2. sec'[n] = Tail(sec[n]) /\ \A m \in Names \ {n} : sec'[m] = sec[m]
    BY <1>1, <1>7 DEF SecretInformer, KeyTypeOK
  <2> QED BY <2>1, <2>2, LogTail, SecretStill
<1>8. CASE Crash
  <2>1. \A n \in Names : sec'[n] = Relisted(sec[n]) /\ sec[n] \in Seq(Secrets) \ {<<>>}
    BY <1>1, <1>8 DEF Crash, KeyTypeOK
  <2> QED BY <2>1, LogRelist, SecretStill
<1>9. CASE Worker
  BY <1>2, <1>3, <1>9
  DEF Worker, AddFinalizer, FindKey, CreateKey, GetKey, PatchStatus, GetKeyForDeletion,
      DeleteKey, RemoveFinalizer
<1>10. CASE Manager
  BY <1>2, <1>7, <1>8, <1>10 DEF Manager, Resync, Informer
<1>11. CASE Environment
  BY <1>2, <1>4, <1>5, <1>6, <1>11
  DEF Environment, UserCreate, UserEdit, UserDelete, AdminDelete, ClusterLost, ClusterBack
<1>12. CASE UNCHANGED vars \/ CallFails \/ \E k \in Keys : Begin(k)
  BY <1>2, <1>12 DEF vars, CallFails, Begin
<1> QED BY <1>9, <1>10, <1>11, <1>12 DEF Next

(* Credentials belong to the CR that owns their Secret, so that Kubernetes *)
(* collects them with it: an update over a Secret of the user's own or of  *)
(* a former CR, a stale copy and the garbage collector leave no            *)
(* credentials without their owner.                                        *)
THEOREM CredentialsHaveOwner ==
    ASSUME SecretsApart
    PROVE  Spec => []CredentialsOwned
<1>1. Init => CredentialsInv
  <2>1. NoSecret.cred.uid = 0 /\ \A k \in Keys : NoSecret.owner[k] = 0
    BY DEF NoSecret, NoInfo, NoOwner
  <2>2. Init => \A n \in Names : Live(sec[n]) = NoSecret
    BY DEF Init, Live
  <2> QED BY <2>1, <2>2, KeyInvInit DEF CredentialsInv, SecretInv, CredentialsOwned
<1>2. CredentialsInv /\ [Next]_vars => CredentialsInv'
  BY SecretsApart, KeyInvInductive, SecretInvStep DEF CredentialsInv
<1>3. CredentialsInv => CredentialsOwned
  BY DEF CredentialsInv, SecretInv
<1> QED BY <1>1, <1>2, <1>3, PTL DEF Spec

=============================================================================
