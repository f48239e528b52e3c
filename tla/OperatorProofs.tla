---------------------------- MODULE OperatorProofs ----------------------------
(***************************************************************************)
(* Proofs about Operator, for any GarageBuckets, rights and number of      *)
(* events: types, and that nobody has a right on a bucket whom no stored   *)
(* GarageAccessKey stands for.                                             *)
(***************************************************************************)
EXTENDS Operator, KubeObjectsProofs

-----------------------------------------------------------------------------
(* Types.                                                                  *)

AllSpecs == BucketSpecs \cup ChildSpecs
Logs     == Seq(Objects(AllSpecs)) \ {<<>>}

SpecsFor(k) == IF k = "bucket" THEN BucketSpecs ELSE ChildSpecs

(* Every version is of its kind. *)
LogType ==
    /\ log \in [Kinds -> [Buckets -> Logs]]
    /\ \A k \in Kinds, b \in Buckets : Versions(log[k][b]) \subseteq Objects(SpecsFor(k))

(* A worker under way has a request and the CR that it read; one that puts *)
(* children does so for a GarageBucket with access.                        *)
Fits(k, v) ==
    /\ v.mem \in Objects(SpecsFor(k))
    /\ v.pc # "idle" => v.b \in Buckets /\ Exists(v.mem)
    /\ k = "bucket" /\ v.pc \in {"putKey", "putPerm"} => v.mem.spec.access # NoAccess

WorkType == w \in [Kinds -> Work] /\ \A k \in Kinds : Fits(k, w[k])

GarageType ==
    /\ gb \in [Buckets -> Nat]
    /\ gk \subseteq GarageKeys
    /\ grants \subseteq Grants
    /\ sec \in [Buckets -> Secrets]
    /\ ids \in Nat

CountType == uids \in Nat /\ events \in 0 .. MaxEvents
QueueType == queue \subseteq Kinds \X Buckets

TypeInv == LogType /\ WorkType /\ GarageType /\ CountType /\ QueueType

KeptType == kept \subseteq Buckets

LEMMA TypeInvCorrect == TypeInv /\ KeptType => OperatorTypeOK
BY DEF TypeInv, LogType, WorkType, GarageType, CountType, QueueType, KeptType,
       OperatorTypeOK, Logs, AllSpecs

LEMMA KindFacts ==
    /\ Kinds = {"bucket", "key", "perm"}
    /\ SpecsFor("bucket") = BucketSpecs
    /\ SpecsFor("key") = ChildSpecs /\ SpecsFor("perm") = ChildSpecs
    /\ \A k \in Kinds : SpecsFor(k) \subseteq AllSpecs
    /\ \A k \in Kinds : Objects(SpecsFor(k)) \subseteq Objects(AllSpecs)
<1>1. \A k \in Kinds : SpecsFor(k) \subseteq AllSpecs
  BY DEF SpecsFor, AllSpecs
<1> QED BY <1>1 DEF Kinds, ChildKinds, SpecsFor, Objects

LEMMA ObjectFacts ==
    ASSUME NEW k \in Kinds, NEW o \in Objects(SpecsFor(k)), Exists(o)
    PROVE  /\ o \in [uid: Nat \ {0}, deleting: BOOLEAN, fin: BOOLEAN,
                     spec: SpecsFor(k), id: Nat]
           /\ [o EXCEPT !.fin = TRUE] \in Objects(SpecsFor(k))
           /\ \A s \in SpecsFor(k) : [o EXCEPT !.spec = s] \in Objects(SpecsFor(k))
           /\ Deleted(o) \in Objects(SpecsFor(k))
           /\ Unfinalized(o) \in Objects(SpecsFor(k))
<1> DEFINE S == SpecsFor(k)
<1>1. o \in Objects(S)
  OBVIOUS
<1> HIDE DEF S
<1>2. /\ o \in [uid: Nat \ {0}, deleting: BOOLEAN, fin: BOOLEAN, spec: S, id: Nat]
      /\ [o EXCEPT !.fin = TRUE] \in Objects(S)
      /\ \A s \in S : [o EXCEPT !.spec = s] \in Objects(S)
      /\ Deleted(o) \in Objects(S) /\ Unfinalized(o) \in Objects(S)
  BY <1>1, StoredFacts
<1> QED BY <1>2 DEF S

LEMMA ApiType ==
    ASSUME LogType, NEW k \in Kinds, NEW b \in Buckets
    PROVE  /\ log[k][b] \in Logs
           /\ Api(k, b) \in Objects(SpecsFor(k)) /\ Api(k, b) \in Versions(log[k][b])
           /\ Cache(k, b) \in Objects(SpecsFor(k)) /\ Cache(k, b) \in Versions(log[k][b])
<1>1. log[k][b] \in Logs /\ Versions(log[k][b]) \subseteq Objects(SpecsFor(k))
  BY DEF LogType
<1>2. Live(log[k][b]) \in Versions(log[k][b]) /\ Cached(log[k][b]) \in Versions(log[k][b])
  BY <1>1, LiveIsVersion DEF Logs
<1> QED BY <1>1, <1>2 DEF Api, Cache

(* A write adds to one log the version written. *)
LEMMA WriteLog ==
    ASSUME LogType, NEW k \in Kinds, NEW b \in Buckets, NEW o \in Objects(SpecsFor(k)),
           Write(k, b, o)
    PROVE  /\ LogType'
           /\ Live(log'[k][b]) = o
           /\ \A j \in Kinds, c \in Buckets : j # k \/ c # b => log'[j][c] = log[j][c]
           /\ Versions(log'[k][b]) \subseteq Versions(log[k][b]) \cup {o}
           /\ LogInOrder(log[k][b]) /\ Follows(o, log[k][b]) => LogInOrder(log'[k][b])
<1> DEFINE S == Objects(AllSpecs)
           l == log[k][b]
           m == log'[k][b]
<1>1. log \in [Kinds -> [Buckets -> Logs]] /\ l \in Seq(S) \ {<<>>} /\ o \in S
  BY KindFacts DEF LogType, Logs
<1>2. log' = log \/ log' = [log EXCEPT ![k] = [log[k] EXCEPT ![b] = Append(l, o)]]
  BY DEF Write
<1>3. /\ o = Live(l) => m = l
      /\ o # Live(l) => m = Append(l, o)
      /\ \A j \in Kinds, c \in Buckets : j # k \/ c # b => log'[j][c] = log[j][c]
  BY <1>1 DEF Write, Api
<1> HIDE DEF S, l, m
<1>4. /\ m \in Seq(S) \ {<<>>}
      /\ Live(m) = o /\ Versions(m) \subseteq Versions(l) \cup {o}
      /\ LogInOrder(l) /\ Follows(o, l) => LogInOrder(m)
  BY <1>1, <1>3, WrittenLog
<1>5. Append(l, o) \in Logs
  BY <1>1, LogAppend DEF Logs, S
<1>6. log' \in [Kinds -> [Buckets -> Logs]]
  <2> DEFINE row == [log[k] EXCEPT ![b] = Append(l, o)]
  <2>1. row \in [Buckets -> Logs]
    BY <1>1, <1>5
  <2>2. log' = log \/ log' = [log EXCEPT ![k] = row]
    BY <1>2
  <2> HIDE DEF row
  <2> QED BY <1>1, <2>1, <2>2
<1>7. ASSUME NEW j \in Kinds, NEW c \in Buckets
      PROVE  Versions(log'[j][c]) \subseteq Objects(SpecsFor(j))
  BY <1>3, <1>4 DEF LogType, l, m
<1> QED BY <1>3, <1>4, <1>6, <1>7 DEF LogType, l, m

(* A worker that is given v to go on with. *)
LEMMA WorkerSet ==
    ASSUME WorkType, NEW k \in Kinds, NEW v \in Work, Fits(k, v), w' = [w EXCEPT ![k] = v]
    PROVE  WorkType' /\ w'[k] = v /\ \A j \in Kinds \ {k} : w'[j] = w[j]
BY DEF WorkType

LEMMA IdleFits == Idle \in Work /\ \A k : Fits(k, Idle)
BY DEF Idle, Work, Steps, Objects, Absent, Fits

LEMMA StopType ==
    ASSUME WorkType, NEW k \in Kinds, Stop(k)
    PROVE  WorkType' /\ w'[k] = Idle /\ \A j \in Kinds \ {k} : w'[j] = w[j]
BY IdleFits, WorkerSet DEF Stop

LEMMA GotoType ==
    ASSUME WorkType, NEW k \in Kinds, NEW pc \in Steps, Goto(k, pc), w[k].pc # "idle",
           k = "bucket" /\ pc \in {"putKey", "putPerm"} => w[k].mem.spec.access # NoAccess
    PROVE  /\ WorkType' /\ UNCHANGED queue
           /\ w'[k].pc = pc /\ w'[k].b = w[k].b /\ w'[k].mem = w[k].mem
           /\ \A j \in Kinds \ {k} : w'[j] = w[j]
<1> DEFINE v == [pc |-> pc, b |-> w[k].b, mem |-> w[k].mem]
<1>1. w[k] \in Work /\ Fits(k, w[k]) /\ w \in [Kinds -> Work]
  BY DEF WorkType
<1>2. v = [w[k] EXCEPT !.pc = pc] /\ v \in Work
  BY <1>1 DEF Work
<1>3. w' = [w EXCEPT ![k] = v] /\ UNCHANGED queue
  BY <1>1, <1>2 DEF Goto
<1>4. Fits(k, v)
  BY <1>1 DEF Fits
<1>5. WorkType' /\ w'[k] = v /\ \A j \in Kinds \ {k} : w'[j] = w[j]
  BY <1>2, <1>3, <1>4, WorkerSet
<1> QED BY <1>3, <1>5

LEMMA FailType ==
    ASSUME WorkType, QueueType, NEW k \in Kinds, w[k].pc # "idle", Fail(k)
    PROVE  WorkType' /\ QueueType'
<1>1. w[k].b \in Buckets
  BY DEF WorkType, Fits
<1> QED BY <1>1, StopType DEF Fail, QueueType

LEMMA EventType ==
    ASSUME CountType, Event \/ UNCHANGED events
    PROVE  events' \in 0 .. MaxEvents
BY OperatorBoundsAssumption DEF CountType, Event

LEMMA BeginType ==
    ASSUME TypeInv, NEW k \in Kinds, NEW b \in Buckets, Begin(k, b)
    PROVE  TypeInv'
<1> DEFINE m     == Cache(k, b)
           found == k = "perm" => Exists(Cache("bucket", b))
           pc    == IF Exists(m) THEN FirstStep(k, m, found) ELSE "idle"
           v     == IF pc = "idle" THEN Idle ELSE [pc |-> pc, b |-> b, mem |-> m]
<1>1. /\ w' = [w EXCEPT ![k] = v] /\ queue' \subseteq queue
      /\ UNCHANGED <<log, gb, gk, grants, sec, ids, uids, events>>
  BY DEF Begin
<1>2. m \in Objects(SpecsFor(k)) /\ m \in Objects(AllSpecs)
  BY ApiType, KindFacts DEF TypeInv
<1>3. pc \in Steps \ {"putKey", "putPerm"} /\ (pc # "idle" => Exists(m))
  BY KindFacts DEF FirstStep, Steps
<1> HIDE DEF m, pc
<1>4. v \in Work /\ Fits(k, v)
  <2>1. CASE pc = "idle"
    BY <2>1, IdleFits
  <2>2. CASE pc # "idle"
    <3>1. v = [pc |-> pc, b |-> b, mem |-> m]
      BY <2>2
    <3> QED BY <1>2, <1>3, <2>2, <3>1 DEF Work, Fits, AllSpecs
  <2> QED BY <2>1, <2>2
<1>5. WorkType'
  BY <1>1, <1>4, WorkerSet DEF TypeInv
<1> QED BY <1>1, <1>5
    DEF TypeInv, LogType, GarageType, CountType, QueueType

(* What the worker of each kind has at hand. *)
LEMMA AtHand ==
    ASSUME TypeInv, NEW k \in Kinds, w[k].pc # "idle"
    PROVE  /\ w[k].b \in Buckets /\ w[k] \in Work /\ Exists(w[k].mem)
           /\ w[k].mem \in Objects(SpecsFor(k)) /\ w[k].mem.spec \in SpecsFor(k)
           /\ w[k].mem.uid \in Nat \ {0}
<1>1. /\ w[k].b \in Buckets /\ w[k] \in Work /\ Exists(w[k].mem)
      /\ w[k].mem \in Objects(SpecsFor(k))
  BY DEF TypeInv, WorkType, Fits
<1> QED BY <1>1, ObjectFacts

LEMMA GrantType ==
    ASSUME NEW x \in GarageKeys, NEW b \in Nat, NEW r \in SUBSET Rights
    PROVE  Pair(x.id, b, r) \subseteq Grants
BY DEF Pair, Grants, GarageKeys

(* A child is made with its finalizer. *)
LEMMA NewType ==
    ASSUME NEW u \in Nat, NEW s \in ChildSpecs
    PROVE  [Created(u + 1, s) EXCEPT !.fin = TRUE] \in Objects(ChildSpecs)
<1>1. Created(u + 1, s) \in Objects(ChildSpecs) /\ Exists(Created(u + 1, s))
  BY DEF Created, Objects, Exists
<1> QED BY <1>1, StoredFacts

LEMMA WorkerType ==
    ASSUME TypeInv, NEW k \in Kinds, Worker(k)
    PROVE  TypeInv'
<1> DEFINE Going == WorkType' /\ QueueType'
<1>1. /\ LogType /\ WorkType /\ GarageType /\ CountType /\ QueueType
      /\ "bucket" \in Kinds /\ "key" \in Kinds /\ "perm" \in Kinds
  BY KindFacts DEF TypeInv
<1>2. ASSUME NEW j \in Kinds, w[j].pc # "idle" PROVE Fail(j) => Going
  BY <1>1, <1>2, FailType
<1>3. ASSUME NEW j \in Kinds, w[j].pc # "idle" PROVE Done(j) => Going
  BY <1>1, <1>3, StopType DEF Done, QueueType
<1>4. ASSUME NEW j \in Kinds, w[j].pc # "idle", NEW pc \in Steps,
             j = "bucket" /\ pc \in {"putKey", "putPerm"} => w[j].mem.spec.access # NoAccess
      PROVE  Goto(j, pc) => Going
  BY <1>1, <1>4, GotoType DEF QueueType
<1>5. ASSUME Event \/ UNCHANGED events, uids' \in Nat PROVE CountType'
  BY <1>1, <1>5, EventType DEF CountType
<1>6. /\ UNCHANGED log => LogType'
      /\ UNCHANGED <<gb, gk, grants, sec, ids>> => GarageType'
  BY <1>1 DEF LogType, GarageType
<1>7. /\ uids \in Nat /\ ids \in Nat /\ gb \in [Buckets -> Nat] /\ gk \subseteq GarageKeys
      /\ grants \subseteq Grants /\ sec \in [Buckets -> Secrets]
  BY <1>1 DEF GarageType, CountType
<1>k. Steps = {"idle", "finalize", "target", "rmKey", "rmPerm", "putKey", "putPerm",
               "make", "publish", "grant", "reclaim", "unfinalize"}
  BY DEF Steps
<1> HIDE DEF Going
<1>8. CASE RemoveFinalizer(k)
  <2>1. w[k].pc # "idle" /\ UNCHANGED <<gb, gk, grants, sec, ids, uids>>
    BY <1>8 DEF RemoveFinalizer, At
  <2>2. Unfinalized(w[k].mem) \in Objects(SpecsFor(k)) /\ w[k].b \in Buckets
    BY <2>1, AtHand, ObjectFacts
  <2>3. LogType'
    BY <1>1, <1>6, <1>8, <2>2, WriteLog DEF RemoveFinalizer
  <2>4. Going /\ (Event \/ UNCHANGED events)
    BY <1>2, <1>3, <1>8, <2>1 DEF RemoveFinalizer, Answered
  <2> QED BY <1>5, <1>6, <1>7, <2>1, <2>3, <2>4 DEF TypeInv, Going
<1>9. CASE AddFinalizer
  <2> DEFINE m == [w["bucket"].mem EXCEPT !.fin = TRUE]
             v == [pc |-> "target", b |-> w["bucket"].b, mem |-> m]
  <2>1. w["bucket"].pc # "idle" /\ UNCHANGED <<gb, gk, grants, sec, ids, uids>>
    BY <1>9 DEF AddFinalizer, At
  <2>2. /\ m \in Objects(SpecsFor("bucket")) /\ Exists(m) /\ w["bucket"].b \in Buckets
        /\ w["bucket"] \in Work /\ w \in [Kinds -> Work]
    <3>1. /\ w["bucket"].mem \in Objects(SpecsFor("bucket")) /\ Exists(w["bucket"].mem)
          /\ w["bucket"].b \in Buckets /\ w["bucket"] \in Work
      BY <1>1, <2>1, AtHand
    <3>2. m \in Objects(SpecsFor("bucket")) /\ m.uid = w["bucket"].mem.uid
      BY <1>1, <3>1, ObjectFacts
    <3> QED BY <1>1, <3>1, <3>2 DEF Exists, WorkType
  <2>3. LogType'
    BY <1>1, <1>6, <1>9, <2>2, WriteLog DEF AddFinalizer
  <2>4. v \in Work /\ Fits("bucket", v)
    BY <1>1, <1>k, <2>2, KindFacts DEF Work, Fits, AllSpecs
  <2>5. w' = [w EXCEPT !["bucket"].pc = "target", !["bucket"].mem = m] => w' = [w EXCEPT !["bucket"] = v]
    <3> HIDE DEF m
    <3> QED BY <2>2 DEF Work
  <2> HIDE DEF v
  <2>6. Going /\ (Event \/ UNCHANGED events)
    BY <1>1, <1>2, <1>9, <2>1, <2>4, <2>5, WorkerSet DEF AddFinalizer, Answered, Going, QueueType
  <2> QED BY <1>5, <1>6, <1>7, <2>1, <2>3, <2>6 DEF TypeInv, Going
<1>10. CASE MakeBucket
  <2>1. w["bucket"].pc # "idle" /\ UNCHANGED <<log, gk, grants, sec, uids>>
    BY <1>10 DEF MakeBucket, At
  <2>2. Goto("bucket", AfterTarget) => Going
    BY <1>1, <1>4, <1>k, <2>1 DEF AfterTarget
  <2>3. Going /\ (Event \/ UNCHANGED events)
    BY <1>1, <1>2, <1>10, <2>1, <2>2 DEF MakeBucket, Answered
  <2>4. GarageType'
    BY <1>7, <1>10, <2>1 DEF MakeBucket, GarageType
  <2> QED BY <1>5, <1>6, <1>7, <2>1, <2>3, <2>4 DEF TypeInv, Going
<1>11. ASSUME NEW j \in ChildKinds, NEW pc \in Steps \ {"idle"}, NEW next,
              RemoveChild(j, pc, next), w["bucket"].pc # "idle" /\ next => Going
       PROVE  TypeInv'
  <2> DEFINE b == w["bucket"].b
  <2>1. w["bucket"].pc # "idle" /\ UNCHANGED <<gb, gk, grants, sec, ids, uids>>
    BY <1>11 DEF RemoveChild, At
  <2>2. b \in Buckets /\ j \in Kinds
    BY <1>1, <2>1, AtHand DEF Kinds
  <2>3. Exists(Api(j, b)) => Deleted(Api(j, b)) \in Objects(SpecsFor(j))
    BY <1>1, <2>2, ApiType, ObjectFacts
  <2>4. LogType'
    BY <1>1, <1>6, <1>11, <2>2, <2>3, WriteLog DEF RemoveChild
  <2>5. Going /\ (Event \/ UNCHANGED events)
    BY <1>1, <1>2, <1>11, <2>1 DEF RemoveChild, Answered
  <2> QED BY <1>5, <1>6, <1>7, <2>1, <2>4, <2>5 DEF TypeInv, Going
<1>12. CASE RemoveKey \/ RemovePerm
  BY <1>1, <1>3, <1>4, <1>11, <1>12, <1>k DEF RemoveKey, RemovePerm, ChildKinds
<1>13. ASSUME NEW j \in ChildKinds, NEW pc \in {"putKey", "putPerm"}, NEW next,
              PutChild(j, pc, next), w["bucket"].pc \in {"putKey", "putPerm"} /\ next => Going
       PROVE  TypeInv'
  <2> DEFINE b   == w["bucket"].b
             c   == Cache(j, b)
             new == IF Exists(c) THEN [c EXCEPT !.spec = Asked(j)]
                    ELSE [Created(uids + 1, Asked(j)) EXCEPT !.fin = TRUE]
  <2>1. w["bucket"].pc = pc /\ UNCHANGED <<gb, gk, grants, sec, ids>>
    BY <1>13 DEF PutChild, At
  <2>2. b \in Buckets /\ j \in Kinds /\ SpecsFor(j) = ChildSpecs
    BY <1>1, <2>1, AtHand, KindFacts DEF ChildKinds
  <2>3. Asked(j) \in ChildSpecs
    <3>1. w["bucket"].mem.uid \in Nat /\ w["bucket"].mem.spec \in BucketSpecs
      BY <1>1, <2>1, AtHand, KindFacts
    <3>2. w["bucket"].mem.spec.access # NoAccess
      BY <1>1, <2>1 DEF WorkType, Fits
    <3>3. w["bucket"].mem.spec.access \in SUBSET Rights
      BY <3>1, <3>2 DEF BucketSpecs
    <3> QED BY <3>1, <3>3 DEF Asked, ChildSpecs
  <2>4. c \in Objects(SpecsFor(j))
    BY <1>1, <2>2, ApiType
  <2>5. new \in Objects(SpecsFor(j))
    <3>1. Exists(c) => [c EXCEPT !.spec = Asked(j)] \in Objects(SpecsFor(j))
      BY <2>2, <2>3, <2>4, ObjectFacts
    <3> QED BY <1>7, <2>2, <2>3, <3>1, NewType
  <2>6. \/ UNCHANGED log
        \/ Write(j, b, new)
    BY <1>13 DEF PutChild
  <2>7. /\ next \/ Fail("bucket")
        /\ Event \/ UNCHANGED events
        /\ uids' \in {uids, uids + 1}
    BY <1>13 DEF PutChild, Answered
  <2> HIDE DEF c, new
  <2>8. LogType'
    BY <1>1, <1>6, <2>2, <2>5, <2>6, WriteLog
  <2>9. Going /\ CountType'
    BY <1>1, <1>2, <1>5, <1>7, <1>13, <2>1, <2>7
  <2> QED BY <1>6, <2>1, <2>8, <2>9 DEF TypeInv, Going
<1>14. CASE PutKey \/ PutPerm
  <2>1. w["bucket"].pc \in {"putKey", "putPerm"} => w["bucket"].mem.spec.access # NoAccess
    BY <1>1 DEF WorkType, Fits
  <2> QED BY <1>1, <1>3, <1>4, <1>13, <1>14, <1>k, <2>1 DEF PutKey, PutPerm, ChildKinds
<1>15. CASE ReclaimBucket
  <2>1. w["bucket"].pc # "idle" /\ UNCHANGED <<log, gk, sec, ids, uids>>
    BY <1>15 DEF ReclaimBucket, At
  <2>2. Going /\ (Event \/ UNCHANGED events)
    BY <1>1, <1>2, <1>4, <1>k, <1>15, <2>1 DEF ReclaimBucket, Answered
  <2>3. GarageType'
    BY <1>7, <1>15, <2>1 DEF ReclaimBucket, GarageType
  <2> QED BY <1>5, <1>6, <1>7, <2>1, <2>2, <2>3 DEF TypeInv, Going
<1>16. CASE MakeKey
  <2>1. w["key"].pc # "idle" /\ UNCHANGED <<log, gb, grants, sec, uids>>
    BY <1>16 DEF MakeKey, At
  <2>2. Going /\ (Event \/ UNCHANGED events)
    BY <1>1, <1>2, <1>4, <1>k, <1>16, <2>1 DEF MakeKey, Answered
  <2>3. w["key"].mem.uid \in Nat
    BY <1>1, <2>1, AtHand
  <2>4. GarageType'
    BY <1>7, <1>16, <2>1, <2>3 DEF MakeKey, GarageType, GarageKeys
  <2> QED BY <1>5, <1>6, <1>7, <2>1, <2>2, <2>4 DEF TypeInv, Going
<1>17. CASE PublishKey
  <2>1. w["key"].pc # "idle" /\ UNCHANGED <<log, gb, gk, grants, ids, uids>>
    BY <1>17 DEF PublishKey, At
  <2>2. Going /\ (Event \/ UNCHANGED events)
    BY <1>1, <1>2, <1>3, <1>17, <2>1 DEF PublishKey, Answered
  <2>3. w["key"].mem.uid \in Nat
    BY <1>1, <2>1, AtHand
  <2>4. PICK new \in Secrets : sec' \in {sec, [sec EXCEPT ![w["key"].b] = new]}
    <3>1. \A x \in gk : [cred |-> x.id, owner |-> w["key"].mem.uid] \in Secrets
      BY <1>7, <2>3 DEF GarageKeys, Secrets
    <3>2. NoSecret \in Secrets
      BY DEF NoSecret, Secrets
    <3> QED BY <1>17, <3>1, <3>2 DEF PublishKey, KeyOf
  <2>5. GarageType'
    BY <1>7, <2>1, <2>4 DEF GarageType
  <2> QED BY <1>5, <1>6, <1>7, <2>1, <2>2, <2>5 DEF TypeInv, Going
<1>18. CASE ReclaimKey
  <2>1. w["key"].pc # "idle" /\ UNCHANGED <<log, gb, sec, ids, uids>>
    BY <1>18 DEF ReclaimKey, At
  <2>2. Going /\ (Event \/ UNCHANGED events)
    BY <1>1, <1>2, <1>4, <1>k, <1>18, <2>1 DEF ReclaimKey, Answered
  <2>3. GarageType'
    BY <1>7, <1>18, <2>1 DEF ReclaimKey, GarageType
  <2> QED BY <1>5, <1>6, <1>7, <2>1, <2>2, <2>3 DEF TypeInv, Going
<1>19. CASE Grant
  <2> DEFINE asked == w["perm"].mem.spec.rights
             b     == w["perm"].b
  <2>1. w["perm"].pc # "idle" /\ UNCHANGED <<log, gb, gk, sec, ids, uids>>
    BY <1>19 DEF Grant, At
  <2>2. Going /\ (Event \/ UNCHANGED events)
    BY <1>1, <1>2, <1>3, <1>19, <2>1 DEF Grant, Answered
  <2>3. asked \in SUBSET Rights /\ gb[b] \in Nat
    <3>1. w["perm"].mem.spec \in ChildSpecs /\ b \in Buckets
      BY <1>1, <2>1, AtHand, KindFacts
    <3> QED BY <1>7, <3>1 DEF ChildSpecs
  <2>4. \/ UNCHANGED grants
        \/ \E x \in gk : grants' = (grants \ Pair(x.id, gb[b], Rights)) \cup Pair(x.id, gb[b], asked)
    BY <1>19 DEF Grant, KeyOf
  <2>5. grants' \subseteq Grants
    BY <1>7, <2>3, <2>4, GrantType
  <2> QED BY <1>1, <1>5, <1>6, <1>7, <2>1, <2>2, <2>5 DEF TypeInv, GarageType, Going
<1>20. CASE Revoke
  <2>1. w["perm"].pc # "idle" /\ UNCHANGED <<log, gb, gk, sec, ids, uids>>
    BY <1>20 DEF Revoke, At
  <2>2. Going /\ (Event \/ UNCHANGED events)
    BY <1>1, <1>2, <1>4, <1>k, <1>20, <2>1 DEF Revoke, Answered
  <2>3. grants' \subseteq Grants
    BY <1>7, <1>20 DEF Revoke
  <2> QED BY <1>1, <1>5, <1>6, <1>7, <2>1, <2>2, <2>3 DEF TypeInv, GarageType, Going
<1> QED
  BY <1>8, <1>9, <1>10, <1>12, <1>14, <1>15, <1>16, <1>17, <1>18, <1>19, <1>20 DEF Worker

LEMMA ManagerType ==
    ASSUME TypeInv, Manager
    PROVE  TypeInv'
<1>1. LogType /\ WorkType /\ GarageType /\ CountType /\ QueueType
  BY DEF TypeInv
<1>2. ASSUME UNCHANGED <<gb, gk, grants, sec, ids, uids>>, Event \/ UNCHANGED events
      PROVE  GarageType' /\ CountType'
  BY <1>1, <1>2, EventType DEF GarageType, CountType
<1>3. CASE Crash
  <2>1. WorkType'
    BY <1>3, IdleFits DEF Crash, WorkType
  <2>2. ASSUME NEW k \in Kinds, NEW b \in Buckets
        PROVE  /\ log'[k][b] = Relisted(log[k][b])
               /\ Relisted(log[k][b]) \in Logs
               /\ Versions(log'[k][b]) \subseteq Objects(SpecsFor(k))
    <3>1. log[k][b] \in Logs /\ log'[k][b] = Relisted(log[k][b])
      BY <1>1, <1>3, ApiType DEF Crash
    <3> QED BY <1>1, <3>1, LogRelist, RelistInOrder DEF Logs, LogType
  <2>3. log' \in [Kinds -> [Buckets -> Logs]]
    BY <1>3, <2>2 DEF Crash
  <2>4. LogType'
    BY <2>2, <2>3 DEF LogType
  <2> QED BY <1>2, <1>3, <2>1, <2>4 DEF Crash, TypeInv, QueueType
<1>4. ASSUME NEW k \in Kinds, Resync(k) PROVE TypeInv'
  BY <1>1, <1>2, <1>4 DEF Resync, TypeInv, LogType, WorkType, Fits, QueueType
<1>5. ASSUME NEW k \in Kinds, NEW b \in Buckets, Informer(k, b) PROVE TypeInv'
  <2> DEFINE l == log[k][b]
  <2>1. l \in Logs /\ Len(l) > 1 /\ log' = [log EXCEPT ![k] = [log[k] EXCEPT ![b] = Tail(l)]]
    BY <1>1, <1>5, ApiType DEF Informer
  <2> HIDE DEF l
  <2>2. Tail(l) \in Logs /\ Versions(Tail(l)) \subseteq Versions(l)
    BY <2>1, LogTail, TailInOrder DEF Logs
  <2>3. [log[k] EXCEPT ![b] = Tail(l)] \in [Buckets -> Logs]
    BY <1>1, <2>2 DEF LogType
  <2>4. log' \in [Kinds -> [Buckets -> Logs]]
    BY <1>1, <2>1, <2>3 DEF LogType
  <2>5. \A j \in Kinds, c \in Buckets : Versions(log'[j][c]) \subseteq Versions(log[j][c])
    BY <1>1, <2>1, <2>2 DEF LogType, l
  <2>6. LogType'
    BY <1>1, <2>4, <2>5 DEF LogType
  <2> QED BY <1>1, <1>2, <1>5, <2>6 DEF Informer, TypeInv, WorkType, Fits, QueueType
<1> QED BY <1>3, <1>4, <1>5 DEF Manager

LEMMA EnvironmentType ==
    ASSUME TypeInv, Environment
    PROVE  TypeInv'
<1>1. /\ LogType /\ WorkType /\ GarageType /\ CountType /\ QueueType
      /\ "bucket" \in Kinds /\ "key" \in Kinds /\ "perm" \in Kinds
  BY KindFacts DEF TypeInv
<1>2. ASSUME Event \/ UNCHANGED events, UNCHANGED <<queue, w>>, uids' \in Nat
      PROVE  CountType' /\ WorkType' /\ QueueType'
  BY <1>1, <1>2, EventType DEF CountType, WorkType, Fits, QueueType
<1>3. /\ UNCHANGED log => LogType'
      /\ UNCHANGED <<gb, gk, grants, sec, ids>> => GarageType'
  BY <1>1 DEF LogType, GarageType
<1>4. uids \in Nat /\ gb \in [Buckets -> Nat]
  BY <1>1 DEF CountType, GarageType
<1>5. ASSUME NEW k \in Kinds, NEW b \in Buckets, NEW o \in Objects(SpecsFor(k)),
             Write(k, b, o), Event \/ UNCHANGED events, uids' \in Nat,
             UNCHANGED <<queue, w, gb, gk, grants, sec, ids>>
      PROVE  TypeInv'
  BY <1>1, <1>2, <1>3, <1>5, WriteLog DEF TypeInv
<1>6. ASSUME NEW b \in Buckets, NEW s \in SpecsOf[b], UserCreate(b, s) PROVE TypeInv'
  <2>1. s \in SpecsFor("bucket")
    BY <1>6, OperatorSpecsAssumption, KindFacts
  <2>2. \A u \in Nat : Created(u + 1, s) \in Objects(SpecsFor("bucket"))
    BY <2>1 DEF Created, Objects
  <2>3. /\ Write("bucket", b, Created(uids + 1, s)) /\ Event /\ uids' = uids + 1
        /\ UNCHANGED <<queue, w, gb, gk, grants, sec, ids>>
    BY <1>6 DEF UserCreate
  <2> QED BY <1>1, <1>4, <1>5, <2>2, <2>3
<1>7. ASSUME NEW b \in Buckets, NEW s \in SpecsOf[b], UserEdit(b, s) PROVE TypeInv'
  <2> DEFINE o == [Api("bucket", b) EXCEPT !.spec = s]
  <2>1. s \in SpecsFor("bucket")
    BY <1>7, OperatorSpecsAssumption, KindFacts
  <2>2. /\ Write("bucket", b, o) /\ Event /\ uids' = uids /\ Exists(Api("bucket", b))
        /\ UNCHANGED <<queue, w, gb, gk, grants, sec, ids>>
    BY <1>7 DEF UserEdit
  <2>3. o \in Objects(SpecsFor("bucket"))
    BY <1>1, <2>1, <2>2, ApiType, ObjectFacts
  <2> HIDE DEF o
  <2> QED BY <1>1, <1>4, <1>5, <2>2, <2>3
<1>8. ASSUME NEW b \in Buckets, UserEditPerm(b, Rights) PROVE TypeInv'
  <2> DEFINE a == Api("perm", b)
             s == [a.spec EXCEPT !.rights = Rights]
             o == [a EXCEPT !.spec.rights = Rights]
  <2>1. /\ Write("perm", b, o) /\ Event /\ uids' = uids /\ Exists(a)
        /\ UNCHANGED <<queue, w, gb, gk, grants, sec, ids>>
    BY <1>8 DEF UserEditPerm
  <2>2. a \in Objects(SpecsFor("perm"))
    BY <1>1, ApiType
  <2>3. a.spec \in ChildSpecs
    BY <1>1, <2>1, <2>2, ObjectFacts, KindFacts
  <2>4. s \in ChildSpecs
    BY <2>3 DEF ChildSpecs
  <2>5. o = [a EXCEPT !.spec = s]
    OBVIOUS
  <2> HIDE DEF a, s, o
  <2>6. o \in Objects(SpecsFor("perm"))
    BY <1>1, <2>1, <2>2, <2>4, <2>5, ObjectFacts, KindFacts
  <2> QED BY <1>1, <1>4, <1>5, <2>1, <2>6
<1>9. ASSUME NEW k \in Kinds, NEW b \in Buckets,
             Exists(Api(k, b)), Write(k, b, Deleted(Api(k, b))), Event \/ UNCHANGED events,
             UNCHANGED <<queue, w, gb, gk, grants, sec, ids, uids>>
      PROVE  TypeInv'
  <2>1. Deleted(Api(k, b)) \in Objects(SpecsFor(k))
    BY <1>1, <1>9, ApiType, ObjectFacts
  <2> QED BY <1>4, <1>5, <1>9, <2>1
<1>10. ASSUME NEW b \in Buckets, NEW k \in Kinds, UserDelete(k, b) PROVE TypeInv'
  BY <1>9, <1>10 DEF UserDelete
<1>11. ASSUME NEW b \in Buckets, NEW k \in ChildKinds, CollectChild(k, b) PROVE TypeInv'
  BY <1>9, <1>11 DEF CollectChild, Kinds
<1>12. ASSUME NEW b \in Buckets, AdminDeleteBucket(b) PROVE TypeInv'
  <2>1. GarageType'
    BY <1>1, <1>12 DEF AdminDeleteBucket, GarageType
  <2> QED BY <1>2, <1>3, <1>4, <1>12, <2>1 DEF AdminDeleteBucket, TypeInv
<1>13. ASSUME NEW x \in gk, AdminDeleteKey(x) PROVE TypeInv'
  <2>1. GarageType'
    BY <1>1, <1>13 DEF AdminDeleteKey, GarageType
  <2> QED BY <1>2, <1>3, <1>4, <1>13, <2>1 DEF AdminDeleteKey, TypeInv
<1>14. ASSUME NEW b \in Buckets, CollectSecret(b) PROVE TypeInv'
  <2>1. NoSecret \in Secrets
    BY DEF NoSecret, Secrets
  <2>2. GarageType'
    BY <1>1, <1>14, <2>1 DEF CollectSecret, GarageType
  <2> QED BY <1>2, <1>3, <1>4, <1>14, <2>2 DEF CollectSecret, TypeInv
<1> QED
  BY <1>6, <1>7, <1>8, <1>10, <1>11, <1>12, <1>13, <1>14 DEF Environment

LEMMA TypeInvInductive == TypeInv /\ [Next]_vars => TypeInv'
<1> SUFFICES ASSUME TypeInv, [Next]_vars PROVE TypeInv'
  OBVIOUS
<1>1. ASSUME NEW k \in Kinds, CallFails(k) PROVE TypeInv'
  <2>1. WorkType' /\ QueueType'
    BY <1>1, FailType DEF CallFails, At, TypeInv
  <2>2. events' \in 0 .. MaxEvents
    BY <1>1, EventType DEF CallFails, TypeInv
  <2> QED BY <1>1, <2>1, <2>2
      DEF CallFails, TypeInv, LogType, GarageType, CountType
<1>2. CASE UNCHANGED vars
  BY <1>2
  DEF vars, TypeInv, LogType, WorkType, Fits, GarageType, CountType, QueueType
<1> QED
  BY <1>1, <1>2, BeginType, WorkerType, ManagerType, EnvironmentType DEF Next

LEMMA AbsentLog ==
    /\ <<Absent>> \in Logs
    /\ Versions(<<Absent>>) = {Absent} /\ Live(<<Absent>>) = Absent
    /\ LogInOrder(<<Absent>>)
<1>1. <<Absent>> \in Logs
  BY DEF Logs, Objects
<1> QED BY <1>1, FirstLog

LEMMA TypeInvInit == Init => TypeInv
<1> SUFFICES ASSUME Init PROVE TypeInv
  OBVIOUS
<1>1. LogType
  <2>1. \A k : Absent \in Objects(SpecsFor(k))
    BY DEF Objects
  <2> QED BY <2>1, AbsentLog DEF Init, LogType
<1>2. WorkType
  BY IdleFits DEF Init, WorkType
<1>3. GarageType /\ CountType /\ QueueType
  BY OperatorBoundsAssumption
  DEF Init, GarageType, CountType, QueueType, NoSecret, Secrets
<1> QED BY <1>1, <1>2, <1>3 DEF TypeInv

(* The history names GarageBuckets only: the one let go is a request. *)
LEMMA KeptTypeInit == Init => KeptType
BY DEF Init, KeptType

LEMMA KeptTypeInductive == TypeInv /\ KeptType /\ [Next]_vars => KeptType'
<1> SUFFICES ASSUME TypeInv, KeptType, [Next]_vars PROVE KeptType'
  OBVIOUS
<1>1. ASSUME NEW k \in Kinds, RemoveFinalizer(k) PROVE KeptType'
  <2>1. w[k].b \in Buckets
    BY <1>1, AtHand DEF RemoveFinalizer, At
  <2> QED BY <1>1, <2>1 DEF RemoveFinalizer, Remember, KeptType
<1>2. ASSUME NEW k \in Kinds, Worker(k), ~RemoveFinalizer(k) PROVE kept' = kept
  BY <1>2
  DEF Worker, AddFinalizer, MakeBucket, RemoveKey, RemovePerm, RemoveChild, PutKey, PutPerm,
      PutChild, ReclaimBucket, MakeKey, PublishKey, ReclaimKey, Grant, Revoke
<1>3. Manager => kept' = kept
  BY DEF Manager, Crash, Resync, Informer
<1>4. Environment => kept' = kept
  BY DEF Environment, UserCreate, UserEdit, UserEditPerm, UserDelete, AdminDeleteBucket,
         AdminDeleteKey, CollectChild, CollectSecret
<1> QED BY <1>1, <1>2, <1>3, <1>4 DEF Next, Begin, CallFails, vars, KeptType

(* The types hold throughout: no worker acts for a request or a CR that it *)
(* does not have, and a GaragePermission is put with rights, on behalf of  *)
(* a GarageBucket with access only.                                        *)
THEOREM OperatorTypeCorrect == Spec => []OperatorTypeOK
BY TypeInvInit, TypeInvInductive, KeptTypeInit, KeptTypeInductive, TypeInvCorrect, PTL
   DEF Spec

-----------------------------------------------------------------------------
(* The invariant behind RightsHaveACr.                                     *)

(* A GarageAccessKey has its finalizer as long as it is there. *)
KeyLogInv ==
    \A b \in Buckets :
        /\ LogInOrder(log["key"][b])
        /\ \A v \in Versions(log["key"][b]) : v.uid <= uids /\ (Exists(v) => v.fin)

(* The key's worker makes a key for a stored GarageAccessKey only, though  *)
(* it goes by a cached copy, and lets one go whose key is no more.         *)
KeyWorkInv ==
    LET v == w["key"] IN
    /\ v.pc \in {"idle", "make", "publish", "reclaim", "unfinalize"}
    /\ v.mem.uid <= uids
    /\ v.pc \in {"make", "publish"} => Api("key", v.b).uid = v.mem.uid
    /\ v.pc \in {"reclaim", "unfinalize"} =>
         /\ v.mem.deleting
         /\ \A x \in Versions(log["key"][v.b]) : x.uid = v.mem.uid => x.deleting
    /\ v.pc = "unfinalize" => KeyOf(v.mem) = {}

KeysHaveACr ==
    \A x \in gk : \E b \in Buckets : Api("key", b).uid = x.uid /\ Api("key", b).fin

GrantsHaveKeys == \A g \in grants : \E x \in gk : x.id = g.key

RightsInv == TypeInv /\ KeyLogInv /\ KeyWorkInv /\ KeysHaveACr /\ GrantsHaveKeys

LEMMA RightsInvCorrect == RightsInv => RightsHaveACr
BY DEF RightsInv, KeysHaveACr, GrantsHaveKeys, RightsHaveACr

-----------------------------------------------------------------------------
(* The GarageAccessKeys after a step: each is kept, made, or let go by the *)
(* worker of their kind.                                                   *)

KeyMade(b) ==
    /\ ~Exists(Api("key", b)) /\ uids' = uids + 1
    /\ Live(log'["key"][b]).uid = uids + 1 /\ Live(log'["key"][b]).fin

KeyGoes(b) ==
    /\ Live(log'["key"][b]) = Absent
    /\ w["key"].pc = "unfinalize" /\ w["key"].mem = Api("key", b)
    /\ w'["key"] = Idle

KeyStays(b) ==
    /\ Kept(Api("key", b), Live(log'["key"][b]))
    /\ Exists(Api("key", b)) => Live(log'["key"][b]).fin

KeyStep(b) ==
    /\ LogInOrder(log'["key"][b])
    /\ Versions(log'["key"][b]) \subseteq Versions(log["key"][b]) \cup {Live(log'["key"][b])}
    /\ KeyStays(b) \/ KeyMade(b) \/ KeyGoes(b)

LEMMA KeyFacts ==
    ASSUME RightsInv, NEW b \in Buckets
    PROVE  /\ log["key"][b] \in Logs /\ log["key"][b] \in Seq(Objects(AllSpecs)) \ {<<>>}
           /\ Api("key", b) \in Objects(ChildSpecs) /\ Cache("key", b) \in Objects(ChildSpecs)
           /\ Api("key", b) \in Versions(log["key"][b])
           /\ Cache("key", b) \in Versions(log["key"][b])
           /\ LogInOrder(log["key"][b]) /\ Api("key", b).uid \in Nat
           /\ Exists(Api("key", b)) => Api("key", b).fin
           /\ Api("key", b).fin => Exists(Api("key", b))
           /\ \A v \in Versions(log["key"][b]) :
                v.uid \in Nat /\ v.uid <= uids /\ (Exists(v) => v.fin)
<1>1. "key" \in Kinds /\ SpecsFor("key") = ChildSpecs /\ LogType /\ KeyLogInv
  BY KindFacts DEF RightsInv, TypeInv
<1>2. /\ log["key"][b] \in Logs /\ Versions(log["key"][b]) \subseteq Objects(ChildSpecs)
      /\ Api("key", b) \in Versions(log["key"][b])
      /\ Cache("key", b) \in Versions(log["key"][b])
  BY <1>1, ApiType DEF LogType
<1>3. \A v \in Objects(ChildSpecs) : v.uid \in Nat /\ (v.fin => Exists(v))
  BY DEF Objects, Absent, Exists
<1> QED BY <1>1, <1>2, <1>3 DEF KeyLogInv, Logs

LEMMA StillKeys ==
    ASSUME RightsInv, NEW b \in Buckets, log'["key"][b] = log["key"][b]
    PROVE  KeyStep(b)
BY KeyFacts DEF KeyStep, KeyStays, Kept, Api

(* A write to a log of another kind. *)
LEMMA OtherWrite ==
    ASSUME RightsInv, NEW k \in Kinds \ {"key"}, NEW b, NEW o, Write(k, b, o)
    PROVE  log'["key"] = log["key"]
<1>1. log \in [Kinds -> [Buckets -> Logs]] /\ "key" \in Kinds
  BY KindFacts DEF RightsInv, TypeInv, LogType
<1> QED BY <1>1 DEF Write

LEMMA WriteKey ==
    ASSUME RightsInv, NEW b \in Buckets, NEW o \in Objects(ChildSpecs), Write("key", b, o)
    PROVE  /\ Live(log'["key"][b]) = o
           /\ \A c \in Buckets : c # b => log'["key"][c] = log["key"][c]
           /\ Versions(log'["key"][b]) \subseteq Versions(log["key"][b]) \cup {o}
           /\ Follows(o, log["key"][b]) => LogInOrder(log'["key"][b])
<1>1. PICK k \in Kinds : k = "key" /\ o \in Objects(SpecsFor(k)) /\ LogType
  BY KindFacts DEF RightsInv, TypeInv
<1>2. Write(k, b, o) /\ LogInOrder(log[k][b])
  BY <1>1, KeyFacts
<1>3. /\ Live(log'[k][b]) = o
      /\ \A j \in Kinds, c \in Buckets : j # k \/ c # b => log'[j][c] = log[j][c]
      /\ Versions(log'[k][b]) \subseteq Versions(log[k][b]) \cup {o}
      /\ LogInOrder(log[k][b]) /\ Follows(o, log[k][b]) => LogInOrder(log'[k][b])
  BY <1>1, <1>2, WriteLog
<1> QED BY <1>1, <1>2, <1>3

(* A write that keeps the GarageAccessKey and its finalizer. *)
LEMMA KeptKey ==
    ASSUME RightsInv, NEW b \in Buckets, NEW o \in Objects(ChildSpecs), Write("key", b, o),
           Kept(Api("key", b), o), o.fin
    PROVE  \A c \in Buckets : KeyStep(c)
<1>1. /\ Live(log'["key"][b]) = o
      /\ \A c \in Buckets : c # b => log'["key"][c] = log["key"][c]
      /\ Versions(log'["key"][b]) \subseteq Versions(log["key"][b]) \cup {o}
      /\ Follows(o, log["key"][b]) => LogInOrder(log'["key"][b])
  BY WriteKey
<1>2. Follows(o, log["key"][b])
  BY KeyFacts, KeptFollows DEF Api
<1>3. KeyStep(b)
  BY <1>1, <1>2 DEF KeyStep, KeyStays
<1> QED BY <1>1, <1>3, StillKeys

LEMMA DeletedKey ==
    ASSUME RightsInv, NEW b \in Buckets, Exists(Api("key", b)),
           Write("key", b, Deleted(Api("key", b)))
    PROVE  \A c \in Buckets : KeyStep(c)
<1> DEFINE o == Api("key", b)
<1>1. o \in Objects(ChildSpecs) /\ o.fin
  BY KeyFacts
<1>2. /\ Deleted(o) \in Objects(ChildSpecs) /\ Kept(o, Deleted(o))
  BY <1>1, StoredFacts, KeptWrites
<1>3. Deleted(o).fin
  BY <1>1, <1>2 DEF Kept
<1> QED BY <1>2, <1>3, KeptKey

LEMMA KeyMoves ==
    ASSUME RightsInv, [Next]_vars
    PROVE  \A b \in Buckets : KeyStep(b)
<1>1. /\ "key" \in Kinds /\ "bucket" \in Kinds /\ "perm" \in Kinds
      /\ log \in [Kinds -> [Buckets -> Logs]] /\ LogType /\ TypeInv
      /\ SpecsFor("key") = ChildSpecs
  BY KindFacts DEF RightsInv, TypeInv, LogType
<1>2. CASE log'["key"] = log["key"]
  BY <1>2, StillKeys
<1>3. ASSUME RemoveFinalizer("key") PROVE \A b \in Buckets : KeyStep(b)
  <2> DEFINE b == w["key"].b
             m == w["key"].mem
  <2>1. w["key"].pc = "unfinalize" /\ b \in Buckets /\ Exists(m)
    BY <1>1, <1>3, AtHand DEF RemoveFinalizer, At
  <2>2. CASE UNCHANGED log
    BY <1>2, <2>2
  <2>3. CASE Api("key", b) = m /\ Write("key", b, Unfinalized(m)) /\ w'["key"] = Idle
    <3>1. /\ m.deleting /\ \A x \in Versions(log["key"][b]) : x.uid = m.uid => x.deleting
      BY <2>1 DEF RightsInv, KeyWorkInv
    <3>2. Unfinalized(m) = Absent /\ Absent \in Objects(SpecsFor("key"))
      BY <3>1 DEF Unfinalized, Objects
    <3>3. \A x \in Versions(log["key"][b]) : ~x.fin \/ x.deleting
      BY <2>1, <2>3, <3>1, KeyFacts DEF LogInOrder, Api
    <3>4. Follows(Absent, log["key"][b])
      BY <2>1, <3>3, KeyFacts, AbsentFollows
    <3>5. /\ Live(log'["key"][b]) = Absent
          /\ \A c \in Buckets : c # b => log'["key"][c] = log["key"][c]
          /\ Versions(log'["key"][b]) \subseteq Versions(log["key"][b]) \cup {Absent}
          /\ LogInOrder(log'["key"][b])
      BY <1>1, <2>1, <2>3, <3>2, <3>4, WriteKey
    <3>6. KeyStep(b)
      BY <2>1, <2>3, <3>5 DEF KeyStep, KeyGoes
    <3> QED BY <3>5, <3>6, StillKeys
  <2>4. Fail("key") \/ Done("key") => w'["key"] = Idle
    BY <1>1 DEF Fail, Done, Stop, TypeInv, WorkType
  <2> QED BY <1>3, <2>2, <2>3, <2>4 DEF RemoveFinalizer, Answered
<1>4. ASSUME RemoveKey PROVE \A b \in Buckets : KeyStep(b)
  <2>1. w["bucket"].b \in Buckets
    BY <1>1, <1>4, AtHand DEF RemoveKey, RemoveChild, At
  <2> QED BY <1>2, <1>4, <2>1, DeletedKey DEF RemoveKey, RemoveChild
<1>5. ASSUME PutKey PROVE \A b \in Buckets : KeyStep(b)
  <2> DEFINE b   == w["bucket"].b
             c   == Cache("key", b)
             new == IF Exists(c) THEN [c EXCEPT !.spec = Asked("key")]
                    ELSE [Created(uids + 1, Asked("key")) EXCEPT !.fin = TRUE]
  <2>1. b \in Buckets /\ w["bucket"].mem.uid \in Nat
    BY <1>1, <1>5, AtHand DEF PutKey, PutChild, At
  <2>2. Asked("key") \in ChildSpecs
    BY <2>1 DEF Asked, ChildSpecs
  <2>3. CASE UNCHANGED log
    BY <1>2, <2>3
  <2>4. CASE Exists(c) /\ Api("key", b) = c /\ Write("key", b, new)
    <3>1. c \in Objects(ChildSpecs) /\ c.fin
      BY <2>1, <2>4, KeyFacts
    <3>2. [c EXCEPT !.spec = Asked("key")] \in Objects(ChildSpecs)
      BY <2>2, <2>4, <3>1, StoredFacts
    <3>3. Kept(c, [c EXCEPT !.spec = Asked("key")])
      BY <2>2, <2>4, <3>1, KeptWrites
    <3>4. new \in Objects(ChildSpecs) /\ Kept(c, new) /\ new.fin
      BY <2>4, <3>1, <3>2, <3>3 DEF Kept
    <3> HIDE DEF new
    <3> QED BY <2>1, <2>4, <3>4, KeptKey
  <2>5. CASE ~Exists(c) /\ Api("key", b) = c /\ Write("key", b, new) /\ uids' = uids + 1
    <3>1. uids \in Nat
      BY <1>1 DEF TypeInv, CountType
    <3>2. new = [Created(uids + 1, Asked("key")) EXCEPT !.fin = TRUE]
      BY <2>5
    <3>3. new \in Objects(SpecsFor("key")) /\ new.uid = uids + 1 /\ new.fin
      BY <1>1, <2>2, <3>1, <3>2, NewType DEF Created
    <3>4. \A v \in Versions(log["key"][b]) : v.uid # new.uid
      <4>1. \A v \in Versions(log["key"][b]) : v.uid \in Nat /\ v.uid <= uids
        BY <2>1, KeyFacts
      <4> QED BY <3>1, <3>3, <4>1
    <3> HIDE DEF new
    <3>5. Follows(new, log["key"][b])
      BY <2>1, <2>5, <3>4, KeyFacts, FreshFollows DEF Api
    <3>6. /\ Live(log'["key"][b]) = new
          /\ \A d \in Buckets : d # b => log'["key"][d] = log["key"][d]
          /\ Versions(log'["key"][b]) \subseteq Versions(log["key"][b]) \cup {new}
          /\ LogInOrder(log'["key"][b])
      BY <1>1, <2>1, <2>5, <3>3, <3>5, WriteKey
    <3>7. KeyStep(b)
      BY <2>1, <2>5, <3>3, <3>6 DEF KeyStep, KeyMade
    <3> QED BY <3>6, <3>7, StillKeys
  <2> QED BY <1>5, <2>3, <2>4, <2>5 DEF PutKey, PutChild
<1>6. ASSUME NEW b \in Buckets, Informer("key", b) PROVE \A c \in Buckets : KeyStep(c)
  <2> DEFINE l == log["key"][b]
             m == log'["key"][b]
  <2>1. /\ l \in Seq(Objects(AllSpecs)) \ {<<>>} /\ Len(l) > 1 /\ m = Tail(l)
        /\ \A c \in Buckets : c # b => log'["key"][c] = log["key"][c]
    BY <1>1, <1>6, KeyFacts DEF Informer
  <2>2. LogInOrder(l)
    BY KeyFacts
  <2> HIDE DEF l, m
  <2>3. LogInOrder(m) /\ Versions(m) \subseteq Versions(l) /\ Live(m) = Live(l)
    BY <2>1, <2>2, LogTail, TailInOrder
  <2>4. KeyStep(b)
    BY <2>3, KeyFacts DEF KeyStep, KeyStays, Kept, Api, l, m
  <2> QED BY <2>1, <2>4, StillKeys
<1>7. CASE Crash
  <2> SUFFICES ASSUME NEW b \in Buckets PROVE KeyStep(b)
    OBVIOUS
  <2> DEFINE l == log["key"][b]
             m == log'["key"][b]
  <2>1. l \in Seq(Objects(AllSpecs)) \ {<<>>} /\ m = Relisted(l)
    BY <1>1, <1>7, KeyFacts DEF Crash
  <2> HIDE DEF l, m
  <2>2. LogInOrder(m) /\ Versions(m) \subseteq Versions(l) /\ Live(m) = Live(l)
    BY <2>1, LogRelist, RelistInOrder
  <2> QED BY <2>2, KeyFacts DEF KeyStep, KeyStays, Kept, Api, l, m
<1>8. ASSUME NEW k \in Kinds, Worker(k) PROVE \A b \in Buckets : KeyStep(b)
  <2>1. RemoveFinalizer(k) /\ k # "key" => log'["key"] = log["key"]
    BY OtherWrite DEF RemoveFinalizer
  <2>2. AddFinalizer \/ RemovePerm \/ PutPerm => log'["key"] = log["key"]
    BY <1>1, OtherWrite DEF AddFinalizer, RemovePerm, RemoveChild, PutPerm, PutChild
  <2>3. MakeBucket \/ ReclaimBucket \/ MakeKey \/ PublishKey \/ ReclaimKey \/ Grant \/ Revoke
           => log'["key"] = log["key"]
    BY DEF MakeBucket, ReclaimBucket, MakeKey, PublishKey, ReclaimKey, Grant, Revoke
  <2> QED BY <1>2, <1>3, <1>4, <1>5, <1>8, <2>1, <2>2, <2>3 DEF Worker
<1>9. CASE Manager
  <2>1. ASSUME NEW k \in Kinds, NEW b \in Buckets, Informer(k, b), k # "key"
        PROVE  log'["key"] = log["key"]
    BY <1>1, <2>1 DEF Informer
  <2> QED BY <1>2, <1>6, <1>7, <1>9, <2>1 DEF Manager, Resync
<1>10. CASE Environment
  <2>1. ASSUME NEW b \in Buckets, NEW s,
               UserCreate(b, s) \/ UserEdit(b, s) \/ UserEditPerm(b, s)
        PROVE  log'["key"] = log["key"]
    BY <1>1, <2>1, OtherWrite DEF UserCreate, UserEdit, UserEditPerm
  <2>2. ASSUME NEW b \in Buckets, NEW k \in Kinds, UserDelete(k, b)
        PROVE  \A c \in Buckets : KeyStep(c)
    BY <1>2, <2>2, OtherWrite, DeletedKey DEF UserDelete
  <2>3. ASSUME NEW b \in Buckets, NEW k \in ChildKinds, CollectChild(k, b)
        PROVE  \A c \in Buckets : KeyStep(c)
    BY <1>2, <2>3, OtherWrite, DeletedKey DEF CollectChild, Kinds
  <2> QED BY <1>2, <1>10, <2>1, <2>2, <2>3
      DEF Environment, AdminDeleteBucket, AdminDeleteKey, CollectSecret
<1>11. CASE UNCHANGED vars \/ \E k \in Kinds : CallFails(k) \/ \E b \in Buckets : Begin(k, b)
  BY <1>2, <1>11 DEF vars, CallFails, Begin
<1> QED BY <1>8, <1>9, <1>10, <1>11 DEF Next

-----------------------------------------------------------------------------
(* Their worker after a step.                                              *)

LEMMA KeyWorker ==
    ASSUME RightsInv
    PROVE  /\ w["key"] \in Work /\ w["key"].mem \in Objects(ChildSpecs)
           /\ w["key"].mem.uid \in Nat /\ uids \in Nat
           /\ w["key"].pc # "idle" => w["key"].b \in Buckets /\ Exists(w["key"].mem)
<1>1. /\ w["key"] \in Work /\ w["key"].mem \in Objects(ChildSpecs) /\ uids \in Nat
      /\ w["key"].pc # "idle" => w["key"].b \in Buckets /\ Exists(w["key"].mem)
  BY KindFacts DEF RightsInv, TypeInv, WorkType, Fits, CountType
<1>2. w["key"].mem.uid \in Nat
  BY <1>1 DEF Objects, Absent
<1> QED BY <1>1, <1>2

LEMMA UidsGrow ==
    ASSUME RightsInv, [Next]_vars
    PROVE  uids \in Nat /\ uids' \in Nat /\ uids <= uids'
<1>1. uids \in Nat
  BY KeyWorker
<1>2. uids' \in {uids, uids + 1}
  <2>1. ASSUME NEW k \in Kinds, Worker(k) PROVE uids' \in {uids, uids + 1}
    BY <2>1
    DEF Worker, RemoveFinalizer, AddFinalizer, MakeBucket, RemoveKey, RemovePerm, RemoveChild,
        PutKey, PutPerm, PutChild, ReclaimBucket, MakeKey, PublishKey, ReclaimKey, Grant, Revoke
  <2>2. Environment => uids' \in {uids, uids + 1}
    BY DEF Environment, UserCreate, UserEdit, UserEditPerm, UserDelete, AdminDeleteBucket,
           AdminDeleteKey, CollectChild, CollectSecret
  <2>3. Manager => uids' = uids
    BY DEF Manager, Crash, Resync, Informer
  <2> QED BY <2>1, <2>2, <2>3 DEF Next, Begin, CallFails, vars
<1> QED BY <1>1, <1>2

(* A worker of another kind leaves this one alone. *)
LEMMA OtherWorker ==
    ASSUME RightsInv, NEW k \in Kinds \ {"key"}, Worker(k)
    PROVE  UNCHANGED w["key"]
<1>1. w \in [Kinds -> Work] /\ "key" \in Kinds
  BY KindFacts DEF RightsInv, TypeInv, WorkType
<1>2. ASSUME NEW j \in Kinds \ {"key"}, NEW pc, Fail(j) \/ Done(j) \/ Goto(j, pc)
      PROVE  UNCHANGED w["key"]
  BY <1>1, <1>2 DEF Fail, Done, Stop, Goto
<1>3. "bucket" \in Kinds \ {"key"} /\ "perm" \in Kinds \ {"key"}
  BY KindFacts
<1>4. RemoveFinalizer(k) => UNCHANGED w["key"]
  BY <1>2 DEF RemoveFinalizer, Answered
<1>5. AddFinalizer => UNCHANGED w["key"]
  BY <1>1, <1>2, <1>3 DEF AddFinalizer, Answered
<1>6. MakeBucket \/ RemoveKey \/ RemovePerm \/ PutKey \/ PutPerm \/ ReclaimBucket
        => UNCHANGED w["key"]
  BY <1>2, <1>3 DEF MakeBucket, RemoveKey, RemovePerm, RemoveChild, PutKey, PutPerm,
                    PutChild, ReclaimBucket, Answered
<1>7. Grant \/ Revoke => UNCHANGED w["key"]
  BY <1>2, <1>3 DEF Grant, Revoke, Answered
<1> QED BY <1>4, <1>5, <1>6, <1>7 DEF Worker

(* What that worker does. *)
LEMMA KeyWorkerMoves ==
    ASSUME RightsInv, [Next]_vars
    PROVE  \/ UNCHANGED w["key"] /\ (gk' \subseteq gk)
           \/ w'["key"] = Idle
           \/ \E b \in Buckets : Begin("key", b)
           \/ /\ MakeKey /\ w'["key"].pc = "publish"
              /\ w'["key"].b = w["key"].b /\ w'["key"].mem = w["key"].mem
           \/ /\ ReclaimKey /\ w'["key"].pc = "unfinalize"
              /\ w'["key"].b = w["key"].b /\ w'["key"].mem = w["key"].mem
<1>1. w \in [Kinds -> Work] /\ WorkType /\ "key" \in Kinds
  BY KindFacts DEF RightsInv, TypeInv, WorkType
<1>2. \A j \in Kinds : Fail(j) \/ Done(j) => w' = [w EXCEPT ![j] = Idle]
  BY DEF Fail, Done, Stop
<1>3. ASSUME NEW pc \in {"publish", "unfinalize"}, Goto("key", pc)
      PROVE  w'["key"].pc = pc /\ w'["key"].b = w["key"].b /\ w'["key"].mem = w["key"].mem
  BY <1>1, <1>3 DEF Goto, Work
<1>4. ASSUME Worker("key") PROVE \/ w'["key"] = Idle
                                 \/ MakeKey /\ Goto("key", "publish")
                                 \/ ReclaimKey /\ Goto("key", "unfinalize")
  BY <1>1, <1>2, <1>4
  DEF Worker, RemoveFinalizer, MakeKey, PublishKey, ReclaimKey, Answered
<1>5. ASSUME NEW k \in Kinds \ {"key"}, Worker(k) PROVE gk' = gk
  BY <1>5 DEF Worker, RemoveFinalizer, AddFinalizer, MakeBucket, RemoveKey, RemovePerm,
              RemoveChild, PutKey, PutPerm, PutChild, ReclaimBucket, Grant, Revoke
<1>6. ASSUME NEW k \in Kinds, NEW b \in Buckets, Begin(k, b), k # "key"
      PROVE  UNCHANGED w["key"] /\ gk' = gk
  BY <1>1, <1>6 DEF Begin
<1>7. ASSUME NEW k \in Kinds, CallFails(k)
      PROVE  gk' = gk /\ (UNCHANGED w["key"] \/ w'["key"] = Idle)
  BY <1>1, <1>2, <1>7 DEF CallFails
<1>8. Manager => gk' = gk /\ (UNCHANGED w["key"] \/ w'["key"] = Idle)
  BY <1>1 DEF Manager, Crash, Resync, Informer
<1>9. Environment => gk' \subseteq gk /\ UNCHANGED w
  BY DEF Environment, UserCreate, UserEdit, UserEditPerm, UserDelete, AdminDeleteBucket,
         AdminDeleteKey, CollectChild, CollectSecret
<1> QED BY <1>3, <1>4, <1>5, <1>6, <1>7, <1>8, <1>9, OtherWorker DEF Next, vars

(* A copy that is terminating is of a CR that is. *)
LEMMA DeletionStill ==
    ASSUME RightsInv, [Next]_vars, NEW b \in Buckets, NEW m, Exists(m), m.uid <= uids,
           m.uid \in Nat,
           \A x \in Versions(log["key"][b]) : x.uid = m.uid => x.deleting,
           NEW v \in Versions(log'["key"][b]), v.uid = m.uid
    PROVE  v.deleting
<1> DEFINE p == Live(log'["key"][b])
<1>1. /\ v \in Versions(log["key"][b]) \cup {p}
      /\ KeyStays(b) \/ KeyMade(b) \/ KeyGoes(b)
  BY KeyMoves DEF KeyStep
<1>2. m.uid # uids + 1
  BY KeyWorker
<1>3. ASSUME v = p PROVE p.deleting
  <2>1. ~KeyMade(b) /\ ~KeyGoes(b)
    BY <1>2, <1>3 DEF KeyMade, KeyGoes, Absent, Exists
  <2> QED BY <1>1, <1>3, <2>1, KeyFacts DEF KeyStays, Kept
<1> QED BY <1>1, <1>3

LEMMA KeyWorkInvStep ==
    ASSUME RightsInv, [Next]_vars
    PROVE  KeyWorkInv'
<1> DEFINE v == w["key"]
<1>1. /\ v.mem.uid \in Nat /\ uids <= uids' /\ uids \in Nat /\ uids' \in Nat
      /\ v.pc # "idle" => v.b \in Buckets /\ Exists(v.mem)
  BY KeyWorker, UidsGrow
<1>2. CASE w'["key"] = Idle
  BY <1>1, <1>2 DEF KeyWorkInv, Idle, Absent
<1>3. v.mem.uid <= uids'
  BY <1>1 DEF RightsInv, KeyWorkInv
<1>4. ASSUME v.pc \in {"make", "publish"}
      PROVE  Live(log'["key"][v.b]).uid = v.mem.uid
  <2>1. Api("key", v.b).uid = v.mem.uid /\ Exists(Api("key", v.b)) /\ v.b \in Buckets
    BY <1>1, <1>4 DEF RightsInv, KeyWorkInv, Exists
  <2>2. ~KeyMade(v.b) /\ ~KeyGoes(v.b)
    BY <1>4, <2>1 DEF KeyMade, KeyGoes
  <2> QED BY <2>1, <2>2, KeyMoves DEF KeyStep, KeyStays, Kept
<1>5. ASSUME v.pc \in {"reclaim", "unfinalize"}
      PROVE  /\ v.mem.deleting
             /\ \A x \in Versions(log'["key"][v.b]) : x.uid = v.mem.uid => x.deleting
  <2>1. /\ v.mem.deleting /\ v.mem.uid <= uids
        /\ \A x \in Versions(log["key"][v.b]) : x.uid = v.mem.uid => x.deleting
    BY <1>5 DEF RightsInv, KeyWorkInv
  <2> QED BY <1>1, <1>5, <2>1, DeletionStill
<1>6. CASE UNCHANGED w["key"] /\ gk' \subseteq gk
  <2>1. v.pc = "unfinalize" => \A x \in gk' : x.uid # v.mem.uid
    BY <1>6 DEF RightsInv, KeyWorkInv, KeyOf
  <2>2. v.pc \in {"idle", "make", "publish", "reclaim", "unfinalize"}
    BY DEF RightsInv, KeyWorkInv
  <2> QED BY <1>3, <1>4, <1>5, <1>6, <2>1, <2>2 DEF KeyWorkInv, KeyOf, Api
<1>7. CASE /\ MakeKey /\ w'["key"].pc = "publish"
           /\ w'["key"].b = w["key"].b /\ w'["key"].mem = w["key"].mem
  BY <1>3, <1>4, <1>7 DEF KeyWorkInv, Api, MakeKey, At
<1>8. CASE /\ ReclaimKey /\ w'["key"].pc = "unfinalize"
           /\ w'["key"].b = w["key"].b /\ w'["key"].mem = w["key"].mem
  <2>1. \A x \in gk' : x.uid # v.mem.uid
    BY <1>8 DEF ReclaimKey, KeyOf
  <2> QED BY <1>3, <1>5, <1>8, <2>1 DEF KeyWorkInv, KeyOf, ReclaimKey, At
<1>9. ASSUME NEW b \in Buckets, Begin("key", b), w'["key"] # Idle PROVE KeyWorkInv'
  <2> DEFINE m == Cache("key", b)
  <2>1. /\ UNCHANGED <<log, gk, uids>> /\ Exists(m)
        /\ w'["key"] = [pc |-> FirstStep("key", m, TRUE), b |-> b, mem |-> m]
    BY <1>9, KindFacts DEF Begin, RightsInv, TypeInv, WorkType
  <2>2. /\ log["key"][b] \in Seq(Objects(AllSpecs)) \ {<<>>} /\ LogInOrder(log["key"][b])
        /\ m \in Versions(log["key"][b]) /\ m.fin /\ m.uid <= uids
        /\ m = Cached(log["key"][b])
    BY <2>1, KeyFacts DEF Cache
  <2> HIDE DEF m
  <2>3. w'["key"].pc = IF m.deleting THEN "reclaim" ELSE "make"
    BY <2>1, <2>2 DEF FirstStep
  <2>4. ASSUME m.deleting
        PROVE  \A x \in Versions(log["key"][b]) : x.uid = m.uid => x.deleting
    BY <2>2, <2>4, CachedTerminates
  <2>5. ~m.deleting => Api("key", b).uid = m.uid
    BY <2>2 DEF LogInOrder, Api
  <2>6. w'["key"].b = b /\ w'["key"].mem = m
    BY <2>1
  <2> QED BY <2>1, <2>2, <2>3, <2>4, <2>5, <2>6 DEF KeyWorkInv, Api
<1> QED BY <1>2, <1>6, <1>7, <1>8, <1>9, KeyWorkerMoves

LEMMA KeyLogInvStep ==
    ASSUME RightsInv, [Next]_vars
    PROVE  KeyLogInv'
<1> SUFFICES ASSUME NEW b \in Buckets
             PROVE  /\ LogInOrder(log'["key"][b])
                    /\ \A v \in Versions(log'["key"][b]) :
                         v.uid <= uids' /\ (Exists(v) => v.fin)
  BY DEF KeyLogInv
<1> DEFINE p == Live(log'["key"][b])
<1>1. KeyStep(b) /\ uids \in Nat /\ uids' \in Nat /\ uids <= uids'
  BY KeyMoves, UidsGrow
<1>2. \A v \in Versions(log["key"][b]) :
        v.uid \in Nat /\ v.uid <= uids /\ (Exists(v) => v.fin)
  BY KeyFacts
<1>3. p.uid <= uids' /\ (Exists(p) => p.fin)
  <2>1. CASE KeyStays(b)
    <3>1. p.uid = Api("key", b).uid /\ Api("key", b).uid \in Nat /\ Api("key", b).uid <= uids
      BY <2>1, KeyFacts DEF KeyStays, Kept
    <3> QED BY <1>1, <2>1, <3>1 DEF KeyStays, Exists
  <2>2. CASE KeyMade(b)
    BY <1>1, <2>2 DEF KeyMade
  <2>3. CASE KeyGoes(b)
    BY <1>1, <2>3 DEF KeyGoes, Absent, Exists
  <2> QED BY <1>1, <2>1, <2>2, <2>3 DEF KeyStep
<1>4. \A v \in Versions(log["key"][b]) : v.uid <= uids'
  BY <1>1, <1>2
<1> HIDE DEF p
<1> QED BY <1>1, <1>2, <1>3, <1>4 DEF KeyStep, p

LEMMA KeysHaveACrStep ==
    ASSUME RightsInv, [Next]_vars
    PROVE  KeysHaveACr'
<1> SUFFICES ASSUME NEW x \in gk'
             PROVE  \E b \in Buckets : /\ Live(log'["key"][b]).uid = x.uid
                                       /\ Live(log'["key"][b]).fin
  BY DEF KeysHaveACr, Api
<1>1. CASE x \in gk
  <2>1. PICK b \in Buckets : Api("key", b).uid = x.uid /\ Api("key", b).fin
    BY <1>1 DEF RightsInv, KeysHaveACr
  <2>2. ~KeyMade(b)
    BY <2>1, KeyFacts DEF KeyMade
  <2>3. ~KeyGoes(b)
    BY <1>1, <2>1 DEF KeyGoes, RightsInv, KeyWorkInv, KeyOf
  <2> QED BY <2>1, <2>2, <2>3, KeyMoves DEF KeyStep, KeyStays, Kept
<1>2. CASE x \notin gk
  <2>1. MakeKey
    <3>1. ASSUME NEW k \in Kinds, Worker(k), ~MakeKey PROVE gk' \subseteq gk
      BY <3>1
      DEF Worker, RemoveFinalizer, AddFinalizer, MakeBucket, RemoveKey, RemovePerm, RemoveChild,
          PutKey, PutPerm, PutChild, ReclaimBucket, PublishKey, ReclaimKey, Grant, Revoke
    <3>2. Environment => gk' \subseteq gk
      BY DEF Environment, UserCreate, UserEdit, UserEditPerm, UserDelete, AdminDeleteBucket,
             AdminDeleteKey, CollectChild, CollectSecret
    <3>3. Manager => gk' = gk
      BY DEF Manager, Crash, Resync, Informer
    <3> QED BY <1>2, <3>1, <3>2, <3>3 DEF Next, Begin, CallFails, vars
  <2> DEFINE b == w["key"].b
  <2>2. /\ w["key"].pc = "make" /\ x.uid = w["key"].mem.uid /\ UNCHANGED log
        /\ b \in Buckets /\ Exists(w["key"].mem)
    BY <1>2, <2>1, KeyWorker DEF MakeKey, At
  <2>3. Api("key", b).uid = x.uid /\ Exists(Api("key", b))
    BY <2>2 DEF RightsInv, KeyWorkInv, Exists
  <2> QED BY <2>2, <2>3, KeyFacts DEF Api
<1> QED BY <1>1, <1>2

LEMMA GrantsHaveKeysStep ==
    ASSUME RightsInv, [Next]_vars
    PROVE  GrantsHaveKeys'
<1>1. \A g \in grants : \E x \in gk : x.id = g.key
  BY DEF RightsInv, GrantsHaveKeys
<1>2. CASE grants' \subseteq grants /\ gk \subseteq gk'
  BY <1>1, <1>2 DEF GrantsHaveKeys
<1>3. CASE Grant
  <2>1. gk' = gk
    BY <1>3 DEF Grant
  <2>2. ASSUME NEW g \in grants', g \notin grants PROVE \E x \in gk : x.id = g.key
    BY <1>3, <2>2 DEF Grant, KeyOf, Pair
  <2> QED BY <1>1, <2>1, <2>2 DEF GrantsHaveKeys
<1>4. CASE ReclaimKey
  BY <1>1, <1>2, <1>4 DEF ReclaimKey, KeyOf, GrantsHaveKeys
<1>5. ASSUME NEW k \in Kinds, Worker(k), ~Grant, ~ReclaimKey
      PROVE  grants' \subseteq grants /\ gk \subseteq gk'
  BY <1>5
  DEF Worker, RemoveFinalizer, AddFinalizer, MakeBucket, RemoveKey, RemovePerm, RemoveChild,
      PutKey, PutPerm, PutChild, ReclaimBucket, MakeKey, PublishKey, Revoke
<1>6. ASSUME NEW x \in gk, AdminDeleteKey(x) PROVE GrantsHaveKeys'
  BY <1>1, <1>6 DEF AdminDeleteKey, GrantsHaveKeys
<1>7. CASE Environment
  BY <1>2, <1>6, <1>7
  DEF Environment, UserCreate, UserEdit, UserEditPerm, UserDelete, AdminDeleteBucket,
      CollectChild, CollectSecret
<1>8. Manager => UNCHANGED <<grants, gk>>
  BY DEF Manager, Crash, Resync, Informer
<1> QED BY <1>2, <1>3, <1>4, <1>5, <1>7, <1>8 DEF Next, Begin, CallFails, vars

LEMMA RightsInvInit == Init => RightsInv
<1> SUFFICES ASSUME Init PROVE RightsInv
  OBVIOUS
<1>1. /\ \A b \in Buckets : log["key"][b] = <<Absent>>
      /\ w["key"] = Idle /\ gk = {} /\ grants = {} /\ uids = 0
  BY KindFacts DEF Init
<1>2. KeyLogInv
  <2>. DEFINE A == Absent
  <2>1. A.uid = 0 /\ ~Exists(A)
    BY DEF Absent, Exists
  <2>2. Versions(<<A>>) = {A} /\ LogInOrder(<<A>>)
    BY AbsentLog
  <2>3. \A b \in Buckets : log["key"][b] = <<A>>
    BY <1>1
  <2> HIDE DEF A
  <2> QED BY <1>1, <2>1, <2>2, <2>3 DEF KeyLogInv
<1>3. KeyWorkInv
  BY <1>1 DEF KeyWorkInv, Idle, Absent
<1>4. KeysHaveACr /\ GrantsHaveKeys
  BY <1>1 DEF KeysHaveACr, GrantsHaveKeys
<1> QED BY <1>2, <1>3, <1>4, TypeInvInit DEF RightsInv

LEMMA RightsInvInductive == RightsInv /\ [Next]_vars => RightsInv'
BY TypeInvInductive, KeyLogInvStep, KeyWorkInvStep, KeysHaveACrStep, GrantsHaveKeysStep
   DEF RightsInv

(* Whoever has a right on a bucket has it by a key of a GarageAccessKey    *)
(* that is stored with its finalizer: although the key's worker makes keys *)
(* and the permission's worker grants rights by cached copies, and though  *)
(* a GaragePermission may go without a revocation, somebody is left that   *)
(* takes the right away.                                                   *)
THEOREM RightsHeld == Spec => []RightsHaveACr
BY RightsInvInit, RightsInvInductive, RightsInvCorrect, PTL DEF Spec

=============================================================================
