------------------------ MODULE BucketReclaimProofs ------------------------
(***************************************************************************)
(* The safety of reclaiming, for any instance of BucketReconciler: the     *)
(* finalizer guards what is made, Retain is honoured, and a CR that is     *)
(* gone has left no Garage bucket behind.                                  *)
(*                                                                         *)
(* The worker decides on copies from a lagging cache.  The argument is     *)
(* that the order of the versions makes up for it: a version that has the  *)
(* finalizer and is not terminating shows that the object is still there   *)
(* (LogInOrder), because only the worker removes finalizers, and it does   *)
(* so only after it has read a terminating version, when every older one   *)
(* is out of the cache (DeletionHeld).                                     *)
(***************************************************************************)
EXTENDS BucketReconcilerProofs

(* The CRs: UIDs are never used again, and a version that is terminating   *)
(* under policy Delete was recorded as doomed.                             *)
LogInv ==
    /\ \A b \in Buckets : LogInOrder(log[b])
    /\ \A b \in Buckets : \A v \in Versions(log[b]) :
         /\ v.uid <= uids
         /\ v.deleting /\ ~v.spec.retain => v.uid \in doomed
    /\ \A b, c \in Buckets :
         Exists(Api(b)) /\ Api(b).uid = Api(c).uid => b = c

(* The Garage buckets. *)
TargetInv ==
    /\ FinalizerGuards
    /\ \A n \in Names : /\ gb[n].maker <= uids
                        /\ gb[n].id = 0 => gb[n].maker = 0

DeletionHeld ==
    w.pc \in DeletionSteps =>
        /\ w.mem.deleting /\ w.mem.fin
        /\ \A v \in Versions(log[w.b]) : v.uid = w.mem.uid => v.deleting

(* The target that the CR made is the one about to be deleted, and then    *)
(* it is gone.                                                             *)
ReclaimHeld ==
    LET t == gb[TargetName(w.b, w.mem.spec)] IN
    /\ w.pc = "delTarget" /\ t.maker = w.mem.uid => t.id = w.info.id
    /\ w.pc = "unfinalize" /\ ~w.mem.spec.retain => t.maker # w.mem.uid

WorkInv ==
    /\ w.mem.uid <= uids
    /\ HeldObject
    /\ w.pc = "finalize" => ~w.mem.deleting
    /\ w.pc \in DeletionSteps \ {"unfinalize"} => ~w.mem.spec.retain
    /\ DeletionHeld
    /\ RetainHonoured
    /\ ReclaimHeld

ReclaimInv == TypeInv /\ LogInv /\ TargetInv /\ WorkInv

-----------------------------------------------------------------------------
(* Versions.                                                               *)

LEMMA WriteVersions ==
    ASSUME TypeOK, NEW b \in Buckets, NEW o \in Objects(BucketSpecs), Write(b, o)
    PROVE  /\ Live(log'[b]) = o
           /\ \A c \in Buckets \ {b} : log'[c] = log[c]
           /\ Versions(log'[b]) \subseteq Versions(log[b]) \cup {o}
           /\ LogInOrder(log[b]) /\ Follows(o, log[b]) => LogInOrder(log'[b])
<1> DEFINE S == Objects(BucketSpecs)
           l == log[b]
           m == log'[b]
<1>1. /\ l \in Seq(S) \ {<<>>} /\ o \in S
      /\ o = Live(l) => m = l
      /\ o # Live(l) => m = Append(l, o)
      /\ \A c \in Buckets \ {b} : log'[c] = log[c]
  BY DEF TypeOK, Write, Api
<1> HIDE DEF S, l, m
<1>2. /\ Live(m) = o /\ Versions(m) \subseteq Versions(l) \cup {o}
      /\ LogInOrder(l) /\ Follows(o, l) => LogInOrder(m)
  BY <1>1, WrittenLog
<1> QED BY <1>1, <1>2 DEF l, m

-----------------------------------------------------------------------------
(* What a step does to the CRs: to each nothing but its status.id, or to   *)
(* one of them one change of its life, Garage being left alone.            *)

Edited(b, o) == EditOf(Api(b), o, SpecsOf[b])

New(b) == /\ ~Exists(Api(b))
          /\ \E s \in SpecsOf[b] : Live(log'[b]) = Created(uids + 1, s)
          /\ uids' = uids + 1 /\ UNCHANGED w

Gone(b) == /\ Live(log'[b]) = Absent
           /\ UNCHANGED uids
           /\ \/ ~Api(b).fin /\ ~Api(b).deleting /\ UNCHANGED w
              \/ w.pc = "unfinalize" /\ w.b = b /\ w.mem = Api(b) /\ w' = Idle

Changed(b) ==
    /\ UNCHANGED <<gb, ids>> /\ \A c \in Buckets \ {b} : log'[c] = log[c]
    /\ (Edited(b, Live(log'[b])) /\ UNCHANGED uids) \/ New(b) \/ Gone(b)

LogStep(b) ==
    /\ LogInOrder(log'[b])
    /\ Versions(log'[b]) \subseteq Versions(log[b]) \cup {Live(log'[b])}
    /\ Alike(Api(b), Live(log'[b])) \/ Changed(b)

(* One CR changes, or all are as they were. *)
LogMove ==
    /\ \A b \in Buckets : LogStep(b)
    /\ \/ UNCHANGED uids /\ \A b \in Buckets : Alike(Api(b), Live(log'[b]))
       \/ \E b \in Buckets : Changed(b)

LEMMA VersionType ==
    ASSUME TypeOK, NEW b \in Buckets
    PROVE  /\ Versions(log[b]) \subseteq Objects(BucketSpecs)
           /\ Api(b) \in Versions(log[b]) /\ Cached(log[b]) \in Versions(log[b])
<1>1. log[b] \in Seq(Objects(BucketSpecs)) \ {<<>>}
  BY DEF TypeOK
<1> QED BY <1>1, LogRead, LiveIsVersion DEF Versions, Api

LEMMA EditedKept ==
    ASSUME TypeOK, NEW b \in Buckets, NEW o, Edited(b, o)
    PROVE  o \in Objects(BucketSpecs) /\ Exists(o) /\ Kept(Api(b), o)
BY EditKept, ApiType, SpecsAssumption DEF Edited

(* The logs after a write, but for the kind of change. *)
LEMMA StoreLogs ==
    ASSUME TypeOK, LogInv, NEW b \in Buckets, NEW o \in Objects(BucketSpecs), Write(b, o),
           Follows(o, log[b]),
           \/ Alike(Api(b), o) /\ UNCHANGED uids
           \/ Live(log'[b]) = o /\ (\A c \in Buckets \ {b} : log'[c] = log[c]) => Changed(b)
    PROVE  LogMove
<1>1. /\ Live(log'[b]) = o
      /\ \A c \in Buckets \ {b} : log'[c] = log[c]
      /\ Versions(log'[b]) \subseteq Versions(log[b]) \cup {o}
      /\ LogInOrder(log'[b])
  BY WriteVersions DEF LogInv
<1>2. LogStep(b)
  BY <1>1 DEF LogStep
<1>3. ASSUME NEW c \in Buckets \ {b} PROVE LogStep(c) /\ Alike(Api(c), Live(log'[c]))
  BY <1>1, <1>3 DEF LogStep, LogInv, Alike, Api
<1> QED BY <1>1, <1>2, <1>3 DEF LogMove

LEMMA StillLogs ==
    ASSUME LogInv, UNCHANGED <<log, uids>>
    PROVE  LogMove
BY DEF LogInv, LogStep, LogMove, Alike, Api

LEMMA EditLogs ==
    ASSUME TypeOK, LogInv, NEW b \in Buckets, NEW o, Write(b, o), Edited(b, o),
           UNCHANGED <<gb, ids, uids>>
    PROVE  LogMove
<1>1. o \in Objects(BucketSpecs) /\ Kept(Api(b), o)
  BY EditedKept
<1>2. Follows(o, log[b])
  BY <1>1, KeptFollows, ApiType DEF LogInv, Api
<1> QED BY <1>1, <1>2, StoreLogs DEF Changed

LEMMA AbsentLogs ==
    ASSUME TypeOK, LogInv, NEW b \in Buckets, Write(b, Absent),
           \A v \in Versions(log[b]) : ~v.fin \/ v.deleting,
           UNCHANGED <<gb, ids, uids>>, Live(log'[b]) = Absent => Gone(b)
    PROVE  LogMove
<1>1. Absent \in Objects(BucketSpecs)
  BY DEF Objects
<1>2. Follows(Absent, log[b])
  BY AbsentFollows, ApiType
<1> QED BY <1>1, <1>2, StoreLogs DEF Changed

LEMMA LogMoves ==
    ASSUME ReclaimInv, [Next]_vars
    PROVE  LogMove
<1>1. TypeInv /\ TypeOK /\ LogInv /\ WorkInv
  BY DEF ReclaimInv, TypeInv
<1>2. ASSUME w.pc # "idle"
      PROVE  w.b \in Buckets /\ w.mem \in Objects(BucketSpecs) /\ Exists(w.mem) /\ w.info.id \in Nat
  BY <1>1, <1>2 DEF TypeInv, Holding, TypeOK, Work, Targets
<1>3. ASSUME AddFinalizer PROVE LogMove
  <2> DEFINE o == [w.mem EXCEPT !.fin = TRUE]
  <2>1. CASE Api(w.b) = w.mem
    <3>1. w.b \in Buckets /\ Exists(w.mem) /\ ~w.mem.deleting
      BY <1>1, <1>2, <1>3 DEF AddFinalizer, At, WorkInv
    <3>2. Edited(w.b, o)
      BY <2>1, <3>1 DEF Edited, EditOf
    <3>3. Write(w.b, o) /\ UNCHANGED <<gb, ids, uids>>
      BY <1>3, <2>1 DEF AddFinalizer
    <3> HIDE DEF o
    <3> QED BY <1>1, <3>1, <3>2, <3>3, EditLogs
  <2>2. CASE Api(w.b) # w.mem
    BY <1>1, <1>3, <2>2, StillLogs DEF AddFinalizer
  <2> QED BY <2>1, <2>2
<1>4. ASSUME PatchStatus PROVE LogMove
  <2> DEFINE o == [Api(w.b) EXCEPT !.id = w.info.id]
  <2>1. CASE Exists(Api(w.b))
    <3>1. w.b \in Buckets /\ w.info.id \in Nat /\ Api(w.b) \in Objects(BucketSpecs)
      BY <1>1, <1>2, <1>4, ApiType DEF PatchStatus, At
    <3>2. o \in Objects(BucketSpecs) /\ Alike(Api(w.b), o)
      BY <2>1, <3>1, ObjectFacts DEF Alike
    <3>3. Follows(o, log[w.b])
      BY <1>1, <3>1, <3>2, AlikeKept, KeptFollows, ApiType DEF LogInv, Api
    <3>4. Write(w.b, o) /\ UNCHANGED uids
      BY <1>4, <2>1 DEF PatchStatus
    <3> HIDE DEF o
    <3> QED BY <1>1, <3>1, <3>2, <3>3, <3>4, StoreLogs
  <2>2. CASE ~Exists(Api(w.b))
    BY <1>1, <1>4, <2>2, StillLogs DEF PatchStatus
  <2> QED BY <2>1, <2>2
<1>5. ASSUME RemoveFinalizer PROVE LogMove
  <2>1. w.b \in Buckets /\ w.mem \in Objects(BucketSpecs) /\ w.pc = "unfinalize"
    BY <1>2, <1>5 DEF RemoveFinalizer, At
  <2>2. CASE Api(w.b) = w.mem
    <3>1. Unfinalized(w.mem) = Absent
      BY <1>1, <2>1 DEF WorkInv, DeletionHeld, DeletionSteps, Unfinalized
    <3>2. \A v \in Versions(log[w.b]) : ~v.fin \/ v.deleting
      BY <1>1, <2>1, <2>2 DEF WorkInv, LogInv, LogInOrder, DeletionHeld, DeletionSteps, Api
    <3>3. Write(w.b, Absent) /\ w' = Idle /\ UNCHANGED <<gb, ids, uids>>
      BY <1>5, <2>2, <3>1 DEF RemoveFinalizer, Answered, Done, Fail
    <3>4. Live(log'[w.b]) = Absent => Gone(w.b)
      BY <2>1, <2>2, <3>3 DEF Gone
    <3> QED BY <1>1, <2>1, <3>2, <3>3, <3>4, AbsentLogs
  <2>3. CASE Api(w.b) # w.mem
    BY <1>1, <1>5, <2>3, StillLogs DEF RemoveFinalizer
  <2> QED BY <2>2, <2>3
<1>6. ASSUME NEW b \in Buckets, NEW s \in SpecsOf[b], UserCreate(b, s) PROVE LogMove
  <2> DEFINE o == Created(uids + 1, s)
  <2>1. s \in BucketSpecs /\ uids \in Nat
    BY <1>1, SpecsAssumption DEF TypeOK
  <2>2. o \in Objects(BucketSpecs) /\ o.uid = uids + 1
    BY <2>1 DEF Created, Objects
  <2>3. \A v \in Versions(log[b]) : v.uid # uids + 1
    <3>1. \A v \in Versions(log[b]) : v.uid \in Nat /\ v.uid <= uids
      BY <1>1, VersionType DEF LogInv, Objects, Absent
    <3> QED BY <2>1, <3>1
  <2>4. Follows(o, log[b])
    BY <1>1, <1>6, <2>2, <2>3, ApiType, FreshFollows DEF UserCreate, LogInv, Api
  <2>5. Write(b, o) /\ (Live(log'[b]) = o => New(b)) /\ UNCHANGED <<gb, ids>>
    BY <1>6 DEF UserCreate, New
  <2> HIDE DEF o
  <2> QED BY <1>1, <2>2, <2>4, <2>5, StoreLogs DEF Changed
<1>7. ASSUME NEW b \in Buckets, NEW s \in SpecsOf[b], UserEdit(b, s) PROVE LogMove
  <2> DEFINE o == [Api(b) EXCEPT !.spec = s]
  <2>1. Edited(b, o) /\ Write(b, o) /\ UNCHANGED <<gb, ids, uids>>
    BY <1>7 DEF UserEdit, Edited, EditOf
  <2> HIDE DEF o
  <2> QED BY <1>1, <2>1, EditLogs
<1>8. ASSUME NEW b \in Buckets, UserDelete(b) PROVE LogMove
  <2>1. UNCHANGED <<gb, ids, uids, w>> /\ Write(b, Deleted(Api(b)))
        /\ Exists(Api(b)) /\ ~Api(b).deleting
    BY <1>8 DEF UserDelete
  <2>2. CASE Api(b).fin
    <3>1. Edited(b, Deleted(Api(b)))
      BY <2>1, <2>2 DEF Edited, EditOf, Deleted
    <3> QED BY <1>1, <2>1, <3>1, EditLogs
  <2>3. CASE ~Api(b).fin
    <3>1. Write(b, Absent)
      BY <2>1, <2>3 DEF Deleted
    <3>2. \A v \in Versions(log[b]) : ~v.fin \/ v.deleting
      BY <1>1, <2>3 DEF LogInv, LogInOrder, Api
    <3>3. Live(log'[b]) = Absent => Gone(b)
      BY <2>1, <2>3 DEF Gone
    <3> QED BY <1>1, <2>1, <3>1, <3>2, <3>3, AbsentLogs
  <2> QED BY <2>2, <2>3
<1>9. ASSUME NEW b \in Buckets, Informer(b) PROVE LogMove
  <2>1. log[b] \in Seq(Objects(BucketSpecs)) \ {<<>>} /\ Len(log[b]) > 1
    BY <1>1, <1>9 DEF Informer, TypeOK
  <2>2. log'[b] = Tail(log[b]) /\ \A c \in Buckets \ {b} : log'[c] = log[c]
    BY <1>1, <1>9 DEF Informer, TypeOK
  <2>3. LogStep(b) /\ Alike(Api(b), Live(log'[b]))
    BY <1>1, <2>1, <2>2, LogTail, TailInOrder DEF LogStep, Alike, Api, LogInv
  <2>4. ASSUME NEW c \in Buckets \ {b} PROVE LogStep(c) /\ Alike(Api(c), Live(log'[c]))
    BY <1>1, <2>2 DEF LogStep, Alike, Api, LogInv
  <2> QED BY <1>9, <2>3, <2>4 DEF LogMove, Informer
<1>10. ASSUME Crash PROVE LogMove
  <2>1. ASSUME NEW b \in Buckets PROVE LogStep(b) /\ Alike(Api(b), Live(log'[b]))
    <3>1. log[b] \in Seq(Objects(BucketSpecs)) \ {<<>>} /\ log'[b] = Relisted(log[b])
      BY <1>1, <1>10 DEF Crash, TypeOK
    <3> QED BY <3>1, LogRelist, RelistInOrder DEF LogStep, Alike, Api
  <2> QED BY <1>10, <2>1 DEF LogMove, Crash
<1>11. CASE UNCHANGED <<log, uids>>
  BY <1>1, <1>11, StillLogs
<1>12. ASSUME Worker, ~(AddFinalizer \/ PatchStatus \/ RemoveFinalizer)
       PROVE  UNCHANGED <<log, uids>>
  BY <1>12 DEF Worker, GetTarget, CreateTarget, SetQuota, RemoveKey, RemovePerm,
                    PutKey, PutPerm, LookupForDeletion, DeleteTarget
<1>13. CASE Worker
  BY <1>3, <1>4, <1>5, <1>11, <1>12, <1>13
<1>14. CASE Environment
  BY <1>6, <1>7, <1>8, <1>11, <1>14
  DEF Environment, AdminCreate, AdminDelete, UserCreateChild, UserDeleteChild,
      ChildFinalized, GarbageCollect, ClusterLost, ClusterBack
<1>15. CASE Manager
  BY <1>9, <1>10, <1>11, <1>15 DEF Manager, Resync, ChildInformer
<1>16. CASE UNCHANGED vars \/ CallFails \/ \E b \in Buckets : Begin(b)
  BY <1>11, <1>16 DEF vars, CallFails, Begin
<1> QED BY <1>13, <1>14, <1>15, <1>16 DEF Next

(* A CR is kept, created, or gone. *)
LEMMA Fates ==
    ASSUME TypeOK, NEW b \in Buckets, LogStep(b)
    PROVE  \/ Kept(Api(b), Live(log'[b]))
           \/ New(b) /\ Changed(b) /\ Live(log'[b]).uid = uids + 1
           \/ Gone(b) /\ Changed(b)
<1>1. Edited(b, Live(log'[b])) => Kept(Api(b), Live(log'[b]))
  BY EditedKept
<1>2. New(b) => Live(log'[b]).uid = uids + 1
  BY DEF New, Created
<1> QED BY <1>1, <1>2, AlikeKept DEF LogStep, Changed

-----------------------------------------------------------------------------
(* What a step does to the UIDs handed out and the doomed ones. *)

LEMMA Recorded ==
    ASSUME ReclaimInv, [Next]_vars
    PROVE  doomed \subseteq doomed' /\ uids <= uids' /\ uids \in Nat
<1>1. uids \in Nat
  BY DEF ReclaimInv, TypeInv, TypeOK
<1>2. CASE Worker
  BY <1>1, <1>2 DEF Worker, AddFinalizer, GetTarget, CreateTarget, PatchStatus, SetQuota,
         RemoveKey, RemovePerm, PutKey, PutPerm, LookupForDeletion, DeleteTarget,
         RemoveFinalizer
<1>3. CASE Manager
  BY <1>1, <1>3 DEF Manager, Resync, Crash, Informer, ChildInformer
<1>4. CASE Environment
  <2>1. ASSUME NEW o, Doom(o) PROVE doomed \subseteq doomed'
    BY <2>1 DEF Doom
  <2>2. ASSUME NEW b \in Buckets, NEW s \in SpecsOf[b], UserCreate(b, s) \/ UserEdit(b, s)
        PROVE  doomed \subseteq doomed' /\ uids <= uids'
    BY <1>1, <2>1, <2>2 DEF UserCreate, UserEdit
  <2>3. ASSUME NEW b \in Buckets, UserDelete(b)
        PROVE  doomed \subseteq doomed' /\ uids <= uids'
    BY <1>1, <2>1, <2>3 DEF UserDelete
  <2>4. ASSUME NEW n \in AdminNames, AdminCreate(n) \/ AdminDelete(n)
        PROVE  doomed \subseteq doomed' /\ uids <= uids'
    BY <1>1, <2>4 DEF AdminCreate, AdminDelete
  <2>5. ASSUME NEW b \in Buckets, NEW k \in Kinds,
               \/ \E f \in ForeignCfgs : UserCreateChild(b, k, f)
               \/ UserDeleteChild(b, k) \/ ChildFinalized(b, k) \/ GarbageCollect(b, k)
        PROVE  doomed \subseteq doomed' /\ uids <= uids'
    <3>1. UNCHANGED <<doomed, uids>>
      BY <2>5 DEF UserCreateChild, UserDeleteChild, ChildFinalized, GarbageCollect
    <3> QED BY <1>1, <3>1
  <2>6. CASE ClusterLost \/ ClusterBack
    BY <1>1, <2>6 DEF ClusterLost, ClusterBack
  <2> QED BY <1>1, <1>4, <2>2, <2>3, <2>4, <2>5, <2>6 DEF Environment
<1>5. CASE UNCHANGED vars \/ CallFails \/ \E b \in Buckets : Begin(b)
  BY <1>1, <1>5 DEF vars, CallFails, Begin
<1> QED BY <1>2, <1>3, <1>4, <1>5 DEF Next

(* An object is recorded when it becomes terminating under policy Delete. *)
LEMMA DoomSteps ==
    ASSUME ReclaimInv, [Next]_vars, NEW c \in Buckets
    PROVE  LET o == Live(log'[c])
           IN  o.deleting /\ ~o.spec.retain => o.uid \in doomed'
<1> DEFINE Settles(o) == o.deleting /\ ~o.spec.retain => o.uid \in doomed'
<1>1. TypeInv /\ TypeOK /\ WorkInv
  BY DEF ReclaimInv, TypeInv
<1>2. Settles(Api(c))
  BY <1>1, Recorded, VersionType DEF ReclaimInv, LogInv
<1>3. ASSUME NEW b \in Buckets, NEW o \in Objects(BucketSpecs), Write(b, o), Settles(o)
      PROVE  Settles(Live(log'[c]))
  BY <1>1, <1>2, <1>3, WriteVersions DEF Api
<1>4. CASE UNCHANGED log
  BY <1>2, <1>4 DEF Api
<1>5. ASSUME w.pc # "idle" PROVE w.b \in Buckets /\ w.mem \in Objects(BucketSpecs) /\ Exists(w.mem)
  BY <1>1, <1>5 DEF TypeInv, Holding, TypeOK, Work
<1>6. CASE AddFinalizer
  <2> DEFINE o == [w.mem EXCEPT !.fin = TRUE]
  <2>1. w.b \in Buckets /\ o \in Objects(BucketSpecs) /\ ~w.mem.deleting
    BY <1>1, <1>5, <1>6, ObjectFacts DEF AddFinalizer, At, WorkInv
  <2>2. o.deleting = w.mem.deleting
    BY <1>5, <1>6, ObjectFacts DEF AddFinalizer, At
  <2> QED BY <1>3, <1>4, <1>6, <2>1, <2>2 DEF AddFinalizer
<1>7. CASE PatchStatus
  <2> DEFINE o == [Api(w.b) EXCEPT !.id = w.info.id]
  <2>1. w.b \in Buckets /\ w.info.id \in Nat
    BY <1>1, <1>5, <1>7 DEF PatchStatus, At, TypeOK, Work, Targets
  <2>2. CASE Exists(Api(w.b))
    <3>1. o \in Objects(BucketSpecs)
      BY <1>1, <2>1, <2>2, ApiType, ObjectFacts
    <3>2. o.deleting = Api(w.b).deleting /\ o.spec = Api(w.b).spec /\ o.uid = Api(w.b).uid
      BY <1>1, <2>1, <2>2, ApiType, ObjectFacts
    <3>3. Settles(Api(w.b))
      BY <1>1, <2>1, Recorded, VersionType DEF ReclaimInv, LogInv
    <3> QED BY <1>3, <1>7, <2>1, <2>2, <3>1, <3>2, <3>3 DEF PatchStatus
  <2>3. CASE ~Exists(Api(w.b))
    BY <1>4, <1>7, <2>3 DEF PatchStatus
  <2> QED BY <2>2, <2>3
<1>8. CASE RemoveFinalizer
  <2>1. w.b \in Buckets /\ w.mem.deleting
    BY <1>1, <1>5, <1>8 DEF RemoveFinalizer, At, WorkInv, DeletionHeld, DeletionSteps
  <2>2. Absent \in Objects(BucketSpecs) /\ Settles(Absent)
    BY DEF Absent, Objects
  <2> QED BY <1>3, <1>4, <1>8, <2>1, <2>2 DEF RemoveFinalizer, Unfinalized
<1>9. ASSUME NEW b \in Buckets, NEW s \in SpecsOf[b], UserCreate(b, s)
      PROVE  Settles(Live(log'[c]))
  <2>1. s \in BucketSpecs /\ uids + 1 \in Nat \ {0}
    BY <1>1, SpecsAssumption DEF TypeOK
  <2>2. Created(uids + 1, s) \in Objects(BucketSpecs) /\ Settles(Created(uids + 1, s))
    BY <2>1 DEF Created, Objects
  <2> QED BY <1>3, <1>9, <2>2 DEF UserCreate
<1>10. ASSUME NEW b \in Buckets, NEW s \in SpecsOf[b], UserEdit(b, s)
       PROVE  Settles(Live(log'[c]))
  <2> DEFINE o == [Api(b) EXCEPT !.spec = s]
  <2>1. s \in BucketSpecs
    BY SpecsAssumption
  <2>2. o \in Objects(BucketSpecs)
    BY <1>1, <1>10, <2>1, ApiType, ObjectFacts DEF UserEdit
  <2>3. Write(b, o) /\ Doom(o)
    BY <1>10 DEF UserEdit
  <2> HIDE DEF o
  <2> QED BY <1>3, <2>2, <2>3 DEF Doom
<1>11. ASSUME NEW b \in Buckets, UserDelete(b) PROVE Settles(Live(log'[c]))
  <2> DEFINE o == Deleted(Api(b))
  <2>1. o \in Objects(BucketSpecs)
    BY <1>1, <1>11, ApiType, ObjectFacts DEF UserDelete
  <2>2. Write(b, o) /\ Doom(o)
    BY <1>11 DEF UserDelete
  <2> HIDE DEF o
  <2> QED BY <1>3, <2>1, <2>2 DEF Doom
<1>12. ASSUME NEW b \in Buckets, Informer(b) PROVE Settles(Live(log'[c]))
  <2>1. log[b] \in Seq(Objects(BucketSpecs)) \ {<<>>} /\ Len(log[b]) > 1
    BY <1>1, <1>12 DEF Informer, TypeOK
  <2>2. log'[b] = Tail(log[b]) /\ \A d \in Buckets \ {b} : log'[d] = log[d]
    BY <1>1, <1>12 DEF Informer, TypeOK
  <2> QED BY <1>2, <2>1, <2>2, LogTail DEF Api
<1>13. CASE Crash
  <2>1. log[c] \in Seq(Objects(BucketSpecs)) \ {<<>>} /\ log'[c] = Relisted(log[c])
    BY <1>1, <1>13 DEF Crash, TypeOK
  <2> QED BY <1>2, <2>1, LogRelist DEF Api
<1>14. CASE Worker
  BY <1>4, <1>6, <1>7, <1>8, <1>14
  DEF Worker, GetTarget, CreateTarget, SetQuota, RemoveKey, RemovePerm,
      PutKey, PutPerm, LookupForDeletion, DeleteTarget
<1>15. CASE Manager
  BY <1>4, <1>12, <1>13, <1>15 DEF Manager, Resync, ChildInformer
<1>16. CASE Environment
  BY <1>4, <1>9, <1>10, <1>11, <1>16
  DEF Environment, AdminCreate, AdminDelete, UserCreateChild, UserDeleteChild,
      ChildFinalized, GarbageCollect, ClusterLost, ClusterBack
<1>17. CASE UNCHANGED vars \/ CallFails \/ \E b \in Buckets : Begin(b)
  BY <1>4, <1>17 DEF vars, CallFails, Begin
<1> QED BY <1>14, <1>15, <1>16, <1>17 DEF Next

LEMMA LogInvStep ==
    ASSUME ReclaimInv, [Next]_vars
    PROVE  LogInv'
<1>1. /\ \A c \in Buckets : LogStep(c)
      /\ uids \in Nat /\ uids <= uids' /\ doomed \subseteq doomed'
      /\ TypeOK /\ LogInv
  BY LogMoves, Recorded DEF ReclaimInv, TypeInv, LogMove
<1>t. TypeOK' /\ uids' \in Nat
  BY TypeInvInductive DEF ReclaimInv, TypeInv, TypeOK
<1>2. \A b \in Buckets : Api(b).uid <= uids /\ Api(b).uid \in Nat
  BY <1>1, VersionType DEF LogInv, Objects, Absent
<1>3. \A b \in Buckets : Live(log'[b]).uid <= uids'
  <2> SUFFICES ASSUME NEW b \in Buckets PROVE Live(log'[b]).uid <= uids'
    OBVIOUS
  <2>1. CASE Kept(Api(b), Live(log'[b]))
    BY <1>1, <1>2, <1>t, <2>1 DEF Kept
  <2>2. CASE New(b) /\ Live(log'[b]).uid = uids + 1
    BY <1>1, <2>2 DEF New
  <2>3. CASE Gone(b)
    BY <1>t, <2>3 DEF Gone, Absent
  <2> QED BY <1>1, <2>1, <2>2, <2>3, Fates
<1>4. ASSUME NEW b \in Buckets, NEW v \in Versions(log'[b])
      PROVE  v.uid <= uids' /\ (v.deleting /\ ~v.spec.retain => v.uid \in doomed')
  <2>1. CASE v \in Versions(log[b])
    <3>1. v.uid \in Nat /\ uids' \in Nat
      BY <1>1, <1>t, <2>1, VersionType DEF Objects, Absent
    <3> QED BY <1>1, <2>1, <3>1 DEF LogInv
  <2>2. CASE v = Live(log'[b])
    BY <1>3, <2>2, DoomSteps
  <2> QED BY <1>1, <1>4, <2>1, <2>2 DEF LogStep
<1>5. ASSUME NEW b \in Buckets, NEW c \in Buckets,
             Exists(Live(log'[b])), Live(log'[b]).uid = Live(log'[c]).uid, b # c
      PROVE  FALSE
  <2>1. ~Gone(b) /\ ~Gone(c)
    BY <1>5 DEF Gone, Absent, Exists
  <2>2. CASE Kept(Api(b), Live(log'[b])) /\ Kept(Api(c), Live(log'[c]))
    BY <1>1, <1>5, <2>2 DEF Kept, LogInv, Exists
  <2>3. CASE New(b) /\ Changed(b) /\ Live(log'[b]).uid = uids + 1
    <3>1. Live(log'[c]).uid = Api(c).uid /\ Live(log'[b]).uid = uids + 1
      BY <1>5, <2>3 DEF Changed, Api
    <3>2. Api(b).uid <= uids /\ Api(c).uid <= uids /\ uids \in Nat
      BY <1>1, <1>2
    <3>3. Api(b).uid # uids + 1 /\ Api(c).uid # uids + 1
      BY <1>2, <3>2
    <3> QED BY <1>5, <3>1, <3>3
  <2>4. CASE New(c) /\ Changed(c) /\ Live(log'[c]).uid = uids + 1
    <3>1. Live(log'[b]).uid = Api(b).uid /\ Live(log'[c]).uid = uids + 1
      BY <1>5, <2>4 DEF Changed, Api
    <3>2. Api(b).uid <= uids /\ Api(c).uid <= uids /\ uids \in Nat
      BY <1>1, <1>2
    <3>3. Api(b).uid # uids + 1 /\ Api(c).uid # uids + 1
      BY <1>2, <3>2
    <3> QED BY <1>5, <3>1, <3>3
  <2> QED BY <1>1, <2>1, <2>2, <2>3, <2>4, Fates
<1> QED BY <1>1, <1>4, <1>5 DEF LogInv, LogStep, Api

-----------------------------------------------------------------------------
(* What a step does to the Garage buckets. *)

TargetStep(n) ==
    /\ gb'[n].id = 0 => gb'[n].maker = 0
    /\ \/ gb'[n].maker = gb[n].maker /\ gb'[n].id = gb[n].id
       \/ gb'[n].maker = 0
       \/ w.pc = "create" /\ UNCHANGED log /\ gb'[n].maker = w.mem.uid

LEMMA TargetSteps ==
    ASSUME ReclaimInv, [Next]_vars, NEW n \in Names
    PROVE  TargetStep(n)
<1>1. /\ gb \in [Names -> Targets] /\ ids \in Nat
      /\ gb[n].id = 0 => gb[n].maker = 0
  BY DEF ReclaimInv, TypeInv, TypeOK, TargetInv
<1>2. CASE UNCHANGED gb
  BY <1>1, <1>2 DEF TargetStep
<1>3. \A u \in Nat : Made(u).id # 0 /\ Made(u).maker = u
  BY <1>1 DEF Made
<1>4. CASE CreateTarget
  <2> DEFINE t == Made(w.mem.uid)
  <2>1. t.id # 0 /\ t.maker = w.mem.uid
    BY <1>1 DEF Made
  <2>2. \/ UNCHANGED gb
        \/ \E x \in {TargetName(w.b, w.mem.spec)} : gb' = [gb EXCEPT ![x] = t]
    BY <1>4 DEF CreateTarget
  <2>3. w.pc = "create" /\ UNCHANGED log
    BY <1>4 DEF CreateTarget, At
  <2> HIDE DEF t
  <2>4. gb'[n] = gb[n] \/ gb'[n] = t
    BY <1>1, <2>2
  <2> QED BY <1>1, <2>1, <2>3, <2>4 DEF TargetStep
<1>5. CASE SetQuota
  <2>1. gb'[n] = gb[n] \/ gb'[n] = [gb[n] EXCEPT !.quota = w.mem.spec.quota]
    BY <1>5 DEF SetQuota
  <2>2. gb[n] \in Targets
    BY <1>1
  <2>3. gb'[n].id = gb[n].id /\ gb'[n].maker = gb[n].maker
    BY <2>1, <2>2 DEF Targets
  <2> QED BY <1>1, <2>3 DEF TargetStep
<1>6. CASE DeleteTarget
  <2>1. gb'[n] = gb[n] \/ gb'[n] = NoTarget
    BY <1>6 DEF DeleteTarget
  <2> QED BY <1>1, <2>1 DEF TargetStep, NoTarget
<1>7. ASSUME NEW x \in AdminNames, AdminCreate(x) \/ AdminDelete(x) PROVE TargetStep(n)
  <2>1. gb'[n] = gb[n] \/ gb'[n] = NoTarget \/ gb'[n] = Made(0)
    BY <1>1, <1>7 DEF AdminCreate, AdminDelete
  <2> QED BY <1>1, <1>3, <2>1 DEF TargetStep, NoTarget
<1>8. CASE Worker
  BY <1>2, <1>4, <1>5, <1>6, <1>8
  DEF Worker, AddFinalizer, GetTarget, PatchStatus, RemoveKey, RemovePerm,
      PutKey, PutPerm, LookupForDeletion, RemoveFinalizer
<1>9. CASE Manager
  BY <1>2, <1>9 DEF Manager, Resync, Crash, Informer, ChildInformer
<1>10. CASE Environment
  BY <1>2, <1>7, <1>10
  DEF Environment, UserCreate, UserEdit, UserDelete, UserCreateChild, UserDeleteChild,
      ChildFinalized, GarbageCollect, ClusterLost, ClusterBack
<1>11. CASE UNCHANGED vars \/ CallFails \/ \E b \in Buckets : Begin(b)
  BY <1>2, <1>11 DEF vars, CallFails, Begin
<1> QED BY <1>8, <1>9, <1>10, <1>11 DEF Next

LEMMA TargetInvStep ==
    ASSUME ReclaimInv, [Next]_vars
    PROVE  TargetInv'
<1>1. /\ \A c \in Buckets : LogStep(c)
      /\ \A n \in Names : TargetStep(n)
      /\ LogInv /\ TargetInv /\ HeldObject /\ TypeOK /\ Holding
  BY LogMoves, TargetSteps DEF ReclaimInv, TypeInv, WorkInv, LogMove
<1>2. uids \in Nat /\ uids' \in Nat /\ uids <= uids'
  BY Recorded, TypeInvInductive DEF ReclaimInv, TypeInv, TypeOK
<1>3. \A b \in Buckets : Api(b).uid <= uids /\ Api(b).uid \in Nat
  BY <1>1, VersionType DEF LogInv, Objects, Absent
<1>4. \A n \in Names : gb[n].maker \in Nat /\ gb[n].maker <= uids
  BY <1>1 DEF TargetInv, TypeOK, Targets
<1>5. ASSUME w.pc = "create"
      PROVE  w.b \in Buckets /\ Api(w.b).uid = w.mem.uid /\ Api(w.b).fin
  BY <1>1, <1>5 DEF HeldObject, ReconcileSteps, Holding
<1>6. ASSUME NEW n \in Names PROVE gb'[n].maker <= uids'
  <2>1. CASE gb'[n].maker = gb[n].maker
    BY <1>2, <1>4, <2>1
  <2>2. CASE gb'[n].maker = 0
    BY <1>2, <2>2
  <2>3. CASE w.pc = "create" /\ gb'[n].maker = w.mem.uid
    BY <1>2, <1>3, <1>5, <2>3
  <2> QED BY <1>1, <2>1, <2>2, <2>3 DEF TargetStep
<1>7. ASSUME NEW b \in Buckets, NEW n \in Names,
             Exists(Live(log'[b])), gb'[n].maker = Live(log'[b]).uid
      PROVE  Live(log'[b]).fin
  <2>1. CASE gb'[n].maker = gb[n].maker
    <3>1. CASE Kept(Api(b), Live(log'[b]))
      BY <1>1, <1>7, <2>1, <3>1 DEF Kept, TargetInv, FinalizerGuards, Exists
    <3>2. CASE Live(log'[b]).uid = uids + 1
      <4>1. gb[n].maker # uids + 1
        BY <1>2, <1>4
      <4> QED BY <1>7, <2>1, <3>2, <4>1
    <3>3. CASE Gone(b)
      BY <1>7, <3>3 DEF Gone, Exists, Absent
    <3> QED BY <1>1, <3>1, <3>2, <3>3, Fates
  <2>2. CASE gb'[n].maker = 0
    BY <1>7, <2>2 DEF Exists
  <2>3. CASE w.pc = "create" /\ UNCHANGED log /\ gb'[n].maker = w.mem.uid
    BY <1>1, <1>5, <1>7, <2>3 DEF LogInv, Exists, Api
  <2> QED BY <1>1, <2>1, <2>2, <2>3 DEF TargetStep
<1> QED BY <1>1, <1>6, <1>7 DEF TargetInv, FinalizerGuards, TargetStep, Api

-----------------------------------------------------------------------------
(* What a step does to what the worker holds. *)

LEMMA HeldStill ==
    ASSUME ReclaimInv, [Next]_vars, w.pc \in ReconcileSteps
    PROVE  Live(log'[w.b]).uid = w.mem.uid /\ Live(log'[w.b]).fin
<1>1. w.b \in Buckets /\ Exists(w.mem) /\ LogStep(w.b) /\ TypeOK
  BY LogMoves DEF ReclaimInv, TypeInv, Holding, ReconcileSteps, LogMove
<1>2. Api(w.b).uid = w.mem.uid /\ Api(w.b).fin
  BY DEF ReclaimInv, WorkInv, HeldObject
<1>3. ~New(w.b) /\ ~Gone(w.b)
  BY <1>1, <1>2 DEF New, Gone, Exists, ReconcileSteps
<1> QED BY <1>1, <1>2, <1>3, Fates DEF Kept

LEMMA DeletionStill ==
    ASSUME ReclaimInv, [Next]_vars, w.pc \in DeletionSteps,
           NEW v \in Versions(log'[w.b]), v.uid = w.mem.uid
    PROVE  v.deleting
<1>1. w.b \in Buckets /\ Exists(w.mem) /\ LogStep(w.b) /\ TypeOK
  BY LogMoves DEF ReclaimInv, TypeInv, Holding, DeletionSteps, LogMove
<1>2. /\ \A x \in Versions(log[w.b]) : x.uid = w.mem.uid => x.deleting
      /\ w.mem.uid <= uids /\ uids \in Nat /\ w.mem.uid \in Nat
  BY Recorded, <1>1 DEF ReclaimInv, WorkInv, DeletionHeld, TypeOK, Work, Objects, Absent
<1>3. w.mem.uid # uids + 1
  BY <1>2
<1>4. CASE v \in Versions(log[w.b])
  BY <1>2, <1>4
<1>5. CASE v = Live(log'[w.b])
  <2>1. Live(log'[w.b]).uid # uids + 1 /\ ~Gone(w.b)
    BY <1>1, <1>3, <1>5 DEF Gone, Absent, Exists
  <2>2. Kept(Api(w.b), v)
    BY <1>1, <1>5, <2>1, Fates
  <2> QED BY <1>1, <1>2, <2>2, VersionType DEF Kept
<1> QED BY <1>1, <1>4, <1>5 DEF LogStep

LEMMA Stopped ==
    ASSUME ReclaimInv, [Next]_vars, w' = Idle
    PROVE  WorkInv'
<1>1. uids' \in Nat
  BY TypeInvInductive DEF ReclaimInv, TypeInv, TypeOK
<1> QED BY <1>1 DEF Idle, Absent, WorkInv, HeldObject, DeletionHeld, RetainHonoured,
            ReclaimHeld, ReconcileSteps, DeletionSteps

(* The worker goes on reconciling the same object. *)
LEMMA GoesOn ==
    ASSUME ReclaimInv, [Next]_vars, w.pc \in ReconcileSteps, w'.pc \in ReconcileSteps,
           w'.b = w.b, w'.mem.uid = w.mem.uid
    PROVE  WorkInv'
<1>1. Live(log'[w.b]).uid = w.mem.uid /\ Live(log'[w.b]).fin
  BY HeldStill
<1>2. w.mem.uid <= uids /\ uids <= uids' /\ uids \in Nat /\ uids' \in Nat /\ w.mem.uid \in Nat
  <2>1. TypeOK /\ TypeOK'
    BY TypeInvInductive DEF ReclaimInv, TypeInv
  <2>2. w.mem.uid \in Nat
    BY <2>1 DEF TypeOK, Work, Objects, Absent
  <2>3. uids \in Nat /\ uids' \in Nat
    BY <2>1 DEF TypeOK
  <2> QED BY <2>2, <2>3, Recorded DEF ReclaimInv, WorkInv
<1>3. w.mem.uid <= uids'
  BY <1>2
<1> QED BY <1>1, <1>3 DEF WorkInv, HeldObject, DeletionHeld, RetainHonoured, ReclaimHeld,
            ReconcileSteps, DeletionSteps, Api

(* Whatever others do while the worker waits for an answer. *)
LEMMA Waits ==
    ASSUME ReclaimInv, [Next]_vars, UNCHANGED w
    PROVE  WorkInv'
<1>1. /\ WorkInv /\ TypeOK /\ Holding /\ uids <= uids' /\ uids \in Nat /\ uids' \in Nat
      /\ doomed \subseteq doomed'
  BY Recorded, TypeInvInductive DEF ReclaimInv, TypeInv, TypeOK
<1>2. w.mem.uid <= uids'
  <2>1. w.mem.uid \in Nat /\ w.mem.uid <= uids
    BY <1>1 DEF TypeOK, Work, Objects, Absent, WorkInv
  <2> QED BY <1>1, <2>1
<1>3. HeldObject'
  BY HeldStill DEF HeldObject, Api
<1>4. DeletionHeld'
  BY <1>1, DeletionStill DEF WorkInv, DeletionHeld
<1>5. RetainHonoured'
  BY <1>1 DEF WorkInv, RetainHonoured
<1>6. ReclaimHeld'
  <2> DEFINE n == TargetName(w.b, w.mem.spec)
  <2>1. CASE w.pc \in {"delTarget", "unfinalize"}
    <3>1. w.b \in Buckets /\ w.mem \in Objects(BucketSpecs) /\ Exists(w.mem)
      BY <1>1, <2>1 DEF Holding, TypeOK, Work
    <3>2. n \in Names
      BY <3>1, ObjectFacts, TargetNameType
    <3>3. TargetStep(n)
      BY <3>2, TargetSteps
    <3>4. \/ gb'[n].maker = gb[n].maker /\ gb'[n].id = gb[n].id
          \/ gb'[n].maker # w.mem.uid
      BY <2>1, <3>1, <3>3 DEF TargetStep, Exists
    <3> QED BY <1>1, <3>4 DEF WorkInv, ReclaimHeld, TargetName
  <2>2. CASE w.pc \notin {"delTarget", "unfinalize"}
    BY <2>2 DEF ReclaimHeld
  <2> QED BY <2>1, <2>2
<1> QED BY <1>1, <1>2, <1>3, <1>4, <1>5, <1>6 DEF WorkInv

(* The worker takes a request, whose cached copy may be old. *)
LEMMA Begins ==
    ASSUME ReclaimInv, NEW b \in Buckets, Begin(b), w' # Idle
    PROVE  WorkInv'
<1> DEFINE m == Cached(log[b])
<1>1. /\ w' = [pc |-> FirstStep(m), b |-> b, mem |-> m, info |-> NoTarget]
      /\ Exists(m) /\ UNCHANGED <<log, uids, doomed>>
  BY DEF Begin
<1>2. /\ TypeOK /\ LogInv /\ m \in Versions(log[b]) /\ LogInOrder(log[b])
      /\ log[b] \in Seq(Objects(BucketSpecs)) \ {<<>>}
  BY VersionType DEF ReclaimInv, TypeInv, TypeOK, LogInv
<1>3. /\ w'.pc = FirstStep(m) /\ w'.b = b /\ w'.mem = m
  BY <1>1
<1>4. m.uid <= uids'
  BY <1>1, <1>2 DEF LogInv
<1>5. ASSUME FirstStep(m) \in ReconcileSteps
      PROVE  Api(b).uid = m.uid /\ Api(b).fin
  <2>1. m.fin /\ ~m.deleting
    BY <1>5 DEF FirstStep, ReconcileSteps
  <2> QED BY <1>2, <2>1 DEF LogInOrder, Api
<1>6. ASSUME FirstStep(m) \in DeletionSteps
      PROVE  /\ m.deleting /\ m.fin
             /\ FirstStep(m) = "unfinalize" <=> m.spec.retain
             /\ FirstStep(m) # "delTarget"
             /\ \A v \in Versions(log[b]) : v.uid = m.uid => v.deleting
  <2>1. /\ m.deleting /\ m.fin
        /\ FirstStep(m) = IF m.spec.retain THEN "unfinalize" ELSE "delLookup"
    BY <1>6 DEF FirstStep, DeletionSteps
  <2>2. ASSUME NEW i \in 1 .. Len(log[b]), log[b][i].uid = m.uid PROVE log[b][i].deleting
    <3>1. Len(log[b]) \in Nat \ {0} /\ 1 \in 1 .. Len(log[b]) /\ (i = 1 \/ 1 < i)
      BY <1>2, LogRead
    <3> QED BY <1>2, <2>1, <2>2, <3>1 DEF LogInOrder, Cached
  <2> QED BY <2>1, <2>2 DEF Versions
<1>7. HeldObject'
  BY <1>1, <1>3, <1>5 DEF HeldObject, Api
<1>8. DeletionHeld'
  BY <1>1, <1>3, <1>6 DEF DeletionHeld
<1>9. w'.pc \in DeletionSteps \ {"unfinalize"} => ~w'.mem.spec.retain
  BY <1>3, <1>6
<1>10. RetainHonoured'
  <2>1. FirstStep(m) \in {"delLookup", "delTarget"} => m.deleting /\ ~m.spec.retain
    BY DEF FirstStep
  <2> QED BY <1>1, <1>2, <1>3, <2>1 DEF LogInv, RetainHonoured
<1>11. ReclaimHeld'
  <2>1. w'.pc # "delTarget" /\ (w'.pc = "unfinalize" => w'.mem.spec.retain)
    BY <1>3, <1>6 DEF DeletionSteps
  <2> QED BY <2>1 DEF ReclaimHeld
<1>12. w'.pc = "finalize" => ~w'.mem.deleting
  BY <1>3 DEF FirstStep
<1> QED BY <1>3, <1>4, <1>7, <1>8, <1>9, <1>10, <1>11, <1>12 DEF WorkInv

(* The worker's calls. *)
LEMMA Works ==
    ASSUME ReclaimInv, [Next]_vars, Worker
    PROVE  WorkInv'
<1>1. CASE w' = Idle
  BY <1>1, Stopped
<1>2. CASE w' # Idle
  <2>1. /\ w \in Work /\ w.pc # "idle" /\ w.b \in Buckets /\ Exists(w.mem)
        /\ w.mem \in Objects(BucketSpecs) /\ WorkInv /\ TypeOK
    <3>1. w.pc # "idle"
      BY DEF Worker, AddFinalizer, GetTarget, CreateTarget, PatchStatus, SetQuota,
             RemoveKey, RemovePerm, PutKey, PutPerm, LookupForDeletion, DeleteTarget,
             RemoveFinalizer, At
    <3> QED BY <3>1 DEF ReclaimInv, TypeInv, TypeOK, Holding, Work
  <2>2. ASSUME w.pc \in ReconcileSteps, w'.b = w.b, w'.mem.uid = w.mem.uid,
               w'.pc \in ReconcileSteps
        PROVE  WorkInv'
    BY <2>2, GoesOn
  <2>3. \A x, i : {AfterTarget(x, i), AfterStatus(x, i), AfterQuota(x)} \subseteq ReconcileSteps
    BY DEF AfterTarget, AfterStatus, QuotaMet, AfterQuota, ReconcileSteps
  <2>4. ASSUME NEW pc, Goto(pc) PROVE w'.pc = pc /\ w'.b = w.b /\ w'.mem = w.mem
    BY <2>1, <2>4 DEF Goto, Work
  <2>5. ASSUME NEW t, WithTarget(t)
        PROVE  w'.pc = AfterTarget(w.mem, t) /\ w'.b = w.b /\ w'.mem = w.mem
    BY <2>1, <2>5 DEF WithTarget, Work
  <2>6. ~Fail /\ ~Done
    BY <1>2 DEF Fail, Done
  <2>7. CASE AddFinalizer
    <3> DEFINE m == [w.mem EXCEPT !.fin = TRUE]
    <3>1. Write(w.b, m) /\ w' = [w EXCEPT !.pc = "lookup", !.mem = m] /\ Api(w.b) = w.mem
      BY <2>6, <2>7 DEF AddFinalizer, Answered
    <3>2. m \in Objects(BucketSpecs) /\ m.uid = w.mem.uid /\ m.fin
      BY <2>1, ObjectFacts
    <3>3. w'.pc = "lookup" /\ w'.b = w.b /\ w'.mem = m
      BY <2>1, <3>1 DEF Work
    <3>4. Live(log'[w.b]) = m
      BY <2>1, <3>1, <3>2, WriteVersions
    <3>5. m.uid <= uids'
      BY <2>1, <2>7, <3>2 DEF AddFinalizer, WorkInv
    <3> HIDE DEF m
    <3> QED BY <3>2, <3>3, <3>4, <3>5
        DEF WorkInv, HeldObject, DeletionHeld, RetainHonoured, ReclaimHeld,
            ReconcileSteps, DeletionSteps, Api
  <2>8. CASE GetTarget
    <3>1. w.pc = "lookup" /\ (\/ Goto("create")
                               \/ \E t \in Targets \cup {gb[TargetName(w.b, w.mem.spec)]} :
                                    WithTarget(t))
      BY <2>8 DEF GetTarget, At
    <3> QED BY <2>2, <2>3, <2>4, <2>5, <3>1 DEF ReconcileSteps
  <2>9. CASE CreateTarget
    <3>1. w.pc = "create" /\ WithTarget(Made(w.mem.uid))
      BY <2>6, <2>9 DEF CreateTarget, At, Answered
    <3> QED BY <2>2, <2>3, <2>5, <3>1 DEF ReconcileSteps
  <2>10. CASE PatchStatus
    <3> DEFINE m == [Api(w.b) EXCEPT !.id = w.info.id]
    <3>1. /\ w.pc = "status" /\ Exists(Api(w.b))
          /\ w' = [w EXCEPT !.pc = AfterStatus(m, w.info), !.mem = m]
      BY <2>6, <2>10 DEF PatchStatus, At, Answered
    <3>2. m.uid = Api(w.b).uid
      BY <2>1, <3>1, ApiType, ObjectFacts
    <3>3. w'.pc = AfterStatus(m, w.info) /\ w'.b = w.b /\ w'.mem = m
      BY <2>1, <3>1 DEF Work
    <3>4. w.pc \in ReconcileSteps
      BY <3>1 DEF ReconcileSteps
    <3>5. m.uid = w.mem.uid
      BY <2>1, <3>2, <3>4 DEF WorkInv, HeldObject
    <3> HIDE DEF m
    <3> QED BY <2>2, <2>3, <3>3, <3>4, <3>5
  <2>11. CASE SetQuota
    <3>1. w.pc = "quota" /\ Goto(AfterQuota(w.mem))
      BY <2>6, <2>11 DEF SetQuota, At, Answered
    <3> QED BY <2>2, <2>3, <2>4, <3>1 DEF ReconcileSteps
  <2>12. CASE RemoveKey
    <3>1. w.pc = "rmKey" /\ Goto("rmPerm")
      BY <2>6, <2>12 DEF RemoveKey, RemoveChild, At, Answered
    <3> QED BY <2>2, <2>4, <3>1 DEF ReconcileSteps
  <2>13. CASE RemovePerm
    BY <2>6, <2>13 DEF RemovePerm, RemoveChild, At, Answered
  <2>14. CASE PutKey
    <3>1. w.pc = "putKey" /\ Goto("putPerm")
      BY <2>6, <2>14 DEF PutKey, PutChild, At, Answered
    <3> QED BY <2>2, <2>4, <3>1 DEF ReconcileSteps
  <2>15. CASE PutPerm
    BY <2>6, <2>15 DEF PutPerm, PutChild, At, Answered
  <2>16. ASSUME w.pc \in DeletionSteps \ {"unfinalize"}, w'.pc \in DeletionSteps,
                w'.b = w.b, w'.mem = w.mem, ReclaimHeld',
                UNCHANGED <<log, uids, doomed>>
         PROVE  WorkInv'
    <3>1. w.mem.uid <= uids' /\ DeletionHeld'
      BY <2>1, <2>16 DEF WorkInv, DeletionHeld
    <3>2. RetainHonoured' /\ ~w'.mem.spec.retain
      BY <2>1, <2>16 DEF WorkInv, RetainHonoured, DeletionSteps
    <3> QED BY <2>16, <3>1, <3>2 DEF WorkInv, HeldObject, ReconcileSteps, DeletionSteps
  <2>17. CASE LookupForDeletion
    <3> DEFINE n == TargetName(w.b, w.mem.spec)
    <3>1. w.pc = "delLookup" /\ UNCHANGED <<log, gb, uids, doomed>>
      BY <2>17 DEF LookupForDeletion, At
    <3>2. n \in Names
      BY <2>1, ObjectFacts, TargetNameType
    <3>3. CASE gb[n].id # 0
      <4>1. w' = [w EXCEPT !.pc = "delTarget", !.info = gb[n]]
        BY <2>17, <3>3 DEF LookupForDeletion
      <4>2. w'.pc = "delTarget" /\ w'.b = w.b /\ w'.mem = w.mem /\ w'.info = gb[n]
        BY <2>1, <4>1 DEF Work
      <4>3. ReclaimHeld'
        BY <3>1, <4>2 DEF ReclaimHeld, TargetName
      <4> QED BY <2>16, <3>1, <4>2, <4>3 DEF DeletionSteps
    <3>4. CASE gb[n].id = 0
      <4>1. w'.pc = "unfinalize" /\ w'.b = w.b /\ w'.mem = w.mem
        BY <2>4, <2>17, <3>4 DEF LookupForDeletion
      <4>2. gb[n].maker = 0
        BY <3>2, <3>4 DEF ReclaimInv, TargetInv
      <4>3. ReclaimHeld'
        BY <2>1, <3>1, <4>1, <4>2 DEF ReclaimHeld, TargetName, Exists
      <4> QED BY <2>16, <3>1, <4>1, <4>3 DEF DeletionSteps
    <3> QED BY <3>3, <3>4
  <2>18. CASE DeleteTarget
    <3> DEFINE n == TargetName(w.b, w.mem.spec)
    <3>1. /\ w.pc = "delTarget" /\ UNCHANGED <<log, uids, doomed>> /\ Goto("unfinalize")
          /\ gb' = [x \in Names |-> IF gb[x].id = w.info.id THEN NoTarget ELSE gb[x]]
      BY <2>6, <2>18 DEF DeleteTarget, At, Answered
    <3>2. n \in Names
      BY <2>1, ObjectFacts, TargetNameType
    <3>3. w'.pc = "unfinalize" /\ w'.b = w.b /\ w'.mem = w.mem
      BY <2>4, <3>1
    <3>4. gb'[n].maker # w.mem.uid
      <4>1. CASE gb[n].id = w.info.id
        BY <2>1, <3>1, <3>2, <4>1 DEF NoTarget, Exists
      <4>2. CASE gb[n].id # w.info.id
        BY <2>1, <3>1, <3>2, <4>2 DEF WorkInv, ReclaimHeld
      <4> QED BY <4>1, <4>2
    <3>5. ReclaimHeld'
      BY <3>3, <3>4 DEF ReclaimHeld, TargetName
    <3> QED BY <2>16, <3>1, <3>3, <3>5 DEF DeletionSteps
  <2>19. CASE RemoveFinalizer
    BY <2>6, <2>19 DEF RemoveFinalizer, Answered
  <2> QED BY <2>7, <2>8, <2>9, <2>10, <2>11, <2>12, <2>13, <2>14, <2>15, <2>17, <2>18,
             <2>19 DEF Worker
<1> QED BY <1>1, <1>2

LEMMA WorkInvStep ==
    ASSUME ReclaimInv, [Next]_vars
    PROVE  WorkInv'
<1>1. CASE \E b \in Buckets : Begin(b)
  BY <1>1, Begins, Stopped
<1>2. CASE Worker
  BY <1>2, Works
<1>3. CASE CallFails \/ Crash
  BY <1>3, Stopped DEF CallFails, Fail, Crash
<1>4. CASE Manager /\ ~Crash
  BY <1>4, Waits DEF Manager, Resync, Informer, ChildInformer
<1>5. CASE Environment
  BY <1>5, Waits
  DEF Environment, UserCreate, UserEdit, UserDelete, AdminCreate, AdminDelete,
      UserCreateChild, UserDeleteChild, ChildFinalized, GarbageCollect,
      ClusterLost, ClusterBack
<1>6. CASE UNCHANGED vars
  BY <1>6, Waits DEF vars
<1> QED BY <1>1, <1>2, <1>3, <1>4, <1>5, <1>6 DEF Next

-----------------------------------------------------------------------------
LEMMA ReclaimInvInit == Init => ReclaimInv
<1> SUFFICES ASSUME Init PROVE ReclaimInv
  OBVIOUS
<1>1. TypeInv
  BY TypeInvInit
<1>2. /\ \A b \in Buckets : log[b] = <<Absent>> /\ Api(b) = Absent
      /\ uids = 0 /\ w = Idle /\ \A n \in Names : gb[n] = NoTarget
  BY DEF Init, Api, Live
<1>3. LogInOrder(<<Absent>>) /\ Versions(<<Absent>>) = {Absent}
  BY FirstLog
<1>4. Absent.uid = 0 /\ ~Absent.deleting /\ ~Exists(Absent)
  BY DEF Absent, Exists
<1>5. LogInv
  BY <1>2, <1>3, <1>4 DEF LogInv
<1>6. TargetInv
  BY <1>2, <1>4 DEF TargetInv, FinalizerGuards, NoTarget
<1>7. WorkInv
  BY <1>2, <1>4 DEF WorkInv, Idle, HeldObject, DeletionHeld, RetainHonoured, ReclaimHeld,
                    ReconcileSteps, DeletionSteps
<1> QED BY <1>1, <1>5, <1>6, <1>7 DEF ReclaimInv

LEMMA ReclaimInvInductive == ReclaimInv /\ [Next]_vars => ReclaimInv'
BY TypeInvInductive, LogInvStep, TargetInvStep, WorkInvStep DEF ReclaimInv

LEMMA ReclaimInvHolds == Spec => []ReclaimInv
BY ReclaimInvInit, ReclaimInvInductive, PTL DEF Spec

(* What reconcile brings about, it brings about for the stored object that *)
(* bears the name and has the finalizer, although it began with a cached   *)
(* copy.                                                                   *)
THEOREM WorksForHeldObject == Spec => []HeldObject
<1>1. ReclaimInv => HeldObject
  BY DEF ReclaimInv, WorkInv
<1> QED BY <1>1, ReclaimInvHolds, PTL

(* While a CR is stored, what was made in Garage for it is guarded by the  *)
(* finalizer that Reconcile adds first.                                    *)
THEOREM TargetsGuarded == Spec => []FinalizerGuards
<1>1. ReclaimInv => FinalizerGuards
  BY DEF ReclaimInv, TargetInv
<1> QED BY <1>1, ReclaimInvHolds, PTL

(* reconcileDeletion reaches Garage only for a CR that was terminating     *)
(* with policy Delete.                                                     *)
THEOREM RetainIsHonoured == Spec => []RetainHonoured
<1>1. ReclaimInv => RetainHonoured
  BY DEF ReclaimInv, WorkInv
<1> QED BY <1>1, ReclaimInvHolds, PTL

(* A CR with policy Delete goes only when its target is no longer there.   *)
THEOREM TargetReclaimed == Spec => GoneMeansReclaimed
<1> DEFINE Reclaims ==
      \A b \in Buckets :
         Exists(Api(b)) /\ ~Exists(Api(b)') /\ ~Api(b).spec.retain
            => gb'[TargetName(b, Api(b).spec)].maker # Api(b).uid
<1>1. ASSUME ReclaimInv, [Next]_vars PROVE [Reclaims]_vars
  <2> SUFFICES ASSUME NEW b \in Buckets, Exists(Api(b)), ~Exists(Live(log'[b])),
                      ~Api(b).spec.retain
               PROVE  gb'[TargetName(b, Api(b).spec)].maker # Api(b).uid
    BY DEF Api
  <2>1. TypeOK /\ TargetInv /\ WorkInv
    BY <1>1 DEF ReclaimInv, TypeInv
  <2>2. TargetName(b, Api(b).spec) \in Names
    BY <2>1, ApiType, ObjectFacts, TargetNameType
  <2>3. Gone(b) /\ Changed(b)
    <3>1. ~Kept(Api(b), Live(log'[b])) /\ ~New(b)
      BY DEF Kept, New, Exists
    <3> QED BY <1>1, <2>1, <3>1, LogMoves, Fates DEF LogMove
  <2>4. CASE ~Api(b).fin
    BY <2>1, <2>2, <2>3, <2>4 DEF TargetInv, FinalizerGuards, Changed
  <2>5. CASE w.pc = "unfinalize" /\ w.b = b /\ w.mem = Api(b)
    BY <2>1, <2>3, <2>5 DEF WorkInv, ReclaimHeld, Changed
  <2> QED BY <2>3, <2>4, <2>5 DEF Gone
<1>2. ReclaimInv /\ [Next]_vars => [Reclaims]_vars
  BY <1>1
<1> QED BY <1>2, ReclaimInvHolds, PTL DEF Spec, GoneMeansReclaimed

=============================================================================
