-------------------------- MODULE KubeObjectsProofs --------------------------
(***************************************************************************)
(* Facts about the objects and logs of KubeObjects, for whatever set S of  *)
(* specifications or of versions, which the proofs about the controllers   *)
(* cite.                                                                   *)
(*                                                                         *)
(* A controller decides on copies from a lagging cache.  What makes up for *)
(* it is the order of the versions (LogInOrder): a version that has the    *)
(* finalizer and is not terminating shows that the object is still there.  *)
(***************************************************************************)
EXTENDS KubeObjects, SequenceTheorems, TLAPS

-----------------------------------------------------------------------------
(* Logs of versions.                                                       *)

(* What the cache returns and what the API server stores are versions.     *)
LEMMA LogRead ==
    ASSUME NEW S, NEW l \in Seq(S) \ {<<>>}
    PROVE  /\ Len(l) \in Nat \ {0}
           /\ Cached(l) \in S
           /\ Live(l) \in S
           /\ \A i \in 1 .. Len(l) : l[i] \in S
BY DEF Cached, Live

(* A write adds the new stored version and leaves the others.              *)
LEMMA LogAppend ==
    ASSUME NEW S, NEW l \in Seq(S) \ {<<>>}, NEW e \in S
    PROVE  /\ Append(l, e) \in Seq(S) \ {<<>>}
           /\ Len(Append(l, e)) = Len(l) + 1
           /\ Live(Append(l, e)) = e
           /\ \A i \in 1 .. Len(l) : Append(l, e)[i] = l[i]
BY DEF Live

(* The informer drops the oldest version; the stored one stays.            *)
LEMMA LogTail ==
    ASSUME NEW S, NEW l \in Seq(S) \ {<<>>}, Len(l) > 1
    PROVE  /\ Tail(l) \in Seq(S) \ {<<>>}
           /\ Len(Tail(l)) = Len(l) - 1
           /\ Live(Tail(l)) = Live(l)
           /\ \A i \in 1 .. Len(Tail(l)) : Tail(l)[i] = l[i + 1]
<1>1. Len(l) \in Nat /\ l # <<>>
  OBVIOUS
<1>2. /\ Tail(l) \in Seq(S)
      /\ Len(Tail(l)) = Len(l) - 1
      /\ \A i \in 1 .. Len(Tail(l)) : Tail(l)[i] = l[i + 1]
  BY <1>1, HeadTailProperties
<1>3. Len(Tail(l)) \in Nat \ {0} /\ Len(Tail(l)) \in 1 .. Len(Tail(l))
  BY <1>1, <1>2
<1>4. Tail(l) # <<>>
  BY <1>2, <1>3
<1> QED BY <1>1, <1>2, <1>3, <1>4 DEF Live

(* A list holds the stored version only.                                   *)
LEMMA LogRelist ==
    ASSUME NEW S, NEW l \in Seq(S) \ {<<>>}
    PROVE  /\ Relisted(l) \in Seq(S) \ {<<>>}
           /\ Len(Relisted(l)) = 1
           /\ Live(Relisted(l)) = Live(l)
           /\ Relisted(l)[1] = Live(l)
BY LogRead DEF Live, Relisted

-----------------------------------------------------------------------------
(* Objects: what writes store has the type of an object.                   *)

LEMMA StoredFacts ==
    ASSUME NEW S, NEW o \in Objects(S), Exists(o)
    PROVE  /\ o \in [uid: Nat \ {0}, deleting: BOOLEAN, fin: BOOLEAN,
                     spec: S, id: Nat]
           /\ \A i \in Nat : [o EXCEPT !.id = i] \in Objects(S)
           /\ [o EXCEPT !.fin = TRUE] \in Objects(S)
           /\ \A s \in S : [o EXCEPT !.spec = s] \in Objects(S)
           /\ Deleted(o) \in Objects(S)
           /\ Unfinalized(o) \in Objects(S)
<1> DEFINE Stored == [uid: Nat \ {0}, deleting: BOOLEAN, fin: BOOLEAN,
                      spec: S, id: Nat]
<1>1. o \in Stored
  BY DEF Objects, Exists, Absent
<1>2. \A x \in Stored : x \in Objects(S)
  BY DEF Objects
<1>3. \A i \in Nat : [o EXCEPT !.id = i] \in Stored
  BY <1>1
<1>4. [o EXCEPT !.fin = TRUE] \in Stored /\ [o EXCEPT !.fin = FALSE] \in Stored
  BY <1>1
<1>5. \A s \in S : [o EXCEPT !.spec = s] \in Stored
  BY <1>1
<1>6. [o EXCEPT !.deleting = TRUE] \in Stored
  BY <1>1
<1>7. Absent \in Objects(S)
  BY DEF Objects
<1> HIDE DEF Stored
<1>8. Deleted(o) \in Objects(S) /\ Unfinalized(o) \in Objects(S)
  BY <1>2, <1>4, <1>6, <1>7 DEF Deleted, Unfinalized
<1> QED BY <1>1, <1>2, <1>3, <1>4, <1>5, <1>8 DEF Stored

-----------------------------------------------------------------------------
(* The order of versions.                                                  *)

Versions(l) == {l[i] : i \in 1 .. Len(l)}

(* No version of another object comes between those of the stored one.    *)
OneRun(l) ==
    \A i, j \in 1 .. Len(l) :
        i < j /\ Exists(Live(l)) /\ l[i].uid = Live(l).uid => l[j].uid = Live(l).uid

LogInOrder(l) ==
    /\ \A v \in Versions(l) : v.fin /\ ~v.deleting
                                => Live(l).uid = v.uid /\ Live(l).fin
    /\ \A i, j \in 1 .. Len(l) :
         i < j /\ l[i].uid = l[j].uid /\ l[i].deleting => l[j].deleting
    /\ OneRun(l)

(* o may be stored after the versions of l. *)
Follows(o, l) ==
    /\ \A v \in Versions(l) : /\ v.fin /\ ~v.deleting => o.uid = v.uid /\ o.fin
                              /\ v.uid = o.uid /\ v.deleting => o.deleting
    /\ Exists(o) => o.uid = Live(l).uid \/ \A v \in Versions(l) : v.uid # o.uid

(* The same object, with the marks it had. *)
Kept(o, p) == p.uid = o.uid /\ (o.fin => p.fin) /\ (o.deleting => p.deleting)

LEMMA LiveIsVersion ==
    ASSUME NEW S, NEW l \in Seq(S) \ {<<>>}
    PROVE  Live(l) \in Versions(l) /\ Cached(l) \in Versions(l)
BY LogRead DEF Live, Cached, Versions

LEMMA AppendInOrder ==
    ASSUME NEW S, NEW l \in Seq(S) \ {<<>>}, NEW o \in S,
           LogInOrder(l), Follows(o, l)
    PROVE  LogInOrder(Append(l, o))
<1> DEFINE m == Append(l, o)
<1>1. /\ Len(l) \in Nat \ {0} /\ Len(m) = Len(l) + 1 /\ Live(m) = o
      /\ \A i \in 1 .. Len(l) : m[i] = l[i]
  BY LogRead, LogAppend
<1>2. m[Len(m)] = o
  BY <1>1 DEF Live
<1>3. \A i \in 1 .. Len(m) : i = Len(m) \/ i \in 1 .. Len(l)
  BY <1>1
<1>4. \A i \in 1 .. Len(l) : l[i] \in Versions(l)
  BY DEF Versions
<1> HIDE DEF m
<1>5. \A v \in Versions(m) : v.fin /\ ~v.deleting => Live(m).uid = v.uid /\ Live(m).fin
  BY <1>1, <1>2, <1>3, <1>4 DEF Versions, Follows
<1>6. ASSUME NEW i \in 1 .. Len(m), NEW j \in 1 .. Len(m),
             i < j, m[i].uid = m[j].uid, m[i].deleting
      PROVE  m[j].deleting
  <2>1. i \in 1 .. Len(l)
    BY <1>1, <1>6
  <2>2. CASE j = Len(m)
    BY <1>1, <1>2, <1>4, <1>6, <2>1, <2>2 DEF Follows
  <2>3. CASE j \in 1 .. Len(l)
    BY <1>1, <1>6, <2>1, <2>3 DEF LogInOrder
  <2> QED BY <1>3, <2>2, <2>3
<1>7. ASSUME NEW i \in 1 .. Len(m), NEW j \in 1 .. Len(m),
             i < j, Exists(o), m[i].uid = o.uid
      PROVE  m[j].uid = o.uid
  <2>1. i \in 1 .. Len(l)
    BY <1>1, <1>7
  <2>2. Live(l).uid = o.uid
    BY <1>1, <1>4, <1>7, <2>1 DEF Follows
  <2>3. Exists(Live(l))
    BY <1>7, <2>2 DEF Exists
  <2>4. CASE j \in 1 .. Len(l)
    BY <1>1, <1>7, <2>1, <2>2, <2>3, <2>4 DEF LogInOrder, OneRun
  <2> QED BY <1>2, <1>3, <2>4
<1>8. OneRun(m)
  BY <1>1, <1>7 DEF OneRun
<1> QED BY <1>5, <1>6, <1>8 DEF LogInOrder, m

LEMMA KeptFollows ==
    ASSUME NEW S, NEW l \in Seq(S) \ {<<>>}, LogInOrder(l),
           NEW o, Kept(Live(l), o)
    PROVE  Follows(o, l)
<1>1. Len(l) \in Nat \ {0}
  BY LogRead
<1> SUFFICES ASSUME NEW i \in 1 .. Len(l)
             PROVE  /\ l[i].fin /\ ~l[i].deleting => o.uid = l[i].uid /\ o.fin
                    /\ l[i].uid = o.uid /\ l[i].deleting => o.deleting
  BY DEF Follows, Versions, Kept
<1>2. l[i].fin /\ ~l[i].deleting => o.uid = l[i].uid /\ o.fin
  BY DEF LogInOrder, Kept, Versions
<1>3. ASSUME l[i].uid = o.uid, l[i].deleting PROVE o.deleting
  <2>1. i = Len(l) \/ i < Len(l)
    BY <1>1
  <2>2. Len(l) \in 1 .. Len(l)
    BY <1>1
  <2> QED BY <1>3, <2>1, <2>2 DEF LogInOrder, Kept, Live
<1> QED BY <1>2, <1>3

LEMMA TailInOrder ==
    ASSUME NEW S, NEW l \in Seq(S) \ {<<>>}, Len(l) > 1
    PROVE  /\ Versions(Tail(l)) \subseteq Versions(l)
           /\ LogInOrder(l) => LogInOrder(Tail(l))
<1> DEFINE m == Tail(l)
<1>1. /\ Len(l) \in Nat /\ Len(m) = Len(l) - 1 /\ Live(m) = Live(l)
      /\ \A i \in 1 .. Len(m) : m[i] = l[i + 1] /\ i + 1 \in 1 .. Len(l)
  BY LogRead, LogTail
<1> HIDE DEF m
<1>2. Versions(m) \subseteq Versions(l)
  BY <1>1 DEF Versions
<1>3. ASSUME LogInOrder(l) PROVE LogInOrder(m)
  <2>1. ASSUME NEW i \in 1 .. Len(m), NEW j \in 1 .. Len(m),
               i < j, m[i].uid = m[j].uid, m[i].deleting
        PROVE  m[j].deleting
    BY <1>1, <1>3, <2>1 DEF LogInOrder
  <2>2. OneRun(m)
    BY <1>1, <1>3 DEF LogInOrder, OneRun
  <2> QED BY <1>1, <1>2, <1>3, <2>1, <2>2 DEF LogInOrder
<1> QED BY <1>2, <1>3 DEF m

LEMMA RelistInOrder ==
    ASSUME NEW S, NEW l \in Seq(S) \ {<<>>}
    PROVE  /\ Versions(Relisted(l)) \subseteq Versions(l)
           /\ LogInOrder(Relisted(l))
<1> DEFINE m == Relisted(l)
<1>1. Len(m) = 1 /\ Live(m) = Live(l) /\ m[1] = Live(l)
  BY LogRelist
<1> HIDE DEF m
<1>2. \A i \in 1 .. Len(m) : i = 1
  BY <1>1
<1>3. Versions(m) = {Live(l)}
  BY <1>1, <1>2 DEF Versions
<1> QED BY <1>1, <1>2, <1>3, LiveIsVersion DEF LogInOrder, OneRun, m

(* Where a name was never used. *)
LEMMA FirstLog ==
    /\ Versions(<<Absent>>) = {Absent} /\ Live(<<Absent>>) = Absent
    /\ LogInOrder(<<Absent>>)
<1>1. Len(<<Absent>>) = 1 /\ <<Absent>>[1] = Absent /\ Live(<<Absent>>) = Absent
  BY DEF Live
<1>2. 1 .. 1 = {1}
  OBVIOUS
<1>3. Versions(<<Absent>>) = {Absent}
  BY <1>1, <1>2 DEF Versions
<1> QED BY <1>1, <1>2, <1>3 DEF LogInOrder, OneRun, Absent

(* A reader of the cache that finds the stored object has seen the last of *)
(* those that bore the name before.                                        *)
LEMMA CachedIsLast ==
    ASSUME NEW S, NEW l \in Seq(S) \ {<<>>}, LogInOrder(l), Exists(Live(l)),
           Cached(l).uid = Live(l).uid, NEW v \in Versions(l)
    PROVE  v.uid = Live(l).uid
<1>1. Len(l) \in Nat \ {0} /\ 1 \in 1 .. Len(l)
  BY LogRead
<1>2. PICK i \in 1 .. Len(l) : v = l[i]
  BY DEF Versions
<1>3. i = 1 \/ 1 < i
  BY <1>1
<1> QED BY <1>1, <1>2, <1>3 DEF LogInOrder, OneRun, Cached

(* What a write of o makes of the log l. *)
LEMMA WrittenLog ==
    ASSUME NEW S, NEW l \in Seq(S) \ {<<>>}, NEW o \in S,
           NEW m, o = Live(l) => m = l, o # Live(l) => m = Append(l, o)
    PROVE  /\ m \in Seq(S) \ {<<>>}
           /\ Live(m) = o
           /\ Versions(m) \subseteq Versions(l) \cup {o}
           /\ LogInOrder(l) /\ Follows(o, l) => LogInOrder(m)
<1>1. CASE o = Live(l)
  BY <1>1
<1>2. CASE o # Live(l)
  <2>0. m = Append(l, o)
    BY <1>2
  <2>1. /\ m \in Seq(S) \ {<<>>}
        /\ Len(l) \in Nat \ {0} /\ Len(m) = Len(l) + 1 /\ Live(m) = o
        /\ \A i \in 1 .. Len(l) : m[i] = l[i]
    BY <2>0, LogRead, LogAppend
  <2>2. Versions(m) \subseteq Versions(l) \cup {o}
    BY <2>1 DEF Versions, Live
  <2>3. LogInOrder(l) /\ Follows(o, l) => LogInOrder(m)
    BY <2>0, AppendInOrder
  <2> QED BY <2>1, <2>2, <2>3
<1> QED BY <1>1, <1>2

(* What the writes of a controller and of users keep of an object. *)
LEMMA KeptWrites ==
    ASSUME NEW S, NEW o \in Objects(S), Exists(o)
    PROVE  /\ \A i \in Nat : Kept(o, [o EXCEPT !.id = i])
           /\ Kept(o, [o EXCEPT !.fin = TRUE])
           /\ \A s \in S : Kept(o, [o EXCEPT !.spec = s])
           /\ o.fin => Kept(o, Deleted(o))
BY StoredFacts DEF Kept, Deleted

(* An object may go when no version shows it with its finalizer only. *)
LEMMA AbsentFollows ==
    ASSUME NEW S, NEW l \in Seq(Objects(S)) \ {<<>>},
           \A v \in Versions(l) : ~v.fin \/ v.deleting
    PROVE  Follows(Absent, l)
<1>1. \A v \in Versions(l) : v \in Objects(S)
  BY LogRead DEF Versions
<1>2. Absent.uid = 0 /\ ~Exists(Absent)
  BY DEF Absent, Exists
<1> QED BY <1>1, <1>2 DEF Follows, Objects

(* Under a name that is free, a new object may be stored. *)
LEMMA FreshFollows ==
    ASSUME NEW S, NEW l \in Seq(Objects(S)) \ {<<>>}, LogInOrder(l),
           ~Exists(Live(l)), NEW o, \A v \in Versions(l) : v.uid # o.uid
    PROVE  Follows(o, l)
<1>1. Live(l) = Absent
  BY LogRead DEF Exists, Objects
<1>2. \A v \in Versions(l) : ~v.fin \/ v.deleting
  BY <1>1 DEF LogInOrder, Absent
<1> QED BY <1>2 DEF Follows

(* A version that is terminating is followed by terminating ones. *)
LEMMA CachedTerminates ==
    ASSUME NEW S, NEW l \in Seq(S) \ {<<>>}, LogInOrder(l), Cached(l).deleting,
           NEW v \in Versions(l), v.uid = Cached(l).uid
    PROVE  v.deleting
<1>1. Len(l) \in Nat \ {0} /\ 1 \in 1 .. Len(l)
  BY LogRead
<1>2. PICK i \in 1 .. Len(l) : v = l[i]
  BY DEF Versions
<1>3. i = 1 \/ 1 < i
  BY <1>1
<1> QED BY <1>1, <1>2, <1>3 DEF LogInOrder, Cached

-----------------------------------------------------------------------------
(* What becomes of an object: nothing changes but its status.id, or the    *)
(* finalizer is added, the specification edited, the object marked.        *)

Alike(o, p) == p.uid = o.uid /\ p.deleting = o.deleting /\ p.fin = o.fin /\ p.spec = o.spec

EditOf(o, p, Specs) ==
    /\ Exists(o)
    /\ \/ ~o.deleting /\ p = [o EXCEPT !.fin = TRUE]
       \/ \E s \in Specs : p = [o EXCEPT !.spec = s]
       \/ o.fin /\ ~o.deleting /\ p = [o EXCEPT !.deleting = TRUE]

LEMMA AlikeKept ==
    ASSUME NEW o, NEW p, Alike(o, p)
    PROVE  Kept(o, p)
BY DEF Alike, Kept

LEMMA EditKept ==
    ASSUME NEW S, NEW Specs \in SUBSET S, NEW o \in Objects(S), NEW p, EditOf(o, p, Specs)
    PROVE  p \in Objects(S) /\ Exists(p) /\ Kept(o, p)
<1> DEFINE Stored == [uid: Nat \ {0}, deleting: BOOLEAN, fin: BOOLEAN, spec: S, id: Nat]
<1>1. o \in Stored
  BY StoredFacts DEF EditOf
<1>2. p \in Stored /\ p.uid = o.uid /\ (o.fin => p.fin) /\ (o.deleting => p.deleting)
  BY <1>1 DEF EditOf
<1> QED BY <1>2 DEF Kept, Objects, Exists

=============================================================================
