----------------------------- MODULE KubeObjects -----------------------------
(***************************************************************************)
(* What the reconcilers rely on of Kubernetes: objects with a UID, a       *)
(* deletion mark and a finalizer, and the informer cache through which a   *)
(* controller-runtime client reads them.                                   *)
(*                                                                         *)
(* An object under a given name is kept as the sequence of its versions    *)
(* that the informer has not delivered past: the first one is what the     *)
(* cached client returns, the last one is what the API server stores.  A   *)
(* write appends a version, the informer drops the oldest.  Successive     *)
(* objects of one name (deleted, created again) share the sequence and     *)
(* differ in their UID.                                                    *)
(*                                                                         *)
(* Optimistic concurrency: an update carries the resourceVersion of the    *)
(* copy it started from and conflicts unless that version is still stored. *)
(* Here a copy is current when it equals the stored object.                *)
(***************************************************************************)
EXTENDS Naturals, Sequences

CONSTANT NoSpec                  \* the specification of no object

(* No object under this name; UIDs start at 1. *)
Absent == [uid |-> 0, deleting |-> FALSE, fin |-> FALSE,
           spec |-> NoSpec, id |-> 0]

Created(u, s) == [uid |-> u, deleting |-> FALSE, fin |-> FALSE,
                  spec |-> s, id |-> 0]

Exists(o) == o.uid # 0

Objects(Specifications) ==
    {Absent} \cup [uid: Nat \ {0}, deleting: BOOLEAN, fin: BOOLEAN,
                   spec: Specifications, id: Nat]

(* The API server keeps a deleted object while it has a finalizer, and     *)
(* drops a marked one with its last finalizer.                             *)
Deleted(o)     == IF o.fin THEN [o EXCEPT !.deleting = TRUE] ELSE Absent
Unfinalized(o) == IF o.deleting THEN Absent ELSE [o EXCEPT !.fin = FALSE]

Cached(log)    == log[1]
Live(log)      == log[Len(log)]
Relisted(log)  == <<Live(log)>>  \* a restarted informer lists the live state
=============================================================================
