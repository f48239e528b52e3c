--------------------------- MODULE ManagedTarget ---------------------------
(***************************************************************************)
(* What the operator promises of one kind of custom resource (CR) and of   *)
(* its targets, the things made for it in Garage: the buckets of a         *)
(* GarageBucket, the keys of a GarageAccessKey.  A CR is known by its UID, *)
(* a target by its target name.  The steps of the promise are atomic and   *)
(* see the true state; BucketReconciler and KeyReconciler implement them   *)
(* with a lagging cache, calls that fail and restarts.                     *)
(***************************************************************************)
CONSTANTS Uids, Names

VARIABLES
    obj,      \* the life of the CR of each UID
    targets   \* the names under which there is a target made for it

vars == <<obj, targets>>

Unborn == [phase |-> "unborn"]
Gone   == [phase |-> "gone"]

(* Without a finalizer, with one, and marked for deletion. *)
Phases == {"plain", "held", "terminating"}
Stored == [phase: Phases, name: Names, retain: BOOLEAN]

In(u, phases) == obj[u].phase \in phases
Become(u, o)  == obj' = [obj EXCEPT ![u] = o] /\ UNCHANGED targets

-----------------------------------------------------------------------------
(* Users: creation under a new UID; edits of the specification; deletion,  *)
(* which a finalizer turns into a mark.                                    *)

Create(u, n, r) ==
    In(u, {"unborn"}) /\ Become(u, [phase |-> "plain", name |-> n, retain |-> r])

Edit(u, n, r) ==
    In(u, Phases) /\ Become(u, [phase |-> obj[u].phase, name |-> n, retain |-> r])

Delete(u) ==
    \/ In(u, {"plain"}) /\ Become(u, Gone)
    \/ In(u, {"held"})  /\ Become(u, [obj[u] EXCEPT !.phase = "terminating"])

-----------------------------------------------------------------------------
(* The operator. *)

Hold(u) == In(u, {"plain"}) /\ Become(u, [obj[u] EXCEPT !.phase = "held"])

(* Targets are made for CRs that are there with a finalizer only. *)
Make(u, n) ==
    /\ In(u, {"held", "terminating"}) /\ n \notin targets[u]
    /\ targets' = [targets EXCEPT ![u] = @ \cup {n}]
    /\ UNCHANGED obj

(* By the operator or by the administrator. *)
Remove(u, n) ==
    /\ n \in targets[u]
    /\ targets' = [targets EXCEPT ![u] = @ \ {n}]
    /\ UNCHANGED obj

(* A CR leaves when it was deleted and its target is reclaimed, or to be   *)
(* retained.                                                               *)
Release(u) ==
    /\ In(u, {"terminating"})
    /\ obj[u].retain \/ obj[u].name \notin targets[u]
    /\ Become(u, Gone)

-----------------------------------------------------------------------------
Init == obj = [u \in Uids |-> Unborn] /\ targets = [u \in Uids |-> {}]

Next ==
    \E u \in Uids :
        \/ Delete(u) \/ Hold(u) \/ Release(u)
        \/ \E n \in Names : \/ Make(u, n) \/ Remove(u, n)
                            \/ \E r \in BOOLEAN : Create(u, n, r) \/ Edit(u, n, r)

Spec == Init /\ [][Next]_vars
=============================================================================
