------------------------- MODULE MCBucketReconciler -------------------------
(* Small instances of BucketReconciler for TLC. *)
EXTENDS BucketReconciler

CONSTANTS b1, b2, n1, n2, n3, c1, c2

OneName  == [b \in Buckets |-> n1]
TwoNames == [b \in Buckets |-> IF b = b1 THEN n1 ELSE n2]

Plain    == [override |-> NoName, retain |-> FALSE, quota |-> NoQuota,
             access |-> NoAccess]
Access(c) == [k \in Kinds |-> c]

(* spec.quotas with maxObjects only. *)
ObjectsOnly == [d \in Dims |-> IF d = "objects" THEN 1 ELSE 0]

(* Policy, quota and rename of one bucket, no children. *)
TargetSpecs ==
    [b \in Buckets |-> {Plain,
                        [Plain EXCEPT !.retain = TRUE],
                        [Plain EXCEPT !.quota = ObjectsOnly, !.override = n2]}]

(* Access switched on and off. *)
OnOffSpecs == [b \in Buckets |-> {Plain, [Plain EXCEPT !.access = Access(c1)]}]

(* Access, quota and name changed at once. *)
MixedSpecs ==
    [b \in Buckets |-> {Plain,
                        [Plain EXCEPT !.access = [Access(c1) EXCEPT !["perm"] = c2],
                                      !.quota = ObjectsOnly, !.override = n2]}]

(* Two buckets whose target names never coincide, one of them renamed. *)
DisjointSpecs ==
    [b \in Buckets |-> IF b = b1 THEN {Plain, [Plain EXCEPT !.override = n3]}
                                 ELSE {Plain}]

(* In none of the instances do two GarageBuckets share a target name.      *)
ASSUME ApartAssumption == NamesApart
=============================================================================
