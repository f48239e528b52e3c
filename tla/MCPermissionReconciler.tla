----------------------- MODULE MCPermissionReconciler -----------------------
(* Small instances of PermissionReconciler for TLC. *)
EXTENDS PermissionReconciler

CONSTANTS p1, b1, k1, n1, n2, n3

(* The GarageBucket may be renamed. *)
Renaming == [r \in Refs |-> IF r = b1 THEN {n1, n2} ELSE {n3}]
Fixed    == [r \in Refs |-> IF r = b1 THEN {n1} ELSE {n3}]

Asks(rights) == [bucket |-> b1, key |-> k1, rights |-> rights]

(* All rights, left out; reading only. *)
ReadOrAll == [p \in Perms |-> {Asks(NoRights), Asks({"read"})}]

(* What GrantRevoked needs holds in these instances. *)
ASSUME ApartAssumption == TargetsApart /\ PairsApart
=============================================================================
