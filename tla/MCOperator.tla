----------------------------- MODULE MCOperator -----------------------------
(* Small instances of Operator for TLC. *)
EXTENDS Operator

CONSTANT b1

Plain    == [access |-> NoAccess, retain |-> FALSE]
Full     == [access |-> Rights, retain |-> FALSE]
ReadOnly == [access |-> {"read"}, retain |-> TRUE]

(* Access switched on and off; fewer rights, and a bucket to be retained. *)
OnOffSpecs == [b \in Buckets |-> {Plain, Full, ReadOnly}]
=============================================================================
