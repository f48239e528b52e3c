-------------------------- MODULE MCKeyReconciler --------------------------
(* Small instances of KeyReconciler for TLC. *)
EXTENDS KeyReconciler

CONSTANTS k1, n1, n2

OneName == [k \in Keys |-> n1]

Plain == [override |-> NoName, retain |-> FALSE, secretName |-> NoName, format |-> ""]

(* Policy, format and rename. *)
MixedSpecs ==
    [k \in Keys |-> {Plain,
                     [Plain EXCEPT !.override = n2, !.format = "AWSConfig"],
                     [Plain EXCEPT !.retain = TRUE, !.format = "Default"]}]

(* The sample: an override, and a name for the Secret. *)
SampleSpecs ==
    [k \in Keys |-> {[Plain EXCEPT !.override = n1, !.secretName = n2,
                                   !.format = "AWSConfig", !.retain = TRUE]}]

(* What CredentialsOwned needs holds in these instances. *)
ASSUME ApartAssumption == SecretsApart
=============================================================================
