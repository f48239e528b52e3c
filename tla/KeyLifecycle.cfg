\* One GarageAccessKey name: policy, format and rename, an administrator, a
\* user at work on the Secret, a fault.
SPECIFICATION FairSpec
CONSTANTS
    k1 = k1  n1 = n1  n2 = n2
    NoSpec = NoSpec  NoKey = NoKey  NoName = NoName
    Keys = {k1}
    Names = {n1, n2}
    NameOf <- OneName
    SpecsOf <- MixedSpecs
    UserSecrets = {n1}
    MaxOps = 3
    MaxFaults = 1
INVARIANTS KeyTypeOK OneKeyPerTarget CredentialsOwned
PROPERTIES KeyRevoked KeyPromiseKept CredentialsCollected KeyDeletionCompletes KeyConverges
CHECK_DEADLOCK FALSE
