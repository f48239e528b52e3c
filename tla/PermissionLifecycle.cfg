\* One GaragePermission whose rights are edited, its GarageBucket renamed,
\* references and targets that come and go, and a fault.
SPECIFICATION FairSpec
CONSTANTS
    p1 = p1  b1 = b1  k1 = k1  n1 = n1  n2 = n2  n3 = n3
    NoSpec = NoSpec  NoPerm = NoPerm  NoTarget = NoTarget  NoRight = NoRight
    Perms = {p1}
    BucketRefs = {b1}
    KeyRefs = {k1}
    Targets = {n1, n2, n3}
    TargetsOf <- Renaming
    Rights = {"read", "write"}
    SpecsOf <- ReadOrAll
    MaxOps = 3
    MaxFaults = 1
INVARIANTS PermTypeOK GrantsForHeld
PROPERTIES GrantRevoked PermDeletionCompletes PermConverges
CHECK_DEADLOCK FALSE
