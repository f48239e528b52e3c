\* A GaragePermission whose key is not in Garage.
SPECIFICATION Spec
CONSTANTS
    p1 = p1  b1 = b1  k1 = k1  n1 = n1  n2 = n2  n3 = n3
    NoSpec = NoSpec  NoPerm = NoPerm  NoTarget = NoTarget  NoRight = NoRight
    Perms = {p1}
    BucketRefs = {b1}
    KeyRefs = {k1}
    Targets = {n1, n3}
    TargetsOf <- Fixed
    Rights = {"read", "write"}
    SpecsOf <- ReadOrAll
    MaxOps = 1
    MaxFaults = 0
PROPERTIES MissingKeySkipped
CHECK_DEADLOCK FALSE
