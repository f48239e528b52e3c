\* Two GarageBuckets whose target names never coincide, one of them renamed.
SPECIFICATION Spec
CONSTANTS
    b1 = b1  b2 = b2  n1 = n1  n2 = n2  n3 = n3
    c1 = c1  c2 = c2
    NoSpec = NoSpec  NoBucket = NoBucket  NoName = NoName
    NoQuota = NoQuota  NoLimit = NoLimit  NoCfg = NoCfg  NoAccess = NoAccess
    Buckets = {b1, b2}
    Names = {n1, n2, n3}
    NameOf <- TwoNames
    Limits = {0, 1}
    Cfgs = {c1, c2}
    SpecsOf <- DisjointSpecs
    AdminNames = {n1}
    ForeignCfgs = {}
    MaxOps = 4
    MaxFaults = 1
PROPERTIES NoCollateral
CHECK_DEADLOCK FALSE
