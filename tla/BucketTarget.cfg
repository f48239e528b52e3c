\* One GarageBucket, its target in Garage: policy, quota, rename, an
\* administrator on both aliases, faults.
SPECIFICATION Spec
CONSTANTS
    b1 = b1  b2 = b2  n1 = n1  n2 = n2  n3 = n3
    c1 = c1  c2 = c2
    NoSpec = NoSpec  NoBucket = NoBucket  NoName = NoName
    NoQuota = NoQuota  NoLimit = NoLimit  NoCfg = NoCfg  NoAccess = NoAccess
    Buckets = {b1}
    Names = {n1, n2}
    NameOf <- OneName
    Limits = {0, 1}
    Cfgs = {c1, c2}
    SpecsOf <- TargetSpecs
    AdminNames = {n1, n2}
    ForeignCfgs = {}
    MaxOps = 5
    MaxFaults = 1
INVARIANTS TypeOK HeldObject FinalizerGuards RetainHonoured
PROPERTIES GoneMeansReclaimed
CHECK_DEADLOCK FALSE
