\* One GarageBucket whose quotas leave out a limit.
SPECIFICATION Spec
CONSTANTS
    b1 = b1  b2 = b2  n1 = n1  n2 = n2  n3 = n3
    c1 = c1  c2 = c2
    NoSpec = NoSpec  NoBucket = NoBucket  NoName = NoName
    NoQuota = NoQuota  NoLimit = NoLimit  NoCfg = NoCfg  NoAccess = NoAccess
    Buckets = {b1}
    Names = {n1, n2}
    NameOf <- OneName
    Limits = {0, 1}
    Cfgs = {c1, c2}
    SpecsOf <- TargetSpecs
    AdminNames = {}
    ForeignCfgs = {}
    MaxOps = 1
    MaxFaults = 0
INVARIANTS LeftOutNotLimited
CHECK_DEADLOCK FALSE
