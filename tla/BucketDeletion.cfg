\* Liveness of deletion: renamed and re-quotaed targets, an administrator, a fault.
SPECIFICATION FairSpec
CONSTANTS
    b1 = b1  b2 = b2  n1 = n1  n2 = n2  n3 = n3
    c1 = c1  c2 = c2
    NoSpec = NoSpec  NoBucket = NoBucket  NoName = NoName
    NoQuota = NoQuota  NoLimit = NoLimit  NoCfg = NoCfg  NoAccess = NoAccess
    Buckets = {b1}
    Names = {n1, n2}
    NameOf <- OneName
    Limits = {0, 1}
    Cfgs = {c1, c2}
    SpecsOf <- TargetSpecs
    AdminNames = {n1}
    ForeignCfgs = {}
    MaxOps = 4
    MaxFaults = 1
PROPERTIES DeletionCompletes PromiseKept
CHECK_DEADLOCK FALSE
