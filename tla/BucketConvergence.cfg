\* Convergence of target, status, quotas and children; a user who has children
\* of his own under the name of a bucket.
SPECIFICATION ResyncedSpec
CONSTANTS
    b1 = b1  b2 = b2  n1 = n1  n2 = n2  n3 = n3
    c1 = c1  c2 = c2
    NoSpec = NoSpec  NoBucket = NoBucket  NoName = NoName
    NoQuota = NoQuota  NoLimit = NoLimit  NoCfg = NoCfg  NoAccess = NoAccess
    Buckets = {b1}
    Names = {n1, n2}
    NameOf <- OneName
    Limits = {0, 1}
    Cfgs = {c1, c2}
    SpecsOf <- MixedSpecs
    AdminNames = {n1}
    ForeignCfgs = {c2}
    MaxOps = 3
    MaxFaults = 1
PROPERTIES Converges ForeignNeverAdopted
CHECK_DEADLOCK FALSE
