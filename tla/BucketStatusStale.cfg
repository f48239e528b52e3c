\* The status after the target was deleted and made again.
SPECIFICATION Spec
CONSTANTS
    b1 = b1  b2 = b2  n1 = n1  n2 = n2  n3 = n3
    c1 = c1  c2 = c2
    NoSpec = NoSpec  NoBucket = NoBucket  NoName = NoName
    NoQuota = NoQuota  NoLimit = NoLimit  NoCfg = NoCfg  NoAccess = NoAccess
    Buckets = {b1}
    Names = {n1}
    NameOf <- OneName
    Limits = {0, 1}
    Cfgs = {c1, c2}
    SpecsOf <- OnOffSpecs
    AdminNames = {n1}
    ForeignCfgs = {}
    MaxOps = 3
    MaxFaults = 0
INVARIANTS StatusIsObserved
CHECK_DEADLOCK FALSE
