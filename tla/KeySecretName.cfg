\* The sample GarageAccessKey.
SPECIFICATION Spec
CONSTANTS
    k1 = k1  n1 = n1  n2 = n2
    NoSpec = NoSpec  NoKey = NoKey  NoName = NoName
    Keys = {k1}
    Names = {n1, n2}
    NameOf <- OneName
    SpecsOf <- SampleSpecs
    UserSecrets = {}
    MaxOps = 1
    MaxFaults = 0
PROPERTIES SecretWhereAsked
CHECK_DEADLOCK FALSE
