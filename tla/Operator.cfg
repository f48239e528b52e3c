\* One GarageBucket, its access, and the three controllers.
SPECIFICATION FairSpec
CONSTANTS
    b1 = b1
    NoSpec = NoSpec  NoBucket = NoBucket  NoAccess = NoAccess
    Buckets = {b1}
    Rights = {"read", "write"}
    SpecsOf <- OnOffSpecs
    MaxEvents = 3
INVARIANTS OperatorTypeOK RightsHaveACr
PROPERTIES AccessWorks AccessWithdrawn TeardownCompletes
CHECK_DEADLOCK FALSE
