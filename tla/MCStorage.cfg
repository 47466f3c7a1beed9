SPECIFICATION Spec
CONSTANTS
    None = None
    Torn = Torn
    Refused = Refused
    MaxNets = 3
    MaxKeys = 3
    MaxMishaps = 2
INVARIANTS NoSingleMishapMixes LeavingNeedsNoLuck
PROPERTIES IdentityIsKept
