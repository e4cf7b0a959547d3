CONSTANTS
    Bounds <- Structured
    Policies <- SomePolicies
SPECIFICATION Spec
INVARIANTS
    UnsupportedSectionsRejected
