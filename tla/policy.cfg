CONSTANTS
    Bounds <- AllTexts
    Policies <- SomePolicies
SPECIFICATION Spec
INVARIANTS
    OnlyAllowedKeys OneManagedLabel
    NothingOfTheHost ArgumentsFollowKeys PermissionsAreSeparate
