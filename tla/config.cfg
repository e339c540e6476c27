CONSTANTS
    Budget = 9
    MaxDepth = 3
    Managed = "zen"
    MaxAccounts = 2
    Digest <- MCDigest
    EmptyDigest = "d0"
    Parse <- YamlMap
    Inputs <- MCInputs
SPECIFICATION Spec
CHECK_DEADLOCK FALSE
INVARIANT DecodedIffFine
INVARIANT MergesInOrder
INVARIANT AccountsAreDistinct
INVARIANT AuthIDsMatchHost
INVARIANT AcceptsWholeProvider
