CONSTANTS
    r1 = r1
    r2 = r2
    Fingerprints = {"a", "b"}
    AuthIDs = {"auth-a", "auth-b"}
    StateDirs = {"dir"}
    Configs <- CrashConfigs
    Requests = {r1}
    Outcomes = {"quota"}
    Hazards = {"reload", "storage", "stop", "usage"}
    MaxTime = 2
    MaxReset = 2
    MaxKeys = 3
SPECIFICATION Spec
SYMMETRY Interchangeable
INVARIANT CrashLosesNothing
INVARIANT ServesOnlyWithStore
PROPERTY DurableCooldown
