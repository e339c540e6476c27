CONSTANTS
    r1 = r1
    r2 = r2
    Fingerprints = {"a", "b"}
    AuthIDs = {"auth-a", "auth-b"}
    StateDirs = {"dir"}
    Configs <- CoreConfigs
    Requests = {r1}
    Outcomes = {"success"}
    Hazards = {"reload", "storage"}
    MaxTime = 3
    MaxReset = 2
    MaxKeys = 3
SPECIFICATION Spec
SYMMETRY Interchangeable
INVARIANT RejectedConfigFailsClosed
