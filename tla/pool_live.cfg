CONSTANTS
    r1 = r1
    r2 = r2
    Fingerprints = {"a", "b"}
    AuthIDs = {"auth-a", "auth-b"}
    StateDirs = {"dir"}
    Configs <- CoreConfigs
    Requests = {r1}
    Outcomes = {"quota", "rate_limit", "failure"}
    Hazards = {}
    MaxTime = 3
    MaxReset = 2
    MaxKeys = 3
SPECIFICATION FairSpec
PROPERTY Recovers
INVARIANT RefusesOnlyIfNobodyCan
