CONSTANTS
    r1 = r1
    r2 = r2
    Fingerprints = {"a", "b", "c"}
    AuthIDs = {"auth-a", "auth-b", "auth-c"}
    StateDirs = {"dir"}
    Configs <- ThreeConfigs
    Requests = {r1, r2}
    Outcomes = {"transient"}
    Hazards = {"usage"}
    MaxTime = 3
    MaxReset = 1
    MaxKeys = 3
SPECIFICATION Spec
SYMMETRY Interchangeable
PROPERTY DrainThenSwitch
 
