CONSTANTS
    r1 = r1
    r2 = r2
    Fingerprints = {"a", "b"}
    AuthIDs = {"auth-a", "auth-a2", "auth-b"}
    StateDirs = {"dir", "dir2"}
    Configs <- ReloadConfigs
    Requests = {r1}
    Outcomes = {"auth"}
    Hazards = {"reload", "clock", "panic"}
    MaxTime = 3
    MaxReset = 1
    MaxKeys = 3
SPECIFICATION Spec
SYMMETRY Interchangeable
 
INVARIANT RejectedConfigFailsClosed
PROPERTY AttributionSurvivesReload
PROPERTY HandoutIsAccountable
PROPERTY DrainThenSwitch
