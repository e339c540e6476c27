CONSTANTS
    r1 = r1
    r2 = r2
    Fingerprints = {"a", "b"}
    AuthIDs = {"auth-a", "auth-b"}
    StateDirs = {"dir"}
    Configs <- CoreConfigs
    Requests = {r1, r2}
    Outcomes = {"success", "quota", "auth"}
    Hazards = {"stop"}
    MaxTime = 3
    MaxReset = 2
    MaxKeys = 3
SPECIFICATION Spec
SYMMETRY Interchangeable
INVARIANT TypeOK
INVARIANT CurrentNeverCooling
INVARIANT RetryNeverLate
 
PROPERTY ResumeSticks
PROPERTY ImplementsDrainSwitch
