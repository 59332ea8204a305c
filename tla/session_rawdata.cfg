SPECIFICATION Spec
INVARIANTS
    RemovedAfterStatistics
CONSTANTS
    Governors = {"nvhost_podgov", "performance", "userspace"}
    Root = root
    User = user
    NoName = no_name
    MaxRuns = 2
    Logins <- LoginsValue
