SPECIFICATION FairSpec
INVARIANTS
    TypeOK
    RestoresWhatItFound
    LeftAsFound
    CrashNeedsUserspace
    PrivilegeConfined
    StatisticsFromSamples
CONSTANTS
    Governors = {"nvhost_podgov", "performance", "userspace"}
    Root = root
    User = user
    NoName = no_name
    MaxRuns = 3
    Logins <- LoginsValue
PROPERTY RunsEnd
