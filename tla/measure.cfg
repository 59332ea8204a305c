SPECIFICATION FairSpec
CONSTANTS
    NS = 4
    Cooldown = 1
    Intervals <- MCIntervals
    IntSpan = 8
    CaffeSleep = 2
    MaxWork = 1
    MaxLate = 1
    MaxRun = 4
    Jumps <- MCJumps
    MaxJumps = 1
    MaxFails = 1
    MaxInterrupts = 1
    Garbage <- MCGarbage
    MayFail = TRUE
INVARIANTS
    TypeOK
    CooldownAccounting
    CoversCooldown
    EndsPromptly
PROPERTIES
    Terminates
    InvalidIntervalHangs
