SPECIFICATION FairSpec
CONSTANTS
    available_gpufreq <- MCFrequencies
    Limits <- MCLimits
    Loads <- MCLoads
    Policies <- PolicyNames
    EPOCH_WRAP = 200
    Garbage = {33}
INVARIANTS
    TypeOK
    FrequencyIsAvailable
PROPERTIES
    NoOscillation
    PhasesAreEqual
    BusyReachesCeiling
