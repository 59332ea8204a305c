SPECIFICATION Spec
CONSTANTS
    available_gpufreq <- MCFrequencies
    Limits <- MCLimits
    Loads <- MCLoads
    Policies = {"emc_conservative"}
    EPOCH_WRAP = 200
    Garbage = {33}
PROPERTY EmcDownThreshold
