SPECIFICATION Spec
CONSTANTS
    available_gpufreq <- MCFrequencies
    Limits <- MCLimits
    Loads <- MCLoads
    Policies = {"ondemand8050"}
    EPOCH_WRAP = 200
    Garbage = {33}
INVARIANT DecidesFrequency
