SPECIFICATION Spec
CONSTANTS
    Day = 4
    StartTime = 0
    FirstTime = 1
    LastTime = 4
    MaxSamples = 3
    Logs <- MCLogs
    Rawdata <- MCRawdata
INVARIANT CnnSummaryIsCnn
