SPECIFICATION Spec
CONSTANTS
    Day = 4
    StartTime = 0
    FirstTime = 1
    LastTime = 4
    MaxSamples = 3
    Logs <- MCLogs
    Rawdata <- MCRawdata
INVARIANTS
    TypeOK
    RowsSorted
    BatchWindow
    CnnSummaryWithinOneEvent
    EverythingWritten
    BatchesPartitionCnn
PROPERTY
    ImplementsTimeline
