SPECIFICATION ReaderSpec
CONSTANTS
    Day = 10
    StartTime = 0
    Logs <- MCLogs
    BUFF_SIZE = 4
    MaxLines = 6
    Files <- MCFiles
    TornLines <- MCTornLines
INVARIANTS
    BatchesEndOnceInOrder
    CnnEndsWithLastBatch
PROPERTIES
    ImplementsParser
