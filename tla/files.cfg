SPECIFICATION FilesSpec
CONSTANTS
    buffsize = 11
    ListSize = 13
    Texts <- MCTexts
    NumRawdata = 3
    Width <- MCWidth
    Hertz = {3}
    HzDigits = 2
    Shown <- MCShown
    MaxSamples = 2
    Expinfo = {400}
    Reserved <- MCReserved
    GuardBanding = 500
    Rows <- MCRows
    UnitGarbage <- MCUnitGarbage
    Columns <- MCColumns
    Summaries <- MCSummaries
    MaxLines = 2
CONSTRAINT FewerRuns
INVARIANTS
    FrequenciesRead
    ReadingsAreSamples
    EverySampleIsRead
    ColumnsAligned
    ReservationHolds
PROPERTIES
    ReadingEnds
CHECK_DEADLOCK FALSE
