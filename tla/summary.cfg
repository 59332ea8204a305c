SPECIFICATION Spec
INVARIANTS
    TypeOK
    EnergyIsExact
    PsumIsExact
    DigitsFit
    ExtremesOfWindow
    BatchesWithinCnn
CONSTANTS
    MILLI_PER_MICRO = 2
    MICRO_PER_PICO = 3
    ONE_PER_MILLI = 2
    MaxSamples = 4
    MaxBatches = 2
    Readings <- ReadingsValue
    Steps <- StepsValue
CHECK_DEADLOCK FALSE
