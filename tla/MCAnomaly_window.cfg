\* Late, redelivered and spiking readings.
SPECIFICATION Spec
CONSTANTS
    Values <- TwoValues
    Malformed = Malformed
    WindowSize = 2
    MinSamples = 2
    QuarterSquares <- SmallThresholds
    MaxRecords = 2
    MaxLog = 4
    MaxTime = 2
    MaxFaults = 1
INVARIANTS
    TypeOK
    WindowIsExact
    RecentKept
    SeverityNeedsSamples
    DuplicatesBoundedByAssignments
PROPERTY ImplementsDelivery
