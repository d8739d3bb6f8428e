\* Both services, each with its crashes and failed calls.
SPECIFICATION PipelineSpec
CONSTANTS
    Values <- TwoValues
    Malformed = Malformed
    Unreadable = Unreadable
    WindowSize = 1
    MinSamples = 2
    QuarterSquares <- SmallThresholds
    MaxRecords = 2
    DiagnosisMaxRecords = 1
    MaxLog = 2
    MaxTime = 0
    MaxFaults = 3
INVARIANTS
    ForeignKeyNeverRaces
    DiagnosesPerEvent
    LossesAreFailures
PROPERTY AnnouncesAsAssumed
