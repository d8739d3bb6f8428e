\* One alert that fires twice: late, concurrent, repeated and failing webhooks.
SPECIFICATION FairSpec
CHECK_DEADLOCK FALSE
CONSTANTS
    a1 = a1
    Alerts <- OneAlert
    Critical <- OneAlert
    Labels <- OneLabel
    LabelOf <- LabelOfOne
    ResetLabels <- OneLabel
    Handlers = {h1, h2}
    MaxEpisodes = 2
    MaxGauge = 2
    MaxFaults = 2
INVARIANTS
    TypeOK
    TriagedOnce
    TriagedUnlessDropped
    HistoryFollowsEpisodes
PROPERTY FiringIsRecorded
