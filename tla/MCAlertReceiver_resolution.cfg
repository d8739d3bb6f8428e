\* A resolution whose UPDATE fails is acknowledged and never retried.
SPECIFICATION FairSpec
CHECK_DEADLOCK FALSE
CONSTANTS
    a1 = a1
    Alerts <- OneAlert
    Critical <- OneAlert
    Labels <- OneLabel
    LabelOf <- LabelOfOne
    ResetLabels <- OneLabel
    Handlers = {h1}
    MaxEpisodes = 2
    MaxGauge = 2
    MaxFaults = 1
PROPERTY ResolutionIsRecorded
