\* Crashes, failed calls, anomalies without a row and replies of every kind, while incidents are ingested.
\* The supervisor restarts the process after every exit, like Kubernetes and unlike docker-compose.yml.
SPECIFICATION RagSpec
CONSTANTS
    Anomalies = {a}
    Unreadable = Unreadable
    Replies <- SomeReplies
    TopK = 1
    MaxRecords = 2
    MaxLog = 2
    RestartsAfterExit = TRUE
    MaxFaults = 1
    Files = 1
    MaxRuns = 2
    MaxIngestFaults = 2
INVARIANTS
    TypeOK
    DiagnosesBoundedByAssignments
    PendingIsExplained
    ConfirmedIsRetrievable
    CopiesBoundedByRuns
    ShownIsListed
PROPERTIES
    ImplementsDelivery
    EveryMessageHandled
