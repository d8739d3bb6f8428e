\* One process that owns two partitions and is hit twice, under a supervisor that restarts it.
SPECIFICATION FairSpec
CONSTANTS
    i1 = i1  i2 = i2  p1 = p1  p2 = p2  d1 = d1
    Instances <- OneProcess
    Partitions <- TwoPartitions
    Devices <- OneDevice
    Malformed = Malformed
    NoPartition = NoPartition
    RestartsAfterExit = TRUE
    MaxRecords = 2
    MaxLog = 1
    MaxVersion = 1
    MaxFaults = 2
INVARIANTS
    TypeOK
    TablesFollowTopics
PROPERTY EveryMessageSettled
