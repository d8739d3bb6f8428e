\* Two processes of one consumer group, as during a rolling update.
SPECIFICATION Spec
CONSTANTS
    i1 = i1  i2 = i2  p1 = p1  p2 = p2  d1 = d1
    Instances <- TwoProcesses
    Partitions <- OnePartition
    Devices <- OneDevice
    Malformed = Malformed
    NoPartition = NoPartition
    RestartsAfterExit = TRUE
    MaxRecords = 2
    MaxLog = 2
    MaxVersion = 1
    MaxFaults = 1
SYMMETRY Symmetry
INVARIANT DuplicatesBoundedByRebalances
PROPERTIES
    ImplementsDelivery
    CommitsNeverRewind
