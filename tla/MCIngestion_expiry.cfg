\* A crash between HSET and EXPIRE.
SPECIFICATION Spec
CONSTANTS
    i1 = i1  i2 = i2  p1 = p1  p2 = p2  d1 = d1
    Instances <- OneProcess
    Partitions <- OnePartition
    Devices <- OneDevice
    Malformed = Malformed
    NoPartition = NoPartition
    RestartsAfterExit = TRUE
    MaxRecords = 2
    MaxLog = 1
    MaxVersion = 1
    MaxFaults = 1
INVARIANT EveryCachedKeyExpires
