\* Requests that overtake each other, a limit of two, windows of two ticks (one second).
SPECIFICATION Spec
CONSTANTS
    r1 = r1  r2 = r2  r3 = r3  r4 = r4
    Requests <- FourRequests
    MaxRequests = 2
    WindowSeconds = 1
    TicksPerSecond = 2
    MaxTime = 5
    MaxFaults = 1
SYMMETRY Symmetry
INVARIANTS
    NoBoundarySpike
    RejectionHasCause
    RetryAfterInRange
CHECK_DEADLOCK FALSE
