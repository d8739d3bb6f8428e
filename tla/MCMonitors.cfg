\* Overlapping changes of two monitors, with a failure or a crash.
SPECIFICATION Spec
CONSTANTS
    h1 = h1  h2 = h2  m1 = m1  m2 = m2  valid = valid  invalid = invalid
    Lifespan = Lifespan
    Handlers <- TwoHandlers
    Ids <- TwoIds
    Exprs <- TwoExprs
    Invalid <- OneInvalid
    MaxChanges = 3
    MaxFaults = 1
SYMMETRY Symmetry
INVARIANTS
    TypeOK
    StalenessBounded
    ReportedIsInForce
