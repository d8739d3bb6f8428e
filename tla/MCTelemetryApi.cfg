\* A pool too small or large enough, with timeouts, a resent event, a lost acknowledgement or a crash.
SPECIFICATION FairSpec
CONSTANTS
    r1 = r1  r2 = r2  e1 = e1
    Query = Query  DeadLetters = DeadLetters
    Requests <- TwoRequests
    Events <- OneEvent
    PoolSizes <- OneOrTwo
    TTL = 1
    MaxSends = 2
    MaxRows = 1
    MaxTime = 1
    MaxFaults = 1
INVARIANTS
    TypeOK
    CopiesMatchAnswers
    AnswersAreFresh
    PageWithinTotal
PROPERTY EveryRequestAnswered
