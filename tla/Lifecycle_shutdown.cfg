SPECIFICATION Spec
CONSTANTS
    Request = {r1, r2, r3}
    Scrape = {m1}
    MaxConns = 1
CHECK_DEADLOCK FALSE
INVARIANTS
    TypeOK
    GracefulOrExpired
    ExitCleansUp
PROPERTIES
    StopsWhenTold
    FailureStopsAll
    WaitersServed
