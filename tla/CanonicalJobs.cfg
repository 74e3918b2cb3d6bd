\* A request and a sweep on two books; an enrichment may overrun its lease.
SPECIFICATION FairSpec
CONSTANTS
    Book = {b1, b2}
    Request = {r1}
    Sweeper = {s1}
    Gone = Gone
    None = None
    Epoch = 1000
    Horizon = 1001
    Lease = 1
    RetryDelay = 1
    Budget = 1
    Limit = 2
    MaxAttempts = 2
    MaxAge = 1
    MaxFailures = 1
INVARIANTS TypeOK OneAtATime OutcomeIsTrue
PROPERTIES ClaimsAreSafe CoversAreKept PendingIsReached
