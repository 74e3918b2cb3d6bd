\* The second attempt waits for a retry: it never becomes due.
SPECIFICATION Spec
CONSTANTS
    Book = {b1}
    Request = {r1}
    Sweeper = {s1}
    Gone = Gone
    None = None
    Epoch = 1000
    Horizon = 1002
    Lease = 1
    RetryDelay = 1
    Budget = 1
    Limit = 1
    MaxAttempts = 2
    MaxAge = 1
    MaxFailures = 1
INVARIANTS RetriesComeDue
