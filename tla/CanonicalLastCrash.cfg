\* The last attempt is interrupted: nobody can claim the job again.
SPECIFICATION Spec
CONSTANTS
    Book = {b1}
    Request = {r1}
    Sweeper = {s1}
    Gone = Gone
    None = None
    Epoch = 1000
    Horizon = 1002
    Lease = 1
    RetryDelay = 1
    Budget = 1
    Limit = 1
    MaxAttempts = 1
    MaxAge = 1
    MaxFailures = 1
INVARIANTS InterruptedWorkIsReclaimable
