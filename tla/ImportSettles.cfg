SPECIFICATION FairSpec
CONSTANTS
  b1 = b1
  b2 = b2
  u1 = u1
  u2 = u2
  Book = {b1, b2}
  User = {u1, u2}
  Owner <- MCOwner
  Isbn = {i1}
  Worker = {w1, w2}
  Importer = importer
  Gone = gone
  None = None
  Lease = 1
  CleanupLease = 1
  RetryDelays = {1}
  DeferDelay = 1
  MaxAttempts = 2
  BatchSize = 2
  MaxAge = 0
  MaxImports = 0
  MaxFailures = 1
  AttemptBound = 4
PROPERTIES
  EveryJobSettles
