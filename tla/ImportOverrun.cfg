SPECIFICATION Spec
CONSTANTS
  b1 = b1
  b2 = b2
  u1 = u1
  u2 = u2
  Book = {b1}
  User = {u1, u2}
  Owner <- MCOwner
  Isbn = {i1, i2}
  Worker = {w1, w2}
  Importer = importer
  Gone = gone
  None = None
  Lease = 1
  CleanupLease = 1
  RetryDelays = {0}
  DeferDelay = 0
  MaxAttempts = 1
  BatchSize = 1
  MaxAge = 1
  MaxImports = 1
  MaxFailures = 1
  AttemptBound = 2
SYMMETRY MCSymmetry
INVARIANTS
  TypeOK
  LockExclusion
  OutcomeIsTrue
PROPERTIES
  ClaimsAreSafe
  FinishedStays
