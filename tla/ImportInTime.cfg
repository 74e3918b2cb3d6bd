SPECIFICATION Spec
CONSTANTS
  b1 = b1
  b2 = b2
  u1 = u1
  u2 = u2
  Book = {b1, b2}
  User = {u1, u2}
  Owner <- MCOneOwner
  Isbn = {i1}
  Worker = {w1, w2}
  Importer = importer
  Gone = gone
  None = None
  Lease = 2
  CleanupLease = 2
  RetryDelays = {0}
  DeferDelay = 0
  MaxAttempts = 1
  BatchSize = 2
  MaxAge = 1
  MaxImports = 1
  MaxFailures = 1
  AttemptBound = 3
SYMMETRY MCSymmetryAll
INVARIANTS
  AttemptsAreSpent
  NoDanglingCover
