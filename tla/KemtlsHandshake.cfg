\* Two servers, two generations of keys, one certificate lifetime and one more
\* tick.  The clock is bounded, so the run may end.
CONSTANTS
  None = None
  Lifetime = 1
  MaxTime = 2
  MaxGeneration = 2
SPECIFICATION Spec
INVARIANTS
  TypeOK
  AuthenticPeer
  ExpiredIsRefused
  FailsForAReason
CHECK_DEADLOCK FALSE
