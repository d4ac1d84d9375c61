\* Three requests to two servers, on kept and new connections, and one failure:
\* a reset, a failed send, an exception, or a server stopped and started again.
CONSTANTS
  Endpoint = {as, rs}
  as = as
  rs = rs
  None = None
  MaxRequests = 3
  SeqLimit = 2
  MaxConnections = 2
  MaxFaults = 1
SPECIFICATION FairSpec
INVARIANTS
  TypeOK
  RightConnection
  NonceUnique
PROPERTIES
  ImplementsExchange
  RequestEnds
  NewConnectionAnswers
  AbandonedThreadEnds
CHECK_DEADLOCK FALSE
