\* Two requests, the first of which may raise in the server; one datagram of a
\* recoverable kind is lost.
CONSTANTS
  Server = Server
  None = None
  MaxRequests = 2
  MaxRetries = 4
  CommonMode = TRUE
  Faulty = {1}
  Prompt = TRUE
  MaxLoss = 1
  Losable <- Recoverable
  MaxServerPackets = 8
  MaxConnections = 3
SPECIFICATION FairSpec
INVARIANTS
  HandshakeUndisturbed
PROPERTIES
  RequestAnswered
\* All requests made and all datagrams gone: the client stops.
CHECK_DEADLOCK FALSE
