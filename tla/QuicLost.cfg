\* One lost datagram of the kinds MCQuicTransport does not call recoverable.
CONSTANTS
  Server = Server
  None = None
  MaxRequests = 2
  MaxRetries = 4
  CommonMode = TRUE
  Faulty = {}
  Prompt = TRUE
  MaxLoss = 1
  Losable = {"INITIAL", "ClientFinished", "CONNECTION_CLOSE"}
  MaxServerPackets = 8
  MaxConnections = 3
SPECIFICATION FairSpec
PROPERTIES
  RequestAnswered
\* All requests made and all datagrams gone: the client stops.
CHECK_DEADLOCK FALSE
