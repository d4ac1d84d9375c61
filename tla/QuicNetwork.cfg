\* Any loss, duplication, delay and reordering; two requests and two server
\* connections under the one connection id.
CONSTANTS
  Server = Server
  None = None
  MaxRequests = 2
  MaxRetries = 0
  CommonMode = TRUE
  Faulty = {}
  Prompt = FALSE
  MaxLoss = 0
  Losable = {}
  MaxServerPackets = 4
  MaxConnections = 2
SPECIFICATION Spec
INVARIANTS
  TypeOK
  KeyAgreement
  NonceUnique
PROPERTIES
  ImplementsExchange
  NoLateExecution
CONSTRAINT FewAnswers
