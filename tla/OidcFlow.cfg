\* Two logins under way whose code comes back late, with connections kept; one
\* exchange fails, and the transport may be switched.
CONSTANTS
  Verifier = {v1, v2}
  v2 = v2
  v1 = v1
  Code = {code1}
  code1 = code1
  Token = {t1, t2, t3}
  t1 = t1
  t2 = t2
  t3 = t3
  NoRecord = NoRecord
  NoProof = NoProof
  None = None
  CodeLifetime = 1
  RefreshLifetime = 2
  AccessLifetime = 1
  KeepAlive = TRUE
  Trust = {"trust1"}
  Carrier = {tcp, quic}
  tcp = tcp
  quic = quic
  MaxTime = 1
  MaxSessions = 3
  MaxLost = 1
SPECIFICATION Spec
INVARIANTS
  TypeOK
  OnlyHolderServed
  HeldTokenLive
PROPERTIES
  LoginsDoNotMix
  AccessEndsWithFamily
CHECK_DEADLOCK FALSE
SYMMETRY NameSymmetry
