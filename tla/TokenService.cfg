\* Two codes, two families, up to four refresh tokens, two sessions.
CONSTANTS
  client1 = client1
  client2 = client2
  uri1 = uri1
  uri2 = uri2
  Client = {client1, client2}
  User = {user1}
  RedirectUri = {uri1, uri2}
  Registry <- MCRegistry
  Verifier = {v1, v2}
  Code = {code1, code2}
  Token = {t1, t2, t3, t4}
  Session = {s1, s2}
  NoRecord = NoRecord
  NoProof = NoProof
  CodeLifetime = 1
  RefreshLifetime = 2
  MaxTime = 2
SPECIFICATION Spec
SYMMETRY NameSymmetry
INVARIANTS
  TypeOK
  SingleUse
  OneLivePerFamily
  ReusedFamilyIsDead
  FamilyKeepsItsOwner
PROPERTIES
  ImplementsRotation
\* Names and time run out, and then the model has nothing left to do.
CHECK_DEADLOCK FALSE
