\* Two threads, up to three tokens in at most three families.
CONSTANTS
  Token = {t1, t2, t3}
  Session = {s1, s2}
  NoRecord = NoRecord
SPECIFICATION Spec
SYMMETRY NameSymmetry
INVARIANTS
  TypeOK
  SingleUse
  OneLivePerFamily
PROPERTY RevocationIsComplete
