CONSTANTS
  Token = {t1, t2}
  Session = {s1, s2}
  NoRecord = NoRecord
SPECIFICATION Spec
INVARIANT ReusedFamilyIsDead
