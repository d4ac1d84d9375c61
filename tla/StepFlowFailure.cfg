\* A step of a run that has been replaced fails.
CONSTANTS
  Browser = {b1}
  b1 = b1
  Thread = {t1, t2}
  t1 = t1
  t2 = t2
  None = None
  MaxRuns = 2
  MaxFaults = 0
  Patient = TRUE
  AutoAdvance <- ManualOrAuto
  Simulation = TRUE
SPECIFICATION Spec
PROPERTIES
  FailureStaysInRun
CHECK_DEADLOCK FALSE
SYMMETRY ThreadSymmetry
