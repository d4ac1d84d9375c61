\* One run of a browser that keeps to the front end's rules, with or without
\* autoAdvance, and one call to a server that fails.  It may stop with an error.
CONSTANTS
  Browser = {b1}
  b1 = b1
  Thread = {t1}
  t1 = t1
  None = None
  MaxRuns = 1
  MaxFaults = 1
  Patient = TRUE
  AutoAdvance <- ManualOrAuto
  Simulation = FALSE
SPECIFICATION FairSpec
INVARIANTS
  TypeOK
  NoStepFails
PROPERTIES
  StepsInOrder
  RunSettles
CHECK_DEADLOCK FALSE
