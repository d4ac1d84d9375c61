\* An automatic run and then a manual one: threads of the first are
\* still at work, or asleep, when the second starts.
CONSTANTS
  Browser = {b1}
  b1 = b1
  Thread = {t1, t2}
  t1 = t1
  t2 = t2
  None = None
  MaxRuns = 2
  MaxFaults = 0
  Patient = TRUE
  AutoAdvance <- AutoThenManual
  Simulation = TRUE
SPECIFICATION Spec
INVARIANTS
  SessionsMatch
PROPERTIES
  RunIsLetGo
  TransitionStaysInRun
CHECK_DEADLOCK FALSE
VIEW RelevantState
SYMMETRY ThreadSymmetry
