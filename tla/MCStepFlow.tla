----------------------------- MODULE MCStepFlow -----------------------------
(* Small instances of StepFlow.                                            *)
EXTENDS StepFlow, TLC

\* Threads are interchangeable.
ThreadSymmetry == Permutations(Thread)

\* Which values of autoAdvance the runs are started with.
Manual == [r \in 1..MaxRuns |-> {FALSE}]
ManualOrAuto == [r \in 1..MaxRuns |-> BOOLEAN]
AutoThenManual == [r \in 1..MaxRuns |-> {r = 1}]

\* What a run holds that is not active and that no thread works on is never
\* looked at again.
InUse(r) == r = active \/ \E t \in Thread : thread[t].run = r
RelevantState ==
  <<active, active_id, thread, connected, faults, raised,
    [r \in DOMAIN run |-> IF InUse(r) THEN <<run[r], last[r]>> ELSE <<>>]>>
=============================================================================
