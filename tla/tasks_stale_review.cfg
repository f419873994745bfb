\* One run and the events typed while it works, one retry.
CONSTANTS
  None = None
  Missing = Missing
  Torn = Torn
  p1 = p1
  p2 = p2
  Procs = {p1, p2}
  Delegations <- PlainOnly
  MaxRetries = 1
  Edited <- ReviewerByCodex
  Practices = {{"event", "run"}}
  MaxRuns = 1
  MaxInits = 1
SPECIFICATION Spec
SYMMETRY Symmetry
INVARIANT PassIsOfThisAttempt
\* The bound on inits is used up.
CHECK_DEADLOCK FALSE
