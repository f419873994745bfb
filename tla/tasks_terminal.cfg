\* Two overlapping commands, one retry: smallest instance with a terminal status.
CONSTANTS
  None = None
  Missing = Missing
  Torn = Torn
  p1 = p1
  p2 = p2
  Procs = {p1, p2}
  Delegations <- PlainOnly
  MaxRetries = 1
  Edited <- ReviewerByCodex
  Practices = {{"event"}}
  MaxRuns = 0
  MaxInits = 1
SPECIFICATION Spec
SYMMETRY Symmetry
INVARIANT TerminalIsFinal
\* The bound on inits is used up.
CHECK_DEADLOCK FALSE
