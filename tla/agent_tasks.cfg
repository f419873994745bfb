\* Two overlapping commands and one retry, with two ways to work: every event
\* typed by hand, or events only at the end of up to four runs, the reviewer
\* dry-run or Codex and the other tasks dry-run or scripted.
CONSTANTS
  None = None
  Missing = Missing
  Torn = Torn
  p1 = p1
  p2 = p2
  Procs = {p1, p2}
  Delegations <- Either
  MaxRetries = 1
  Edited <- ReviewerByCodex
  Practices = {{"event"}, {"run"}}
  MaxRuns = 4
  MaxInits = 1
SPECIFICATION Spec
SYMMETRY Symmetry
INVARIANTS TypeOK GraphIsReachable RetriesAreBudgeted EveryTransitionHasEvidence PassHasArtifact
\* The bounds on runs and inits are used up.
CHECK_DEADLOCK FALSE
