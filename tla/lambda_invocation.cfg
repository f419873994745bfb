\* Three invocations under two run ids, two builds, two executed calls, every log
\* line lost or kept, and Lambda's timeout at every point of an invocation.
CONSTANTS
  Invocations = {i1, i2, i3}
  Runs = {r1, r2}
  e1 = e1
  EvidenceIds = {e1}
  EvidenceIdOf <- OneEvidenceId
  Builds = {b1, b2}
  LocalBuild = b1
  MaxCalls = 2
SPECIFICATION Spec
SYMMETRY Symmetry
INVARIANTS TypeOK EveryCallIsReconcilable OutcomeTellsOfTheCall SummaryIsOfOneCall
