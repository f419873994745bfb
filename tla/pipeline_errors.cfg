\* The claims of the two write errors' messages, for one caller.
CONSTANTS
  Callers = {w1}
  Keys = {k1}
  Documents = {d1}
  Valid = {d1}
  MaxSigned = 2
  MaxAppends = 2
SPECIFICATION Spec
INVARIANTS StoreErrorMeansNotStored LedgerErrorMeansNotAppended
\* The bounds on signatures and appends are used up.
CHECK_DEADLOCK FALSE
