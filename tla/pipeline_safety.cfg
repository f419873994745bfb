\* Two callers on one evidence version, two valid contents and an
\* invalid one; three signatures, three calls of appendEvent.
CONSTANTS
  Callers = {w1, w2}
  Keys = {k1}
  Documents = {d1, d2, bad}
  Valid = {d1, d2}
  MaxSigned = 3
  MaxAppends = 3
SPECIFICATION Spec
SYMMETRY Symmetry
INVARIANTS TypeOK OrderedFlow OneResultPerVersion StoredIsCarriedOn
PROPERTY ImplementsWriteOnce
\* The bounds on signatures and appends are used up.
CHECK_DEADLOCK FALSE
